--------------------------- MODULE AccountsProofs ---------------------------
(***************************************************************************)
(* Proofs about Accounts for any set of accounts, groups, requests and     *)
(* cookies, and any bounds.                                                *)
(***************************************************************************)
EXTENDS Accounts, FiniteSetTheorems, TLAPS

\* What a request carries at each stage.
LocalOf(r) ==
  /\ r.pc \in {"check", "read", "verify", "fail", "clear"} =>
       \E ip \in Addresses, n \in Names :
         /\ r.keys = <<ip, n>>
         /\ r.pc \in {"check", "fail", "clear"} => r.todo \in {<<ip, n>>, <<n>>}
  /\ r.pc # "idle" => r.who \in Accounts
  /\ r.pc \in {"hashing", "drop"} => r.on \in Accounts
  /\ r.pc = "act" => r.me.state = "in"

RequestInv(r) == r \in RequestType /\ LocalOf(r)

IInv == TypeOK /\ \A p \in Requests : LocalOf(req[p])

LEMMA RecordFacts ==
  /\ NoUser \in UserType /\ Rest \in RequestType
  /\ RequestInv(Rest)
  BY DEF NoUser, UserType, Rest, RequestType, Stages, SomeUser, RequestInv, LocalOf

\* A request that goes on with other local state.
LEMMA RequestSteps ==
  ASSUME IInv, NEW p \in Requests, NEW r, RequestInv(r),
         req' = [req EXCEPT ![p] = r]
  PROVE  /\ req' \in [Requests -> RequestType]
         /\ \A q \in Requests : LocalOf(req'[q])
  BY DEF IInv, TypeOK, RequestInv

LEMMA AnswerSteps ==
  ASSUME IInv, NEW p \in Requests, Answer(p)
  PROVE  /\ req' \in [Requests -> RequestType]
         /\ \A q \in Requests : LocalOf(req'[q])
  BY RequestSteps, RecordFacts DEF Answer

LEMMA KeyListFacts ==
  \A a, b : /\ Len(<<a, b>>) = 2 /\ Head(<<a, b>>) = a /\ Tail(<<a, b>>) = <<b>>
            /\ Len(<<a>>) = 1 /\ Head(<<a>>) = a /\ Tail(<<a>>) = <<>>
  OBVIOUS

\* NextKey, by how many keys are left.
LEMMA NextKeySteps ==
  ASSUME IInv, NEW p \in Requests, req[p].pc \in {"check", "fail", "clear"},
         NEW l \in {"read", "fail", "create"}, NextKey(p, l)
  PROVE  \E ip \in Addresses, n \in Names :
           /\ req[p].keys = <<ip, n>>
           /\ \/ /\ req[p].todo = <<ip, n>>
                 /\ req' = [req EXCEPT ![p] = [req[p] EXCEPT !.todo = <<n>>]]
              \/ /\ req[p].todo = <<n>>
                 /\ req' = [req EXCEPT ![p] = [req[p] EXCEPT !.todo = <<>>, !.pc = l]]
<1>1. req[p] \in RequestType /\ LocalOf(req[p])
  BY DEF IInv, TypeOK
<1>2. PICK ip \in Addresses, n \in Names :
        req[p].keys = <<ip, n>> /\ req[p].todo \in {<<ip, n>>, <<n>>}
  BY <1>1 DEF LocalOf
<1>3. CASE req[p].todo = <<ip, n>>
  <2>1. Len(req[p].todo) # 1 /\ Tail(req[p].todo) = <<n>>
    BY <1>3, KeyListFacts
  <2>2. req' = [req EXCEPT ![p] = [[req[p] EXCEPT !.todo = <<n>>] EXCEPT !.pc = req[p].pc]]
    BY <2>1 DEF NextKey, IInv, TypeOK
  <2>3. [[req[p] EXCEPT !.todo = <<n>>] EXCEPT !.pc = req[p].pc]
          = [req[p] EXCEPT !.todo = <<n>>]
    BY <1>1 DEF RequestType
  <2>4. req' = [req EXCEPT ![p] = [req[p] EXCEPT !.todo = <<n>>]]
    BY <2>2, <2>3
  <2>5. QED
    BY <1>2, <1>3, <2>4
<1>4. CASE req[p].todo = <<n>>
  <2>1. Len(req[p].todo) = 1 /\ Tail(req[p].todo) = <<>>
    BY <1>4, KeyListFacts
  <2>2. req' = [req EXCEPT ![p] = [req[p] EXCEPT !.todo = <<>>, !.pc = l]]
    BY <2>1 DEF NextKey, IInv, TypeOK
  <2>3. QED
    BY <1>2, <1>4, <2>2
<1>5. QED
  BY <1>2, <1>3, <1>4

\* The same, whatever the keys are.
LEMMA NextKeyMoves ==
  ASSUME IInv, NEW p \in Requests, req[p].pc \in {"check", "fail", "clear"},
         NEW l \in {"read", "fail", "create"}, NextKey(p, l)
  PROVE  \E ip \in Addresses, n \in Names :
           /\ req[p].keys = <<ip, n>>
           /\ \/ req' = [req EXCEPT ![p] = [req[p] EXCEPT !.todo = <<n>>]]
              \/ /\ req[p].todo = <<n>>
                 /\ req' = [req EXCEPT ![p] = [req[p] EXCEPT !.todo = <<>>, !.pc = l]]
<1>1. PICK ip \in Addresses, n \in Names :
        /\ req[p].keys = <<ip, n>>
        /\ \/ /\ req[p].todo = <<ip, n>>
              /\ req' = [req EXCEPT ![p] = [req[p] EXCEPT !.todo = <<n>>]]
           \/ /\ req[p].todo = <<n>>
              /\ req' = [req EXCEPT ![p] = [req[p] EXCEPT !.todo = <<>>, !.pc = l]]
  BY NextKeySteps
<1>2. QED
  BY <1>1

LEMMA NextKeyInv ==
  ASSUME IInv, NEW p \in Requests, req[p].pc \in {"check", "fail", "clear"},
         NEW l \in {"read", "create"}, NextKey(p, l)
  PROVE  /\ req' \in [Requests -> RequestType]
         /\ \A q \in Requests : LocalOf(req'[q])
<1>1. req[p] \in RequestType /\ LocalOf(req[p])
  BY DEF IInv, TypeOK
<1>2. PICK ip \in Addresses, n \in Names :
        /\ req[p].keys = <<ip, n>>
        /\ \/ req' = [req EXCEPT ![p] = [req[p] EXCEPT !.todo = <<n>>]]
           \/ req' = [req EXCEPT ![p] = [req[p] EXCEPT !.todo = <<>>, !.pc = l]]
  <2>1. l \in {"read", "fail", "create"}
    OBVIOUS
  <2>2. PICK ip \in Addresses, n \in Names :
          /\ req[p].keys = <<ip, n>>
          /\ \/ req' = [req EXCEPT ![p] = [req[p] EXCEPT !.todo = <<n>>]]
             \/ /\ req[p].todo = <<n>>
                /\ req' = [req EXCEPT ![p] = [req[p] EXCEPT !.todo = <<>>, !.pc = l]]
    BY <2>1, NextKeyMoves
  <2>3. QED
    BY <2>2
<1>3. /\ RequestInv([req[p] EXCEPT !.todo = <<n>>])
      /\ RequestInv([req[p] EXCEPT !.todo = <<>>, !.pc = l])
  <2>1. <<n>> \in Seq(Keys) /\ <<>> \in Seq(Keys)
    BY DEF Keys
  <2>2. QED
    BY <1>1, <1>2, <2>1 DEF RequestInv, RequestType, LocalOf, Stages
<1>4. QED
  BY <1>2, <1>3, RequestSteps

LEMMA InitInv == Init => IInv
<1> SUFFICES ASSUME Init PROVE IInv
  OBVIOUS
<1>1. \A p \in Requests : LocalOf(req[p])
  BY RecordFacts DEF Init, RequestInv
<1>2. NoAttempts \in [fails : 0..(MaxFails - 1), locked : BOOLEAN, old : BOOLEAN]
  BY AccountsAssumption DEF NoAttempts
<1>3. NoSession \in [state : {"new", "live", "gone"}, user : SomeUser]
  BY DEF NoSession, SomeUser
<1>4. /\ given \in [Accounts -> [limit : SUBSET Groups, password : Nat]]
      /\ opened \in [Sids -> [with : Nat, raced : BOOLEAN]]
  BY DEF Init
<1>5. /\ users \in [Accounts -> UserType] /\ req \in [Requests -> RequestType]
      /\ throttle \in
           [Keys -> [fails : 0..(MaxFails - 1), locked : BOOLEAN, old : BOOLEAN]]
      /\ sessions \in [Sids -> [state : {"new", "live", "gone"}, user : SomeUser]]
  BY <1>2, <1>3, RecordFacts DEF Init
<1>6. /\ groups \in [Groups -> {"new", "in", "gone"}]
      /\ late \in [Keys -> SUBSET Requests]
      /\ strayed \subseteq [stale : BOOLEAN, freed : BOOLEAN]
      /\ cut \subseteq SomeUser /\ running \in BOOLEAN
  BY DEF Init
<1>7. passwords \in 0..MaxPassword /\ requests \in 0..MaxRequest /\ stops \in 0..MaxStop
  BY AccountsAssumption DEF Init
<1>8. QED
  BY <1>1, <1>4, <1>5, <1>6, <1>7 DEF IInv, TypeOK

\* The requests' part of the invariant, and the rest of it.
ReqPart ==
  /\ req \in [Requests -> RequestType]
  /\ \A p \in Requests : LocalOf(req[p])

UserPart ==
  /\ users \in [Accounts -> UserType]
  /\ groups \in [Groups -> {"new", "in", "gone"}]
  /\ passwords \in 0..MaxPassword
  /\ given \in [Accounts -> [limit : SUBSET Groups, password : Nat]]
  /\ strayed \subseteq [stale : BOOLEAN, freed : BOOLEAN]

SessionPart ==
  /\ sessions \in [Sids -> [state : {"new", "live", "gone"}, user : SomeUser]]
  /\ opened \in [Sids -> [with : Nat, raced : BOOLEAN]]

ThrottlePart ==
  /\ throttle \in
       [Keys -> [fails : 0..(MaxFails - 1), locked : BOOLEAN, old : BOOLEAN]]
  /\ late \in [Keys -> SUBSET Requests]

ServerPart ==
  /\ running \in BOOLEAN
  /\ requests \in 0..MaxRequest /\ stops \in 0..MaxStop
  /\ cut \subseteq SomeUser

LEMMA Parts ==
  IInv <=> ReqPart /\ UserPart /\ SessionPart /\ ThrottlePart /\ ServerPart
  BY DEF IInv, TypeOK, ReqPart, UserPart, SessionPart, ThrottlePart, ServerPart

LEMMA PartsNext ==
  ReqPart' /\ UserPart' /\ SessionPart' /\ ThrottlePart' /\ ServerPart' => IInv'
  BY DEF IInv, TypeOK, ReqPart, UserPart, SessionPart, ThrottlePart, ServerPart

userVars     == <<users, groups, passwords, given, strayed>>
sessionVars  == <<sessions, opened>>
throttleVars == <<throttle, late>>
serverVars   == <<running, requests, stops, cut>>

LEMMA PartsStay ==
  /\ IInv /\ UNCHANGED req => ReqPart'
  /\ IInv /\ UNCHANGED userVars => UserPart'
  /\ IInv /\ UNCHANGED sessionVars => SessionPart'
  /\ IInv /\ UNCHANGED throttleVars => ThrottlePart'
  /\ IInv /\ UNCHANGED serverVars => ServerPart'
<1> USE Parts
<1>1. IInv /\ UNCHANGED req => ReqPart'
  BY DEF ReqPart
<1>2. IInv /\ UNCHANGED userVars => UserPart'
  BY DEF UserPart, userVars
<1>3. IInv /\ UNCHANGED sessionVars => SessionPart'
  BY DEF SessionPart, sessionVars
<1>4. IInv /\ UNCHANGED throttleVars => ThrottlePart'
  BY DEF ThrottlePart, throttleVars
<1>5. IInv /\ UNCHANGED serverVars => ServerPart'
  BY DEF ServerPart, serverVars
<1>6. QED
  BY <1>1, <1>2, <1>3, <1>4, <1>5

\* A request as it is, and the forms a step can give it.
LEMMA OneRequest ==
  ASSUME IInv, NEW p \in Requests
  PROVE  /\ req[p] \in RequestType /\ LocalOf(req[p])
         /\ \A r : RequestInv(r) /\ req' = [req EXCEPT ![p] = r] => ReqPart'
         /\ Answer(p) => ReqPart'
  BY RequestSteps, AnswerSteps DEF IInv, TypeOK, ReqPart

-----------------------------------------------------------------------------
(* Sign-in *)

LEMMA BeginInv ==
  ASSUME IInv, NEW p \in Requests, NEW r, RequestInv(r), Begin(p, r),
         UNCHANGED <<running, stops, cut, throttle>>
  PROVE  ReqPart' /\ ServerPart' /\ ThrottlePart'
<1>1. ReqPart'
  BY OneRequest DEF Begin
<1>2. ServerPart'
  BY Parts, AccountsAssumption DEF Begin, ServerPart
<1>3. ThrottlePart'
  BY Parts DEF Begin, ThrottlePart
<1>4. QED
  BY <1>1, <1>2, <1>3

LEMMA SignInInv ==
  ASSUME IInv, NEW p \in Requests, NEW ip \in Addresses, NEW n \in Names,
         NEW password \in Nat, SignIn(p, ip, n, password)
  PROVE  IInv'
<1> DEFINE r == [Rest EXCEPT !.pc = "check", !.who = Holder[n],
                             !.tried = password,
                             !.keys = <<ip, n>>, !.todo = <<ip, n>>]
<1>1. <<ip, n>> \in Seq(Keys) /\ Holder[n] \in Accounts
  BY AccountsAssumption DEF Keys
<1>2. r \in RequestType
  BY <1>1, RecordFacts DEF RequestType, Stages, SomeUser
<1>3. LocalOf(r)
  BY <1>1 DEF Rest, LocalOf
<1>4. RequestInv(r) /\ Begin(p, r)
  BY <1>2, <1>3 DEF RequestInv, SignIn
<1> HIDE DEF r
<1>5. ReqPart' /\ ServerPart' /\ ThrottlePart'
  <2>1. UNCHANGED <<running, stops, cut, throttle>>
    BY DEF SignIn
  <2>2. QED
    BY <1>4, <2>1, BeginInv
<1>6. UserPart' /\ SessionPart'
  BY PartsStay DEF SignIn, userVars, sessionVars
<1>7. QED
  BY <1>5, <1>6, PartsNext

\* The steps of a request that change nothing else.
LEMMA LocalSteps ==
  ASSUME IInv, NEW p \in Requests,
         UNCHANGED <<running, users, groups, passwords, sessions, throttle,
                     requests, stops, history>>,
         ReqPart'
  PROVE  IInv'
<1>1. UserPart' /\ SessionPart' /\ ThrottlePart' /\ ServerPart'
  BY PartsStay DEF history, userVars, sessionVars, throttleVars, serverVars
<1>2. QED
  BY <1>1, PartsNext

LEMMA CheckKeyInv == ASSUME IInv, NEW p \in Requests, CheckKey(p) PROVE IInv'
<1>1. CASE Answer(p)
  BY <1>1, OneRequest, LocalSteps DEF CheckKey
<1>2. CASE NextKey(p, "read")
  <2>1. ReqPart'
    BY <1>2, NextKeyInv DEF CheckKey, At, ReqPart
  <2>2. QED
    BY <2>1, LocalSteps DEF CheckKey
<1>3. QED
  BY <1>1, <1>2 DEF CheckKey

LEMMA ReadHashInv == ASSUME IInv, NEW p \in Requests, ReadHash(p) PROVE IInv'
<1> DEFINE h == IF In(req[p].who) THEN users[req[p].who].hash ELSE 0
           r == [req[p] EXCEPT !.pc = "verify", !.hash = h]
<1>1. req[p] \in RequestType /\ LocalOf(req[p]) /\ req[p].pc = "read"
  BY OneRequest DEF ReadHash, At
<1>2. users[req[p].who] \in UserType
  BY <1>1, Parts DEF LocalOf, UserPart
<1>3. h \in Nat
  BY <1>2 DEF UserType
<1>4. RequestInv(r)
  BY <1>1, <1>3 DEF RequestInv, RequestType, Stages, LocalOf
<1>5. req' = [req EXCEPT ![p] = r]
  BY DEF ReadHash
<1> HIDE DEF r
<1>6. ReqPart'
  BY <1>4, <1>5, OneRequest
<1>7. QED
  BY <1>6, LocalSteps DEF ReadHash

LEMMA VerifyInv == ASSUME IInv, NEW p \in Requests, Verify(p) PROVE IInv'
<1>1. req[p] \in RequestType /\ LocalOf(req[p]) /\ req[p].pc = "verify"
  BY OneRequest DEF Verify, At
<1>2. req[p].keys \in Seq(Keys)
  BY <1>1 DEF RequestType
<1>3. ASSUME NEW l \in {"clear", "fail"}
      PROVE  RequestInv([req[p] EXCEPT !.pc = l, !.todo = req[p].keys])
  BY <1>1, <1>2 DEF RequestInv, RequestType, Stages, LocalOf
<1>4. PICK l \in {"clear", "fail"} :
        req' = [req EXCEPT ![p] = [req[p] EXCEPT !.pc = l, !.todo = req[p].keys]]
  BY DEF Verify
<1>5. ReqPart'
  BY <1>3, <1>4, OneRequest
<1>6. QED
  BY <1>5, LocalSteps DEF Verify

LEMMA CountFailureInv ==
  ASSUME IInv, NEW p \in Requests, CountFailure(p) PROVE IInv'
<1> DEFINE k == Head(req[p].todo)
           a == IF throttle[k].old THEN NoAttempts ELSE throttle[k]
           AttemptType == [fails : 0..(MaxFails - 1), locked : BOOLEAN, old : BOOLEAN]
<1>1. req[p] \in RequestType /\ LocalOf(req[p]) /\ req[p].pc = "fail"
  BY OneRequest DEF CountFailure, At
<1>2. k \in Keys
  BY <1>1, KeyListFacts DEF LocalOf, Keys
<1>3. throttle \in [Keys -> AttemptType] /\ NoAttempts \in AttemptType
  BY Parts, AccountsAssumption DEF ThrottlePart, NoAttempts
<1>4. a \in AttemptType
  BY <1>2, <1>3
<1>5. a.fails + 1 < MaxFails => [a EXCEPT !.fails = @ + 1] \in AttemptType
  BY <1>4, AccountsAssumption
<1>6. [fails |-> 0, locked |-> TRUE, old |-> FALSE] \in AttemptType
  BY AccountsAssumption
<1>7. a.fails + 1 >= MaxFails \/ a.fails + 1 < MaxFails
  BY <1>4, AccountsAssumption
<1>8. throttle' \in [Keys -> AttemptType]
  <2>1. \/ throttle' = [throttle EXCEPT ![k] = [fails |-> 0, locked |-> TRUE, old |-> FALSE]]
        \/ /\ ~(a.fails + 1 >= MaxFails)
           /\ throttle' = [throttle EXCEPT ![k] = [a EXCEPT !.fails = @ + 1]]
    BY DEF CountFailure
  <2> HIDE DEF k, a, AttemptType
  <2>2. QED
    BY <1>2, <1>3, <1>5, <1>6, <1>7, <2>1
<1>9. late' \in [Keys -> SUBSET Requests]
  <2>1. late' = late \/ late' = [late EXCEPT ![k] = Trying(k)]
    BY DEF CountFailure
  <2>2. Trying(k) \subseteq Requests
    BY DEF Trying
  <2> HIDE DEF k
  <2>3. QED
    BY <2>1, <2>2, Parts DEF ThrottlePart
<1>10. ReqPart'
  <2>1. CASE Answer(p)
    BY <2>1, OneRequest
  <2>2. CASE Len(req[p].todo) # 1 /\ NextKey(p, "fail")
    <3>1. \A n : req[p].todo # <<n>>
      BY <2>2, KeyListFacts
    <3>2. PICK ip \in Addresses, n \in Names :
            /\ req[p].keys = <<ip, n>>
            /\ req' = [req EXCEPT ![p] = [req[p] EXCEPT !.todo = <<n>>]]
      <4>1. PICK ip \in Addresses, n \in Names :
              /\ req[p].keys = <<ip, n>>
              /\ \/ req' = [req EXCEPT ![p] = [req[p] EXCEPT !.todo = <<n>>]]
                 \/ /\ req[p].todo = <<n>>
                    /\ req' = [req EXCEPT ![p] = [req[p] EXCEPT !.todo = <<>>, !.pc = "fail"]]
        BY <1>1, <2>2, NextKeyMoves
      <4>2. QED
        BY <3>1, <4>1
    <3>3. RequestInv([req[p] EXCEPT !.todo = <<n>>])
      <4>1. <<n>> \in Seq(Keys)
        BY DEF Keys
      <4>2. QED
        BY <1>1, <3>2, <4>1 DEF RequestInv, RequestType, LocalOf
    <3>4. QED
      BY <3>2, <3>3, OneRequest
  <2>3. QED
    BY <2>1, <2>2 DEF CountFailure
<1>11. UserPart' /\ SessionPart' /\ ServerPart'
  BY PartsStay DEF CountFailure, userVars, sessionVars, serverVars
<1>12. QED
  BY <1>8, <1>9, <1>10, <1>11, PartsNext DEF ThrottlePart

LEMMA ClearKeyInv ==
  ASSUME IInv, NEW p \in Requests, ClearKey(p) PROVE IInv'
<1>1. req[p] \in RequestType /\ LocalOf(req[p]) /\ req[p].pc = "clear"
  BY OneRequest DEF ClearKey, At
<1>2. ReqPart'
  BY <1>1, NextKeyInv DEF ClearKey, ReqPart
<1>3. NoAttempts \in [fails : 0..(MaxFails - 1), locked : BOOLEAN, old : BOOLEAN]
  BY AccountsAssumption DEF NoAttempts
<1>4. ThrottlePart'
  BY <1>3, Parts DEF ClearKey, ThrottlePart, history
<1>5. UserPart' /\ SessionPart' /\ ServerPart'
  BY PartsStay DEF ClearKey, history, userVars, sessionVars, serverVars
<1>6. QED
  BY <1>2, <1>4, <1>5, PartsNext

LEMMA CreateSessionInv ==
  ASSUME IInv, NEW p \in Requests, NEW s \in Sids, CreateSession(p, s) PROVE IInv'
<1>1. req[p] \in RequestType
  BY OneRequest
<1>2. ReqPart'
  BY OneRequest DEF CreateSession
<1>3. sessions' \in [Sids -> [state : {"new", "live", "gone"}, user : SomeUser]]
  BY <1>1, Parts DEF CreateSession, SessionPart, RequestType
<1>4. Fit(req[p].who, req[p].tried) \in BOOLEAN
  BY DEF Fit
<1>5. opened' \in [Sids -> [with : Nat, raced : BOOLEAN]]
  BY <1>1, <1>4, Parts DEF CreateSession, SessionPart, RequestType
<1>6. UserPart' /\ ThrottlePart' /\ ServerPart'
  BY PartsStay DEF CreateSession, userVars, throttleVars, serverVars
<1>7. QED
  BY <1>2, <1>3, <1>5, <1>6, PartsNext DEF SessionPart

LEMMA ClockInv ==
  ASSUME IInv, NEW k \in Keys, Unlock(k) \/ CountAges(k) PROVE IInv'
<1>1. ThrottlePart'
  <2>1. \/ throttle' = [throttle EXCEPT ![k].locked = FALSE]
        \/ throttle' = [throttle EXCEPT ![k].old = TRUE]
    BY DEF Unlock, CountAges
  <2>2. late' = late
    BY DEF Unlock, CountAges, history
  <2>3. QED
    BY <2>1, <2>2, Parts DEF ThrottlePart
<1>2. ReqPart' /\ UserPart' /\ SessionPart' /\ ServerPart'
  BY PartsStay DEF Unlock, CountAges, history, userVars, sessionVars, serverVars
<1>3. QED
  BY <1>1, <1>2, PartsNext

-----------------------------------------------------------------------------
(* Requests for an account *)

LEMMA LookupInv ==
  ASSUME IInv, NEW p \in Requests, NEW s \in Sids, sessions[s].user \in Accounts,
         Lookup(p, s)
  PROVE  IInv'
<1> DEFINE r == [Rest EXCEPT !.pc = "copy", !.who = sessions[s].user]
<1>1. RequestInv(r)
  BY RecordFacts DEF RequestInv, RequestType, Stages, LocalOf, Rest, SomeUser
<1>2. Begin(p, r) /\ UNCHANGED <<running, stops, cut, throttle>>
  BY DEF Lookup
<1> HIDE DEF r
<1>3. ReqPart' /\ ServerPart' /\ ThrottlePart'
  BY <1>1, <1>2, BeginInv
<1>4. UserPart' /\ SessionPart'
  BY PartsStay DEF Lookup, userVars, sessionVars
<1>5. QED
  BY <1>3, <1>4, PartsNext

LEMMA CopyUserInv == ASSUME IInv, NEW p \in Requests, CopyUser(p) PROVE IInv'
<1> DEFINE u == req[p].who
           r == [req[p] EXCEPT !.pc = "act", !.me = users[u]]
<1>1. req[p] \in RequestType /\ LocalOf(req[p]) /\ req[p].pc = "copy"
  BY OneRequest DEF CopyUser, At
<1>2. CASE Answer(p)
  BY <1>2, OneRequest, LocalSteps DEF CopyUser
<1>3. CASE In(u) /\ req' = [req EXCEPT ![p] = r]
  <2>1. users[u] \in UserType /\ users[u].state = "in"
    BY <1>1, <1>3, Parts DEF LocalOf, UserPart, In
  <2>2. RequestInv(r)
    BY <1>1, <2>1 DEF RequestInv, RequestType, Stages, LocalOf
  <2> HIDE DEF r
  <2>3. ReqPart'
    BY <1>3, <2>2, OneRequest
  <2>4. QED
    BY <2>3, LocalSteps DEF CopyUser
<1>4. QED
  BY <1>2, <1>3 DEF CopyUser

\* A request goes to another stage, about an account.
LEMMA StageSteps ==
  ASSUME IInv, NEW p \in Requests, req[p].pc # "idle"
  PROVE  /\ \A u \in Accounts, l \in {"hashing", "drop"} :
              req' = [req EXCEPT ![p].pc = l, ![p].on = u] => ReqPart'
         /\ Goto(p, "rehash") => ReqPart'
         /\ req[p].pc = "hashing" /\ Goto(p, "drop") => ReqPart'
<1>1. req[p] \in RequestType /\ LocalOf(req[p])
  BY OneRequest
<1>2. ASSUME NEW u \in Accounts, NEW l \in {"hashing", "drop"}
      PROVE  RequestInv([req[p] EXCEPT !.pc = l, !.on = u])
  BY <1>1 DEF RequestInv, RequestType, Stages, LocalOf, SomeUser
<1>3. RequestInv([req[p] EXCEPT !.pc = "rehash"])
  BY <1>1 DEF RequestInv, RequestType, Stages, LocalOf
<1>4. req[p].pc = "hashing" => RequestInv([req[p] EXCEPT !.pc = "drop"])
  BY <1>1 DEF RequestInv, RequestType, Stages, LocalOf
<1>5. ASSUME NEW u \in Accounts, NEW l \in {"hashing", "drop"},
             req' = [req EXCEPT ![p].pc = l, ![p].on = u]
      PROVE  ReqPart'
  BY <1>2, <1>5, OneRequest
<1>6. QED
  BY <1>3, <1>4, <1>5, OneRequest DEF Goto

\* What an administrator's form makes of a record, and the note of it.
LEMMA FormFacts ==
  ASSUME IInv, NEW u \in Accounts, NEW form \in Forms, NEW r \in UserType
  PROVE  /\ Filled(r, form) \in UserType
         /\ Asked(u, form) =>
              given' \in [Accounts -> [limit : SUBSET Groups, password : Nat]]
<1>1. form \in FormType
  BY AccountsAssumption
<1>2. Filled(r, form) \in UserType
  BY <1>1 DEF Filled, UserType, FormType, Existing
<1>3. {g \in form.allowed : groups[g] # "new"} \subseteq Groups
  BY <1>1 DEF FormType
<1>4. Asked(u, form) =>
        given' \in [Accounts -> [limit : SUBSET Groups, password : Nat]]
  BY <1>3, Parts DEF Asked, UserPart
<1>5. QED
  BY <1>2, <1>4

LEMMA SaveUserInv ==
  ASSUME IInv, NEW p \in Requests, NEW u \in Accounts, NEW form \in Forms,
         CreateUser(p, u, form) \/ EditUser(p, u, form)
  PROVE  IInv'
<1>1. req[p].pc # "idle"
  BY DEF CreateUser, EditUser, MayManage, MayAct, At
<1>2. users[u] \in UserType
  BY Parts DEF UserPart
<1>3. users' \in [Accounts -> UserType]
  <2>1. PICK r \in UserType : users' = [users EXCEPT ![u] = Filled(r, form)]
    BY <1>2, RecordFacts DEF CreateUser, EditUser
  <2>2. QED
    BY <2>1, FormFacts, Parts DEF UserPart
<1>4. given' \in [Accounts -> [limit : SUBSET Groups, password : Nat]]
  BY <1>2, FormFacts DEF CreateUser, EditUser
<1>5. UserPart'
  BY <1>3, <1>4, Parts DEF CreateUser, EditUser, UserPart
<1>6. ReqPart'
  BY <1>1, StageSteps, OneRequest DEF CreateUser, EditUser
<1>7. SessionPart' /\ ThrottlePart' /\ ServerPart'
  BY PartsStay DEF CreateUser, EditUser, sessionVars, throttleVars, serverVars
<1>8. QED
  BY <1>5, <1>6, <1>7, PartsNext

LEMMA StoreHashInv == ASSUME IInv, NEW p \in Requests, StoreHash(p) PROVE IInv'
<1> DEFINE u == req[p].on
           r == [users[u] EXCEPT !.hash = passwords + 1, !.must = TRUE]
<1>1. u \in Accounts /\ req[p].pc = "hashing"
  BY OneRequest DEF StoreHash, At, LocalOf
<1>2. passwords' \in 0..MaxPassword /\ passwords + 1 \in Nat
  BY Parts, AccountsAssumption DEF StoreHash, UserPart
<1>3. users[u] \in UserType /\ given[u] \in [limit : SUBSET Groups, password : Nat]
  BY <1>1, Parts DEF UserPart
<1>4. r \in UserType
  BY <1>2, <1>3 DEF UserType
<1>5. users' = [users EXCEPT ![u] = r]
  BY <1>1, Parts DEF StoreHash, UserPart
<1>6. given' = [given EXCEPT ![u].password = passwords + 1]
  BY DEF StoreHash
<1> HIDE DEF u, r
<1>7. UserPart'
  <2>1. users' \in [Accounts -> UserType]
    BY <1>1, <1>4, <1>5, Parts DEF UserPart
  <2>2. given' \in [Accounts -> [limit : SUBSET Groups, password : Nat]]
    BY <1>1, <1>2, <1>6, Parts DEF UserPart
  <2>3. QED
    BY <1>2, <2>1, <2>2, Parts DEF StoreHash, UserPart
<1>8. ReqPart'
  BY <1>1, StageSteps DEF StoreHash
<1>9. SessionPart' /\ ThrottlePart' /\ ServerPart'
  BY PartsStay DEF StoreHash, sessionVars, throttleVars, serverVars
<1>10. QED
  BY <1>7, <1>8, <1>9, PartsNext

LEMMA ChangeOwnInv == ASSUME IInv, NEW p \in Requests, ChangeOwn(p) PROVE IInv'
<1> DEFINE u == req[p].who
           r == [users[u] EXCEPT !.hash = passwords + 1, !.must = FALSE]
<1>1. u \in Accounts
  BY OneRequest DEF ChangeOwn, At, LocalOf
<1>2. passwords' \in 0..MaxPassword /\ passwords + 1 \in Nat
  BY Parts, AccountsAssumption DEF ChangeOwn, UserPart
<1>3. users[u] \in UserType
  BY <1>1, Parts DEF UserPart
<1>4. r \in UserType
  BY <1>2, <1>3 DEF UserType
<1>5. users' = [users EXCEPT ![u] = r] \/ users' = users
  BY <1>1, Parts DEF ChangeOwn, UserPart
<1> HIDE DEF u, r
<1>6. UserPart'
  BY <1>1, <1>2, <1>4, <1>5, Parts DEF ChangeOwn, UserPart, history
<1>7. ReqPart'
  BY OneRequest DEF ChangeOwn
<1>8. SessionPart' /\ ThrottlePart' /\ ServerPart'
  BY PartsStay DEF ChangeOwn, history, sessionVars, throttleVars, serverVars
<1>9. QED
  BY <1>6, <1>7, <1>8, PartsNext

LEMMA ProveOwnInv == ASSUME IInv, NEW p \in Requests, ProveOwn(p) PROVE IInv'
<1>1. ReqPart'
  BY StageSteps DEF ProveOwn, At
<1>2. QED
  BY <1>1, LocalSteps DEF ProveOwn

LEMMA DeleteUserInv ==
  ASSUME IInv, NEW p \in Requests, NEW u \in Accounts, DeleteUser(p, u)
  PROVE  IInv'
<1>1. [users[u] EXCEPT !.state = "gone"] \in UserType
  <2>1. users[u] \in UserType
    BY Parts DEF UserPart
  <2>2. QED
    BY <2>1 DEF UserType
<1>2. UserPart'
  <2>1. users' = [users EXCEPT ![u] = [users[u] EXCEPT !.state = "gone"]]
    BY DEF DeleteUser
  <2>2. QED
    BY <1>1, <2>1, Parts DEF DeleteUser, UserPart, history
<1>3. ReqPart'
  BY StageSteps DEF DeleteUser, MayManage, MayAct, At
<1>4. SessionPart' /\ ThrottlePart' /\ ServerPart'
  BY PartsStay DEF DeleteUser, history, sessionVars, throttleVars, serverVars
<1>5. QED
  BY <1>2, <1>3, <1>4, PartsNext

LEMMA EndInv ==
  ASSUME IInv,
         (\E p \in Requests : DropUser(p)) \/ (\E s \in Sids : EndSession(s))
  PROVE  IInv'
<1>1. \A s \in Sids : Gone(s) \in [state : {"new", "live", "gone"}, user : SomeUser]
  BY Parts DEF SessionPart, Gone
<1>2. SessionPart'
  BY <1>1, Parts DEF DropUser, EndSession, SessionPart, history
<1>3. ReqPart'
  BY OneRequest, PartsStay DEF DropUser, EndSession
<1>4. UserPart' /\ ThrottlePart' /\ ServerPart'
  BY PartsStay DEF DropUser, EndSession, history, userVars, throttleVars, serverVars
<1>5. QED
  BY <1>2, <1>3, <1>4, PartsNext

LEMMA GroupInv ==
  ASSUME IInv, NEW p \in Requests,
         NEW g \in Groups, CreateGroup(p, g) \/ DeleteGroup(p, g)
  PROVE  IInv'
<1>1. \A u \in Accounts : [users[u] EXCEPT !.allowed = @ \ {g}] \in UserType
  BY Parts DEF UserPart, UserType
<1>2. UserPart'
  <2>1. users' \in [Accounts -> UserType]
    BY <1>1, Parts DEF CreateGroup, DeleteGroup, UserPart
  <2>2. groups' \in [Groups -> {"new", "in", "gone"}]
    BY Parts DEF CreateGroup, DeleteGroup, UserPart
  <2>3. QED
    BY <2>1, <2>2, Parts DEF CreateGroup, DeleteGroup, UserPart, history
<1>3. ReqPart'
  BY OneRequest DEF CreateGroup, DeleteGroup
<1>4. SessionPart' /\ ThrottlePart' /\ ServerPart'
  BY PartsStay DEF CreateGroup, DeleteGroup, history, sessionVars, throttleVars,
                   serverVars
<1>5. QED
  BY <1>2, <1>3, <1>4, PartsNext

LEMMA SendInv ==
  ASSUME IInv, NEW p \in Requests, NEW beyond \in BOOLEAN,
         NEW G \in SUBSET Groups, Send(p, beyond, G)
  PROVE  IInv'
<1>1. \A b, c \in BOOLEAN : [stale |-> b, freed |-> c] \in [stale : BOOLEAN, freed : BOOLEAN]
  OBVIOUS
<1>2. strayed' \subseteq [stale : BOOLEAN, freed : BOOLEAN]
  BY <1>1, Parts DEF Send, UserPart
<1>3. UserPart'
  BY <1>2, Parts DEF Send, UserPart
<1>4. ReqPart'
  BY OneRequest DEF Send
<1>5. SessionPart' /\ ThrottlePart' /\ ServerPart'
  BY PartsStay DEF Send, sessionVars, throttleVars, serverVars
<1>6. QED
  BY <1>3, <1>4, <1>5, PartsNext

-----------------------------------------------------------------------------
(* Starts and stops, and the whole invariant *)

LEMMA NewPassword ==
  ASSUME IInv, passwords < MaxPassword, NEW u \in Accounts,
         given' = [given EXCEPT ![u].password = passwords + 1],
         passwords' = passwords + 1
  PROVE  /\ passwords' \in 0..MaxPassword /\ passwords + 1 \in Nat
         /\ given' \in [Accounts -> [limit : SUBSET Groups, password : Nat]]
<1>1. passwords' \in 0..MaxPassword /\ passwords + 1 \in Nat
  BY Parts, AccountsAssumption DEF UserPart
<1>2. QED
  BY <1>1, Parts DEF UserPart

LEMMA StartInv == ASSUME IInv, Start PROVE IInv'
<1>1. CASE UNCHANGED <<users, passwords, given>>
  BY <1>1, PartsStay, Parts, PartsNext
     DEF Start, userVars, sessionVars, throttleVars, ServerPart
<1>2. CASE ~UNCHANGED <<users, passwords, given>>
  <2> DEFINE r == [NoUser EXCEPT !.state = "in", !.role = "admin",
                                 !.hash = passwords + 1, !.must = TRUE]
  <2>1. PICK u \in Accounts :
          /\ users' = [users EXCEPT ![u] = r]
          /\ given' = [given EXCEPT ![u].password = passwords + 1]
          /\ passwords' = passwords + 1 /\ passwords < MaxPassword
    BY <1>2 DEF Start
  <2>2. r \in UserType
    BY <2>1, NewPassword DEF NoUser, UserType
  <2> HIDE DEF r
  <2>3. UserPart'
    BY <2>1, <2>2, NewPassword, Parts DEF Start, UserPart
  <2>4. ReqPart' /\ SessionPart' /\ ThrottlePart'
    BY PartsStay DEF Start, sessionVars, throttleVars
  <2>5. ServerPart'
    BY Parts DEF Start, ServerPart
  <2>6. QED
    BY <2>3, <2>4, <2>5, PartsNext
<1>3. QED
  BY <1>1, <1>2

LEMMA StopInv == ASSUME IInv, Stop PROVE IInv'
<1>1. ReqPart'
  BY RecordFacts DEF Stop, ReqPart, RequestInv
<1>2. UserPart'
  BY PartsStay DEF Stop, userVars
<1>3. \A s \in Sids : Gone(s) \in [state : {"new", "live", "gone"}, user : SomeUser]
  BY Parts DEF SessionPart, Gone
<1>4. SessionPart'
  BY <1>3, Parts DEF Stop, SessionPart
<1>5. NoAttempts \in [fails : 0..(MaxFails - 1), locked : BOOLEAN, old : BOOLEAN]
  BY AccountsAssumption DEF NoAttempts
<1>6. ThrottlePart'
  BY <1>5 DEF Stop, ThrottlePart
<1>7. \A p \in Requests : req[p].on \in SomeUser
  BY Parts DEF ReqPart, RequestType
<1>8. ServerPart'
  <2>1. cut' \subseteq SomeUser
    BY <1>7, Parts DEF Stop, ServerPart
  <2>2. /\ stops < MaxStop /\ stops' = stops + 1
        /\ running' = FALSE /\ requests' = requests
    BY DEF Stop
  <2>3. stops \in 0..MaxStop /\ requests \in 0..MaxRequest
    BY Parts DEF ServerPart
  <2>4. stops' \in 0..MaxStop
    BY <2>2, <2>3, AccountsAssumption
  <2>5. QED
    BY <2>1, <2>2, <2>3, <2>4 DEF ServerPart
<1>9. QED
  BY <1>1, <1>2, <1>4, <1>6, <1>8, PartsNext

LEMMA ResetInv == ASSUME IInv, NEW u \in Accounts, ResetPassword(u) PROVE IInv'
<1> DEFINE r == [users[u] EXCEPT !.hash = passwords + 1, !.must = TRUE,
                                 !.disabled = FALSE]
<1>1. /\ given' = [given EXCEPT ![u].password = passwords + 1]
      /\ passwords' = passwords + 1 /\ passwords < MaxPassword
  BY DEF ResetPassword
<1>2. users[u] \in UserType /\ passwords + 1 \in Nat
  BY <1>1, NewPassword, Parts DEF UserPart
<1>3. r \in UserType
  BY <1>2 DEF UserType
<1>4. users' = [users EXCEPT ![u] = r]
  BY Parts DEF ResetPassword, UserPart
<1> HIDE DEF r
<1>5. UserPart'
  <2>1. UserPart
    BY Parts
  <2>2. users' \in [Accounts -> UserType]
    BY <1>3, <1>4, <2>1 DEF UserPart
  <2>3. QED
    BY <1>1, <2>1, <2>2, NewPassword DEF ResetPassword, UserPart
<1>6. ReqPart' /\ SessionPart' /\ ThrottlePart' /\ ServerPart'
  BY PartsStay DEF ResetPassword, sessionVars, throttleVars, serverVars
<1>7. QED
  BY <1>5, <1>6, PartsNext

\* Live sessions are those of accounts; they and the requests end with the
\* process.
LiveOnes ==
  /\ \A s \in Sids : Live(s) => running /\ sessions[s].user \in Accounts
  /\ \A p \in Requests : req[p].pc # "idle" => running

LEMMA StepInv == IInv /\ LiveOnes /\ [Next]_vars => IInv'
<1> SUFFICES ASSUME IInv, LiveOnes, [Next]_vars PROVE IInv'
  OBVIOUS
<1>1. ASSUME NEW p \in Requests, LoginStep(p) PROVE IInv'
  <2>1. \A u \in Accounts : users[u].hash \in Nat
    BY Parts DEF UserPart, UserType
  <2>2. ASSUME NEW ip \in Addresses, NEW n \in Names,
               SignIn(p, ip, n, 0) \/ SignIn(p, ip, n, users[Holder[n]].hash)
        PROVE  IInv'
    <3>1. 0 \in Nat /\ users[Holder[n]].hash \in Nat
      BY <2>1, AccountsAssumption
    <3>2. QED
      BY <2>2, <3>1, SignInInv
  <2>3. QED
    BY <1>1, <2>2, CheckKeyInv, ReadHashInv, VerifyInv,
       CountFailureInv, ClearKeyInv, CreateSessionInv DEF LoginStep
<1>2. ASSUME NEW p \in Requests, AccountStep(p) PROVE IInv'
  BY <1>2, SaveUserInv, DeleteUserInv, StoreHashInv, EndInv, ProveOwnInv,
     ChangeOwnInv DEF AccountStep
<1>3. ASSUME NEW p \in Requests, GroupStep(p) PROVE IInv'
  BY <1>3, GroupInv, SendInv DEF GroupStep
<1>4. ASSUME NEW p \in Requests, NEW s \in Sids, Lookup(p, s) PROVE IInv'
  BY <1>4, LookupInv DEF Lookup, LiveOnes, Live
<1>5. ASSUME NEW p \in Requests, CopyUser(p) \/ Decline(p) PROVE IInv'
  <2>1. Decline(p) => ReqPart'
    BY OneRequest DEF Decline
  <2>2. Decline(p) => IInv'
    BY <2>1, LocalSteps DEF Decline
  <2>3. QED
    BY <1>5, <2>2, CopyUserInv
<1>6. CASE UNCHANGED vars
  BY <1>6, PartsStay, PartsNext
     DEF vars, history, userVars, sessionVars, throttleVars, serverVars
<1>7. QED
  BY <1>1, <1>2, <1>3, <1>4, <1>5, <1>6, EndInv, ClockInv, StartInv, StopInv,
     ResetInv DEF Next

\* A request changes its own local state only.
Others(p) == \A q \in Requests \ {p} : req'[q] = req[q]

LookStep(p) == (\E s \in Sids : Lookup(p, s)) \/ CopyUser(p) \/ Decline(p)

\* What the steps of a request leave alone.
LEMMA Effects ==
  ASSUME IInv, NEW p \in Requests
  PROVE  /\ LoginStep(p) =>
              /\ UNCHANGED <<running, users, groups, given, cut, strayed>>
              /\ running \/ req[p].pc # "idle"
              /\ req[p].pc \notin {"hashing", "drop"}
         /\ AccountStep(p) =>
              /\ UNCHANGED <<running, groups, throttle, cut, late, strayed, opened>>
              /\ req[p].pc # "idle"
              /\ req'[p].pc \in {"idle", "hashing", "drop", "rehash"}
              /\ ~DropUser(p) => UNCHANGED sessions
         /\ GroupStep(p) =>
              /\ UNCHANGED <<running, passwords, sessions, throttle, given, opened,
                            cut, late>>
              /\ req[p].pc = "act" /\ req'[p].pc = "idle"
         /\ LookStep(p) =>
              /\ UNCHANGED <<running, users, groups, passwords, sessions, throttle,
                            given, opened, cut, strayed>>
              /\ running \/ req[p].pc # "idle"
              /\ req[p].pc \notin {"hashing", "drop"}
              /\ req'[p].pc \in {"idle", "copy", "act"}
<1>1. LoginStep(p) =>
        /\ UNCHANGED <<running, users, groups, given, cut, strayed>>
        /\ running \/ req[p].pc # "idle"
        /\ req[p].pc \notin {"hashing", "drop"}
  BY DEF LoginStep, SignIn, Begin, CheckKey, ReadHash, Verify, CountFailure,
         ClearKey, CreateSession, At, history
<1>2. AccountStep(p) =>
        /\ UNCHANGED <<running, groups, throttle, cut, late, strayed, opened>>
        /\ req[p].pc # "idle"
        /\ ~DropUser(p) => UNCHANGED sessions
  BY DEF AccountStep, CreateUser, EditUser, DeleteUser, StoreHash, DropUser,
         ProveOwn, ChangeOwn, MayManage, MayAct, At, history
<1>3. GroupStep(p) =>
        /\ UNCHANGED <<running, passwords, sessions, throttle, given, opened, cut,
                      late>>
        /\ req[p].pc = "act" /\ Answer(p)
  BY DEF GroupStep, CreateGroup, DeleteGroup, Send, MayManage, MayAct, At, history
<1>4. LookStep(p) =>
        /\ UNCHANGED <<running, users, groups, passwords, sessions, throttle, given,
                      opened, cut, strayed>>
        /\ running \/ req[p].pc # "idle"
        /\ req[p].pc \notin {"hashing", "drop"}
  BY DEF LookStep, Lookup, Begin, CopyUser, Decline, At, history
<1>5. req[p] \in RequestType /\ req \in [Requests -> RequestType]
  BY DEF IInv, TypeOK
<1>6. /\ Answer(p) => req'[p].pc = "idle"
      /\ \A l : Goto(p, l) => req'[p].pc = l
      /\ \A l, u : req' = [req EXCEPT ![p].pc = l, ![p].on = u] => req'[p].pc = l
  BY <1>5 DEF Answer, Goto, Rest, RequestType
<1>7. AccountStep(p) => req'[p].pc \in {"idle", "hashing", "drop", "rehash"}
  BY <1>6 DEF AccountStep, CreateUser, EditUser, DeleteUser, StoreHash, DropUser,
              ProveOwn, ChangeOwn
<1>8. LookStep(p) => req'[p].pc \in {"idle", "copy", "act"}
  <2>1. ASSUME NEW s \in Sids, Lookup(p, s) PROVE req'[p].pc = "copy"
    BY <1>5, <2>1 DEF Lookup, Begin, Rest
  <2>2. CopyUser(p) => req'[p].pc \in {"idle", "act"}
    BY <1>5, <1>6 DEF CopyUser, RequestType
  <2>3. QED
    BY <1>6, <2>1, <2>2 DEF LookStep, Decline
<1>9. QED
  BY <1>1, <1>2, <1>3, <1>4, <1>6, <1>7, <1>8

LEMMA OthersStay ==
  ASSUME IInv, NEW p \in Requests,
         LoginStep(p) \/ AccountStep(p) \/ GroupStep(p) \/ LookStep(p)
  PROVE  Others(p)
<1>1. req \in [Requests -> RequestType]
  BY DEF IInv, TypeOK
<1>2. (\E r : req' = [req EXCEPT ![p] = r]) => Others(p)
  BY <1>1 DEF Others
<1>3. Answer(p) \/ (\E l : NextKey(p, l) \/ Goto(p, l)) => Others(p)
  BY <1>1 DEF Answer, NextKey, Goto, Others
<1>4. LoginStep(p) => Others(p)
  BY <1>1, <1>2, <1>3 DEF LoginStep, SignIn, Begin, CheckKey, ReadHash, Verify,
     CountFailure, ClearKey, CreateSession, Others
<1>5. AccountStep(p) => Others(p)
  BY <1>1, <1>3 DEF AccountStep, CreateUser, EditUser, DeleteUser, StoreHash,
     DropUser, ProveOwn, ChangeOwn, Others
<1>6. GroupStep(p) => Others(p)
  BY <1>3 DEF GroupStep, CreateGroup, DeleteGroup, Send
<1>7. LookStep(p) => Others(p)
  BY <1>1, <1>2, <1>3 DEF LookStep, Lookup, Begin, CopyUser, Decline, Others
<1>8. QED
  BY <1>4, <1>5, <1>6, <1>7

\* The steps there are.
LEMMA NextCases ==
  ASSUME [Next]_vars
  PROVE  \/ \E p \in Requests :
              LoginStep(p) \/ AccountStep(p) \/ GroupStep(p) \/ LookStep(p)
         \/ \E s \in Sids : EndSession(s)
         \/ \E k \in Keys : Unlock(k) \/ CountAges(k)
         \/ Start \/ Stop
         \/ \E u \in Accounts : ResetPassword(u)
         \/ UNCHANGED vars
  BY DEF Next, LookStep

LEMMA LiveStep == IInv /\ LiveOnes /\ [Next]_vars => LiveOnes'
<1> SUFFICES ASSUME IInv, LiveOnes, [Next]_vars PROVE LiveOnes'
  OBVIOUS
<1>1. \A s \in Sids : Gone(s).state = "gone"
  BY Parts DEF Gone, SessionPart
<1>2. ASSUME NEW p \in Requests,
             LoginStep(p) \/ AccountStep(p) \/ GroupStep(p) \/ LookStep(p)
      PROVE  LiveOnes'
  <2>1. running /\ running'
    BY <1>2, Effects DEF LiveOnes
  <2>2. ASSUME NEW s \in Sids, Live(s)' PROVE sessions'[s].user \in Accounts
    <3>1. CASE sessions'[s] = sessions[s] \/ sessions'[s] = Gone(s)
      BY <1>1, <2>2, <3>1 DEF LiveOnes, Live
    <3>2. CASE LoginStep(p)
      <4>1. ASSUME NEW t \in Sids, CreateSession(p, t)
            PROVE  sessions'[s].user \in Accounts
        <5>1. req[p].who \in Accounts
          BY <4>1, OneRequest DEF CreateSession, At, LocalOf
        <5>2. CASE s = t
          BY <4>1, <5>1, <5>2, Parts DEF CreateSession, SessionPart
        <5>3. CASE s # t
          BY <2>2, <4>1, <5>3, Parts DEF CreateSession, SessionPart, LiveOnes, Live
        <5>4. QED
          BY <5>2, <5>3
      <4>2. CASE UNCHANGED sessions
        BY <3>1, <4>2
      <4>3. QED
        BY <3>2, <4>1, <4>2 DEF LoginStep, SignIn, CheckKey, ReadHash, Verify,
           CountFailure, ClearKey
    <3>3. CASE AccountStep(p)
      BY <3>1, <3>3, Effects DEF DropUser
    <3>4. CASE GroupStep(p) \/ LookStep(p)
      BY <3>1, <3>4, Effects
    <3>5. QED
      BY <1>2, <3>2, <3>3, <3>4
  <2>3. QED
    BY <2>1, <2>2 DEF LiveOnes
<1>3. ASSUME NEW s \in Sids, EndSession(s) PROVE LiveOnes'
  <2>1. \A t \in Sids : sessions'[t] = sessions[t] \/ sessions'[t] = Gone(t)
    BY <1>3, Parts DEF EndSession, SessionPart
  <2>2. QED
    BY <1>1, <1>3, <2>1 DEF EndSession, LiveOnes, Live
<1>4. CASE UNCHANGED <<running, sessions, req>>
  BY <1>4 DEF LiveOnes, Live
<1>5. CASE Start
  BY <1>5 DEF Start, LiveOnes, Live
<1>6. CASE Stop
  BY <1>1, <1>6 DEF Stop, LiveOnes, Live, Rest
<1>7. QED
  BY <1>2, <1>3, <1>4, <1>5, <1>6, NextCases
     DEF Unlock, CountAges, ResetPassword, vars

\* The variables keep their types.
THEOREM TypeCorrect == Spec => []TypeOK
<1>1. Init => LiveOnes
  BY DEF Init, LiveOnes, Live, NoSession, Rest
<1>2. IInv => TypeOK
  BY DEF IInv
<1>3. QED
  BY <1>1, <1>2, InitInv, StepInv, LiveStep, PTL DEF Spec

LEMMA SpecInv == Spec => [](IInv /\ LiveOnes)
<1>1. Init => LiveOnes
  BY DEF Init, LiveOnes, Live, NoSession, Rest
<1>2. QED
  BY <1>1, InitInv, StepInv, LiveStep, PTL DEF Spec

-----------------------------------------------------------------------------
(* An administrator remains *)

\* Once there is an account there is an administrator.
AdminInv ==
  /\ running => Admins # {}
  /\ (\E u \in Accounts : In(u)) => Admins # {}

\* When one administrator is not the last, another one is left.
LEMMA AnotherAdmin ==
  ASSUME NEW u \in Admins, ~(Cardinality(Admins) <= 1)
  PROVE  \E v \in Admins : v # u
<1>1. IsFiniteSet(Admins)
  BY AccountsAssumption, FS_Subset DEF Admins
<1>2. Admins # {u}
  BY FS_Singleton
<1>3. QED
  BY <1>2

LEMMA AdminStep == IInv /\ LiveOnes /\ AdminInv /\ [Next]_vars => AdminInv'
<1> SUFFICES ASSUME IInv, LiveOnes, AdminInv, [Next]_vars PROVE AdminInv'
  OBVIOUS
<1>1. users \in [Accounts -> UserType]
  BY Parts DEF UserPart
\* Enough of the administrators stay.
<1>2. ASSUME NEW v \in Accounts, users'[v].state = "in", users'[v].role = "admin",
             ~users'[v].disabled
      PROVE  AdminInv'
  BY <1>2 DEF AdminInv, Admins, In
<1>3. CASE /\ ~running => ~running'
           /\ \A u \in Accounts : /\ users'[u].state = users[u].state
                                  /\ users'[u].role = users[u].role
                                  /\ ~users[u].disabled => ~users'[u].disabled
  <2>1. CASE Admins # {}
    <3>1. PICK w \in Accounts : In(w) /\ users[w].role = "admin" /\ ~users[w].disabled
      BY <2>1 DEF Admins
    <3>2. users'[w].state = "in" /\ users'[w].role = "admin"
      BY <1>3, <3>1 DEF In
    <3>3. ~users'[w].disabled
      BY <1>3, <3>1
    <3>4. QED
      BY <1>2, <3>2, <3>3
  <2>2. CASE Admins = {}
    <3>1. ~running /\ \A u \in Accounts : ~In(u)
      BY <2>2 DEF AdminInv
    <3>2. ~running'
      BY <1>3, <3>1
    <3>3. \A u \in Accounts : ~In(u)'
      BY <1>3, <3>1 DEF In
    <3>4. QED
      BY <3>2, <3>3 DEF AdminInv
  <2>3. QED
    BY <2>1, <2>2
<1>4. ASSUME NEW p \in Requests, AccountStep(p) PROVE AdminInv'
  <2>1. running
    BY <1>4, Effects DEF LiveOnes
  <2>2. PICK w \in Accounts : w \in Admins
    BY <2>1 DEF AdminInv, Admins
  <2>3. \A form \in Forms : form \in FormType
    BY AccountsAssumption
  <2>4. ASSUME NEW u \in Accounts, NEW form \in Forms, CreateUser(p, u, form)
        PROVE  AdminInv'
    BY <1>1, <1>2, <2>2, <2>4 DEF CreateUser, Admins, In
  <2>5. ASSUME NEW u \in Accounts, NEW form \in Forms, EditUser(p, u, form)
        PROVE  AdminInv'
    <3>1. users' = [users EXCEPT ![u] = Filled(users[u], form)] /\ ~LastAdmin(u, form)
      BY <2>5 DEF EditUser
    <3>2. \A v \in Admins : v # u => AdminInv'
      BY <1>1, <1>2, <3>1 DEF Admins, In
    <3>3. /\ Filled(users[u], form).state = "in"
          /\ Filled(users[u], form).role = form.role
          /\ Filled(users[u], form).disabled = form.disabled
      BY <1>1 DEF Filled, UserType
    <3>4. form.role = "admin" /\ ~form.disabled => AdminInv'
      BY <1>1, <1>2, <3>1, <3>3
    <3>5. CASE u \in Admins /\ (form.role # "admin" \/ form.disabled)
      BY <3>1, <3>2, <3>5, AnotherAdmin DEF LastAdmin
    <3>6. QED
      BY <2>2, <3>2, <3>4, <3>5
  <2>6. ASSUME NEW u \in Accounts, DeleteUser(p, u) PROVE AdminInv'
    <3>1. users' = [users EXCEPT ![u].state = "gone"]
      BY <2>6 DEF DeleteUser
    <3>2. \A v \in Admins : v # u => AdminInv'
      BY <1>1, <1>2, <3>1 DEF Admins, In
    <3>3. QED
      BY <2>2, <2>6, <3>2, AnotherAdmin DEF DeleteUser
  <2>7. CASE StoreHash(p) \/ ChangeOwn(p)
    <3>1. \A u \in Accounts : /\ users'[u].state = users[u].state
                              /\ users'[u].role = users[u].role
                              /\ users'[u].disabled = users[u].disabled
      BY <1>1, <2>7 DEF StoreHash, ChangeOwn, UserType
    <3>2. QED
      BY <1>3, <2>1, <3>1
  <2>8. CASE DropUser(p) \/ ProveOwn(p)
    BY <1>3, <2>1, <2>8 DEF DropUser, ProveOwn
  <2>9. QED
    BY <1>4, <2>4, <2>5, <2>6, <2>7, <2>8 DEF AccountStep
<1>5. ASSUME NEW p \in Requests, LoginStep(p) \/ GroupStep(p) \/ LookStep(p)
      PROVE  AdminInv'
  <2>1. running' = running
    BY <1>5, Effects
  <2>2. \A u \in Accounts : /\ users'[u].state = users[u].state
                            /\ users'[u].role = users[u].role
                            /\ users'[u].disabled = users[u].disabled
    <3>1. ASSUME NEW g \in Groups, DeleteGroup(p, g), NEW u \in Accounts
          PROVE  /\ users'[u].state = users[u].state
                 /\ users'[u].role = users[u].role
                 /\ users'[u].disabled = users[u].disabled
      BY <1>1, <3>1 DEF DeleteGroup, UserType
    <3>2. LoginStep(p) \/ LookStep(p) => users' = users
      BY Effects
    <3>3. QED
      BY <1>5, <3>1, <3>2 DEF GroupStep, CreateGroup, Send
  <2>3. QED
    BY <1>3, <2>1, <2>2
<1>6. CASE Start
  <2>1. CASE \E u \in Accounts : In(u)
    BY <1>6, <2>1 DEF Start, AdminInv, Admins, In
  <2>2. CASE ~\E u \in Accounts : In(u)
    <3>1. PICK u \in Accounts : users' = [users EXCEPT ![u] =
             [NoUser EXCEPT !.state = "in", !.role = "admin",
                            !.hash = passwords + 1, !.must = TRUE]]
      BY <1>6, <2>2 DEF Start
    <3>2. users'[u] = [NoUser EXCEPT !.state = "in", !.role = "admin",
                                     !.hash = passwords + 1, !.must = TRUE]
      BY <1>1, <3>1
    <3>3. users'[u].state = "in" /\ users'[u].role = "admin" /\ ~users'[u].disabled
      BY <3>2 DEF NoUser
    <3>4. QED
      BY <1>2, <3>3
  <2>3. QED
    BY <2>1, <2>2
<1>7. CASE Stop
  BY <1>3, <1>7 DEF Stop
<1>8. ASSUME NEW u \in Accounts, ResetPassword(u) PROVE AdminInv'
  <2>1. \A v \in Accounts : /\ users'[v].state = users[v].state
                            /\ users'[v].role = users[v].role
                            /\ ~users[v].disabled => ~users'[v].disabled
    BY <1>1, <1>8 DEF ResetPassword, UserType
  <2>2. QED
    BY <1>3, <1>8, <2>1 DEF ResetPassword
<1>9. CASE UNCHANGED <<users, running>>
  BY <1>3, <1>9
<1>10. QED
  BY <1>4, <1>5, <1>6, <1>7, <1>8, <1>9, NextCases
     DEF EndSession, Unlock, CountAges, vars

\* Whatever requests demote, disable and delete beside each other, a server
\* that serves has a working administrator.
THEOREM AdminAlwaysRemains == Spec => []AdminRemains
<1>1. Init => AdminInv
  BY DEF Init, AdminInv, In, NoUser
<1>2. AdminInv => AdminRemains
  BY DEF AdminInv, AdminRemains
<1>3. QED
  BY <1>1, <1>2, SpecInv, AdminStep, PTL DEF Spec

-----------------------------------------------------------------------------
(* Limits follow groups, and what leaves them *)

\* A form can name a group only once there is one.
LimitInv ==
  /\ LimitsFollowGroups
  /\ \A u \in Accounts :
       /\ \A g \in given[u].limit : groups[g] # "new"
       /\ users[u].state = "new" => given[u].limit = {}

\* A step that leaves groups, states, limits and lists of groups alone.
LEMMA LimitStays ==
  ASSUME LimitInv, groups' = groups,
         \A u \in Accounts :
           /\ given'[u].limit = given[u].limit
           /\ \/ users'[u].state = users[u].state /\ users'[u].allowed = users[u].allowed
              \/ users'[u].state = "gone"
  PROVE  LimitInv'
  BY DEF LimitInv, LimitsFollowGroups, In, Existing

LEMMA SaveUserLimits ==
  ASSUME IInv, LimitInv, NEW p \in Requests, NEW u \in Accounts, NEW form \in Forms,
         CreateUser(p, u, form) \/ EditUser(p, u, form)
  PROVE  LimitInv'
<1> DEFINE L == {g \in form.allowed : groups[g] # "new"}
<1>1. users \in [Accounts -> UserType] /\ given \in [Accounts -> [limit : SUBSET Groups, password : Nat]]
  BY Parts DEF UserPart
<1>2. PICK r \in UserType : users' = [users EXCEPT ![u] = Filled(r, form)]
  BY <1>1, RecordFacts DEF CreateUser, EditUser
<1>3. Filled(r, form).state = "in" /\ Filled(r, form).allowed = Existing(form.allowed)
  BY DEF Filled, UserType
<1>4. given' = [given EXCEPT ![u].limit = L] /\ groups' = groups
  BY DEF CreateUser, EditUser, Asked
<1>5. Existing(form.allowed) = Existing(L)
  BY DEF Existing
<1>6. \A v \in Accounts \ {u} : users'[v] = users[v] /\ given'[v] = given[v]
  BY <1>1, <1>2, <1>4
<1>7. users'[u] = Filled(r, form) /\ given'[u].limit = L
  BY <1>1, <1>2, <1>4
<1>8. \A G : Existing(G)' = Existing(G)
  BY <1>4 DEF Existing
<1> HIDE DEF L
<1>9. LimitsFollowGroups'
  BY <1>3, <1>5, <1>6, <1>7, <1>8 DEF LimitInv, LimitsFollowGroups, In
<1>10. \A g \in L : groups[g] # "new"
  BY DEF L
<1>11. QED
  BY <1>3, <1>4, <1>6, <1>7, <1>9, <1>10 DEF LimitInv

LEMMA GroupLimits ==
  ASSUME IInv, LimitInv, NEW p \in Requests, NEW g \in Groups,
         CreateGroup(p, g) \/ DeleteGroup(p, g)
  PROVE  LimitInv'
<1>1. /\ users \in [Accounts -> UserType] /\ groups \in [Groups -> {"new", "in", "gone"}]
      /\ given \in [Accounts -> [limit : SUBSET Groups, password : Nat]]
  BY Parts DEF UserPart
<1>2. given' = given
  BY DEF CreateGroup, DeleteGroup, history
<1>3. CASE CreateGroup(p, g)
  <2>1. groups' = [groups EXCEPT ![g] = "in"] /\ groups[g] = "new" /\ users' = users
    BY <1>3 DEF CreateGroup
  <2>2. \A u \in Accounts : g \notin given[u].limit /\ given[u].limit \subseteq Groups
    BY <1>1, <2>1 DEF LimitInv
  <2>3. \A u \in Accounts : Existing(given[u].limit)' = Existing(given[u].limit)
    BY <1>1, <1>2, <2>1, <2>2 DEF Existing
  <2>4. \A u \in Accounts : In(u)' = In(u)
    BY <2>1 DEF In
  <2>5. LimitsFollowGroups'
    BY <2>1, <2>3, <2>4 DEF LimitInv, LimitsFollowGroups
  <2>6. QED
    BY <1>1, <1>2, <2>1, <2>2, <2>5 DEF LimitInv
<1>4. CASE DeleteGroup(p, g)
  <2>1. /\ groups' = [groups EXCEPT ![g] = "gone"]
        /\ users' = [u \in Accounts |->
             IF In(u) THEN [users[u] EXCEPT !.allowed = @ \ {g}] ELSE users[u]]
    BY <1>4 DEF DeleteGroup
  <2>2. ASSUME NEW u \in Accounts
        PROVE  /\ users'[u].state = users[u].state
               /\ In(u) => users'[u].allowed = users[u].allowed \ {g}
    BY <1>1, <2>1 DEF UserType
  <2>3. \A u \in Accounts : In(u)' <=> In(u)
    BY <2>2 DEF In
  <2>4. \A u \in Accounts : Existing(given[u].limit)' = Existing(given[u].limit) \ {g}
    BY <1>1, <1>2, <2>1 DEF Existing
  <2>5. LimitsFollowGroups'
    BY <2>2, <2>3, <2>4 DEF LimitInv, LimitsFollowGroups
  <2>6. QED
    BY <1>1, <1>2, <2>1, <2>2, <2>5 DEF LimitInv
<1>5. QED
  BY <1>3, <1>4

LEMMA StartLimits == ASSUME IInv, LimitInv, Start PROVE LimitInv'
<1>1. groups' = groups
  BY DEF Start
<1>2. CASE UNCHANGED <<users, given>>
  BY <1>1, <1>2, LimitStays
<1>3. CASE ~UNCHANGED <<users, given>>
  <2> DEFINE r == [NoUser EXCEPT !.state = "in", !.role = "admin",
                                 !.hash = passwords + 1, !.must = TRUE]
  <2>1. PICK u \in Accounts :
          /\ users[u].state = "new"
          /\ users' = [users EXCEPT ![u] = r]
          /\ given' = [given EXCEPT ![u].password = passwords + 1]
    BY <1>3 DEF Start
  <2>2. users \in [Accounts -> UserType] /\ given \in [Accounts -> [limit : SUBSET Groups, password : Nat]]
    BY Parts DEF UserPart
  <2>3. r.allowed = {} /\ r.state = "in"
    BY DEF NoUser
  <2> HIDE DEF r
  <2>4. \A v \in Accounts : given'[v].limit = given[v].limit
    BY <2>1, <2>2
  <2>5. \A v \in Accounts : users'[v] = IF v = u THEN r ELSE users[v]
    BY <2>1, <2>2
  <2>6. given[u].limit = {}
    BY <2>1 DEF LimitInv
  <2>7. \A v \in Accounts : Existing(given[v].limit)' = Existing(given[v].limit)
    BY <1>1, <2>4 DEF Existing
  <2>8. Existing(given[u].limit) = {}
    BY <2>6 DEF Existing
  <2>9. LimitsFollowGroups'
    BY <2>3, <2>5, <2>7, <2>8 DEF LimitInv, LimitsFollowGroups, In
  <2>10. QED
    BY <1>1, <2>3, <2>4, <2>5, <2>9 DEF LimitInv
<1>4. QED
  BY <1>2, <1>3

LEMMA LimitStep == IInv /\ LimitInv /\ [Next]_vars => LimitInv'
<1> SUFFICES ASSUME IInv, LimitInv, [Next]_vars PROVE LimitInv'
  OBVIOUS
<1>1. /\ users \in [Accounts -> UserType]
      /\ given \in [Accounts -> [limit : SUBSET Groups, password : Nat]]
  BY Parts DEF UserPart
<1>2. CASE UNCHANGED <<users, groups, given>>
  BY <1>2, LimitStays
<1>3. ASSUME NEW p \in Requests, AccountStep(p) PROVE LimitInv'
  <2>1. groups' = groups
    BY <1>3, Effects
  <2>2. ASSUME NEW u \in Accounts, DeleteUser(p, u) PROVE LimitInv'
    <3>1. given' = given /\ users' = [users EXCEPT ![u].state = "gone"]
      BY <2>2 DEF DeleteUser, history
    <3>2. \A v \in Accounts : users'[v] = users[v] \/ users'[v].state = "gone"
      BY <1>1, <3>1 DEF UserType
    <3>3. QED
      BY <2>1, <3>1, <3>2, LimitStays
  <2>3. CASE StoreHash(p) \/ ChangeOwn(p)
    <3>1. \A u \in Accounts : /\ users'[u].state = users[u].state
                              /\ users'[u].allowed = users[u].allowed
      BY <1>1, <2>3 DEF StoreHash, ChangeOwn, UserType
    <3>2. \A u \in Accounts : given'[u].limit = given[u].limit
      BY <1>1, <2>3 DEF StoreHash, ChangeOwn, history
    <3>3. QED
      BY <2>1, <3>1, <3>2, LimitStays
  <2>4. CASE DropUser(p) \/ ProveOwn(p)
    BY <1>2, <2>4 DEF DropUser, ProveOwn, history
  <2>5. QED
    BY <1>3, <2>2, <2>3, <2>4, SaveUserLimits DEF AccountStep
<1>4. ASSUME NEW p \in Requests, LoginStep(p) \/ LookStep(p) PROVE LimitInv'
  BY <1>2, <1>4, Effects
<1>5. ASSUME NEW p \in Requests, GroupStep(p) PROVE LimitInv'
  <2>1. ASSUME NEW beyond \in BOOLEAN, NEW G \in SUBSET Groups, Send(p, beyond, G)
        PROVE  LimitInv'
    BY <1>2, <2>1 DEF Send
  <2>2. QED
    BY <1>5, <2>1, GroupLimits DEF GroupStep
<1>6. ASSUME NEW u \in Accounts, ResetPassword(u) PROVE LimitInv'
  <2>1. \A v \in Accounts : /\ users'[v].state = users[v].state
                            /\ users'[v].allowed = users[v].allowed
    BY <1>1, <1>6 DEF ResetPassword, UserType
  <2>2. groups' = groups /\ \A v \in Accounts : given'[v].limit = given[v].limit
    BY <1>1, <1>6 DEF ResetPassword
  <2>3. QED
    BY <2>1, <2>2, LimitStays
<1>7. QED
  BY <1>2, <1>3, <1>4, <1>5, <1>6, StartLimits, NextCases
     DEF EndSession, Unlock, CountAges, Stop, history, vars

LEMMA InitLimits == Init => LimitInv
  BY DEF Init, LimitInv, LimitsFollowGroups, In, NoUser

\* An account is limited to those of the groups last asked for that still
\* exist, through every edit of accounts and groups beside each other.
THEOREM LimitsAlwaysFollow == Spec => []LimitsFollowGroups
<1>1. LimitInv => LimitsFollowGroups
  BY DEF LimitInv
<1>2. QED
  BY <1>1, InitLimits, SpecInv, LimitStep, PTL DEF Spec

LEMMA StrayStep ==
  IInv /\ LimitInv /\ StraysAreExplained /\ [Next]_vars => StraysAreExplained'
<1> SUFFICES ASSUME IInv, LimitInv, StraysAreExplained, [Next]_vars
             PROVE  StraysAreExplained'
  OBVIOUS
<1>1. CASE strayed' = strayed
  BY <1>1 DEF StraysAreExplained
<1>2. ASSUME NEW p \in Requests, NEW beyond \in BOOLEAN, NEW G \in SUBSET Groups,
             Send(p, beyond, G)
      PROVE  StraysAreExplained'
  <2> DEFINE u == req[p].who
             x == [stale |-> req[p].me # users[u], freed |-> Existing(given[u].limit) = {}]
             strays == /\ users[u].role = "sender" /\ given[u].limit # {}
                       /\ beyond \/ ~(G \subseteq given[u].limit)
  <2>1. u \in Accounts /\ req[p].me.state = "in"
    BY <1>2, OneRequest DEF Send, MayAct, At, LocalOf
  <2>2. strays => x.stale \/ x.freed
    <3>1. SUFFICES ASSUME strays, req[p].me = users[u]
                   PROVE  Existing(given[u].limit) = {}
      OBVIOUS
    <3>2. users[u].allowed = Existing(given[u].limit)
      BY <2>1, <3>1 DEF LimitInv, LimitsFollowGroups, In
    <3>3. CheckAllowed(users[u], beyond, G)
      BY <1>2, <3>1 DEF Send
    <3>4. Existing(given[u].limit) \subseteq given[u].limit
      BY DEF Existing
    <3>5. QED
      BY <3>1, <3>2, <3>3, <3>4 DEF CheckAllowed
  <2>3. strayed' = strayed \cup (IF strays THEN {x} ELSE {})
    BY <1>2 DEF Send
  <2> HIDE DEF strays, x
  <2>4. QED
    BY <2>2, <2>3 DEF StraysAreExplained
<1>3. ASSUME NEW p \in Requests, GroupStep(p) PROVE StraysAreExplained'
  BY <1>1, <1>2, <1>3 DEF GroupStep, CreateGroup, DeleteGroup, history
<1>4. ASSUME NEW p \in Requests, LoginStep(p) \/ AccountStep(p) \/ LookStep(p)
      PROVE  StraysAreExplained'
  BY <1>1, <1>4, Effects
<1>5. QED
  BY <1>1, <1>3, <1>4, NextCases
     DEF EndSession, Unlock, CountAges, Start, Stop, ResetPassword, history, vars

\* No alert leaves the limit of its sender but by a copy of the account that
\* is out of date or a limit of which no group is left.
THEOREM StraysAlwaysExplained == Spec => []StraysAreExplained
<1>1. Init => StraysAreExplained
  BY DEF Init, StraysAreExplained
<1>2. QED
  BY <1>1, InitLimits, SpecInv, LimitStep, StrayStep, PTL DEF Spec

-----------------------------------------------------------------------------
(* The administrator who remains can sign in *)

\* Whoever has been in the list has a password, is about to get one, or was
\* left without by a stop.
HashInv ==
  \A u \in Accounts : users[u].state # "new" =>
    users[u].hash # 0 \/ BeingHashed(u) \/ u \in cut

\* The request whose step it is does not leave the hashing.
LEMMA HashingStays ==
  ASSUME IInv, HashInv, NEW p \in Requests, req[p].pc # "hashing", Others(p),
         cut' = cut,
         \A u \in Accounts :
           \/ users'[u].state = users[u].state /\ users'[u].hash = users[u].hash
           \/ users'[u].state = "gone" /\ users[u].state # "new" /\ users'[u].hash = users[u].hash
           \/ users'[u].hash # 0
           \/ BeingHashed(u)'
  PROVE  HashInv'
<1>1. \A u \in Accounts : BeingHashed(u) => BeingHashed(u)'
  BY DEF BeingHashed, At, Others
<1>2. QED
  BY <1>1 DEF HashInv

LEMMA HashStep == IInv /\ HashInv /\ [Next]_vars => HashInv'
<1> SUFFICES ASSUME IInv, HashInv, [Next]_vars PROVE HashInv'
  OBVIOUS
<1>1. users \in [Accounts -> UserType] /\ passwords \in Nat
  BY Parts, AccountsAssumption DEF UserPart
<1>2. CASE UNCHANGED <<users, req, cut>>
  BY <1>2 DEF HashInv, BeingHashed, At
<1>3. ASSUME NEW p \in Requests, AccountStep(p) PROVE HashInv'
  <2>1. Others(p) /\ cut' = cut
    BY <1>3, Effects, OthersStay
  <2>2. req \in [Requests -> RequestType]
    BY DEF IInv, TypeOK
  <2>3. ASSUME NEW u \in Accounts, NEW form \in Forms,
               CreateUser(p, u, form) \/ EditUser(p, u, form)
        PROVE  HashInv'
    <3>1. req[p].pc # "hashing"
      BY <2>3 DEF CreateUser, EditUser, MayManage, MayAct, At
    <3>2. PICK r \in UserType : users' = [users EXCEPT ![u] = Filled(r, form)]
                                /\ ((r = users[u] /\ In(u)) \/ CreateUser(p, u, form))
      BY <1>1, <2>3, RecordFacts DEF CreateUser, EditUser
    <3>3. \A v \in Accounts \ {u} : users'[v] = users[v]
      BY <1>1, <3>2
    <3>4. users'[u].state = "in" /\ users'[u].hash = r.hash
      BY <1>1, <3>2 DEF Filled, UserType
    <3>5. CASE CreateUser(p, u, form)
      <4>1. req'[p].pc = "hashing" /\ req'[p].on = u
        BY <2>2, <3>5 DEF CreateUser, RequestType
      <4>2. BeingHashed(u)'
        BY <4>1 DEF BeingHashed, At
      <4>3. QED
        BY <2>1, <3>1, <3>3, <4>2, HashingStays
    <3>6. CASE r = users[u] /\ In(u)
      BY <2>1, <3>1, <3>3, <3>4, <3>6, HashingStays DEF In
    <3>7. QED
      BY <3>2, <3>5, <3>6
  <2>4. ASSUME NEW u \in Accounts, DeleteUser(p, u) PROVE HashInv'
    <3>1. req[p].pc # "hashing" /\ users' = [users EXCEPT ![u].state = "gone"] /\ In(u)
      BY <2>4 DEF DeleteUser, MayManage, MayAct, At
    <3>2. /\ users'[u].state = "gone" /\ users'[u].hash = users[u].hash
          /\ users[u].state # "new"
      BY <1>1, <3>1 DEF UserType, In
    <3>3. \A v \in Accounts \ {u} : users'[v] = users[v]
      BY <1>1, <3>1
    <3>4. QED
      BY <2>1, <3>1, <3>2, <3>3, HashingStays
  <2>5. CASE StoreHash(p)
    <3> DEFINE u == req[p].on
    <3>1. u \in Accounts
      BY <2>5, OneRequest DEF StoreHash, At, LocalOf
    <3>2. users'[u].hash = passwords + 1
      BY <1>1, <2>5, <3>1 DEF StoreHash, UserType
    <3>3. \A v \in Accounts \ {u} : users'[v] = users[v]
      BY <1>1, <2>5 DEF StoreHash
    <3>4. \A v \in Accounts \ {u} : BeingHashed(v) => BeingHashed(v)'
      BY <2>1 DEF BeingHashed, At, Others
    <3>5. users'[u].hash # 0
      BY <1>1, <3>2
    <3>6. ASSUME NEW v \in Accounts, users'[v].state # "new"
          PROVE  users'[v].hash # 0 \/ BeingHashed(v)' \/ v \in cut'
      <4>1. CASE v = u
        BY <3>5, <4>1
      <4>2. CASE v # u
        BY <2>1, <3>3, <3>4, <3>6, <4>2 DEF HashInv
      <4>3. QED
        BY <4>1, <4>2
    <3>7. QED
      BY <3>6 DEF HashInv
  <2>6. CASE ChangeOwn(p)
    <3>1. req[p].pc # "hashing"
      BY <2>6 DEF ChangeOwn, At
    <3>2. \A v \in Accounts : users'[v].hash = passwords + 1 \/ users'[v] = users[v]
      BY <1>1, <2>6 DEF ChangeOwn, UserType
    <3>3. \A v \in Accounts : users'[v].hash # 0 \/ users'[v] = users[v]
      BY <1>1, <3>2
    <3>4. QED
      BY <2>1, <3>1, <3>3, HashingStays
  <2>7. CASE DropUser(p) \/ ProveOwn(p)
    BY <2>1, <2>7, HashingStays DEF DropUser, ProveOwn, At
  <2>8. QED
    BY <1>3, <2>3, <2>4, <2>5, <2>6, <2>7 DEF AccountStep
<1>4. ASSUME NEW p \in Requests, LoginStep(p) \/ GroupStep(p) \/ LookStep(p)
      PROVE  HashInv'
  <2>1. req[p].pc # "hashing" /\ cut' = cut /\ Others(p)
    BY <1>4, Effects, OthersStay
  <2>2. \A u \in Accounts : /\ users'[u].state = users[u].state
                            /\ users'[u].hash = users[u].hash
    <3>1. ASSUME NEW g \in Groups, DeleteGroup(p, g), NEW u \in Accounts
          PROVE  users'[u].state = users[u].state /\ users'[u].hash = users[u].hash
      BY <1>1, <3>1 DEF DeleteGroup, UserType
    <3>2. LoginStep(p) \/ LookStep(p) => users' = users
      BY Effects
    <3>3. QED
      BY <1>4, <3>1, <3>2 DEF GroupStep, CreateGroup, Send
  <2>3. QED
    BY <2>1, <2>2, HashingStays
<1>5. CASE Start
  <2>1. req' = req /\ cut' = cut
    BY <1>5 DEF Start
  <2>2. \A u \in Accounts : BeingHashed(u) => BeingHashed(u)'
    BY <2>1 DEF BeingHashed, At
  <2>3. \A u \in Accounts : users'[u] = users[u] \/ users'[u].hash = passwords + 1
    <3>1. CASE users' = users
      BY <3>1
    <3>2. CASE users' # users
      <4>1. PICK u \in Accounts : users' = [users EXCEPT ![u] =
               [NoUser EXCEPT !.state = "in", !.role = "admin",
                              !.hash = passwords + 1, !.must = TRUE]]
        BY <1>5, <3>2 DEF Start
      <4>2. [NoUser EXCEPT !.state = "in", !.role = "admin",
                           !.hash = passwords + 1, !.must = TRUE].hash = passwords + 1
        BY DEF NoUser
      <4>3. QED
        BY <1>1, <4>1, <4>2
    <3>3. QED
      BY <3>1, <3>2
  <2>4. \A u \in Accounts : users'[u] = users[u] \/ users'[u].hash # 0
    BY <1>1, <2>3
  <2>5. QED
    BY <2>1, <2>2, <2>4 DEF HashInv
<1>6. CASE Stop
  <2>1. \A u \in Accounts : BeingHashed(u) => u \in cut'
    BY <1>6 DEF Stop, BeingHashed, At
  <2>2. users' = users /\ cut \subseteq cut'
    BY <1>6 DEF Stop
  <2>3. QED
    BY <2>1, <2>2 DEF HashInv
<1>7. ASSUME NEW u \in Accounts, ResetPassword(u) PROVE HashInv'
  <2>1. \A v \in Accounts : users'[v] = users[v] \/ users'[v].hash = passwords + 1
    BY <1>1, <1>7 DEF ResetPassword, UserType
  <2>2. \A v \in Accounts : users'[v] = users[v] \/ users'[v].hash # 0
    BY <1>1, <2>1
  <2>3. req' = req /\ cut' = cut
    BY <1>7 DEF ResetPassword
  <2>4. QED
    BY <2>2, <2>3 DEF HashInv, BeingHashed, At
<1>8. QED
  BY <1>2, <1>3, <1>4, <1>5, <1>6, <1>7, NextCases
     DEF EndSession, Unlock, CountAges, history, vars

\* The administrator who remains has a password, is being given one, or was
\* left without by a stop at that moment.
THEOREM AdminAlwaysHasPassword == Spec => []AdminHasPassword
<1>1. Init => AdminInv /\ HashInv
  BY DEF Init, AdminInv, HashInv, In, NoUser
<1>2. AdminInv /\ HashInv => AdminHasPassword
  BY DEF AdminInv, HashInv, AdminHasPassword, Admins, In
<1>3. QED
  BY <1>1, <1>2, SpecInv, AdminStep, HashStep, PTL DEF Spec

-----------------------------------------------------------------------------
(* A lock holds *)

LockInv == LockKeepsOut

\* A step of a request after which it tries no key that it did not try
\* before, and that locks none.
LEMMA LockStays ==
  ASSUME LockInv, NEW p \in Requests, Others(p),
         NEW k \in Keys, throttle'[k].locked => throttle[k].locked,
         late'[k] = late[k] \/ (late'[k] = late[k] \ {p} /\ p \notin Trying(k)'),
         p \in Trying(k)' => p \in Trying(k) \/ ~throttle'[k].locked
  PROVE  throttle'[k].locked => Trying(k)' \subseteq late'[k]
<1>1. \A q \in Requests \ {p} : q \in Trying(k)' => q \in Trying(k)
  BY DEF Trying, Others, At
<1>2. Trying(k)' \subseteq Requests
  BY DEF Trying
<1>3. throttle[k].locked => Trying(k) \subseteq late[k]
  BY DEF LockInv, LockKeepsOut
<1>4. QED
  BY <1>1, <1>2, <1>3

LEMMA KeyLists ==
  \A a, b, k : /\ Has(<<a, b>>, k) <=> k \in {a, b}
               /\ Has(<<b>>, k) <=> k = b
               /\ ~Has(<<>>, k)
<1> TAKE a, b, k
<1>1. DOMAIN <<a, b>> = {1, 2} /\ DOMAIN <<b>> = {1} /\ DOMAIN <<>> = {}
  OBVIOUS
<1>2. <<a, b>>[1] = a /\ <<a, b>>[2] = b /\ <<b>>[1] = b
  OBVIOUS
<1>3. QED
  BY <1>1, <1>2 DEF Has

LEMMA CheckKeyLock ==
  ASSUME IInv, LockInv, NEW p \in Requests, CheckKey(p) PROVE LockInv'
<1>1. /\ req[p].pc = "check" /\ req[p] \in RequestType /\ LocalOf(req[p])
      /\ UNCHANGED <<throttle, late>>
  BY OneRequest DEF CheckKey, At, history
<1>2. Others(p)
  BY OthersStay DEF LoginStep
<1>3. req \in [Requests -> RequestType]
  BY DEF IInv, TypeOK
<1>4. SUFFICES ASSUME NEW k \in Keys, throttle[k].locked, p \in Trying(k)'
               PROVE  p \in Trying(k)
  <2>1. \A k \in Keys : throttle'[k].locked => Trying(k)' \subseteq late'[k]
    BY <1>1, <1>2, <1>4, LockStays
  <2>2. QED
    BY <2>1 DEF LockInv, LockKeepsOut
<1>5. ~Answer(p)
  BY <1>3, <1>4 DEF Answer, Rest, Trying, At
<1>6. ~throttle[Head(req[p].todo)].locked /\ NextKey(p, "read")
  BY <1>5 DEF CheckKey
<1>7. PICK ip \in Addresses, n \in Names :
        /\ req[p].keys = <<ip, n>>
        /\ \/ /\ req[p].todo = <<ip, n>>
              /\ req' = [req EXCEPT ![p] = [req[p] EXCEPT !.todo = <<n>>]]
           \/ /\ req[p].todo = <<n>>
              /\ req' = [req EXCEPT ![p] = [req[p] EXCEPT !.todo = <<>>, !.pc = "read"]]
  BY <1>1, <1>6, NextKeySteps
<1>8. req'[p].keys = <<ip, n>> /\ k \in {ip, n} /\ ip # n
  <2>1. req'[p].keys = <<ip, n>>
    BY <1>1, <1>3, <1>7 DEF RequestType
  <2>2. k \in {ip, n}
    <3>1. Has(<<ip, n>>, k)
      BY <1>4, <2>1 DEF Trying
    <3>2. QED
      BY <3>1, KeyLists
  <2>3. QED
    BY <2>1, <2>2, AccountsAssumption
<1>9. CASE /\ req[p].todo = <<ip, n>>
           /\ req' = [req EXCEPT ![p] = [req[p] EXCEPT !.todo = <<n>>]]
  <2>1. k # ip
    BY <1>4, <1>6, <1>9, KeyListFacts
  <2>2. req'[p].todo = <<n>> /\ req'[p].pc = "check"
    BY <1>1, <1>3, <1>9 DEF RequestType
  <2>3. ~Has(<<n>>, k)
    BY <1>4, <2>2 DEF Trying, At
  <2>4. QED
    BY <1>8, <2>1, <2>3, KeyLists
<1>10. CASE /\ req[p].todo = <<n>>
            /\ req' = [req EXCEPT ![p] = [req[p] EXCEPT !.todo = <<>>, !.pc = "read"]]
  <2>1. k # n
    BY <1>4, <1>6, <1>10, KeyListFacts
  <2>2. Has(<<ip, n>>, k) /\ ~Has(<<n>>, k)
    BY <1>8, <2>1, KeyLists
  <2>3. QED
    BY <1>1, <1>7, <1>10, <2>2 DEF Trying, At
<1>11. QED
  BY <1>7, <1>9, <1>10

LEMMA CountFailureLock ==
  ASSUME IInv, LockInv, NEW p \in Requests, CountFailure(p) PROVE LockInv'
<1> DEFINE h == Head(req[p].todo)
           a == IF throttle[h].old THEN NoAttempts ELSE throttle[h]
           locks == a.fails + 1 >= MaxFails
<1>1. Others(p) /\ req[p].pc = "fail" /\ req[p] \in RequestType /\ LocalOf(req[p])
  BY OthersStay, OneRequest DEF LoginStep, CountFailure, At
<1>2. h \in Keys
  BY <1>1, KeyListFacts DEF LocalOf, Keys
<1>3. throttle \in [Keys -> [fails : 0..(MaxFails - 1), locked : BOOLEAN, old : BOOLEAN]]
      /\ late \in [Keys -> SUBSET Requests]
  BY Parts DEF ThrottlePart
<1>4. req'[p].pc \in {"idle", "fail"}
  <2>1. req \in [Requests -> RequestType]
    BY DEF IInv, TypeOK
  <2>2. CASE Answer(p)
    BY <2>1, <2>2 DEF Answer, Rest
  <2>3. CASE NextKey(p, "fail")
    <3>1. PICK ip \in Addresses, n \in Names :
            \/ req' = [req EXCEPT ![p] = [req[p] EXCEPT !.todo = <<n>>]]
            \/ req' = [req EXCEPT ![p] = [req[p] EXCEPT !.todo = <<>>, !.pc = "fail"]]
      BY <1>1, <2>3, NextKeyMoves
    <3>2. QED
      BY <1>1, <2>1, <3>1 DEF RequestType
  <2>4. QED
    BY <2>2, <2>3 DEF CountFailure
<1>5. \A k \in Keys : Trying(k)' \subseteq Trying(k)
  BY <1>1, <1>4 DEF Trying, Others, At
<1>6. /\ throttle' = [throttle EXCEPT ![h] =
             IF locks THEN [fails |-> 0, locked |-> TRUE, old |-> FALSE]
                      ELSE [a EXCEPT !.fails = @ + 1]]
      /\ late' = IF locks THEN [late EXCEPT ![h] = Trying(h)] ELSE late
  BY DEF CountFailure
<1>7. [a EXCEPT !.fails = @ + 1].locked => throttle[h].locked
  <2>1. throttle[h] \in [fails : 0..(MaxFails - 1), locked : BOOLEAN, old : BOOLEAN]
    BY <1>2, <1>3
  <2>2. QED
    BY <2>1 DEF NoAttempts
<1> HIDE DEF h, a, locks
<1>8. ASSUME NEW k \in Keys, throttle'[k].locked
      PROVE  Trying(k)' \subseteq late'[k]
  <2>1. CASE k = h /\ locks
    BY <1>2, <1>3, <1>5, <1>6, <2>1
  <2>2. CASE k = h /\ ~locks
    <3>1. throttle[h].locked
      BY <1>2, <1>3, <1>6, <1>7, <1>8, <2>2
    <3>2. QED
      BY <1>2, <1>5, <1>6, <2>2, <3>1 DEF LockInv, LockKeepsOut
  <2>3. CASE k # h
    <3>1. throttle[k].locked /\ late'[k] = late[k]
      BY <1>2, <1>3, <1>6, <1>8, <2>3
    <3>2. QED
      BY <1>5, <3>1 DEF LockInv, LockKeepsOut
  <2>4. QED
    BY <2>1, <2>2, <2>3
<1>9. QED
  BY <1>8 DEF LockInv, LockKeepsOut

LEMMA LockStep == IInv /\ LockInv /\ [Next]_vars => LockInv'
<1> SUFFICES ASSUME IInv, LockInv, [Next]_vars PROVE LockInv'
  OBVIOUS
<1>1. req \in [Requests -> RequestType]
  BY DEF IInv, TypeOK
<1>2. throttle \in [Keys -> [fails : 0..(MaxFails - 1), locked : BOOLEAN, old : BOOLEAN]]
      /\ late \in [Keys -> SUBSET Requests]
  BY Parts DEF ThrottlePart
<1>3. CASE UNCHANGED <<req, throttle, late>>
  BY <1>3 DEF LockInv, LockKeepsOut, Trying, At
\* A request that begins tries no key yet.
<1>4. ASSUME NEW p \in Requests, NEW r, Begin(p, r), throttle' = throttle, Others(p),
             \A k \in Keys : p \notin Trying(k)'
      PROVE  LockInv'
  <2>1. \A k \in Keys : late'[k] = late[k] \ {p}
    BY <1>4 DEF Begin
  <2>2. \A k \in Keys : throttle'[k].locked => Trying(k)' \subseteq late'[k]
    BY <1>4, <2>1, LockStays
  <2>3. QED
    BY <2>2 DEF LockInv, LockKeepsOut
\* A request that goes where no key is tried.
<1>5. ASSUME NEW p \in Requests, Others(p), UNCHANGED late,
             \A k \in Keys : throttle'[k].locked => throttle[k].locked,
             req'[p].pc \notin {"check", "read", "verify"}
      PROVE  LockInv'
  <2>1. \A k \in Keys : p \notin Trying(k)'
    BY <1>5 DEF Trying, At
  <2>2. \A k \in Keys : throttle'[k].locked => Trying(k)' \subseteq late'[k]
    BY <1>5, <2>1, LockStays
  <2>3. QED
    BY <2>2 DEF LockInv, LockKeepsOut
<1>6. ASSUME NEW p \in Requests, NEW ip \in Addresses, NEW n \in Names, NEW w,
             SignIn(p, ip, n, w)
      PROVE  LockInv'
  <2> DEFINE r == [Rest EXCEPT !.pc = "check", !.who = Holder[n], !.tried = w,
                               !.keys = <<ip, n>>, !.todo = <<ip, n>>]
  <2>1. Begin(p, r) /\ throttle' = throttle
    BY <1>6 DEF SignIn
  <2>2. req'[p] = r /\ Others(p)
    BY <1>1, <2>1 DEF Begin, Others
  <2>3. r.pc = "check" /\ r.keys = <<ip, n>> /\ r.todo = <<ip, n>>
    BY DEF Rest
  <2> HIDE DEF r
  <2>4. ASSUME NEW k \in Keys, p \in Trying(k)' PROVE FALSE
    <3>1. Has(<<ip, n>>, k) /\ ~Has(<<ip, n>>, k)
      BY <2>2, <2>3, <2>4 DEF Trying, At
    <3>2. QED
      BY <3>1
  <2>5. QED
    BY <1>4, <2>1, <2>2, <2>4
<1>7. ASSUME NEW p \in Requests, LoginStep(p) PROVE LockInv'
  <2>1. Others(p)
    BY <1>7, OthersStay
  <2>2. CASE ReadHash(p) \/ Verify(p)
    <3>1. /\ UNCHANGED <<throttle, late>> /\ req[p].pc \in {"read", "verify"}
          /\ req'[p].pc \in {"verify", "clear", "fail"} /\ req'[p].keys = req[p].keys
      BY <1>1, <2>2 DEF ReadHash, Verify, At, history, RequestType
    <3>2. \A k \in Keys : p \in Trying(k)' => p \in Trying(k)
      BY <3>1 DEF Trying, At
    <3>3. \A k \in Keys : throttle'[k].locked => Trying(k)' \subseteq late'[k]
      BY <2>1, <3>1, <3>2, LockStays
    <3>4. QED
      BY <3>3 DEF LockInv, LockKeepsOut
  <2>3. CASE ClearKey(p)
    <3>1. req'[p].pc \in {"clear", "create"}
      <4>1. req[p] \in RequestType /\ req[p].pc = "clear" /\ NextKey(p, "create")
        BY <1>1, <2>3 DEF ClearKey, At
      <4>2. PICK ip \in Addresses, n \in Names :
              \/ req' = [req EXCEPT ![p] = [req[p] EXCEPT !.todo = <<n>>]]
              \/ req' = [req EXCEPT ![p] = [req[p] EXCEPT !.todo = <<>>, !.pc = "create"]]
        BY <4>1, NextKeyMoves
      <4>3. QED
        BY <1>1, <4>1, <4>2 DEF RequestType
    <3>2. \A k \in Keys : throttle'[k].locked => throttle[k].locked
      BY <1>2, <2>3 DEF ClearKey, NoAttempts
    <3>3. UNCHANGED late
      BY <2>3 DEF ClearKey, history
    <3>4. QED
      BY <1>5, <2>1, <3>1, <3>2, <3>3
  <2>4. ASSUME NEW s \in Sids, CreateSession(p, s) PROVE LockInv'
    <3>1. req'[p].pc = "idle"
      BY <1>1, <2>4 DEF CreateSession, Answer, Rest
    <3>2. QED
      BY <1>5, <2>1, <2>4, <3>1 DEF CreateSession
  <2>5. QED
    BY <1>6, <1>7, <2>2, <2>3, <2>4, CheckKeyLock, CountFailureLock DEF LoginStep
<1>8. ASSUME NEW p \in Requests, AccountStep(p) \/ GroupStep(p) PROVE LockInv'
  <2>1. /\ Others(p) /\ UNCHANGED <<throttle, late>>
        /\ req'[p].pc \in {"idle", "hashing", "drop", "rehash"}
    BY <1>8, Effects, OthersStay
  <2>2. QED
    BY <1>5, <2>1
<1>9. ASSUME NEW p \in Requests, LookStep(p) PROVE LockInv'
  <2>1. Others(p) /\ throttle' = throttle /\ req'[p].pc \in {"idle", "copy", "act"}
    BY <1>9, Effects, OthersStay
  <2>2. \A k \in Keys : p \notin Trying(k)'
    BY <2>1 DEF Trying, At
  <2>3. ASSUME NEW s \in Sids, Lookup(p, s) PROVE LockInv'
    BY <1>4, <2>1, <2>2, <2>3 DEF Lookup
  <2>4. CASE UNCHANGED late
    BY <1>5, <2>1, <2>4
  <2>5. QED
    BY <1>9, <2>3, <2>4 DEF LookStep, CopyUser, Decline, history
<1>10. ASSUME NEW k \in Keys, Unlock(k) \/ CountAges(k) PROVE LockInv'
  <2>1. \A j \in Keys : throttle'[j].locked => throttle[j].locked
    BY <1>2, <1>10 DEF Unlock, CountAges
  <2>2. UNCHANGED <<req, late>>
    BY <1>10 DEF Unlock, CountAges, history
  <2>3. QED
    BY <2>1, <2>2 DEF LockInv, LockKeepsOut, Trying, At
<1>11. CASE Stop
  <2>1. \A k \in Keys : ~throttle'[k].locked
    BY <1>11 DEF Stop, NoAttempts
  <2>2. QED
    BY <2>1 DEF LockInv, LockKeepsOut
<1>12. QED
  BY <1>3, <1>7, <1>8, <1>9, <1>10, <1>11, NextCases
     DEF EndSession, Start, ResetPassword, history, vars

\* While a key, a name as typed or an address, is locked no password is tried
\* with it but by requests that were past its check when it was locked.
THEOREM LockAlwaysKeepsOut == Spec => []LockKeepsOut
<1>1. Init => LockInv
  BY DEF Init, LockInv, LockKeepsOut, NoAttempts
<1>2. LockInv => LockKeepsOut
  BY DEF LockInv
<1>3. QED
  BY <1>1, <1>2, SpecInv, LockStep, PTL DEF Spec

-----------------------------------------------------------------------------
(* Sessions end with what opened them *)

\* A step that opens no session, and after which an account allows what it
\* allowed before or a request will sign it out.
LEMMA SignedOutStays ==
  ASSUME IInv, LiveOnes, SignedOut, opened' = opened,
         \A s \in Sids : sessions'[s] = sessions[s] \/ sessions'[s].state = "gone",
         \A u \in Accounts :
           \/ SignOutComes(u)'
           \/ /\ SignOutComes(u) => SignOutComes(u)'
              /\ In(u) => In(u)'
              /\ ~users[u].disabled => ~users'[u].disabled
              /\ given'[u].password = given[u].password
  PROVE  SignedOut'
<1>1. ASSUME NEW s \in Sids, Live(s)', NEW u, u = sessions'[s].user,
             NEW w, w = opened'[s].with
      PROVE  Fit(u, w)' \/ SignOutComes(u)' \/ opened'[s].raced
  <2>1. sessions'[s] = sessions[s] /\ Live(s)
    BY <1>1 DEF Live
  <2>2. u \in Accounts
    BY <1>1, <2>1 DEF LiveOnes
  <2>3. Fit(u, w) \/ SignOutComes(u) \/ opened[s].raced
    BY <1>1, <2>1 DEF SignedOut
  <2>4. Fit(u, w) => Fit(u, w)' \/ SignOutComes(u)'
    BY <2>2 DEF Fit
  <2>5. SignOutComes(u) => SignOutComes(u)'
    BY <2>2
  <2>6. QED
    BY <2>3, <2>4, <2>5
<1>2. QED
  BY <1>1 DEF SignedOut, Fit, SignOutComes, Live, In, At

LEMMA OpenedWell ==
  ASSUME IInv, LiveOnes, SignedOut, NEW p \in Requests, NEW t \in Sids,
         CreateSession(p, t)
  PROVE  SignedOut'
<1>1. /\ sessions' = [sessions EXCEPT ![t] = [state |-> "live", user |-> req[p].who]]
      /\ opened' = [opened EXCEPT ![t] =
           [with |-> req[p].tried, raced |-> ~Fit(req[p].who, req[p].tried)]]
      /\ UNCHANGED <<users, given>>
  BY DEF CreateSession
<1>2. Others(p) /\ req[p].pc = "create"
  BY OthersStay DEF LoginStep, CreateSession, At
<1>3. \A u : SignOutComes(u) => SignOutComes(u)'
  BY <1>2 DEF SignOutComes, Others
<1>4. \A u, w : Fit(u, w) => Fit(u, w)'
  BY <1>1 DEF Fit, In
<1>5. ASSUME NEW s \in Sids, Live(s)', NEW u, u = sessions'[s].user,
             NEW w, w = opened'[s].with
      PROVE  Fit(u, w)' \/ SignOutComes(u)' \/ opened'[s].raced
  <2>1. CASE s = t
    <3>1. u = req[p].who /\ w = req[p].tried /\ opened'[s].raced = ~Fit(u, w)
      BY <1>1, <1>5, <2>1, Parts DEF SessionPart
    <3>2. QED
      BY <1>4, <3>1
  <2>2. CASE s # t
    <3>1. sessions'[s] = sessions[s] /\ opened'[s] = opened[s]
      BY <1>1, <2>2, Parts DEF SessionPart
    <3>2. Fit(u, w) \/ SignOutComes(u) \/ opened[s].raced
      BY <1>5, <3>1 DEF SignedOut, Live
    <3>3. QED
      BY <1>3, <1>4, <3>1, <3>2
  <2>3. QED
    BY <2>1, <2>2
<1>6. QED
  BY <1>5 DEF SignedOut, Fit, SignOutComes, Live, In, At

\* When a request has dropped the sessions of its account, none is left.
LEMMA DroppedWell ==
  ASSUME IInv, LiveOnes, SignedOut, NEW p \in Requests, DropUser(p)
  PROVE  SignedOut'
<1>1. /\ sessions' = [s \in Sids |-> IF Live(s) /\ sessions[s].user = req[p].on
                                       THEN Gone(s) ELSE sessions[s]]
      /\ UNCHANGED <<users, given, opened>>
  BY DEF DropUser, history
<1>2. Others(p)
  BY OthersStay DEF AccountStep
<1>3. \A s \in Sids : Gone(s).state = "gone"
  BY Parts DEF Gone, SessionPart
<1>4. ASSUME NEW s \in Sids, Live(s)', NEW u, u = sessions'[s].user,
             NEW w, w = opened'[s].with
      PROVE  Fit(u, w)' \/ SignOutComes(u)' \/ opened'[s].raced
  <2>1. sessions'[s] = sessions[s] /\ Live(s) /\ u # req[p].on
    BY <1>1, <1>3, <1>4 DEF Live
  <2>2. Fit(u, w) \/ SignOutComes(u) \/ opened[s].raced
    BY <1>1, <1>4, <2>1 DEF SignedOut
  <2>3. SignOutComes(u) => SignOutComes(u)'
    BY <1>2, <2>1 DEF SignOutComes, Others
  <2>4. Fit(u, w) => Fit(u, w)'
    BY <1>1 DEF Fit, In
  <2>5. QED
    BY <1>1, <2>2, <2>3, <2>4
<1>5. QED
  BY <1>4 DEF SignedOut, Fit, SignOutComes, Live, In, At

LEMMA SignedOutStep ==
  IInv /\ LiveOnes /\ SignedOut /\ [Next]_vars => SignedOut'
<1> SUFFICES ASSUME IInv, LiveOnes, SignedOut, [Next]_vars PROVE SignedOut'
  OBVIOUS
<1>1. /\ users \in [Accounts -> UserType]
      /\ given \in [Accounts -> [limit : SUBSET Groups, password : Nat]]
      /\ req \in [Requests -> RequestType]
  BY Parts DEF UserPart, ReqPart
<1>2. \A s \in Sids : Gone(s).state = "gone"
  BY Parts DEF Gone, SessionPart
\* A request that signs nobody out does something else.
<1>3. ASSUME NEW p \in Requests, Others(p), req[p].pc \notin {"hashing", "drop"},
             UNCHANGED <<users, given, sessions, opened>>
      PROVE  SignedOut'
  <2>1. \A u : SignOutComes(u) => SignOutComes(u)'
    BY <1>3 DEF SignOutComes, Others
  <2>2. QED
    BY <1>3, <2>1, SignedOutStays DEF In
<1>4. ASSUME NEW p \in Requests, LoginStep(p) PROVE SignedOut'
  <2>1. Others(p) /\ req[p].pc \notin {"hashing", "drop"} /\ UNCHANGED <<users, given>>
    BY <1>4, Effects, OthersStay
  <2>2. CASE UNCHANGED <<sessions, opened>>
    BY <1>3, <2>1, <2>2
  <2>3. QED
    BY <1>4, <2>2, OpenedWell DEF LoginStep, SignIn, CheckKey, ReadHash, Verify,
       CountFailure, ClearKey, history
<1>5. ASSUME NEW p \in Requests, GroupStep(p) PROVE SignedOut'
  <2>1. /\ Others(p) /\ req[p].pc = "act"
        /\ UNCHANGED <<given, sessions, opened>>
    BY <1>5, Effects, OthersStay
  <2>2. \A u : SignOutComes(u) => SignOutComes(u)'
    BY <2>1 DEF SignOutComes, Others
  <2>3. \A u \in Accounts : /\ users'[u].state = users[u].state
                            /\ users'[u].disabled = users[u].disabled
    <3>1. ASSUME NEW g \in Groups, DeleteGroup(p, g), NEW u \in Accounts
          PROVE  users'[u].state = users[u].state /\ users'[u].disabled = users[u].disabled
      BY <1>1, <3>1 DEF DeleteGroup, UserType
    <3>2. QED
      BY <1>5, <3>1 DEF GroupStep, CreateGroup, Send
  <2>4. QED
    BY <2>1, <2>2, <2>3, SignedOutStays DEF In
<1>6. ASSUME NEW p \in Requests, LookStep(p) PROVE SignedOut'
  BY <1>3, <1>6, Effects, OthersStay
<1>7. ASSUME NEW p \in Requests, AccountStep(p) PROVE SignedOut'
  <2>1. Others(p) /\ opened' = opened
    BY <1>7, Effects, OthersStay
  <2>2. ASSUME NEW u \in Accounts, NEW l \in {"hashing", "drop"},
               req' = [req EXCEPT ![p].pc = l, ![p].on = u]
        PROVE  SignOutComes(u)'
    BY <1>1, <2>2 DEF SignOutComes, RequestType
  <2>3. ASSUME req[p].pc = "act"
        PROVE  \A v : SignOutComes(v) => SignOutComes(v)'
    BY <2>1, <2>3 DEF SignOutComes, Others
  <2>4. ASSUME NEW u \in Accounts, NEW form \in Forms,
               CreateUser(p, u, form) \/ EditUser(p, u, form)
        PROVE  SignedOut'
    <3>1. PICK r \in UserType : users' = [users EXCEPT ![u] = Filled(r, form)]
      BY <1>1, <2>4, RecordFacts DEF CreateUser, EditUser
    <3>2. given' = [given EXCEPT ![u].limit = {g \in form.allowed : groups[g] # "new"}]
      BY <2>4 DEF CreateUser, EditUser, Asked
    <3>3. \A v \in Accounts : /\ v # u => users'[v] = users[v]
                              /\ given'[v].password = given[v].password
      BY <1>1, <3>1, <3>2
    <3>4. /\ users'[u].state = "in" /\ users'[u].disabled = form.disabled
      BY <1>1, <3>1 DEF Filled, UserType
    <3>5. SignOutComes(u)' \/ ~form.disabled
      BY <2>2, <2>4 DEF CreateUser, EditUser
    <3>6. req[p].pc = "act" /\ sessions' = sessions
      BY <2>4 DEF CreateUser, EditUser, MayManage, MayAct, At
    <3>7. \A v \in Accounts :
            \/ SignOutComes(v)'
            \/ /\ In(v) => In(v)'
               /\ ~users[v].disabled => ~users'[v].disabled
      BY <3>3, <3>4, <3>5 DEF In
    <3>8. QED
      BY <2>1, <2>3, <3>3, <3>6, <3>7, SignedOutStays
  <2>5. ASSUME NEW u \in Accounts, DeleteUser(p, u) PROVE SignedOut'
    <3>1. /\ users' = [users EXCEPT ![u].state = "gone"] /\ given' = given
          /\ req[p].pc = "act" /\ sessions' = sessions
      BY <2>5 DEF DeleteUser, MayManage, MayAct, At, history
    <3>2. SignOutComes(u)'
      BY <2>2, <2>5 DEF DeleteUser
    <3>3. \A v \in Accounts \ {u} : users'[v] = users[v]
      BY <1>1, <3>1
    <3>4. QED
      BY <2>1, <2>3, <3>1, <3>2, <3>3, SignedOutStays DEF In
  <2>6. CASE StoreHash(p)
    <3> DEFINE u == req[p].on
    <3>1. u \in Accounts /\ req[p].pc = "hashing"
      BY <2>6, OneRequest DEF StoreHash, At, LocalOf
    <3>2. req' = [req EXCEPT ![p] = [req[p] EXCEPT !.pc = "drop"]]
      BY <2>6 DEF StoreHash, Goto
    <3>3. req'[p].pc = "drop" /\ req'[p].on = req[p].on
      BY <1>1, <3>2 DEF RequestType
    <3>4. \A v : SignOutComes(v) => SignOutComes(v)'
      BY <2>1, <3>1, <3>3 DEF SignOutComes, Others
    <3>5. \A v : v = req[p].on => SignOutComes(v)'
      BY <3>3 DEF SignOutComes
    <3>6. \A v \in Accounts : v # req[p].on =>
            users'[v] = users[v] /\ given'[v] = given[v]
      BY <1>1, <2>6 DEF StoreHash
    <3>7. sessions' = sessions
      BY <2>6 DEF StoreHash
    <3>8. QED
      BY <2>1, <3>4, <3>5, <3>6, <3>7, SignedOutStays DEF In
  <2>7. CASE ChangeOwn(p)
    <3>1. /\ UNCHANGED <<sessions, given>> /\ req[p].pc = "rehash"
      BY <2>7 DEF ChangeOwn, At, history
    <3>2. \A v : SignOutComes(v) => SignOutComes(v)'
      BY <2>1, <3>1 DEF SignOutComes, Others
    <3>3. \A v \in Accounts : /\ users'[v].state = users[v].state
                              /\ users'[v].disabled = users[v].disabled
      BY <1>1, <2>7 DEF ChangeOwn, UserType
    <3>4. QED
      BY <2>1, <3>1, <3>2, <3>3, SignedOutStays DEF In
  <2>8. CASE ProveOwn(p)
    BY <1>3, <2>1, <2>8 DEF ProveOwn, At, history
  <2>9. QED
    BY <1>7, <2>4, <2>5, <2>6, <2>7, <2>8, DroppedWell DEF AccountStep
<1>8. ASSUME NEW t \in Sids, EndSession(t) PROVE SignedOut'
  <2>1. UNCHANGED <<users, given, opened, req>>
    BY <1>8 DEF EndSession, history
  <2>2. \A s \in Sids : sessions'[s] = sessions[s] \/ sessions'[s].state = "gone"
    BY <1>2, <1>8, Parts DEF EndSession, SessionPart
  <2>3. \A u : SignOutComes(u) => SignOutComes(u)'
    BY <2>1 DEF SignOutComes
  <2>4. QED
    BY <2>1, <2>2, <2>3, SignedOutStays DEF In
\* Before a start and after a stop there are no sessions.
<1>9. CASE Start \/ \E u \in Accounts : ResetPassword(u)
  <2>1. ~running /\ sessions' = sessions
    BY <1>9 DEF Start, ResetPassword
  <2>2. QED
    BY <2>1 DEF LiveOnes, SignedOut, Live
<1>10. CASE Stop
  BY <1>2, <1>10 DEF Stop, SignedOut, Live
<1>11. CASE UNCHANGED <<users, given, opened, req, sessions>>
  BY <1>11 DEF SignedOut, Fit, SignOutComes, Live, In
<1>12. QED
  BY <1>4, <1>5, <1>6, <1>7, <1>8, <1>9, <1>10, <1>11, NextCases
     DEF Unlock, CountAges, history, vars

\* Sessions do not outlive what opened them, but for sign-ins that were under
\* way when the account was deleted, disabled or given another password.
THEOREM AlwaysSignedOut == Spec => []SignedOut
<1>1. Init => SignedOut
  BY DEF Init, SignedOut, Live, NoSession
<1>2. QED
  BY <1>1, SpecInv, SignedOutStep, PTL DEF Spec
=============================================================================
