---------------------------- MODULE StoreProofs -----------------------------
(***************************************************************************)
(* Proofs about Store for any set of files and of goroutines that flush,   *)
(* and any number of changes, errors, crashes and power cuts.              *)
(***************************************************************************)
EXTENDS Store, TLAPS

\* Each goroutine's local state fits its program counter.
Locals ==
  \A p \in Flushers :
    /\ pc[p] \in {"idle", "save", "done"} => left[p] = {}
    /\ pc[p] \in {"idle", "save", "open", "done"} => at[p] = 0
    /\ pc[p] \in {"write", "sync", "rename"} => at[p] \in left[p]

\* A file that two flushes have never had in hand is in one flush's hands.
OneHand ==
  \A f \in Files \ overlapped : \A p, q \in Flushers :
    f \in left[p] /\ f \in left[q] => p = q

\* The temporary file of such a file is what its one writer made it.
OwnTmp ==
  \A p \in Flushers : at[p] \in Files \ overlapped =>
    /\ pc[p] = "write" => fd[p] = "tmp" /\ tmp[at[p]].kind = "empty"
    /\ pc[p] = "sync" => fd[p] = "tmp" /\ tmp[at[p]].kind = "whole"
    /\ pc[p] = "rename" => tmp[at[p]].kind = "whole" /\ tmp[at[p]].synced

\* runServer flushes only when it stops.
MainWaits == life \in {"serving", "stopping"} => pc[Main] = "idle"

IInv ==
  TypeOK /\ Locals /\ OneHand /\ OwnTmp /\ MainWaits /\ AloneNeverHalfWritten

\* What the steps need of the constants.
LEMMA BoundFacts ==
  0 \notin Files /\ ClientsFile \in Files /\ MaxError \in Nat /\ MaxCrash \in Nat
  BY StoreAssumption

LEMMA FlusherFacts ==
  /\ Saver \in Flushers /\ Main \in Flushers /\ Saver # Main
  /\ \A p \in Requests : p \in Flushers /\ p # Main
  BY StoreAssumption DEF Flushers

\* The contents the steps write are contents.
LEMMA ContentFacts ==
  /\ Absent \in ContentType /\ Empty \in ContentType
  /\ \A v \in Nat : Whole(v) \in ContentType
  /\ \A x \in ContentType, v \in Nat : Over(x, v) \subseteq ContentType
  /\ \A x \in ContentType : [x EXCEPT !.synced = TRUE] \in ContentType
<1>1. Mixed \in ContentType /\ \A v \in Nat : Whole(v) \in ContentType
  BY DEF Mixed, Whole, ContentType
<1>2. \A x \in ContentType, v \in Nat : Over(x, v) \subseteq ContentType
  BY <1>1 DEF Over
<1>3. QED
  BY <1>1, <1>2 DEF Absent, Empty, ContentType

LEMMA InitInv == Init => IInv
<1> SUFFICES ASSUME Init PROVE IInv
  OBVIOUS
<1> USE BoundFacts, FlusherFacts DEF Init
<1>1. TypeOK
  BY DEF TypeOK, ContentType, Absent, Stages
<1>2. Locals /\ OneHand /\ OwnTmp /\ MainWaits
  BY DEF Locals, OneHand, OwnTmp, MainWaits
<1>3. AloneNeverHalfWritten
  BY DEF AloneNeverHalfWritten, May, Sound, Absent
<1>4. QED
  BY <1>1, <1>2, <1>3 DEF IInv

\* What a rename or a removal makes of the descriptors are descriptors.
LEMMA FollowFacts ==
  ASSUME NEW f \in Files, NEW p \in Flushers, NEW where \in {"main", "gone"},
         fd \in [Flushers -> {"none", "tmp", "main", "gone"}]
  PROVE  Follow(f, p, where) \in [Flushers -> {"none", "tmp", "main", "gone"}]
  BY DEF Follow

\* What Locals says of a goroutine that is past the open of its file.
LEMMA InHand ==
  ASSUME IInv, NEW p \in Flushers, pc[p] \in {"write", "sync", "rename"}
  PROVE  at[p] \in Files /\ at[p] \in left[p]
  BY DEF IInv, TypeOK, Locals

\* A goroutine with another file in hand than f, when only f's temporary
\* file and the descriptors on it change, keeps what OwnTmp says of it.
LEMMA OthersKeepTmp ==
  ASSUME IInv, NEW p \in Flushers, pc[p] \in {"write", "sync", "rename"},
         at' = [at EXCEPT ![p] = 0],
         \A q \in Flushers \ {p} : pc'[q] = pc[q],
         tmp' = [tmp EXCEPT ![at[p]] = Absent],
         NEW where \in {"main", "gone"},
         fd' = Follow(at[p], p, where),
         overlapped' = overlapped
  PROVE  OwnTmp'
<1> SUFFICES ASSUME NEW q \in Flushers, at'[q] \in Files \ overlapped
             PROVE  (/\ pc[q] = "write" => fd[q] = "tmp" /\ tmp[at[q]].kind = "empty"
                     /\ pc[q] = "sync" => fd[q] = "tmp" /\ tmp[at[q]].kind = "whole"
                     /\ pc[q] = "rename" => tmp[at[q]].kind = "whole" /\ tmp[at[q]].synced)'
  BY DEF OwnTmp
<1>1. q # p /\ at'[q] = at[q] /\ pc'[q] = pc[q]
  BY BoundFacts DEF IInv, TypeOK
<1>2. at[p] \in Files /\ at[p] \in left[p]
  BY InHand
<1>3. pc[q] \in Stages
  BY DEF IInv, TypeOK
<1>4. at[q] \in left[q]
  BY <1>1, <1>3, BoundFacts DEF IInv, Locals, Stages
<1>5. at[q] # at[p]
  BY <1>1, <1>2, <1>4 DEF IInv, OneHand
<1>6. fd'[q] = fd[q]
  BY <1>1, <1>5 DEF Follow
<1>7. tmp'[at[q]] = tmp[at[q]]
  BY <1>1, <1>2, <1>5 DEF IInv, TypeOK
<1>8. QED
  BY <1>1, <1>6, <1>7 DEF IInv, OwnTmp

LEMMA SyncInv == ASSUME IInv, NEW p \in Flushers, Sync(p) PROVE IInv'
<1> DEFINE f == at[p]
           Synced(x) == [x EXCEPT !.synced = TRUE]
<1>1. pc[p] = "sync" /\ f \in Files /\ f \in left[p]
  BY InHand DEF Sync
<1>2. /\ tmp' = IF fd[p] = "tmp" THEN [tmp EXCEPT ![f] = Synced(tmp[f])] ELSE tmp
      /\ main' = IF fd[p] = "main" THEN [main EXCEPT ![f] = Synced(main[f])] ELSE main
      /\ fd' = [fd EXCEPT ![p] = "none"]
      /\ pc' = [pc EXCEPT ![p] = "rename"]
      /\ UNCHANGED <<mem, dirty, left, snap, at, back, life, running, overlapped,
                     errors, crashes>>
  BY DEF Sync
<1>3. \A x \in ContentType :
        /\ Synced(x) \in ContentType
        /\ Synced(x).kind = x.kind /\ Synced(x).synced
  BY ContentFacts DEF ContentType
<1>4. tmp[f] \in ContentType /\ main[f] \in ContentType
  BY <1>1 DEF IInv, TypeOK
<1> HIDE DEF Synced
<1>5. TypeOK'
  BY <1>1, <1>2, <1>3, <1>4 DEF IInv, TypeOK, Stages
<1>6. \A q \in Flushers : pc'[q] = IF q = p THEN "rename" ELSE pc[q]
  BY <1>2 DEF IInv, TypeOK
<1>7. Locals'
  BY <1>1, <1>2, <1>6 DEF IInv, Locals
<1>8. OneHand'
  BY <1>2 DEF IInv, OneHand
<1>9. OwnTmp'
  <2> SUFFICES ASSUME NEW q \in Flushers, at[q] \in Files \ overlapped
               PROVE  (/\ pc[q] = "write" => fd[q] = "tmp" /\ tmp[at[q]].kind = "empty"
                       /\ pc[q] = "sync" => fd[q] = "tmp" /\ tmp[at[q]].kind = "whole"
                       /\ pc[q] = "rename" => tmp[at[q]].kind = "whole" /\ tmp[at[q]].synced)'
    BY <1>2 DEF OwnTmp
  <2>1. CASE q = p
    <3>1. fd[p] = "tmp" /\ tmp[f].kind = "whole"
      BY <1>1, <2>1 DEF IInv, OwnTmp
    <3>2. tmp'[f] = Synced(tmp[f])
      BY <1>1, <1>2, <3>1 DEF IInv, TypeOK
    <3>3. QED
      BY <1>2, <1>3, <1>4, <1>6, <2>1, <3>1, <3>2
  <2>2. CASE q # p /\ pc[q] \in {"write", "sync", "rename"}
    <3>1. at[q] # f
      BY <1>1, <2>2 DEF IInv, Locals, OneHand
    <3>2. tmp'[at[q]] = tmp[at[q]] /\ fd'[q] = fd[q]
      BY <1>2, <3>1, <2>2 DEF IInv, TypeOK
    <3>3. QED
      BY <1>2, <1>6, <2>2, <3>2 DEF IInv, OwnTmp
  <2>3. CASE q # p /\ pc[q] \notin {"write", "sync", "rename"}
    BY <1>6, <2>3
  <2>4. QED
    BY <2>1, <2>2, <2>3
<1>10. AloneNeverHalfWritten'
  <2>1. \A g \in Files : main'[g] = main[g] \/ main'[g] = Synced(main[g])
    BY <1>1, <1>2 DEF IInv, TypeOK
  <2>2. \A g \in Files : main[g] \in ContentType
    BY DEF IInv, TypeOK
  <2>3. QED
    BY <1>2, <1>3, <2>1, <2>2 DEF IInv, AloneNeverHalfWritten, May, Sound
<1>11. MainWaits'
  BY <1>1, <1>2, <1>6, FlusherFacts DEF IInv, MainWaits
<1>12. QED
  BY <1>5, <1>7, <1>8, <1>9, <1>10, <1>11 DEF IInv

\* What a rename leaves behind for a power cut to bring back are contents, and
\* of a file in one flush's hands it is only what the file held.
LEMMA ReplacedFacts ==
  ASSUME IInv, NEW f \in Files
  PROVE  /\ Replaced(f) \subseteq ContentType
         /\ f \notin overlapped => Replaced(f) = {main[f]}
<1>1. \A q \in Flushers : Over(main[f], snap[q][f]) \subseteq ContentType
  BY ContentFacts DEF IInv, TypeOK
<1>2. main[f] \in ContentType
  BY DEF IInv, TypeOK
<1>3. ASSUME f \notin overlapped, NEW q \in Flushers, at[q] = f, pc[q] = "write"
      PROVE  fd[q] # "main"
  BY <1>3 DEF IInv, OwnTmp
<1>4. QED
  BY <1>1, <1>2, <1>3 DEF Replaced

LEMMA RenameInv == ASSUME IInv, NEW p \in Flushers, Rename(p) PROVE IInv'
<1> DEFINE f == at[p]
<1>1. pc[p] = "rename" /\ f \in Files /\ f \in left[p]
  BY InHand DEF Rename
<1>2. /\ at' = [at EXCEPT ![p] = 0]
      /\ UNCHANGED <<mem, dirty, life, running, overlapped, errors, crashes>>
  BY DEF Rename
<1>3. \/ Return(p)
      \/ /\ left' = [left EXCEPT ![p] = @ \ {f}]
         /\ pc' = [pc EXCEPT ![p] = "open"]
         /\ UNCHANGED snap
  BY DEF Rename
<1>4. \/ UNCHANGED <<main, back, tmp, fd>>
      \/ /\ main' = [main EXCEPT ![f] = tmp[f]]
         /\ back' = [back EXCEPT ![f] = @ \cup Replaced(f)]
         /\ tmp' = [tmp EXCEPT ![f] = Absent]
         /\ fd' = Follow(f, p, "main")
  BY DEF Rename, fileVars
<1>5. /\ left' \in [Flushers -> SUBSET Files]
      /\ pc' \in [Flushers -> Stages]
      /\ snap' \in [Flushers -> [Files -> Nat]]
      /\ at' \in [Flushers -> Files \cup {0}]
  <2> USE DEF IInv, TypeOK
  <2>1. at' \in [Flushers -> Files \cup {0}]
    BY <1>2
  <2>2. CASE Return(p)
    BY <2>1, <2>2 DEF Return, Stages
  <2>3. CASE /\ left' = [left EXCEPT ![p] = @ \ {f}]
             /\ pc' = [pc EXCEPT ![p] = "open"]
             /\ UNCHANGED snap
    BY <2>1, <2>3 DEF Stages
  <2>4. QED
    BY <1>3, <2>2, <2>3
<1>6. /\ \A q \in Flushers : left'[q] \subseteq left[q]
      /\ \A q \in Flushers \ {p} :
           left'[q] = left[q] /\ pc'[q] = pc[q] /\ at'[q] = at[q]
      /\ pc'[p] = "idle" => left'[p] = {}
      /\ pc'[p] \in {"open", "idle"} /\ at'[p] = 0
  <2> USE DEF IInv, TypeOK
  <2>1. CASE Return(p)
    BY <1>1, <1>2, <2>1 DEF Return
  <2>2. CASE /\ left' = [left EXCEPT ![p] = @ \ {f}]
             /\ pc' = [pc EXCEPT ![p] = "open"]
             /\ UNCHANGED snap
    BY <1>1, <1>2, <2>2
  <2>3. QED
    BY <1>3, <2>1, <2>2
<1>7. /\ main' \in [Files -> ContentType]
      /\ back' \in [Files -> SUBSET ContentType]
      /\ tmp' \in [Files -> ContentType]
      /\ fd' \in [Flushers -> {"none", "tmp", "main", "gone"}]
  <2> USE DEF IInv, TypeOK
  <2>1. CASE UNCHANGED <<main, back, tmp, fd>>
    BY <2>1
  <2>2. CASE /\ main' = [main EXCEPT ![f] = tmp[f]]
             /\ back' = [back EXCEPT ![f] = @ \cup Replaced(f)]
             /\ tmp' = [tmp EXCEPT ![f] = Absent]
             /\ fd' = Follow(f, p, "main")
    BY <1>1, <2>2, FollowFacts, ContentFacts, ReplacedFacts
  <2>3. QED
    BY <1>4, <2>1, <2>2
<1>8. TypeOK'
  BY <1>2, <1>5, <1>7 DEF IInv, TypeOK
<1>9. Locals'
  BY <1>6 DEF IInv, Locals
<1>10. OneHand'
  BY <1>2, <1>6 DEF IInv, OneHand
<1>11. OwnTmp'
  <2>1. CASE UNCHANGED <<main, back, tmp, fd>>
    <3>1. \A q \in Flushers : at'[q] \in Files => q # p
      BY <1>6, BoundFacts
    <3>2. QED
      BY <1>2, <1>6, <2>1, <3>1 DEF IInv, OwnTmp
  <2>2. CASE tmp' = [tmp EXCEPT ![f] = Absent] /\ fd' = Follow(f, p, "main")
    BY <1>1, <1>2, <1>6, <2>2, OthersKeepTmp
  <2>3. QED
    BY <1>4, <2>1, <2>2
<1>12. AloneNeverHalfWritten'
  <2>1. CASE UNCHANGED <<main, back>>
    BY <1>2, <2>1 DEF IInv, AloneNeverHalfWritten, May
  <2>2. CASE /\ main' = [main EXCEPT ![f] = tmp[f]]
             /\ back' = [back EXCEPT ![f] = @ \cup Replaced(f)]
    <3>1. f \notin overlapped => Sound(tmp[f])
      BY <1>1 DEF IInv, OwnTmp, Sound
    <3>2. f \notin overlapped =>
             {main'[f]} \cup back'[f] = {tmp[f]} \cup May(f)
      BY <1>1, <2>2, ReplacedFacts DEF IInv, TypeOK, May
    <3>3. \A g \in Files \ {f} : {main'[g]} \cup back'[g] = May(g)
      BY <1>1, <2>2 DEF IInv, TypeOK, May
    <3>4. \A g \in Files \ overlapped :
             {main'[g]} \cup back'[g] \subseteq {x \in May(g) \cup {tmp[f]} : Sound(x)}
      BY <3>1, <3>2, <3>3 DEF IInv, AloneNeverHalfWritten
    <3>5. QED
      BY <1>2, <3>4 DEF AloneNeverHalfWritten, May
  <2>3. QED
    BY <1>4, <2>1, <2>2
<1>13. MainWaits'
  BY <1>1, <1>2, <1>6, FlusherFacts DEF IInv, MainWaits
<1>14. QED
  BY <1>8, <1>9, <1>10, <1>11, <1>12, <1>13 DEF IInv

LEMMA ErrorInv == ASSUME IInv, NEW p \in Flushers, Error(p) PROVE IInv'
<1> DEFINE f == at[p]
<1>1. /\ pc[p] \in {"open", "write", "sync", "rename"}
      /\ at' = [at EXCEPT ![p] = 0]
      /\ pc' = [pc EXCEPT ![p] = "idle"]
      /\ left' = [left EXCEPT ![p] = {}]
      /\ snap' = [snap EXCEPT ![p] = [g \in Files |-> 0]]
      /\ errors < MaxError /\ errors' = errors + 1
      /\ UNCHANGED <<mem, dirty, main, back, life, running, overlapped, crashes>>
  BY DEF Error, Return
<1>2. \/ UNCHANGED <<tmp, fd>>
      \/ /\ pc[p] \in {"write", "sync"}
         /\ tmp' = [tmp EXCEPT ![f] = Absent]
         /\ fd' = Follow(f, p, "gone")
  BY DEF Error
<1>3. /\ at' \in [Flushers -> Files \cup {0}]
      /\ pc' \in [Flushers -> Stages]
      /\ left' \in [Flushers -> SUBSET Files]
      /\ snap' \in [Flushers -> [Files -> Nat]]
      /\ errors' \in 0..MaxError
  BY <1>1, BoundFacts DEF IInv, TypeOK, Stages
<1>4. /\ \A q \in Flushers \ {p} :
           left'[q] = left[q] /\ pc'[q] = pc[q] /\ at'[q] = at[q]
      /\ pc'[p] = "idle" /\ left'[p] = {} /\ at'[p] = 0
  BY <1>1 DEF IInv, TypeOK
<1>5. /\ tmp' \in [Files -> ContentType]
      /\ fd' \in [Flushers -> {"none", "tmp", "main", "gone"}]
  <2>1. CASE UNCHANGED <<tmp, fd>>
    BY <2>1 DEF IInv, TypeOK
  <2>2. CASE /\ pc[p] \in {"write", "sync"}
             /\ tmp' = [tmp EXCEPT ![f] = Absent]
             /\ fd' = Follow(f, p, "gone")
    BY <2>2, InHand, FollowFacts, ContentFacts DEF IInv, TypeOK
  <2>3. QED
    BY <1>2, <2>1, <2>2
<1>6. TypeOK'
  BY <1>1, <1>3, <1>5 DEF IInv, TypeOK
<1>7. Locals'
  BY <1>4 DEF IInv, Locals
<1>8. OneHand'
  BY <1>1, <1>4 DEF IInv, OneHand
<1>9. OwnTmp'
  <2>1. CASE UNCHANGED <<tmp, fd>>
    <3>1. \A q \in Flushers : at'[q] \in Files => q # p
      BY <1>4, BoundFacts
    <3>2. QED
      BY <1>1, <1>4, <2>1, <3>1 DEF IInv, OwnTmp
  <2>2. CASE /\ pc[p] \in {"write", "sync"}
             /\ tmp' = [tmp EXCEPT ![f] = Absent]
             /\ fd' = Follow(f, p, "gone")
    BY <1>1, <1>4, <2>2, OthersKeepTmp
  <2>3. QED
    BY <1>2, <2>1, <2>2
<1>10. AloneNeverHalfWritten'
  BY <1>1 DEF IInv, AloneNeverHalfWritten, May
<1>11. MainWaits'
  BY <1>1, <1>4, FlusherFacts DEF IInv, MainWaits
<1>12. QED
  BY <1>6, <1>7, <1>8, <1>9, <1>10, <1>11 DEF IInv

\* What a power cut leaves of a file, and of one in one flush's hands.
LEMMA PowerCutFacts ==
  ASSUME IInv, PowerCut, NEW f \in Files
  PROVE  /\ main'[f] \in Remains(f) /\ main'[f] \in ContentType
         /\ f \notin overlapped => main'[f] \in May(f)
<1>1. main'[f] \in Remains(f)
  BY DEF PowerCut
<1>2. May(f) \subseteq ContentType
  BY DEF IInv, TypeOK, May
<1>3. f \notin overlapped => Remains(f) = May(f)
  BY DEF IInv, AloneNeverHalfWritten, Sound, Remains
<1>4. QED
  BY <1>1, <1>2, <1>3, ContentFacts DEF Remains

LEMMA StepInv == IInv /\ [Next]_vars => IInv'
<1> SUFFICES ASSUME IInv, [Next]_vars PROVE IInv'
  OBVIOUS
<1> USE BoundFacts, FlusherFacts
    DEF IInv, TypeOK, Stages, ContentType, Locals, OneHand, OwnTmp,
        MainWaits, AloneNeverHalfWritten, May, Sound, Absent, Empty, Whole, Mixed
<1>1. ASSUME NEW f \in Files, PollChange(f) PROVE IInv'
  BY <1>1 DEF PollChange, Changed, flushVars, fileVars
<1>2. ASSUME NEW p \in Requests, NEW f \in Files, StaffChange(p, f) PROVE IInv'
  BY <1>2 DEF StaffChange, Changed, flushVars, fileVars
<1>3. ASSUME NEW p \in Flushers, Snapshot(p) PROVE IInv'
  <2>1. TypeOK'
    BY <1>3 DEF Snapshot, fileVars
  <2>2. Locals'
    BY <1>3 DEF Snapshot, fileVars
  <2>3. OneHand'
    BY <1>3 DEF Snapshot, fileVars
  <2>4. OwnTmp'
    BY <1>3 DEF Snapshot, fileVars
  <2>5. AloneNeverHalfWritten'
    BY <1>3 DEF Snapshot, fileVars
  <2>6. MainWaits'
    BY <1>3 DEF Snapshot, fileVars
  <2>7. QED
    BY <2>1, <2>2, <2>3, <2>4, <2>5, <2>6
<1>4. ASSUME NEW p \in Flushers, Open(p) PROVE IInv'
  BY <1>4 DEF Open
<1>5. ASSUME NEW p \in Flushers, Write(p) PROVE IInv'
  <2> DEFINE f == at[p]
  <2>1. f \in Files /\ f \in left[p] /\ snap[p][f] \in Nat
    BY <1>5 DEF Write
  <2>2. ASSUME NEW x \in ContentType, NEW y \in Over(x, snap[p][f])
        PROVE  y \in ContentType
    BY <2>1, <2>2, ContentFacts
  <2>3. CASE fd[p] = "tmp"
    <3>1. PICK y \in Over(tmp[f], snap[p][f]) : tmp' = [tmp EXCEPT ![f] = y]
      BY <1>5, <2>3 DEF Write
    <3>2. main' = main /\ back' = back
      BY <1>5, <2>3 DEF Write
    <3>3. TypeOK'
      BY <1>5, <2>1, <2>2, <3>1, <3>2 DEF Write, flushVars
    <3>4. Locals' /\ OneHand' /\ MainWaits' /\ AloneNeverHalfWritten'
      BY <1>5, <2>1, <3>2 DEF Write, flushVars
    <3>5. OwnTmp'
      BY <1>5, <2>1, <2>3, <3>1 DEF Write, Over, flushVars
    <3>6. QED
      BY <3>3, <3>4, <3>5
  <2>4. CASE fd[p] = "main"
    <3>1. PICK y \in Over(main[f], snap[p][f]) : main' = [main EXCEPT ![f] = y]
      BY <1>5, <2>4 DEF Write
    <3>2. tmp' = tmp /\ back' = back
      BY <1>5, <2>4 DEF Write
    <3>3. f \in overlapped
      BY <1>5, <2>1, <2>4 DEF Write
    <3>4. TypeOK'
      BY <1>5, <2>1, <2>2, <3>1, <3>2 DEF Write, flushVars
    <3>5. Locals' /\ OneHand' /\ OwnTmp' /\ MainWaits'
      BY <1>5, <2>1, <3>2, <3>3 DEF Write, flushVars
    <3>6. AloneNeverHalfWritten'
      BY <1>5, <2>1, <3>1, <3>3 DEF Write, flushVars
    <3>7. QED
      BY <3>4, <3>5, <3>6
  <2>5. CASE fd[p] \notin {"tmp", "main"}
    BY <1>5, <2>1, <2>5 DEF Write, flushVars
  <2>6. QED
    BY <2>3, <2>4, <2>5
<1>6. ASSUME NEW p \in Flushers, Sync(p) PROVE IInv'
  BY <1>6, SyncInv
<1>7. ASSUME NEW p \in Flushers, Rename(p) PROVE IInv'
  BY <1>7, RenameInv
<1>8. ASSUME NEW p \in Flushers, Error(p) PROVE IInv'
  BY <1>8, ErrorInv
<1>9. CASE AskStop
  BY <1>9 DEF AskStop, flushVars, fileVars
<1>10. CASE SaverEnds
  BY <1>10 DEF SaverEnds, flushVars, fileVars
<1>11. ASSUME NEW late \in BOOLEAN, ShutDown(late) PROVE IInv'
  BY <1>11 DEF ShutDown, flushVars, fileVars
<1>12. ASSUME NEW f \in Files, Settle(f) PROVE IInv'
  BY <1>12 DEF Settle, flushVars
<1>13. CASE Exit
  BY <1>13 DEF Exit, StartAnew, Loaded
<1>14. CASE Crash
  BY <1>14 DEF Crash, StartAnew, Loaded
<1>15. CASE PowerCut
  <2>1. \A f \in Files : main'[f] \in Remains(f) /\ main'[f] \in ContentType
    BY <1>15, PowerCutFacts
  <2>2. \A f \in Files \ overlapped : main'[f] \in May(f)
    BY <1>15, PowerCutFacts
  <2>3. main' \in [Files -> ContentType]
    BY <1>15, <2>1 DEF PowerCut
  <2>4. QED
    BY <1>15, <2>2, <2>3 DEF PowerCut, StartAnew, Loaded
<1>16. CASE UNCHANGED vars
  BY <1>16 DEF vars, flushVars, fileVars
<1>17. QED
  BY <1>1, <1>2, <1>3, <1>4, <1>5, <1>6, <1>7, <1>8, <1>9, <1>10, <1>11,
     <1>12, <1>13, <1>14, <1>15, <1>16 DEF Next, Flush, Stop

\* The variables of the store keep their types.
THEOREM TypeCorrect == Spec => []TypeOK
<1>1. IInv => TypeOK
  BY DEF IInv
<1>2. QED
  BY <1>1, InitInv, StepInv, PTL DEF Spec

\* The promise of writeFileAtomic holds of every file whose flushes have not
\* overlapped: it is absent or complete and on disk, at every moment, hence
\* after a crash at any moment.
THEOREM AloneIsNeverHalfWritten == Spec => []AloneNeverHalfWritten
<1>1. IInv => AloneNeverHalfWritten
  BY DEF IInv
<1>2. QED
  BY <1>1, InitInv, StepInv, PTL DEF Spec

-----------------------------------------------------------------------------
(* That no change is forgotten *)

\* What its writer has put into the temporary file of such a file.
OwnVersion ==
  \A p \in Flushers :
    at[p] \in Files \ overlapped /\ pc[p] \in {"sync", "rename"} =>
      tmp[at[p]].ver = snap[p][at[p]]

\* When the handlers and the saver have ended, runServer alone flushes.
Quiet ==
  /\ life \in {"flushing", "cut"} => pc[Saver] = "done"
  /\ life = "flushing" =>
       /\ \A p \in Requests : pc[p] = "idle"
       /\ pc[Main] # "save" => \A f \in Files : ~dirty[f]

InHands(f) == \E p \in Flushers : f \in left[p] /\ snap[p][f] = mem[f]

\* AloneNotForgotten, without what it says of the end of a stop.
Accounted ==
  errors = 0 /\ overlapped = {} =>
    \A f \in Files : Loaded(main[f]) # mem[f] => dirty[f] \/ InHands(f)

\* The snapshot of such a file is the newest, or the change since is flagged.
Fresh ==
  \A p \in Flushers : \A f \in left[p] \ overlapped :
    snap[p][f] = mem[f] \/ dirty[f]

Kept == OwnVersion /\ Quiet /\ Accounted /\ Fresh

LEMMA KeptSuffices == IInv /\ Kept => AloneNotForgotten
<1> SUFFICES ASSUME IInv, Kept, errors = 0, overlapped = {},
                    NEW f \in Files, Loaded(main[f]) # mem[f]
             PROVE  (AtEnd => life = "cut") /\ (dirty[f] \/ InHands(f))
  BY DEF AloneNotForgotten, InHands
<1>1. dirty[f] \/ InHands(f)
  BY DEF Kept, Accounted
<1>2. CASE AtEnd /\ life = "flushing"
  <2>1. ~dirty[f]
    BY <1>2 DEF AtEnd, Kept, Quiet
  <2>2. \A p \in Flushers : pc[p] \in {"idle", "done"}
    BY <1>2 DEF AtEnd, Kept, Quiet, Flushers
  <2>3. \A p \in Flushers : left[p] = {}
    BY <2>2 DEF IInv, Locals
  <2>4. QED
    BY <1>1, <2>1, <2>3 DEF InHands
<1>3. QED
  BY <1>1, <1>2 DEF AtEnd

\* Who takes its snapshot while runServer is at its last flush.
LEMMA LastSnapshot ==
  ASSUME IInv, Quiet, NEW p \in Flushers, Snapshot(p), life = "flushing"
  PROVE  p = Main
  BY FlusherFacts DEF Quiet, Snapshot, Flushers

LEMMA SnapshotKept ==
  ASSUME IInv, Kept, NEW p \in Flushers, Snapshot(p) PROVE Kept'
<1> DEFINE D == {f \in Files : dirty[f]}
<1>1. /\ pc[p] \in {"idle", "save"} /\ (p = Saver <=> pc[p] = "idle")
      /\ left' = [left EXCEPT ![p] = D]
      /\ snap' = [snap EXCEPT ![p] =
                    [f \in Files |-> IF f \in D THEN mem[f] ELSE 0]]
      /\ pc' = [pc EXCEPT ![p] = IF D = {} THEN "idle" ELSE "open"]
      /\ overlapped \subseteq overlapped'
      /\ dirty' = [f \in Files |-> FALSE]
      /\ UNCHANGED <<mem, at, fd, main, tmp, life, running, errors, crashes>>
  BY DEF Snapshot, fileVars
<1>2. \A q \in Flushers \ {p} :
         pc'[q] = pc[q] /\ left'[q] = left[q] /\ snap'[q] = snap[q]
  BY <1>1 DEF IInv, TypeOK
<1>3. /\ pc'[p] \in {"idle", "open"} /\ left'[p] = D
      /\ \A f \in D : snap'[p][f] = mem[f]
  BY <1>1 DEF IInv, TypeOK
<1>4. OwnVersion'
  BY <1>1, <1>2, <1>3 DEF Kept, OwnVersion
<1>5. Quiet'
  <2>1. \A f \in Files : ~dirty'[f]
    BY <1>1
  <2>2. life \in {"flushing", "cut"} => p # Saver
    BY <1>1 DEF Kept, Quiet
  <2>3. life = "flushing" => p = Main
    BY LastSnapshot DEF Kept
  <2>4. QED
    BY <1>1, <1>2, <2>1, <2>2, <2>3, FlusherFacts DEF Kept, Quiet
<1>6. Accounted'
  <2> SUFFICES ASSUME errors' = 0, overlapped' = {}, NEW f \in Files,
                      Loaded(main'[f]) # mem'[f]
               PROVE  InHands(f)'
    BY DEF Accounted
  <2>1. dirty[f] \/ InHands(f)
    BY <1>1 DEF Kept, Accounted
  <2>2. CASE dirty[f]
    BY <1>1, <1>3, <2>2 DEF InHands
  <2>3. CASE InHands(f)
    <3>1. PICK q \in Flushers : f \in left[q] /\ snap[q][f] = mem[f]
      BY <2>3 DEF InHands
    <3>2. q # p
      BY <1>1, <3>1 DEF IInv, Locals
    <3>3. QED
      BY <1>1, <1>2, <3>1, <3>2 DEF InHands
  <2>4. QED
    BY <2>1, <2>2, <2>3
<1>7. Fresh'
  <2> SUFFICES ASSUME NEW q \in Flushers, NEW f \in left'[q] \ overlapped'
               PROVE  snap'[q][f] = mem'[f]
    BY DEF Fresh
  <2>1. CASE q = p
    BY <1>1, <1>3, <2>1
  <2>2. CASE q # p
    <3>1. f \in left[q] /\ f \in Files
      BY <1>2, <2>2 DEF IInv, TypeOK
    <3>2. f \notin D
      BY <2>2, <3>1 DEF Snapshot
    <3>3. snap[q][f] = mem[f] \/ dirty[f]
      BY <1>1, <3>1 DEF Kept, Fresh
    <3>4. QED
      BY <1>1, <1>2, <2>2, <3>1, <3>2, <3>3
  <2>3. QED
    BY <2>1, <2>2
<1>8. QED
  BY <1>4, <1>5, <1>6, <1>7 DEF Kept

\* A goroutine that opens, writes or syncs changes neither what anybody has
\* in hand nor a file that nobody else has.
LEMMA RenameKept ==
  ASSUME IInv, Kept, NEW p \in Flushers, Rename(p) PROVE Kept'
<1> DEFINE f == at[p]
<1>1. pc[p] = "rename" /\ f \in Files /\ f \in left[p]
  BY InHand DEF Rename
<1>2. /\ at' = [at EXCEPT ![p] = 0]
      /\ UNCHANGED <<mem, dirty, life, running, overlapped, errors, crashes>>
  BY DEF Rename
<1>3. p \notin Requests \/ life # "flushing"
  BY <1>1 DEF Kept, Quiet
<1>4. /\ pc' = [pc EXCEPT ![p] = pc'[p]] /\ pc'[p] \in {"idle", "open"}
      /\ left' = [left EXCEPT ![p] = left'[p]]
      /\ snap' = [snap EXCEPT ![p] = snap'[p]]
  BY DEF Rename, Return, IInv, TypeOK
<1>5. \A q \in Flushers \ {p} :
         pc'[q] = pc[q] /\ left'[q] = left[q] /\ snap'[q] = snap[q] /\ at'[q] = at[q]
  BY <1>2, <1>4 DEF IInv, TypeOK
<1>6. OwnVersion'
  <2> SUFFICES ASSUME NEW q \in Flushers, at'[q] \in Files \ overlapped',
                      pc'[q] \in {"sync", "rename"}
               PROVE  tmp'[at'[q]].ver = snap'[q][at'[q]]
    BY DEF OwnVersion
  <2>1. q # p
    BY <1>4
  <2>2. at[q] \in left[q]
    BY <1>5, <2>1 DEF IInv, Locals
  <2>3. at[q] # f
    BY <1>1, <1>2, <1>5, <2>1, <2>2 DEF IInv, OneHand
  <2>4. tmp'[at[q]] = tmp[at[q]]
    BY <1>1, <2>3 DEF Rename, fileVars, IInv, TypeOK
  <2>5. QED
    BY <1>2, <1>5, <2>1, <2>4 DEF Kept, OwnVersion
<1>7. Quiet'
  BY <1>1, <1>2, <1>3, <1>4, <1>5, FlusherFacts DEF Kept, Quiet
<1>8. Accounted'
  <2> SUFFICES ASSUME errors' = 0, overlapped' = {}, NEW g \in Files,
                      Loaded(main'[g]) # mem'[g]
               PROVE  (dirty[g] \/ InHands(g))'
    BY DEF Accounted
  <2>1. tmp[f].kind = "whole" /\ tmp[f].ver = snap[p][f]
    BY <1>1, <1>2 DEF IInv, OwnTmp, Kept, OwnVersion
  <2>2. main' = [main EXCEPT ![f] = tmp[f]] /\ left'[p] \in {left[p] \ {f}, {}}
    BY <1>1, <2>1 DEF Rename, Return, Absent, IInv, TypeOK
  <2>3. \A x \in left[p] \ {f} : x \in left'[p] /\ snap'[p] = snap[p]
    BY <1>1, <2>1 DEF Rename, Return, Absent, IInv, TypeOK
  <2>4. CASE g = f
    <3>1. Loaded(main'[f]) = snap[p][f]
      BY <1>1, <2>1, <2>2 DEF Loaded, IInv, TypeOK
    <3>2. snap[p][f] = mem[f] \/ dirty[f]
      BY <1>1, <1>2 DEF Kept, Fresh
    <3>3. QED
      BY <1>2, <2>4, <3>1, <3>2
  <2>5. CASE g # f
    <3>1. main'[g] = main[g]
      BY <2>2, <2>5 DEF IInv, TypeOK
    <3>2. dirty[g] \/ InHands(g)
      BY <1>2, <3>1 DEF Kept, Accounted
    <3>3. CASE InHands(g)
      BY <1>2, <1>5, <2>3, <2>5, <3>3 DEF InHands
    <3>4. QED
      BY <1>2, <3>2, <3>3
  <2>6. QED
    BY <2>4, <2>5
<1>9. Fresh'
  <2> SUFFICES ASSUME NEW q \in Flushers, NEW g \in left'[q] \ overlapped'
               PROVE  snap'[q][g] = mem'[g] \/ dirty'[g]
    BY DEF Fresh
  <2>1. g \in left[q] /\ snap'[q] = snap[q]
    BY <1>1, <1>5 DEF Rename, Return, IInv, TypeOK
  <2>2. QED
    BY <1>2, <2>1 DEF Kept, Fresh
<1>10. QED
  BY <1>6, <1>7, <1>8, <1>9 DEF Kept

LEMMA CallKept ==
  ASSUME IInv, Kept, NEW p \in Flushers, Open(p) \/ Write(p) \/ Sync(p)
  PROVE  Kept'
<1>1. /\ UNCHANGED <<mem, dirty, left, snap, life, overlapped, errors>>
      /\ pc[p] \notin {"idle", "done", "save"} /\ pc'[p] # "save"
      /\ \A q \in Flushers \ {p} : pc'[q] = pc[q] /\ at'[q] = at[q]
  BY DEF Open, Write, Sync, flushVars, IInv, TypeOK
<1>2. at'[p] \in Files /\ at'[p] \in left[p]
  BY InHand DEF Open, Write, Sync, flushVars, IInv, TypeOK
<1> DEFINE f == at'[p]
<1>3. \A g \in Files \ {f} : tmp'[g] = tmp[g] /\ main'[g] = main[g]
  BY <1>2 DEF Open, Write, Sync, flushVars, IInv, TypeOK
<1>4. ASSUME f \notin overlapped, pc'[p] \in {"sync", "rename"}
      PROVE  tmp'[f].ver = snap[p][f]
  <2>1. CASE Write(p)
    BY <1>2, <1>4, <2>1 DEF Write, Over, Whole, flushVars, IInv, TypeOK, OwnTmp
  <2>2. CASE Sync(p)
    <3>1. fd[p] = "tmp" /\ tmp[f].ver = snap[p][f] /\ tmp[f] \in ContentType
      BY <1>2, <1>4, <2>2 DEF Sync, IInv, TypeOK, OwnTmp, Kept, OwnVersion
    <3>2. tmp'[f] = [tmp[f] EXCEPT !.synced = TRUE]
      BY <1>2, <2>2, <3>1 DEF Sync, IInv, TypeOK
    <3>3. QED
      BY <3>1, <3>2 DEF ContentType
  <2>3. CASE Open(p)
    BY <1>4, <2>3 DEF Open, IInv, TypeOK
  <2>4. QED
    BY <2>1, <2>2, <2>3
<1>5. f \notin overlapped => Loaded(main'[f]) = Loaded(main[f])
  <2>1. f \notin overlapped => main'[f] = main[f]
    BY <1>2 DEF Open, Write, Sync, flushVars, IInv, TypeOK, OwnTmp
  <2>2. QED
    BY <2>1
<1>6. OwnVersion'
  <2> SUFFICES ASSUME NEW q \in Flushers, at'[q] \in Files \ overlapped,
                      pc'[q] \in {"sync", "rename"}
               PROVE  tmp'[at'[q]].ver = snap[q][at'[q]]
    BY <1>1 DEF OwnVersion
  <2>1. CASE q = p
    BY <1>4, <2>1
  <2>2. CASE q # p
    <3>1. at[q] \in left[q]
      BY <1>1, <2>2 DEF IInv, Locals
    <3>2. at[q] # f
      BY <1>1, <1>2, <2>2, <3>1 DEF IInv, OneHand
    <3>3. QED
      BY <1>1, <1>3, <2>2, <3>2 DEF Kept, OwnVersion
  <2>3. QED
    BY <2>1, <2>2
<1>7. Quiet'
  <2>1. life \in {"flushing", "cut"} => p # Saver
    BY <1>1 DEF Kept, Quiet
  <2>2. life = "flushing" => p \notin Requests
    BY <1>1 DEF Kept, Quiet
  <2>3. pc[Main] # "save" <=> pc'[Main] # "save"
    BY <1>1, FlusherFacts
  <2>4. QED
    BY <1>1, <2>1, <2>2, <2>3, FlusherFacts DEF Kept, Quiet
<1>8. Accounted' /\ Fresh'
  BY <1>1, <1>3, <1>5 DEF Kept, Accounted, Fresh, InHands
<1>9. QED
  BY <1>6, <1>7, <1>8 DEF Kept

LEMMA ErrorKept ==
  ASSUME IInv, Kept, NEW p \in Flushers, Error(p) PROVE Kept'
<1>1. /\ pc[p] \in {"open", "write", "sync", "rename"}
      /\ at' = [at EXCEPT ![p] = 0] /\ pc' = [pc EXCEPT ![p] = "idle"]
      /\ left' = [left EXCEPT ![p] = {}]
      /\ errors' = errors + 1
      /\ UNCHANGED <<mem, dirty, life, overlapped>>
      /\ \A q \in Flushers \ {p} : snap'[q] = snap[q]
  BY DEF Error, Return, IInv, TypeOK
<1>2. \A q \in Flushers \ {p} :
         pc'[q] = pc[q] /\ at'[q] = at[q] /\ left'[q] = left[q]
  BY <1>1 DEF IInv, TypeOK
<1>3. pc'[p] = "idle" /\ left'[p] = {}
  BY <1>1 DEF IInv, TypeOK
<1>4. OwnVersion'
  <2> SUFFICES ASSUME NEW q \in Flushers, at'[q] \in Files \ overlapped,
                      pc'[q] \in {"sync", "rename"}
               PROVE  tmp'[at'[q]].ver = snap'[q][at'[q]]
    BY <1>1 DEF OwnVersion
  <2>1. q # p
    BY <1>3
  <2>2. at[q] \in left[q]
    BY <1>2, <2>1 DEF IInv, Locals
  <2>3. tmp'[at[q]] = tmp[at[q]]
    <3>1. CASE tmp' = tmp
      BY <3>1
    <3>2. CASE pc[p] \in {"write", "sync"} /\ tmp' = [tmp EXCEPT ![at[p]] = Absent]
      <4>1. at[p] \in Files /\ at[p] \in left[p]
        BY <3>2, InHand
      <4>2. at[q] # at[p]
        BY <1>2, <2>1, <2>2, <4>1 DEF IInv, OneHand
      <4>3. QED
        BY <1>2, <2>1, <3>2, <4>1, <4>2 DEF IInv, TypeOK
    <3>3. QED
      BY <3>1, <3>2 DEF Error
  <2>4. QED
    BY <1>1, <1>2, <2>1, <2>3 DEF Kept, OwnVersion
<1>5. Quiet'
  BY <1>1, <1>2, <1>3, FlusherFacts DEF Kept, Quiet
<1>6. Accounted'
  <2>1. errors' # 0
    BY <1>1 DEF IInv, TypeOK
  <2>2. QED
    BY <2>1 DEF Accounted
<1>7. Fresh'
  BY <1>1, <1>2, <1>3 DEF Kept, Fresh
<1>8. QED
  BY <1>4, <1>5, <1>6, <1>7 DEF Kept

\* A change, of a poll or of a request, is flagged.
LEMMA ChangeKept ==
  ASSUME IInv, Kept, NEW f \in Files, Changed(f), life # "flushing",
         UNCHANGED <<flushVars, fileVars, life, overlapped, errors>>,
         pc' = pc \/ (\E p \in Requests : pc[p] = "idle" /\ pc' = [pc EXCEPT ![p] = "save"])
  PROVE  Kept'
<1>1. /\ \A g \in Files \ {f} : mem'[g] = mem[g] /\ dirty'[g] = dirty[g]
      /\ dirty'[f]
  BY DEF Changed, IInv, TypeOK
<1>2. \A q \in Flushers : pc'[q] \in {"sync", "rename"} => pc[q] = pc'[q]
  BY DEF IInv, TypeOK
<1>3. pc'[Saver] = pc[Saver]
  BY FlusherFacts, StoreAssumption DEF IInv, TypeOK
<1>4. OwnVersion'
  BY <1>2 DEF Kept, OwnVersion, flushVars, fileVars
<1>5. Quiet'
  BY <1>3 DEF Kept, Quiet
<1>6. Accounted'
  BY <1>1 DEF Kept, Accounted, InHands, flushVars, fileVars
<1>7. Fresh'
  <2>1. \A q \in Flushers : left[q] \subseteq Files
    BY DEF IInv, TypeOK
  <2>2. QED
    BY <1>1, <2>1 DEF Kept, Fresh, flushVars, fileVars
<1>8. QED
  BY <1>4, <1>5, <1>6, <1>7 DEF Kept

\* A step that ends a stage of a stop.
LEMMA StopKept ==
  ASSUME IInv, Kept, UNCHANGED <<mem, flushVars, fileVars, overlapped, errors>>,
         AskStop \/ SaverEnds \/ \E late \in BOOLEAN : ShutDown(late)
  PROVE  Kept'
<1>1. /\ \A q \in Flushers : pc'[q] \in {"sync", "rename"} => pc[q] = pc'[q]
      /\ \A g \in Files : dirty[g] => dirty'[g]
  BY DEF AskStop, SaverEnds, ShutDown, IInv, TypeOK
<1>2. OwnVersion'
  BY <1>1 DEF Kept, OwnVersion, flushVars, fileVars
<1>3. Accounted'
  BY <1>1 DEF Kept, Accounted, InHands, flushVars, fileVars
<1>4. Fresh'
  <2>1. \A q \in Flushers : left[q] \subseteq Files
    BY DEF IInv, TypeOK
  <2>2. QED
    BY <1>1, <2>1 DEF Kept, Fresh, flushVars, fileVars
<1>5. Quiet'
  <2>1. CASE AskStop \/ SaverEnds
    BY <2>1 DEF AskStop, SaverEnds, Quiet
  <2>2. ASSUME NEW late \in BOOLEAN, ShutDown(late) PROVE Quiet'
    <3>1. /\ pc' = [pc EXCEPT ![Main] = "save"] /\ pc[Saver] = "done"
          /\ life' = "flushing" => \A q \in Requests : pc[q] = "idle"
      BY <2>2 DEF ShutDown
    <3>2. /\ pc'[Main] = "save" /\ pc'[Saver] = "done"
          /\ \A q \in Requests : pc'[q] = pc[q]
      BY <3>1, FlusherFacts DEF IInv, TypeOK
    <3>3. QED
      BY <3>1, <3>2 DEF Quiet
  <2>3. QED
    BY <2>1, <2>2
<1>6. QED
  BY <1>2, <1>3, <1>4, <1>5 DEF Kept

LEMMA StepKept == IInv /\ Kept /\ [Next]_vars => Kept'
<1> SUFFICES ASSUME IInv, Kept, [Next]_vars PROVE Kept'
  OBVIOUS
<1>1. ASSUME NEW f \in Files, PollChange(f) PROVE Kept'
  BY <1>1, ChangeKept DEF PollChange, Serving
<1>2. ASSUME NEW p \in Requests, NEW f \in Files, StaffChange(p, f) PROVE Kept'
  BY <1>2, ChangeKept DEF StaffChange, Serving
<1>3. ASSUME NEW p \in Flushers, Flush(p) \/ Error(p) PROVE Kept'
  BY <1>3, SnapshotKept, CallKept, RenameKept, ErrorKept DEF Flush
<1>4. CASE AskStop \/ SaverEnds \/ \E late \in BOOLEAN : ShutDown(late)
  <2>1. UNCHANGED <<mem, flushVars, fileVars, overlapped, errors>>
    BY <1>4 DEF AskStop, SaverEnds, ShutDown
  <2>2. QED
    BY <1>4, <2>1, StopKept
<1>5. CASE Exit \/ Crash \/ PowerCut
  <2>1. StartAnew
    BY <1>5 DEF Exit, Crash, PowerCut
  <2>2. QED
    BY <2>1 DEF StartAnew, Kept, OwnVersion, Quiet, Accounted, Fresh, InHands
<1>6. CASE UNCHANGED vars \/ \E f \in Files : Settle(f)
  BY <1>6 DEF vars, flushVars, fileVars, Settle, Kept, OwnVersion, Quiet,
              Accounted, Fresh, InHands
<1>7. QED
  BY <1>1, <1>2, <1>3, <1>4, <1>5, <1>6 DEF Next, Stop

\* No change is forgotten between the flags and the files, whatever else goes
\* on, on a disk without errors and as long as flushes do not overlap; and an
\* orderly stop of runServer leaves nothing unwritten.
THEOREM AloneIsNotForgotten == Spec => []AloneNotForgotten
<1>1. Init => Kept
  BY DEF Init, Kept, OwnVersion, Quiet, Accounted, Fresh, InHands, Loaded, Absent
<1>2. QED
  BY <1>1, InitInv, StepInv, StepKept, KeptSuffices, PTL DEF Spec

-----------------------------------------------------------------------------
(* That a file never goes back *)

\* A file, a snapshot of it and the store hold more and more changes.
Order ==
  \A f \in Files \ overlapped :
    /\ Loaded(main[f]) <= mem[f]
    /\ \A p \in Flushers : f \in left[p] =>
         Loaded(main[f]) <= snap[p][f] /\ snap[p][f] <= mem[f]

\* A file keeps its snapshot or gets a newer one, and so does the oldest that
\* may be left of it.
NeverBack ==
  \A f \in Files \ overlapped' : Loaded(main'[f]) >= Loaded(main[f])

NoFurtherBack ==
  \A f \in Files \ overlapped' :
    \A x \in May(f)' : \E y \in May(f) : Loaded(y) <= Loaded(x)

Forward == NoFurtherBack /\ (PowerCut \/ NeverBack)

LEMMA LoadedFact ==
  IInv => \A f \in Files : /\ Loaded(main[f]) \in Nat /\ mem[f] \in Nat
                           /\ \A x \in May(f) : Loaded(x) \in Nat
  BY DEF IInv, TypeOK, ContentType, Loaded, May

\* When nothing is added to what may be left, that goes no further back.
LEMMA LessMay ==
  ASSUME IInv, \A f \in Files \ overlapped' : May(f)' \subseteq May(f)
  PROVE  NoFurtherBack
  BY LoadedFact DEF NoFurtherBack

\* A step that leaves the files alone, and changes what is in hand only by
\* taking things out of it, moves forward if the store does.
LEMMA QuietOrder ==
  ASSUME IInv, Order, UNCHANGED <<main, back>>, overlapped' = overlapped,
         \A f \in Files : mem'[f] \in Nat /\ mem'[f] >= mem[f],
         \A p \in Flushers : left'[p] \subseteq left[p],
         \A p \in Flushers : \A f \in left'[p] : snap'[p][f] = snap[p][f]
  PROVE  Order' /\ Forward
<1>1. \A f \in Files : Loaded(main'[f]) = Loaded(main[f]) /\ Loaded(main[f]) \in Nat
  BY LoadedFact
<1>2. ASSUME NEW f \in Files \ overlapped, NEW p \in Flushers, f \in left'[p]
      PROVE  Loaded(main[f]) <= snap'[p][f] /\ snap'[p][f] <= mem'[f]
  <2>1. f \in left[p] /\ snap'[p][f] = snap[p][f] /\ snap[p][f] \in Nat
    BY <1>2 DEF IInv, TypeOK
  <2>2. mem[f] \in Nat /\ mem'[f] \in Nat /\ mem'[f] >= mem[f]
    BY LoadedFact
  <2>3. snap[p][f] <= mem[f] /\ Loaded(main[f]) <= snap[p][f]
    BY <2>1 DEF Order
  <2>4. QED
    BY <2>1, <2>2, <2>3
<1>3. ASSUME NEW f \in Files \ overlapped PROVE Loaded(main[f]) <= mem'[f]
  BY LoadedFact DEF Order
<1>4. NoFurtherBack
  BY LessMay DEF May
<1>5. QED
  BY <1>1, <1>2, <1>3, <1>4 DEF Order, Forward, NeverBack

LEMMA StepOrder == IInv /\ Kept /\ Order /\ [Next]_vars => Order' /\ Forward
<1> SUFFICES ASSUME IInv, Kept, Order, [Next]_vars PROVE Order' /\ Forward
  OBVIOUS
<1>1. ASSUME NEW f \in Files, Changed(f),
             UNCHANGED <<flushVars, fileVars, overlapped>>
      PROVE  Order' /\ Forward
  <2>1. \A g \in Files : mem'[g] \in Nat /\ mem'[g] >= mem[g]
    BY <1>1 DEF Changed, IInv, TypeOK
  <2>2. QED
    BY <1>1, <2>1, QuietOrder DEF flushVars, fileVars
<1>2. ASSUME NEW p \in Flushers, Snapshot(p) PROVE Order' /\ Forward
  <2> DEFINE D == {f \in Files : dirty[f]}
  <2>1. /\ UNCHANGED <<main, back, mem>> /\ overlapped \subseteq overlapped'
        /\ NoFurtherBack
    BY <1>2, LessMay DEF Snapshot, fileVars, May
  <2>2. \A q \in Flushers \ {p} : left'[q] = left[q] /\ snap'[q] = snap[q]
    BY <1>2 DEF Snapshot, IInv, TypeOK
  <2>3. left'[p] = D /\ \A f \in D : snap'[p][f] = mem[f]
    BY <1>2 DEF Snapshot, IInv, TypeOK
  <2>4. QED
    BY <2>1, <2>2, <2>3, LoadedFact DEF Order, Forward, NeverBack
<1>3. ASSUME NEW p \in Flushers, Open(p) \/ Write(p) \/ Sync(p)
      PROVE  Order' /\ Forward
  <2>1. UNCHANGED <<mem, left, snap, overlapped>>
    BY <1>3 DEF Open, Write, Sync, flushVars
  <2>2. back' = back /\ \A f \in Files \ overlapped : main'[f] = main[f]
    BY <1>3, InHand DEF Open, Write, Sync, flushVars, IInv, TypeOK, OwnTmp
  <2>3. NoFurtherBack
    BY <2>1, <2>2, LessMay DEF May
  <2>4. QED
    BY <2>1, <2>2, <2>3, LoadedFact DEF Order, Forward, NeverBack
<1>4. ASSUME NEW p \in Flushers, Rename(p) PROVE Order' /\ Forward
  <2> DEFINE f == at[p]
  <2>1. pc[p] = "rename" /\ f \in Files /\ f \in left[p]
    BY <1>4, InHand DEF Rename
  <2>2. UNCHANGED <<mem, overlapped>>
    BY <1>4 DEF Rename
  <2>3. \A q \in Flushers : \A g \in left'[q] :
           g \in left[q] /\ snap'[q][g] = snap[q][g] /\ (q = p => g # f \/ f \in overlapped)
    BY <1>4, <2>1 DEF Rename, Return, IInv, TypeOK, OwnTmp, Absent
  <2>4. \A g \in Files \ {f} : main'[g] = main[g]
    BY <1>4, <2>1 DEF Rename, fileVars, IInv, TypeOK
  <2>5. f \notin overlapped => Loaded(main'[f]) = snap[p][f]
    BY <1>4, <2>1 DEF Rename, Loaded, Absent, IInv, TypeOK, OwnTmp, Kept, OwnVersion
  <2>6. f \notin overlapped => \A q \in Flushers : f \notin left'[q]
    BY <2>1, <2>3 DEF IInv, OneHand
  <2>7. snap[p][f] \in Nat
    BY <2>1 DEF IInv, TypeOK
  <2>8. f \notin overlapped => Loaded(main[f]) <= snap[p][f]
    BY <2>1 DEF Order
  <2>9. NoFurtherBack
    <3> SUFFICES ASSUME NEW g \in Files \ overlapped, NEW x \in May(g)'
                 PROVE  \E y \in May(g) : Loaded(y) <= Loaded(x)
      BY <2>2 DEF NoFurtherBack
    <3>1. CASE x \in May(g)
      BY <3>1, LoadedFact
    <3>2. CASE x \notin May(g)
      <4>1. \/ back' = back
            \/ back' = [back EXCEPT ![f] = @ \cup Replaced(f)]
        BY <1>4 DEF Rename, fileVars
      <4>2. g = f
        BY <2>1, <2>4, <3>2, <4>1 DEF May, IInv, TypeOK
      <4>3. back'[f] \subseteq May(f)
        BY <2>1, <2>2, <4>1, <4>2, ReplacedFacts DEF May, IInv, TypeOK
      <4>4. x = main'[f]
        BY <3>2, <4>2, <4>3 DEF May
      <4>5. QED
        BY <2>2, <2>5, <2>7, <2>8, <4>2, <4>4, LoadedFact DEF May
    <3>3. QED
      BY <3>1, <3>2
  <2>10. NeverBack
    BY <2>1, <2>2, <2>4, <2>5, <2>7, <2>8, LoadedFact DEF NeverBack
  <2>11. Order'
    BY <2>1, <2>2, <2>3, <2>4, <2>5, <2>6, <2>7, LoadedFact DEF Order
  <2>12. QED
    BY <2>9, <2>10, <2>11 DEF Forward
<1>5. ASSUME NEW p \in Flushers, Error(p) PROVE Order' /\ Forward
  <2>1. UNCHANGED <<mem, main, back, overlapped>>
    BY <1>5 DEF Error
  <2>2. \A q \in Flushers : \A g \in left'[q] :
           g \in left[q] /\ snap'[q][g] = snap[q][g]
    BY <1>5 DEF Error, Return, IInv, TypeOK
  <2>3. \A g \in Files : mem'[g] \in Nat /\ mem'[g] >= mem[g]
    BY <2>1, LoadedFact
  <2>4. QED
    BY <2>1, <2>2, <2>3, QuietOrder
<1>6. CASE Exit \/ Crash \/ PowerCut
  <2>1. /\ StartAnew /\ overlapped' = overlapped
        /\ PowerCut \/ UNCHANGED <<main, back>>
        /\ PowerCut => \A f \in Files : back'[f] = {}
    BY <1>6 DEF Exit, Crash, PowerCut, StartAnew
  <2>2. \A f \in Files \ overlapped : main'[f] \in May(f)
    BY <2>1, PowerCutFacts DEF May
  <2>3. \A f \in Files \ overlapped :
           mem'[f] = Loaded(main'[f]) /\ Loaded(main'[f]) \in Nat
    BY <2>1, <2>2, LoadedFact DEF StartAnew
  <2>4. \A p \in Flushers : left'[p] = {}
    BY <2>1 DEF StartAnew
  <2>5. NoFurtherBack
    BY <2>1, <2>2, LessMay DEF May
  <2>6. PowerCut \/ NeverBack
    BY <2>1, LoadedFact DEF NeverBack
  <2>7. QED
    BY <2>1, <2>3, <2>4, <2>5, <2>6 DEF Order, Forward
<1>7. ASSUME NEW f \in Files, Settle(f) PROVE Order' /\ Forward
  <2>1. UNCHANGED <<mem, left, snap, main, overlapped>>
    BY <1>7 DEF Settle, flushVars
  <2>2. \A g \in Files : May(g)' \subseteq May(g)
    BY <1>7 DEF Settle, May, IInv, TypeOK
  <2>3. QED
    BY <2>1, <2>2, LessMay, LoadedFact DEF Order, Forward, NeverBack
<1>8. CASE UNCHANGED <<mem, flushVars, fileVars, overlapped>>
  BY <1>8, QuietOrder, LoadedFact DEF flushVars, fileVars
<1>9. QED
  BY <1>1, <1>2, <1>3, <1>4, <1>5, <1>6, <1>7, <1>8
     DEF Next, Flush, Stop, PollChange, StaffChange, AskStop, SaverEnds,
         ShutDown, vars

\* As long as no two flushes have had a file in hand at a time, no snapshot of
\* it replaces a newer one, whatever fails, stops or dies, but for a power cut;
\* and that reaches no further back than the renames not yet on disk.
THEOREM AloneGoesForward == Spec => AloneForward
<1>1. Init => Kept /\ Order
  BY DEF Init, Kept, OwnVersion, Quiet, Accounted, Fresh, InHands, Loaded,
         Absent, Order
<1>2. ASSUME IInv, Kept, Order, [Next]_vars
      PROVE  [\A f \in Files \ overlapped' :
                 /\ PowerCut \/ Loaded(main'[f]) >= Loaded(main[f])
                 /\ \A x \in May(f)' : \E y \in May(f) : Loaded(y) <= Loaded(x)]_vars
  BY <1>2, StepOrder DEF Forward, NeverBack, NoFurtherBack
<1>3. QED
  BY <1>1, <1>2, InitInv, StepInv, StepKept, StepOrder, PTL DEF Spec, AloneForward
=============================================================================
