-------------------------------- MODULE Store -------------------------------
(***************************************************************************)
(* How the store gets to disk and back (server/store.go: flush,            *)
(* writeFileAtomic, loadJSON, openStore), with the goroutines that call    *)
(* flush: the saver of runServer every two seconds, every staff request    *)
(* that has changed something (App.save in server/api_admin.go), and       *)
(* runServer itself at the end of an orderly stop.                         *)
(*                                                                         *)
(* A file's content is the number of changes it contains.  Every system    *)
(* call of writeFileAtomic is a step, for flush holds no lock during them, *)
(* and all callers use one temporary name per file.  An open file follows  *)
(* its inode: a descriptor is on the temporary file, on the file it has    *)
(* been renamed to, or on one that has no name any more.  The directory is *)
(* never synced: until the file system writes it out by itself, a power    *)
(* cut may bring back what had the name before a rename.                   *)
(***************************************************************************)
EXTENDS Naturals

CONSTANTS Files,       \* 1 state.json, 2 alerts.json, 3 clients.json
          Requests,    \* the goroutines of staff requests
          Saver,       \* the goroutine of the ticker
          Main,        \* the goroutine of runServer
          ClientsFile, \* clients.json, which is always written at the end
          MaxChange,   \* bound: the changes of each file
          MaxError,    \* bound: system calls that fail
          MaxCrash     \* bound: crashes of process or machine, and stops

ASSUME StoreAssumption ==
  /\ Files \subseteq Nat \ {0}
  /\ ClientsFile \in Files
  /\ Saver \notin Requests /\ Main \notin Requests \cup {Saver}
  /\ MaxChange \in [Files -> Nat] /\ MaxError \in Nat /\ MaxCrash \in Nat

Flushers == Requests \cup {Saver, Main}

VARIABLES
  mem,      \* the changes made to each part of the store
  dirty,    \* dirtyState, dirtyAlerts, dirtyClients
  pc,       \* where each flusher is
  left,     \* the files it has yet to write
  snap,     \* the snapshots it took of them
  at,       \* the file it is writing
  fd,       \* what its open descriptor is on
  main,     \* the content under the file's own name
  back,     \* the older contents a power cut may bring back under that name
  tmp,      \* the content under the temporary name
  life,     \* how far an orderly stop is
  running,  \* FALSE once openStore has refused to load
  overlapped, \* history: the files two flushes have had in hand at a time
  errors, crashes

flushVars == <<left, snap, at, fd>>
fileVars  == <<main, back, tmp>>
vars == <<mem, dirty, pc, flushVars, fileVars, life, running, overlapped,
          errors, crashes>>

\* Contents.  "empty" is a file of no bytes, "mixed" one two writers have
\* written over each other; synced says the bytes are on the disk.
Whole(v) == [kind |-> "whole", ver |-> v, synced |-> FALSE]
Empty    == [kind |-> "empty", ver |-> 0, synced |-> FALSE]
Mixed    == [kind |-> "mixed", ver |-> 0, synced |-> FALSE]
Absent   == [kind |-> "absent", ver |-> 0, synced |-> TRUE]

Init ==
  /\ mem = [f \in Files |-> 0] /\ dirty = [f \in Files |-> FALSE]
  /\ pc = [p \in Flushers |-> "idle"]
  /\ left = [p \in Flushers |-> {}]
  /\ snap = [p \in Flushers |-> [f \in Files |-> 0]]
  /\ at = [p \in Flushers |-> 0]
  /\ fd = [p \in Flushers |-> "none"]
  /\ overlapped = {}
  /\ main = [f \in Files |-> Absent] /\ tmp = [f \in Files |-> Absent]
  /\ back = [f \in Files |-> {}]
  /\ life = "serving" /\ running = TRUE
  /\ errors = 0 /\ crashes = 0

-----------------------------------------------------------------------------
(* Changes, under the store lock *)

\* Mutant of Changed: the flag is forgotten.
ChangedUnflagged(f) ==
  /\ mem[f] < MaxChange[f]
  /\ mem' = [mem EXCEPT ![f] = @ + 1]
  /\ UNCHANGED dirty

Changed(f) ==
  /\ mem[f] < MaxChange[f]
  /\ mem' = [mem EXCEPT ![f] = @ + 1]
  /\ dirty' = [dirty EXCEPT ![f] = TRUE]

\* Handlers run: until Shutdown has waited for them, and on if it gave up.
Serving == running /\ life # "flushing"

\* A client's poll: nothing is saved by the request itself.
PollChange(f) ==
  /\ Serving
  /\ Changed(f)
  /\ UNCHANGED <<pc, flushVars, fileVars, life, running, overlapped, errors, crashes>>

\* A staff request; its next step is a.save().
StaffChange(p, f) ==
  /\ Serving
  /\ p \in Requests
  /\ pc[p] = "idle"
  /\ Changed(f)
  /\ pc' = [pc EXCEPT ![p] = "save"]
  /\ UNCHANGED <<flushVars, fileVars, life, running, overlapped, errors, crashes>>

-----------------------------------------------------------------------------
(* flush *)

\* The locked part: a snapshot of whatever is dirty, and the flags cleared.
Snapshot(p) ==
  /\ running
  /\ pc[p] = IF p = Saver THEN "idle" ELSE "save"
  /\ LET D == {f \in Files : dirty[f]} IN
       /\ left' = [left EXCEPT ![p] = D]
       /\ snap' = [snap EXCEPT ![p] =
                     [f \in Files |-> IF f \in D THEN mem[f] ELSE 0]]
       /\ pc' = [pc EXCEPT ![p] = IF D = {} THEN "idle" ELSE "open"]
       /\ overlapped' = overlapped \cup
            {f \in D : \E q \in Flushers \ {p} : f \in left[q]}
  /\ dirty' = [f \in Files |-> FALSE]
  /\ UNCHANGED <<mem, at, fd, fileVars, life, running, errors, crashes>>

\* Mutant of Open: the writer is told the number of the file after this one.
OpenNextNumber(p) ==
  /\ pc[p] = "open"
  /\ \E f \in left[p] :
       /\ \A g \in left[p] : f <= g
       /\ at' = [at EXCEPT ![p] = f + 1]
       /\ tmp' = [tmp EXCEPT ![f] = Empty]
  /\ fd' = [fd EXCEPT ![p] = "tmp"]
  /\ pc' = [pc EXCEPT ![p] = "write"]
  /\ UNCHANGED <<mem, dirty, left, snap, main, back, life, running, overlapped, errors,
                 crashes>>

\* Mutant of Open: the file itself is truncated.
OpenInPlace(p) ==
  /\ pc[p] = "open"
  /\ \E f \in left[p] :
       /\ \A g \in left[p] : f <= g
       /\ at' = [at EXCEPT ![p] = f]
       /\ main' = [main EXCEPT ![f] = Empty]
  /\ fd' = [fd EXCEPT ![p] = "main"]
  /\ pc' = [pc EXCEPT ![p] = "write"]
  /\ UNCHANGED <<mem, dirty, left, snap, back, tmp, life, running, overlapped, errors,
                 crashes>>

\* os.OpenFile with O_CREATE and O_TRUNC, for the next file in flush's order.
Open(p) ==
  /\ pc[p] = "open"
  /\ \E f \in left[p] :
       /\ \A g \in left[p] : f <= g
       /\ at' = [at EXCEPT ![p] = f]
       /\ tmp' = [tmp EXCEPT ![f] = Empty]
  /\ fd' = [fd EXCEPT ![p] = "tmp"]
  /\ pc' = [pc EXCEPT ![p] = "write"]
  /\ UNCHANGED <<mem, dirty, left, snap, main, back, life, running, overlapped, errors,
                 crashes>>

\* What a file holds after version v has been written to it from its start:
\* of what another writer left there, a longer tail stays.
Over(old, v) == IF old.kind = "empty" THEN {Whole(v)} ELSE {Whole(v), Mixed}

\* f.Write(data): it lands wherever the file is by now.
Write(p) ==
  /\ pc[p] = "write"
  /\ LET f == at[p]
         v == snap[p][f]
     IN CASE fd[p] = "tmp" ->
               /\ \E x \in Over(tmp[f], v) : tmp' = [tmp EXCEPT ![f] = x]
               /\ UNCHANGED main
          [] fd[p] = "main" ->
               /\ \E x \in Over(main[f], v) : main' = [main EXCEPT ![f] = x]
               /\ UNCHANGED tmp
          [] OTHER -> UNCHANGED <<main, tmp>>
  /\ pc' = [pc EXCEPT ![p] = "sync"]
  /\ UNCHANGED <<mem, dirty, flushVars, back, life, running, overlapped, errors,
                 crashes>>

\* Mutant of Sync: closes the file without f.Sync().
SyncNothing(p) ==
  /\ pc[p] = "sync"
  /\ fd' = [fd EXCEPT ![p] = "none"]
  /\ pc' = [pc EXCEPT ![p] = "rename"]
  /\ UNCHANGED <<mem, dirty, left, snap, at, fileVars, life, running, overlapped,
                 errors, crashes>>

\* f.Sync(), and f.Close().
Sync(p) ==
  /\ pc[p] = "sync"
  /\ tmp' = IF fd[p] = "tmp" THEN [tmp EXCEPT ![at[p]].synced = TRUE] ELSE tmp
  /\ main' = IF fd[p] = "main" THEN [main EXCEPT ![at[p]].synced = TRUE] ELSE main
  /\ fd' = [fd EXCEPT ![p] = "none"]
  /\ pc' = [pc EXCEPT ![p] = "rename"]
  /\ UNCHANGED <<mem, dirty, left, snap, at, back, life, running, overlapped,
                 errors, crashes>>

\* The descriptors of the others when the temporary file of f gets its name,
\* and when it is removed.
Follow(f, p, where) ==
  [q \in Flushers |->
     IF q = p THEN "none"
     ELSE IF at[q] = f /\ fd[q] = "tmp" THEN where
     ELSE IF at[q] = f /\ fd[q] = "main" /\ where = "main" THEN "gone"
     ELSE fd[q]]

\* flush returns: with an error the rest of the snapshot is dropped.  save
\* logs it and the request is answered all the same.
Return(p) ==
  /\ pc' = [pc EXCEPT ![p] = "idle"]
  /\ left' = [left EXCEPT ![p] = {}]
  /\ snap' = [snap EXCEPT ![p] = [f \in Files |-> 0]]

\* What the file that now has the name of f holds, or will when a writer that
\* still has it open is done.
Replaced(f) ==
  {main[f]} \cup UNION {Over(main[f], snap[q][f]) :
                        q \in {r \in Flushers : /\ at[r] = f /\ fd[r] = "main"
                                               /\ pc[r] = "write"}}

\* os.Rename(tmp, path), and on to the next file.  The directory is left to
\* the file system.
Rename(p) ==
  /\ pc[p] = "rename"
  /\ at' = [at EXCEPT ![p] = 0]
  /\ LET f == at[p] IN
       IF tmp[f] = Absent
         THEN Return(p) /\ UNCHANGED <<fileVars, fd>>
         ELSE /\ main' = [main EXCEPT ![f] = tmp[f]]
              /\ back' = [back EXCEPT ![f] = @ \cup Replaced(f)]
              /\ tmp' = [tmp EXCEPT ![f] = Absent]
              /\ fd' = Follow(f, p, "main")
              /\ IF left[p] = {f} THEN Return(p)
                 ELSE /\ left' = [left EXCEPT ![p] = @ \ {f}]
                      /\ pc' = [pc EXCEPT ![p] = "open"]
                      /\ UNCHANGED snap
  /\ UNCHANGED <<mem, dirty, life, running, overlapped, errors, crashes>>

\* A system call fails.  After the open, the temporary file is removed.
Error(p) ==
  /\ pc[p] \in {"open", "write", "sync", "rename"}
  /\ errors < MaxError
  /\ errors' = errors + 1
  /\ at' = [at EXCEPT ![p] = 0]
  /\ LET f == at[p] IN
       IF pc[p] \in {"write", "sync"}
         THEN /\ tmp' = [tmp EXCEPT ![f] = Absent]
              /\ fd' = Follow(f, p, "gone")
         ELSE UNCHANGED <<tmp, fd>>
  /\ Return(p)
  /\ UNCHANGED <<mem, dirty, main, back, life, running, overlapped, crashes>>

\* The file system writes the directory out: the renames of f are on disk.
Settle(f) ==
  /\ back[f] # {}
  /\ back' = [back EXCEPT ![f] = {}]
  /\ UNCHANGED <<mem, dirty, pc, flushVars, main, tmp, life, running, overlapped,
                 errors, crashes>>

-----------------------------------------------------------------------------
(* Stops, crashes, and openStore *)

\* ctx is cancelled: closing is set and the polls are woken.
AskStop ==
  /\ running /\ life = "serving"
  /\ crashes < MaxCrash
  /\ crashes' = crashes + 1
  /\ life' = "stopping"
  /\ UNCHANGED <<mem, dirty, pc, flushVars, fileVars, running, overlapped, errors>>

\* The saver sees it between two ticks.
SaverEnds ==
  /\ life = "stopping"
  /\ pc[Saver] = "idle"
  /\ pc' = [pc EXCEPT ![Saver] = "done"]
  /\ UNCHANGED <<mem, dirty, flushVars, fileVars, life, running, overlapped,
                 errors, crashes>>

\* Mutant of ShutDown: the last flush does not wait for the saver.
ShutDownAtOnce(late) ==
  /\ life = "stopping"
  /\ late \/ \A p \in Requests : pc[p] = "idle"
  /\ life' = IF late THEN "cut" ELSE "flushing"
  /\ dirty' = [dirty EXCEPT ![ClientsFile] = TRUE]
  /\ pc' = [pc EXCEPT ![Main] = "save"]
  /\ UNCHANGED <<mem, flushVars, fileVars, running, overlapped, errors, crashes>>

\* Shutdown has waited for the handlers, or is late: four seconds are over.
\* The saver has ended, and runServer is about to flush.
ShutDown(late) ==
  /\ life = "stopping"
  /\ pc[Saver] = "done"
  /\ late \/ \A p \in Requests : pc[p] = "idle"
  /\ life' = IF late THEN "cut" ELSE "flushing"
  /\ dirty' = [dirty EXCEPT ![ClientsFile] = TRUE]
  /\ pc' = [pc EXCEPT ![Main] = "save"]
  /\ UNCHANGED <<mem, flushVars, fileVars, running, overlapped, errors, crashes>>

\* loadJSON: no file and an empty file load as nothing, a torn one stops
\* openStore and with it the server.
Loaded(x) == IF x.kind = "whole" THEN x.ver ELSE 0

\* The memory of the process goes, and the next one reads the files.
StartAnew ==
  /\ life' = "serving"
  /\ running' = \A f \in Files : main'[f].kind # "mixed"
  /\ mem' = [f \in Files |-> Loaded(main'[f])]
  /\ dirty' = [f \in Files |-> FALSE]
  /\ pc' = [p \in Flushers |-> "idle"]
  /\ left' = [p \in Flushers |-> {}]
  /\ snap' = [p \in Flushers |-> [f \in Files |-> 0]]
  /\ at' = [p \in Flushers |-> 0]
  /\ fd' = [p \in Flushers |-> "none"]
  /\ UNCHANGED <<tmp, overlapped, errors>>

\* runServer has flushed, or failed to.
AtEnd == life \in {"flushing", "cut"} /\ pc[Main] = "idle"

Exit ==
  /\ AtEnd
  /\ UNCHANGED <<main, back, crashes>>
  /\ StartAnew

\* The process dies; the files are as the system calls left them.  So it is
\* when Serve fails: runServer returns without the last flush.
Crash ==
  /\ running
  /\ crashes < MaxCrash
  /\ crashes' = crashes + 1
  /\ UNCHANGED <<main, back>>
  /\ StartAnew

\* What may be under the name of f after a power cut, and what is left of it:
\* bytes that were not synced may be lost.
May(f) == {main[f]} \cup back[f]
Remains(f) ==
  May(f) \cup (IF \A x \in May(f) : x.synced THEN {} ELSE {Empty})

\* The power goes.
PowerCut ==
  /\ running
  /\ crashes < MaxCrash
  /\ crashes' = crashes + 1
  /\ main' \in {m \in [Files -> UNION {Remains(f) : f \in Files}] :
                 \A f \in Files : m[f] \in Remains(f)}
  /\ back' = [f \in Files |-> {}]
  /\ StartAnew

-----------------------------------------------------------------------------
Flush(p) == Snapshot(p) \/ Open(p) \/ Write(p) \/ Sync(p) \/ Rename(p)
Stop == SaverEnds \/ (\E late \in BOOLEAN : ShutDown(late)) \/ Exit

Next ==
  \/ \E f \in Files : PollChange(f)
  \/ \E p \in Requests, f \in Files : StaffChange(p, f)
  \/ \E p \in Flushers : Flush(p) \/ Error(p)
  \/ \E f \in Files : Settle(f)
  \/ AskStop \/ Stop \/ Crash \/ PowerCut

Spec == Init /\ [][Next]_vars

\* The ticker ticks, requests go on and a stop comes to its end; nothing has
\* to change, to stop or to fail.
Fairness == WF_vars(Stop) /\ \A p \in Flushers : WF_vars(Flush(p))
FairSpec == Spec /\ Fairness

-----------------------------------------------------------------------------
Stages == {"idle", "save", "open", "write", "sync", "rename", "done"}
ContentType ==
  [kind : {"absent", "empty", "whole", "mixed"}, ver : Nat, synced : BOOLEAN]

\* The variables have their types, and the bounds are kept.
TypeOK ==
  /\ mem \in [Files -> Nat] /\ dirty \in [Files -> BOOLEAN]
  /\ pc \in [Flushers -> Stages]
  /\ left \in [Flushers -> SUBSET Files]
  /\ snap \in [Flushers -> [Files -> Nat]]
  /\ at \in [Flushers -> Files \cup {0}]
  /\ fd \in [Flushers -> {"none", "tmp", "main", "gone"}]
  /\ main \in [Files -> ContentType] /\ tmp \in [Files -> ContentType]
  /\ back \in [Files -> SUBSET ContentType]
  /\ life \in {"serving", "stopping", "flushing", "cut"}
  /\ running \in BOOLEAN /\ overlapped \in SUBSET Files
  /\ errors \in 0..MaxError /\ crashes \in 0..MaxCrash

\* What writeFileAtomic is for: what a file holds is complete and on disk.
Sound(x) == x.kind \in {"absent", "whole"} /\ x.synced

\* The comment of writeFileAtomic: "a power cut mid-write never leaves a
\* half-written state file behind".
NeverHalfWritten == \A f \in Files : Sound(main[f])

\* That comment holds of a file as long as no two flushes have it in hand at
\* a time, for any number of goroutines, errors and crashes: neither what has
\* its name nor what a power cut may bring back under it is half written.
AloneNeverHalfWritten ==
  \A f \in Files \ overlapped : \A x \in May(f) : Sound(x)

\* No change falls between the flags and the files, although flush clears
\* the flags before it writes: what a file lacks is flagged, or a flush has
\* it in hand.  At the end of a stop that was not cut short no file lacks
\* anything: an orderly stop loses nothing (runServer), unless the power goes
\* before the directory is on disk.  Said of a disk
\* without errors and of flushes that never overlap: one that does makes the
\* other's rename fail, and the early return of flush then drops the files
\* after it as well.
AloneNotForgotten ==
  errors = 0 /\ overlapped = {} =>
    \A f \in Files : Loaded(main[f]) # mem[f] =>
      /\ AtEnd => life = "cut"
      /\ \/ dirty[f]
         \/ \E p \in Flushers : f \in left[p] /\ snap[p][f] = mem[f]

\* By the same reservation, a file never goes back to an older snapshot, but
\* for a power cut; and a power cut never reaches further back than the
\* renames that were not on disk: the oldest content it may leave only gets
\* newer, and once the directory is on disk nothing goes back at all.
AloneForward ==
  [][\A f \in Files \ overlapped' :
       /\ PowerCut \/ Loaded(main'[f]) >= Loaded(main[f])
       /\ \A x \in May(f)' : \E y \in May(f) : Loaded(y) <= Loaded(x)]_vars

\* The comment in runServer: "Write changes (delivery receipts mostly) to
\* disk every couple of seconds".  It holds of the file, if not yet of the
\* directory, while no two flushes have a file in hand at a time, on a disk
\* without errors; a crash may come first, and a power cut take it back.
AloneReachesDisk ==
  \A f \in Files : \A v \in 1..MaxChange[f] :
    (mem[f] = v) ~> \/ Loaded(main[f]) >= v \/ mem[f] < v
                    \/ overlapped # {} \/ errors > 0
=============================================================================
