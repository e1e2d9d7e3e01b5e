# Foghorn in TLA+

Foghorn (`src/`) sends pop-up alerts from a web console to Windows desktops.
One Go process is the server; one .NET process per logged-on user is the
client. The client holds a long poll open; the server answers it when there is
an alert or a recall, and the client reports back what happened on the screen.
This directory models the parts where steps of several actors interleave, and
checks and proves what can be said about them.

## 1. Inventory

| Part | State | Operations | Talks to |
|---|---|---|---|
| Hub (`server/api_client.go`, `hub`) | the current wake channel | `wait`, `wake` | polls wait on it, `handleSendAlert`, `handleRecallAlert` and `runServer` wake it |
| Poll handler (`handlePoll`) | local variables, a pointer to the client record | check-in, events, look, answer or sleep, hold timer, cancellation | store (under its lock), hub, HTTP |
| Delivery engine (`applyEvents`, `pendingFor`) | `Alert.Deliveries`: one `Delivery` per alert and client | record events, decide what to send and recall, mark it | called under the store lock |
| Staff requests (`server/api_admin.go`) | `Alerts`, `State` | send, recall, accounts, groups, templates, settings, tokens, forget a client | store, hub, `save` |
| Store (`server/store.go`) | the three parts in memory, three dirty flags, three files and three temporary files | `flush`, `writeFileAtomic`, `loadJSON`, `openStore`, `compactLocked` | saver goroutine (2 s), every staff request, shutdown |
| Server life (`server/main.go`) | `closing`, the saver, the listener | `runServer`, `bootstrap`, `resetPassword` | hub, store |
| Sign-in (`server/auth.go`) | sessions, throttle counters | login, lookup, drop, `authenticate`, `guard` | accounts in the store |
| Targeting (`server/match.go`) | none | wildcards, rules, flattening | called by send, reach, poll |
| Poller (`client/src/Poller.cs`) | `pending`, `sending`, `current`, `abortedByUs` | `QueueEvent`, `Loop`, `Send`, `Deliver` | UI thread (both ways), server |
| Windows (`client/src/AlertForm.cs`) | `seen`, `open`, `order`, `waiting` | `Show`, `Recall`, `Finish`, `OnFinished` | the user, timers, the poller |
| Web console (`server/web/app.js`) | a page | — | the JSON API |

What is hard in it:

- **Two threads per client and a goroutine per request.** A report made on the
  UI thread aborts the request the poller waits on; the server may already
  have applied, answered, or not yet read it. The handler of an abandoned
  request still runs and writes to the same client record.
- **At-least-once with receipts.** `pendingFor` marks a delivery or a recall as
  sent before the answer leaves. Lost answers have to be made up for by the
  resend rule, the session rule, or not at all (recalls).
- **Sessions.** A logoff throws away everything the client holds; a new session
  has a new `SID`, and alerts that need a confirmation return to it.
- **Wake-ups and shutdown.** A poll looks and then sleeps; what is stored in
  between must wake it, and so must the shutdown.
- **Persistence.** `flush` clears the flags, lets go of the lock and then
  writes; several goroutines flush at a time, with one temporary name per file;
  crashes come between any two system calls, and a power cut may also take back
  a rename. What clients and staff have seen since the last flush outlives them.
- **Places on the screen.** Alerts without a place wait; closes, recalls and
  windows that cannot be built decide who is next.
- **Old copies.** A request acts on a copy of its account; a sign-in verifies a
  copy of a hash; saving an account lets go of the lock to hash a password; a
  held poll points to a client record that may have been forgotten. Requests
  that demote, reset, delete and sign in run beside each other.
- **Trimming.** Every flush may turn an alert into its totals or drop it, while
  polls, receipts and recalls about it are under way.

What makes each part correct:

- hub and shutdown: no wake-up is lost, the shutdown releases every held poll;
- delivery engine: reports may be repeated and reordered, a confirmation wins,
  nothing confirmed comes back, what is due reaches the screen;
- poller: no report is lost while its process lives, and none is stuck;
- windows: places are used and not exceeded, no alert is forgotten, none comes
  back after it is gone, none waits for ever;
- history: what it claims has happened on that client's screen;
- store: a file is complete at every moment, no change is forgotten, no file
  goes back to an older snapshot but by a power cut, an orderly stop loses
  nothing;
- accounts: an administrator who can sign in remains, limits of senders follow
  the groups, sessions end with what opened them, a lock-out holds for the name
  as it was typed;
- targeting and history: an alert goes to the computers it meant, a recall to
  those it was handed to, totals go down no further than a crash sets the file
  back, the presence of a computer counts the polls it holds.

`PROJECT.json` lists every hazard at its line with the properties that would
catch it, and the ones no property covers yet.

## 2. Modules

| Module | Models | Built on |
|---|---|---|
| `LongPoll` | hub, the loop of `handlePoll`, send and recall as writers, shutdown | — |
| `AlertSpecs` | the fields of `AlertSpec` that decide anything, the reports | — |
| `Delivery` | the `Delivery` record; `applyEvents` in closed form, `pendingFor` as predicates | `AlertSpecs` |
| `EventBatch` | the loop of `applyEvents`, one iteration per step | `Delivery` |
| `AlertManager` | the class of that name as operators on a screen record | `AlertSpecs` |
| `Screen` | a screen under arbitrary deliveries and its user | `AlertManager` |
| `Foghorn` | server, connections, pollers, screens and user sessions together | `Delivery`, `AlertManager` |
| `Ledger` | abstract: what the history promises | `AlertSpecs` |
| `FoghornLedger` | the refinement mapping from `Foghorn` to `Ledger` | `Foghorn`, `Ledger` |
| `Store` | `flush` down to the system calls, crashes, `openStore`, the orderly stop | — |
| `Accounts` | accounts, groups as limits, sign-in, sessions, lock-out, `bootstrap` | — |
| `Match` | `match.go` as operators, and what a glob is | — |
| `History` | the lists of alerts and computers over time: targets, check-ins, trimming, crashes | `Delivery`, `Match` |
| `LongPollProofs`, `StoreProofs`, `AccountsProofs` | theorems | the modules they name |
| `EngineProofs` | lemmas about the operators | `Delivery`, `AlertManager` |
| `EventBatchProofs`, `ScreenProofs`, `HistoryProofs` | theorems | the modules they name, `EngineProofs` |
| `FoghornProofs` | theorems about the whole and the refinement | `FoghornLedger`, `EngineProofs` |

Each module lists its `CONSTANTS` with their assumptions. Operators marked
*Mutant of …* are altered versions of the definition below them; nothing uses
them. They show that a property can fail: with the mutant in the place of the
original, TLC finds the property listed for it in `PROJECT.json` violated.

**LongPoll.** A goroutine's program counter names the line it is at: `grab`
(`hub.wait`), `look` (`pendingFor` under the lock), `decide` (the `if`),
`select`. A channel is the number of replacements of `hub.ch` before it, so
"closed" is `ch[p] < gen`. What alerts say is left out: a staff request is a
piece of news for a set of clients.

**Delivery, EventBatch.** Times are kept as far as decisions tell them apart.
`AfterBatch` says what a whole request does to one record. `EventBatch` runs
the loop of the code and shows, for every batch and record within its bounds,
that the two agree; `Foghorn` can then apply a request in one step, as the code
does under the lock.

**AlertManager, Screen.** `Show`, `Recall`, `Finish` and the loop of
`OnFinished` map a screen record to the next one, with the report each makes.
The loop makes one report per pass and the poller may run in between, so a pass
is a step. In `Screen` the deliveries are arbitrary, so its properties do not
rest on the server.

**Foghorn.** One step is one critical section of the store lock or of the
poller's lock, or one turn of the UI thread between two reports. `conn` holds
the requests and answers: `request` (sent, not read), `look`, `asleep` (held),
`reply` (on its way), `dead` (the server died). `Arrive` is the first critical
section of `handlePoll`, `Look` is `pendingFor` and the decision that follows.
A client lets go of a connection with `Fail`, `Fault` or `Logoff`; the request
stays and may be served later, or `Vanish` at any stage. `Take`, `NotYet`,
`Submit`, `Receive` and `PutBack` are the parts of `Loop` and `Send` between
its locks; `Report` is `QueueEvent`. `TakeBatch`, `HandleRecall`,
`HandleAlert` are the delegate of `ClientContext`. `said` and `downed` are
history variables that no action reads. The parts of the composed system that
have their own module are taken in the form that module has checked: the sleep
of a poll (`LongPoll`), the event loop (`EventBatch`), the flush (`Store`; here
one step, since only what a restart reads matters).

**Ledger.** Alerts are posted and recalled, things happen on screens, and the
records catch up. A record never runs ahead of the screens, never takes back a
display or a confirmation, and a confirmation stands. `FoghornLedger` maps
`mem.deliv` to the records, and `said` to what happened. The server's crash
makes records go back, so the implementation is claimed for a server that keeps
its memory.

**Store.** A file's content is how many changes it contains. Each system call
of `writeFileAtomic` is a step. A descriptor follows its inode through renames,
as on Linux; a write to a file that another writer has written may leave a
mixture. `life` follows an orderly stop: the saver sees the cancelled context
between two ticks (`SaverEnds`), `Shutdown` waits for the handlers or gives up
after four seconds (`late`), and `runServer` flushes last. A handler that
outlives `Shutdown` may still change and flush. A `Serve` that fails returns
without that flush; it is a crash. On Windows a rename of a file another
goroutine has open fails instead: that is the `Error` step at `rename`. `Crash` is the end of the process:
the files are as the system calls left them. `PowerCut` takes bytes that were not
synced, and renames: `writeFileAtomic` does not sync the directory, so `back`
holds, for each file, the contents a rename has replaced since the file system
last wrote the directory out by itself (`Settle`), and any of them may be back.
What else the file systems in use promise (that a rename is atomic) is assumed.
`overlapped` records the files two flushes have had in hand at
a time; it is read only by properties.

**Accounts.** A request is a process; its steps are the critical sections of
the store, the sessions and the throttle. `req` holds what it carries between
them: the hash it verifies, the copy of its account (`me`), the account its
handler is about (`on`), the throttle keys its loop has left (`todo`). `CopyUser`
is `authenticate`, `MayAct` and `MayManage` are `guard`. `CreateUser` and
`EditUser` are the first critical section of `handleSaveUser`, `StoreHash` the
one after the hashing, `DropUser` the end. Passwords are numbered as they are
made, and a hash is the number of its password. The throttle counts under the
name as it was typed (`Names`), and `Holder` is the account that name finds once
it is trimmed, so that several names find one account. `given`,
`opened`, `cut`, `late` and `strayed` are history variables.

**Match.** A text is a sequence of one-letter strings. The loop of
`wildcardMatch` is a recursive function of its four variables; `Glob` says what
its comment says, as the existence of an order-preserving map from the text to
the pattern. What `net.ParseCIDR` accepts is the constant `Networks`.

**History.** `Foghorn` follows a few alerts through sessions and aborts; here
the alerts are many, and a client has one session. `info` holds the client
records, which `Forget` and trimming take out of `clients` while a handler may
still point to them. `CheckIn` is the first critical section of `handlePoll`
(`touchClient`, `polling++`, `applyEvents`), `EndPoll` its deferred function.
`Compact` is a flush with `dirtyAlerts` set: what it does to memory, and the
`alerts.json` the next start will find (`saved`), which is this one or still the
one before, as the step may be followed by a crash, an error or a power cut
(`lands`). `Restart` may come at any moment, reads that file, and leaves what is
on screens and what staff have seen as it was. Three history variables follow
the crash: `lost` are the alerts it has taken, `unrecorded` the pairs of an alert
and a client that was handed it whose record it has taken, and `told` forgets
recalls it has undone. `clients.json` is a file of its own, so any client may be
unknown afterwards.

## 3. Runs

| Run | Checks | Bounds, and why they are enough |
|---|---|---|
| `longpoll` | `TypeOK`, `NoLostWakeup`, `ShutdownReleases`, `NewsReachesHeldPoll`, `ShutdownDrains` | three polls: two of one client (a new one and an abandoned one, either of which may take the news the other was woken for), one of another; two writers, one of them for both clients. A lost wake-up takes one poll and one writer. |
| `event_batch` | `TypeOK`, `LoopIsAfterBatch`, `SendingTwiceIsHarmless` | two alerts, three reports, two of them read: every order of two events of one alert next to another, and a request that is cut off (the code's limit is 200). |
| `screen` | `TypeOK`, `PlacesWellUsed`, `EveryAlertAccountedFor`, `GoneForGood`, `NobodyWaitsForEver` | two card places (the code has four), four cards of which one cannot be built, two full-screen alerts: both kinds wait at the same time. |
| `foghorn_sessions` | `TypeOK`, `ReportsKept`, `RecordsCoherent`, `ReceiptsTruthful`, `HandedOutRight` | one client with two sessions, two connections (an abandoned request beside a new one), an alert that needs confirming and may be recalled or expire; two instances in one (`OneFailure`): both sessions, with a network failure and an expiry, and one session, with a recall and a crash that finds any earlier list on disk. |
| `foghorn_recall` | `ImplementsLedger`, `RecallFinal` | two alerts, one of which is recalled and one of which has a countdown, one place: the recalled alert may be the one that waits. No failure; aborts lose answers all the same. |
| `foghorn_live` | `AlertReachesScreen`, `ReportsArrive` | three instances in one (`OneTrouble`), with two connections: two sessions, where the handler of the first session's request may take the delivery of the second; one session with a failure of the network, which may strike the answer that carries the alert or the request with the reports; one session with a crash that finds any earlier list on disk. |
| `store` | `TypeOK`, `AloneNeverHalfWritten`, `AloneNotForgotten`, `AloneForward`, `AloneReachesDisk` | two files, of which one changes twice, the saver, one request and `runServer`, an error, and a crash, a power cut or a stop: enough for two flushes to overlap, for one to fail between its files, and for a late handler to flush beside the last flush. |
| `accounts` | `TypeOK`, `AdminRemains`, `AdminHasPassword`, `LimitsFollowGroups`, `StraysAreExplained`, `SignedOut`, `LockKeepsOut` | two accounts, one group, three cookies, two requests at a time and four in all, a stop counting as one and failed sign-ins leaving three (`OneBudget`), two wrong passwords before a lock-out (five in the code), and two names that find each account, as with a space before it. It starts from a new server and from servers in use (`InUse`), which are reachable states of a longer run: that saves the requests it takes to sign in and make a second account. Each property takes at most two requests beside each other to break. |
| `history` | `TypeOK`, `HistoryKept`, `DeliveredAsMeant`, `RecallIsTold`, `PollingIsHeld`, `TotalsKept` | three alerts of which two stay (300 in the code) and one keeps its records (60), one computer with two sets of facts, two handlers, three client records, a group with two sets of rules, three odd events, of which the first is a crash that finds the file of any flush before it (`CrashFirst`; no file is written after it, as none is read again). `Focus` makes two instances in one state graph. In the first, alerts are for everybody and there is one handler: both limits are crossed, the crash may undo either, and an alert may be archived in memory and not in the file. The second goes on from where the crash has taken the first two alerts, with the third, both handlers, moves, and two more events (groups changed, the computer forgotten): what it is about concerns one alert and one computer at a time, and the two handlers are a held poll and one that has been given up or that a client restart has left behind. The run also checks, as an assumption, `WildcardMatch` against `Glob` for every pattern and text of up to four characters. |

Named bounds: `MaxSession` logons, `MaxCrash` crashes, `MaxFault` failures,
`MaxInbox` answers the UI thread has not taken, `MaxChange` changes per file,
`MaxError` failing calls, `MaxCrash` in `Store` also counts stops, `MaxPassword`,
`MaxRequest` and `MaxStop` of `Accounts`, `MaxOdd` of `History`, `Recallable` and
`Expiring` alerts, and the constraints `Focus`, `OneFailure` and `OneBudget` of
the MC modules. No run with a liveness property has a constraint: `OneTrouble`
is part of the next-state relation of its run, and holds back flushes, failures,
crashes, logons and logoffs only, none of which is fair; `CrashFirst` of `history`
is of the same form. `MaxInbox = 1`
makes the poller wait for the UI thread; it keeps answers in order, as
`BeginInvoke` does. `CHECK_DEADLOCK FALSE` stands where the system may stop:
alerts, sessions and changes run out within the bounds. `Screen` never stops.

**Fairness.** Goroutines and threads that can run do run (weak fairness on the
steps of handlers, pollers, UI threads, flushers). An orderly stop ends: the
context given to `Shutdown` is over after four seconds. Time passes: `SendAges` is
fair, `HoldOver` counts as a step of the handler. Nobody has to send, recall,
log on, or press a button, and no fault, abort or crash has to happen. The hold
timer is *not* fair in `LongPoll`, where the point is that news does not need
it. `Screen` has one assumption about people, that a window is closed some day,
and only for `NobodyWaitsForEver`.

### Where code and documentation differ

Three runs end in a violation; each states what a comment or the guide says.

- `foghorn_recall_lost`: the guide says a recalled alert vanishes from every
  screen still showing it. `pendingFor` sets `RecallSent` first; when the
  client's receipt for another event (its own "displayed" is enough) aborts
  that request, the recall is lost and never sent again. No network failure is
  needed.
- `foghorn_ack_lost`: the guide says an unconfirmed alert comes back at the next
  logon. It is sent once to the new session; if that answer is lost, the
  same-session rule asks for a missing "displayed", which the earlier session
  has already given.
- `store_torn`: the comment of `writeFileAtomic` says a file is never
  half-written. With two flushes at a time, one can rename what the other has
  just truncated.

What else the models showed is written into the properties as a reservation,
where it can be read and, by taking it out, reproduced:

- `AloneReachesDisk`, `AloneNotForgotten` (`errors`): after one failing call the
  flags stay clear, and the change waits for the next one of that file, where
  `server/main.go:392` has it written every couple of seconds.
- `RecallIsTold` (`Within`): the flush of a recall archives an alert that is not
  among the newest 60, and with it the list of who has to be told. If the polls
  look after that flush, the alert stays on the screens
  (`docs/USER-GUIDE.md:125-126`).
- `RecallIsTold` (`unrecorded`): a crash takes the records of the last two
  seconds, or of more if writes fail. If an alert was handed out in that time and
  is recalled before its client polls again, `pendingFor` finds no record
  (`server/api_client.go:275`) and tells nobody; the alert stays on that screen.
  `DeliveredAsMeant` says that a client that does poll in time is handed the
  alert again, which makes a new record. "Told" means that the recall is in an
  answer; `foghorn_recall_lost` is about answers that are lost.
- `TotalsKept` (`Restart`): by the same crash the totals the staff have seen go
  down, to what the file said and no further.
- `HistoryKept` (`lost`): the same crash takes the alerts that were sent in that
  time; those already handed out stay on the screens, where no recall reaches them.
- `AloneForward` (`PowerCut`): since the directory is not synced, a power cut may
  bring an older file back after `flush` has returned. The comment of
  `writeFileAtomic` promises only that what is there is whole, and that holds.
- `AdminHasPassword` (`BeingHashed`, `cut`): an account counts as an administrator
  from the moment it is in the list. Until its password is stored the one who
  made it can be deleted, and if the server stops then nobody can sign in
  (`server/api_admin.go:711` speaks of the last *working* administrator).
- `StraysAreExplained` (`freed`): when the last group a sender is limited to is
  deleted, the sender is not limited at all (`server/store.go:38`), where
  `docs/SECURITY.md:10` recommends such limits.
- `SignedOut` (`raced`): a sign-in that has verified the old password opens its
  session after a reset or a deletion has dropped the others. A deleted or
  disabled account is turned away by `authenticate` all the same; after a
  reset the session is refused by `guard` until the owner of the account has
  chosen a new password, and works from then on.
- `LockKeepsOut` (`late`): sign-ins past the check still try their password, and
  a success among them removes the lock (`server/auth.go:213`). The lock is on
  the name as it was typed, in lower case (`server/api_admin.go:84`); the account
  is looked up by the trimmed name (line 95). So an account whose name is locked
  is still tried under a name with a space around it, from an address that is not
  locked, where `docs/SECURITY.md:28` has "that username" locked. The property
  speaks of keys and says nothing of the account.
- `WildcardIsGlob` speaks of texts without a star: `wildcardMatch` compares
  before it looks for a star, so `*b` does not match the text `*ab`.

Two flushes at a time can also leave the older snapshot on disk with all flags
clear, so that the saver has nothing to write. It is the reason for the
reservation about overlapping flushes in `AloneForward` and `AloneReachesDisk`.

`AloneNeverHalfWritten`, `AloneNotForgotten`, `AloneForward` and
`AloneReachesDisk` say how much remains true for flushes that do not overlap:
everything but what a power cut takes back.

## 4. Proofs

Checked by TLAPS for all values of the constants, under each module's named
assumption: the types of the constants; for the store, that the saver is not a
request; for the history, that alerts are numbered from 1 on, that the alerts
with records are among those kept, what the JSON decoder and `validateSpec` let
through, and that there are enough records for every client and every handler
(in Go, that memory does not run out). TLC evaluates all of them in the runs.
Every safety property and every action property of a passing run is proved, and
so is the refinement of `Ledger`.

- **`LongPollProofs`** — `TypeCorrect`, `NoWakeupIsLost`,
  `ShutdownReleasesEveryPoll`. `NoLostWakeup` is not inductive: it speaks of a
  poll in the select, and the poll decides to go there on what it saw earlier.
  The invariant says of each poll between its look and its sleep that any news
  it has missed belongs to a writer that has not woken the hub since the poll
  took its channel, that no poll holds a channel newer than the hub's, and that
  `closing` is set before the shutdown wakes the hub.
- **`StoreProofs`** — `TypeCorrect`, `AloneIsNeverHalfWritten`,
  `AloneIsNotForgotten`, `AloneGoesForward`. That a file is sound after a rename
  depends on what the temporary file was, hence on who else could write it. The
  invariant adds: a flusher past the open has its file among those it took
  (`Locals`), a file that has never been in two hands is in at most one
  (`OneHand`), and then its temporary file is what its one writer made it, empty,
  whole, and synced in turn (`OwnTmp`). For the changes it adds which version
  the temporary file holds (`OwnVersion`), that what a file lacks is flagged or
  in a hand (`Accounted`), that a snapshot in hand is the newest or the change
  since is flagged (`Fresh`), and that after an orderly `Shutdown` nobody but
  `runServer` flushes (`Quiet`); for the order of snapshots, that no snapshot is
  older than the file it will replace (`Order`). A power cut may put an older content in the
  place of a file, so what is said of the file is said of all of `May(f)`: each of
  them is sound, and `AloneForward` says that the oldest of them only gets newer.
  There is one lemma per system call with something to show.
- **`AccountsProofs`** — `TypeCorrect`, `AdminAlwaysRemains`,
  `AdminAlwaysHasPassword`, `LimitsAlwaysFollow`, `StraysAlwaysExplained`,
  `AlwaysSignedOut`, `LockAlwaysKeepsOut`: every property of the run, from `Init`.
  That an administrator remains is a fact about the one critical section that
  counts and changes: with more than one of them, one is left when one goes
  (`FiniteSetTheorems`); over a restart it needs that accounts without an
  administrator are none at all (`AdminInv`). That one of them has a password is
  not inductive: an account may lack a password without being an administrator
  and become one. The invariant says of *every* account there has been that it
  has a password, is being given one, or was cut off (`HashInv`). `LimitInv` adds
  that a limit names no group that is yet to come. `LockKeepsOut` follows each
  sign-in through its two keys, whose order `LocalOf` keeps, for any number of
  names that find one account, and `SignedOut`
  needs that sessions and requests end with the process (`LiveOnes`).

- **`EngineProofs`** — lemmas only: what a batch, a send, a recall or a restart
  makes of one delivery record, and what `Show`, `Recall`, `Finish` and the loop of
  `OnFinished` make of one screen. The theorems about `EventBatch`, `Screen`,
  `History` and `Foghorn` rest on them.
- **`EventBatchProofs`** — `LoopIsTyped`, `LoopComputesAfterBatch`,
  `ReportsMayBeSentTwice`, for requests of any length and any `MaxEvents`. No
  induction over the batch is needed: the loop is the induction. The invariant is
  `LoopIsAfterBatch` itself with `n <= Len(Kept(events))`, and the step is that one
  more event makes of a record what the batch that is longer by that event makes of
  it (`OneMoreReport`). That reports may come twice follows from one lemma about
  any beginning of a batch (`BeginsHarmless`). So the step in which `Foghorn`
  applies a request is justified by proof.
- **`ScreenProofs`** — `ScreenIsTyped`, `PlacesAreUsed`, `NoAlertIsLost`,
  `NoAlertComesBack`, for any number of cards and places and for arbitrary
  deliveries. `EveryAlertAccountedFor` counts the waiting list; the invariant says
  instead that no alert is in it twice (`Placed`). That nobody waits while there is
  room needs that the first entry with room is the one that opens, and that a
  window which opens leaves no room where there was none (`NoneNext`,
  `RoomOnlyShrinks`).
- **`HistoryProofs`** — `HistoryTypes`, `PollsAreCounted`, `TrimmingKeepsHistory`,
  `TotalsAreKept`, `DeliveryIsAsMeant`, `RecallsAreTold`: every property of the
  run, in layers. A crash turns the file into the list, so each layer says of the
  alerts in the file what it says of those in the list.
  - `Known`: the types, the count of the polls on each record, and that a handler
    points to a record of a client with facts. Here it matters that a record for a
    new check-in can always be found, which is a count of those who point to one.
  - `Ordered`: ids are given out in order, so that "among the newest" means the
    same for an alert before and after a send; and each alert of the file is as
    trimming may leave it (`SavedWhole`).
  - `Backed`: what the list says of an alert is at least what the file says
    (`SavedBelow`). `TotalsKept` follows: only `Restart` can go down, and it goes to
    the file.
  - `Told`: an alert, in the list and in the file, still has the rules its target
    meant (`TargetsKept`); a client with a record of it was handed it, and one that
    was handed it has a record or is `unrecorded` (`OnRecord`); a record that is
    closed or has its recall sent says so because that happened (`RecordTells`).
    That the file tells the truth after the list has moved on needs `SavedBelow`.
  - `Looked`: where every poll on a record has looked, its client has been handed
    all that was meant for it and told of every recall but those of alerts it is
    `unrecorded` for.

  `DeliveredAsMeant` and `RecallIsTold` are not inductive without `Told`: what a
  poll sees is on the records, and the two properties speak of what has happened.
- **`FoghornProofs`**, by theorem; all hold for any number of clients sharing any
  number of connections, where the runs have one client.
  - `TypeCorrect`, `RecordsStayCoherent`, `HandedOutRightly`. `MemStep` lists what
    a step can make of a record: grow stale, take a batch of reports, be sent, be
    told of a recall, or come back from the disk. Of each, `EngineProofs` shows
    that a coherent record stays coherent, whatever the batch says; so the records
    on disk have to be coherent too. `HandedOutRight` needs coherence: for the same
    session `pendingFor` looks at `DisplayedAt` only, and a record that is confirmed
    but not displayed would be sent again.
  - `HistoryIsTruthful`. The invariant follows a report on its way: what is in the
    two lists of a poller and in the request on a connection has happened on the
    screen of *that* client (`QueuesHeard`). `applyEvents` sets `DisplayedAt` on a
    confirmation, so it also has to be known that what is confirmed has been
    displayed: every open window has been reported (`ScreensHeard`).
  - `RecallsAreFinal`. What a client is yet to see forms a line: the answer its UI
    thread is at, those in its inbox, and the one on the connection it waits on.
    The invariant (`LinesInOrder`) says that along this line no recall comes before
    the alert it recalls, and that nothing in the line brings an alert that was
    taken down; `ScreensInOrder` that an alert is on a screen once. It needs that the
    server never hands out what is recalled, and holds while the server keeps its
    memory, as the property does.
  - `ReportsStay`. A report leaves a poller's lists only when the answer to the
    request that carried it arrives. The invariant says that a poller waits on a
    request of its own (`Linked`), that this request carries what the poller is
    sending and, once the server has taken it, that the server has recorded all of
    it (`Sent`), that a client only holds alerts the server has a record for, since
    `applyEvents` drops reports about others (`Known`), and that reports are of
    sessions that have begun (`SaidInTime`). The theorem has the hypothesis
    `[]NoneCutOff`: no request carries more events than the server reads of it. It
    is the code's own limit: `applyEvents` reads 200 events, and the client drops
    the rest with the answer. In the runs no client can make that many.
  - `FoghornKeepsTheLedger`: `Foghorn` implements `Ledger`, for behaviours with
    `[](crashes = 0)`, which is the claim `FoghornLedger` explains. `Post` and
    `Recall` map to the actions of the same names, the reports of a screen to
    `Happen`, `Arrive` to `Learn`, and every other step to a stutter
    (`LedgerStep`). The invariant (`Agreeing`) is what the theorems above rest on:
    that an arriving request teaches the record only what has happened is
    `QueuesHeard`, that a record takes nothing back is coherence, and that a screen
    shows only what was posted for it is `Known`.

What stays with TLC:

- the liveness properties (`NewsReachesHeldPoll`, `ShutdownDrains`,
  `NobodyWaitsForEver`, `AlertReachesScreen`, `ReportsArrive`,
  `AloneReachesDisk`), which need fairness and `ENABLED`;
- `WildcardIsGlob`: what the recursive `WildcardMatch` computes for every pattern
  and text takes an induction over data. The theorems of `HistoryProofs` hold for
  whatever `RuleMatches` answers;
- the three runs that end in a violation.

## 5. Not modelled

- Templates, settings and API tokens: single critical sections that replace a
  record of a list. The client key is compared once, at the start of a poll, so
  that a rotation shows at the next one. A token acts as a sender without
  limits; which alerts it may recall goes by its name, so two tokens of one name
  may recall each other's (`docs/API.md:107` has "only alerts it sent").
- The list and reach requests: they read under the lock and change nothing.
- The web console; services, installers and deployment scripts; configuration
  files; TLS; logging; the HTTP layer beyond requests and answers: input and
  output without a state of their own that anything above depends on.
- In the client: drawing, sounds and links of the windows, back-off times,
  waiting for settings, `TestConnection`, registry and command line.
- `History` gives a client one session and `Foghorn` gives an alert a fixed
  audience: what depends on both at a time is not explored. In `Accounts` a name
  finds the same account for ever, so that a name used again after a deletion is
  out of its reach; so is the array of allowed groups that a request's copy of an
  account shares with the account (`server/auth.go:262`).
- Clocks that jump: all the code's times are differences of `time.Now`.
