# BusyMax: TLA+ models and proofs

BusyMax is a calendar and task client (Flutter; Linux, Windows and Android)
that keeps a local database, lets the user edit it offline, and synchronizes it
with Google, Microsoft, CalDAV/Nextcloud and iCloud accounts. This directory
holds TLA+ models of the parts whose correctness depends on the order in which
things happen, TLC configurations that check them on small instances, and
proofs, checked by TLAPS, of what holds for every instance.

Paths below are relative to the repository; `lib/` stands for
`lib/src/`.

## 1. Inventory

Each part is listed with its state, its operations, the other parts it
touches, what is hard about it, and what makes it correct. Section 2 says which
of them are modelled.

### Synchronization of REST task accounts

**Account gate** (`features/sync/account_sync_operations.dart`,
`AccountSyncCoordinator`). State: the last completer of each account
(`_accountTails`), the number of calls inside (`_activeCounts`), unfinished task
imports. Operations: `run`, `isRunning`, `trackTaskImport`, `restore…`,
`blocksDueToday`. Every synchronization, every replay and every change of an
authorization enters it. Hard: calls arrive while others wait; operations
throw. Correct: one operation of an account at a time, in order of arrival,
and nobody waits forever.

**Queue of pending operations** (`db/daos/pending_ops_dao.dart`,
`features/tasks/data/tasks_repository.dart`,
`features/task_lists/data/task_lists_repository.dart`). State: the table
`pending_ops` (operation, target, payload, `dependsOnOpId`, barrier ids, state,
`nextAttemptAtUtc`, attempts) beside the local rows of tasks and lists.
Operations: every edit of the user writes local rows and a queue row in one
transaction. Hard: edits arrive while a replay is sending; identifiers are
temporary until the provider answers. Correct: no edit is lost, none is sent
before the edits it builds on, a cancelled edit is never sent.

**Replayer** (`features/sync/pending_ops_replayer.dart`). State: the snapshot
of the row it handles, the pass it is in. Operations: read due rows, check
dependencies and barriers, claim creations, read the provider, send, record the
outcome in the queue. Interacts with the provider, the domain cooldown, the
edits of the user. Hard: an answer may be lost after the provider acted, the
app may be killed anywhere, a second engine may replay the same queue. Correct:
creations and recurring completions reach the provider at most once; order per
task and before removals is kept; a row leaves the queue only when it was
carried out, given up or made void.

**Resolution of blocked operations**
(`features/sync/pending_op_resolution_service.dart`). Operations: retry and
discard from the diagnostics screen. Hard: the provider is read between
choosing and deleting rows. Correct: what depends on a discarded operation goes
with it; no local row is left that nothing can synchronize.

**Task pull** (`features/sync/sync_engine.dart`). State: local rows, sync
cursors. Operations: list pull, task pull, pruning. Hard: the user edits while
the pull awaits a page. Correct: local edits not yet sent survive the pull.

**Schedule of a domain** (`features/sync/domain_sync_schedule.dart`). State:
one row per account and domain (cooldown, failures, last success). Operations:
`run` and the cooldown helpers. Hard: several writers; a provider throttles
during a run. Correct: nothing is sent during a cooldown and no cooldown is
shortened by a concurrent run.

**Schedulers and requesters**
(`features/sync/all_accounts_sync_scheduler.dart`,
`features/sync/pending_mutation_sync_requester.dart`). State: timers, the
running future, the run-again flag. Hard: requests that arrive while a run is
ending. Correct: every mutation is followed by a synchronization that starts
after it.

**Task import and the summary of due tasks**
(`AccountSyncCoordinator.trackTaskImport`,
`features/notifications/due_today_notification_scheduler.dart`). State: the set
of accounts with an unfinished import (also persisted), the summary history.
Hard: an import starts, ends or fails between the check and the reads, which are
several. Correct:
no summary is built from a half-imported cache, and one summary per day.

**Android account gate** (`android/android_account_gate.dart`,
`android/android_background.dart`, the Kotlin plugin in
`packages/busymax_android_platform`). State: one fair semaphore per account,
its owning engine. Hard: engines are destroyed while a thread waits for the
semaphore. Correct: one engine holds an account at a time and no gate stays
held by an engine that is gone.

### Calendars

**Calendar queue and replayer**
(`features/sync/calendar_pending_ops_replayer.dart`), **calendar
synchronization and coverage** (`calendar_sync_engine.dart`,
`cloud_calendar_range_coverage_service.dart`), **calendar repository**
(`features/calendar/data/calendar_repository.dart`). The same shape as for
tasks with series, exceptions, attachments and invitations on top, and pulls
by time window. Hard: a window is extended while another is pulled; edits of
one occurrence while its series is edited. Correct: as for tasks, and every
covered window holds what the provider had.

### DAV accounts

**Conditional mutations and conflicts** (`dav/mutation/`): writes guarded by
entity tags, a stored conflict when the tag changed. **Synchronization and
storage** (`dav/sync/`, `dav/storage/`): collection tokens, full listing when a
token expired. **Discovery, login, Nextcloud services** (`dav/discovery/`,
`dav/auth/`, `dav/nextcloud/`): sequential requests. Correct: no overwrite of a
version the user has not seen; after a synchronization the local objects are
those of the server plus the pending edits.

### Accounts, authorization, secrets

**Accounts and authorization** (`features/accounts/`, `features/auth/`,
`core/auth/`): an authorization is committed in the secret store and in the
database, two stores without a common transaction. **Token brokers and OAuth**
(`google_tasks/oauth/`, `microsoft_todo/oauth/`): one refresh at a time,
revocation, loopback flow. **Secret stores** (`core/secrets/`). Hard: crashes
between the two stores, a refresh that finishes after sign-out. Correct: an
account shown as signed in has its secret, a removed account has none.

### Notifications

**Schedule of reminders** (`features/notifications/`), **Android
notifications** (`android/android_notifications.dart`). State: desired
reminders, platform alarms, a persisted registry, the cancellation queue. Hard:
two stores again, restarts, limits of the platform. Correct: no reminder of a
deleted item, none lost by a restart.

### The native runners

Both runners serve Dart on the main loop of their platform; what makes them
hard is that this loop runs between any two steps of theirs, that threads and
other processes act beside it, and that Dart and the runner talk through
queues.

**Windows, one process per user** (`windows/runner/single_instance.cpp`,
`main.cpp`, `flutter_window.cpp`). State: a named mutex, a named pipe with one
instance, the listener thread, the queues of activations before and after the
window has Dart. Operations: election, start and stop of the listener,
forwarding of an activation, delivery to Dart. Hard: processes start, end and
are killed at any time; the listener blocks in system calls that the main thread
wants to end. Correct: one process of a logon session opens the data, an acknowledged activation
reaches Dart once and in order, every call of the guard returns.

**Windows, notification icon** (`windows/runner/tray_native_api.cpp`,
`windows_tray_channel.cpp`, `lib/platform/windows/windows_tray_service.dart`,
`lib/ui/windows/windows_desktop_runtime.dart`). State: the icon and its
handles, whether closing hides, what the Dart service believes. Hard: the
Explorer ends and starts again, Windows refuses an icon, the settings change
while a start is under way. Correct: each handle is given back once, a process
without a window and without an icon does not stay so.

**Linux, menus and dialogs** (`linux/runner/my_application.cc`, `time_picker.h`).
State: the active menu session, the stack of modal loops. Hard: GTK deactivates a
menu before it runs the action of the chosen row; a modal loop serves Dart,
whose next call opens a dialog above. Correct: each call is answered once, with
what the user did.

**Linux, first weekday** (`linux/runner/first_weekday_preference.cc`,
`lib/l10n/week_preferences_scope.dart`). State: the read under way, its timeout,
subscriptions to the portal and to GNOME. Hard: the bus and the portal answer
late, twice or never. Correct: each read is answered, no change is missed.

**Linux, window and opened files** (`linux/runner/my_application.cc`,
`lib/platform/external_calendar_open_service.dart`). State: the window, queues
on both sides of the channel. Hard: opens before Dart is ready and by other
launches. Correct: each open is handled once, in order.

**Linux, icons of the header** (`linux/runner/gtk_header_icons.cc`,
`lib/platform/gtk_header_icon_service.dart`). State: the theme it is bound to,
the revision of Dart's catalog. Hard: theme, scale and screen change while a
catalog is loading. Correct: the catalog that stays is the one of now.

### The rest

HTTP transports and the shared Graph throttle (`core/http/`), connectivity
(`features/connectivity/`), web calendars (`webcal/`), contacts (`contacts/`),
maps (`features/maps/`), iCalendar parsing and recurrence (`dav/ical/`, `ical/`,
`features/recurrence/`), schedule views (`schedule/`), settings and bootstrap
(`app/`), database migrations (`db/`), the user interface, helpers of the
runners, release tooling. `PROJECT.json` lists each with the reason why it is or is not
modelled.


## 2. The modules

An action is a stretch of code between two awaits (one Dart isolate runs them
without interruption), a step of the platform, or a step of the user. Variables
keep the names of the code where it has one. Variables marked *history* in the
modules exist only for properties. Operators marked *Mutant* are wrong variants
of the definition that follows them; no specification uses them. They show that
the properties would notice.

| module | models | uses |
|---|---|---|
| `FifoLock` | what a gate promises: a first-come-first-served lock per account | |
| `AccountGate` | `AccountSyncCoordinator.run` | implements `FifoLock` |
| `CrossEngineGate` | the native semaphores and the engines that own their permits | |
| `DomainSchedule` | `DomainSyncPolicy` inside that gate | extends `CrossEngineGate` |
| `TaskReplay` | the queue of task operations, its replay, its resolution by the user | |
| `SyncRequests` | requester, scheduler, connectivity | |
| `DueTodaySummary` | the summary of due tasks against task imports | |
| `SingleInstance` | the single-instance guard of Windows and its activations | |
| `WindowsTray` | the notification icon, from Windows to the Dart service | |
| `WindowsRunner` | the two side by side | extends `SingleInstance`, has an instance of `WindowsTray` |
| `NativeMenus` | GTK menus | |
| `NativeDialogs` | GTK time picker and search for a time zone | |
| `FirstWeekday` | reads and changes of the first weekday, with their Dart controller | |
| `LinuxWindow` | launches, the window, opened files and links | |
| `HeaderIcons` | icons of the header, from the theme to Dart's catalog | |
| `LinuxRunner` | the five side by side | extends `NativeMenus`, has an instance of each other |
| `MC…` | instances for TLC; a behavior of `MCWindowsRunner` or `MCLinuxRunner` is one of a single part | |
| `…Proofs` | proofs about the module they are named after; `DomainScheduleProofs` also about `CrossEngineGate` | |

**AccountGate.** `Submit`, `Enter` and `Finish` are the three stretches of
`run`: up to the await of the predecessor's completer, after it, and the
`finally` block. A completer is named by the call that created it. `ahead` and
`phase` of `FifoLock` are computed from the chain by the refinement mapping at
the end of the module.

**CrossEngineGate.** `TryAcquire`, `RegisterLease` and `AnswerLease` are what
a thread of the plugin's pool does between the points where the main thread
may come in between: it takes the permit, puts the lease into the map, looks at
`detached`. `ReleaseLease` is the atomic `computeIfPresent`; `StopTask` and
`DetachReleases` are `releaseOwned`, whose iteration gives up every lease it
meets. An engine goes through alive, (stopped), detaching, detached and gone;
what its Dart code was doing then ends without its `finally`. Left out: a call
that is interrupted, and the wait itself, which `TimeOut` may end at any time.

**DomainSchedule.** `Decide` reads the row and the clock; `ReplayThrottled`,
`Throttled` and `RecordFailure` are the writers of a cooldown (the last two
apart, since the instant is computed before the statement runs);
`CheckCooldown`, `WriteSuccess` and `CheckCooldown` again are the end of a
pull, with the condition of the SQL statement in `EndsCooldown`. The clock is
the device's and can be set back. Left out: full pulls (always due, like manual
ones), disabled domains (they return at once), and the maintenance of the cache
during a cooldown (it does not write the row).

**TaskReplay.** An operation is a kind and an item; `queued`, `state`,
`timing`, `dep` and `captured` are the columns of `pending_ops` that decide
what is sent (the attempt time is reduced to due, later and never). The user's
actions queue rows as `TasksRepository` and `TaskListsRepository` do: one row for
each edit, a creation and a move for a task with a parent, dependencies on the
latest row, barriers, and no row for the deletion of a task whose creation was
never sent, which is cancelled with all that waits for it. `StartReplay`
to `Record…` follow `_replayDueOps`: passes over the due rows, admission
(dependencies, barriers, claims), the reading of the provider before a write
whose outcome is open, the request, the answer, and what is written about it.
`Crash` ends an engine at any of these points; a request on its way is carried
out or not. `RetryCheck`/`RetryWrite` and `DiscardBegin`/`DiscardCommit` are the
diagnostics screen, split at their awaits. Contents of tasks are left out, and
so are checklist items and moves between lists. An edit has a baseline here, as
every edit the repository queues (`tasks_repository.dart:1130`, `1164`); section 6
says what this excludes.

**SyncRequests.** The requester of an account (debounce, run, repeat), the
scheduler (its loop over the accounts and its repeat flag), the connectivity
monitor with a late answer to its initial check, and the coordinator that
starts a run when the network returns. The gate appears as exclusion only.

**DueTodaySummary.** `_evaluate` await by await: clean up, withdraw, ask every
account, read accounts, lists and tasks one query after the other, ask again,
consult the history, post, record; against `trackTaskImport` with its persisted
flag. Queries and imports share the one connection of the database
(`app_database.dart:76`), a background isolate that carries out statements in
the order in which they were sent and answers in this order. `behind` holds the accounts
whose statement was sent after the query the evaluation waits for: such a statement
is not answered before the query is (`Answered`). A round of questions is one turn of the event
loop and reads no database. Left out: language and level of
detail of the text, and the shutdown of the application. The locals of
`trackTaskImport` are sets of accounts, which are reset where the call ends.

**SingleInstance.** Each process has a main thread (`main`) and, in the primary,
a listener (`listener`); a step is a call of the system and what follows it up
to the next. A process that found the mutex taken holds a handle of it too, as
in the code, so the mutex exists until the last of them ends. `CancelListener`
may find the listener between two calls and then cancels nothing. `Kill` closes
every handle. A launch for the click on a toast has an engine of its own,
waits for Dart and then forwards. The name of the mutex is local to a logon session
(`single_instance.cpp:20`): the processes of the model are those of one session.
Left out: validation of what a client writes
and the security descriptor of the pipe.

**WindowsTray.** The calls of Dart and the answers and events of the runner are
two queues (`toNative`, `toDart`). The Dart side has three flows that wait for
answers independently: the start of the service, its refresh, and the
configuration of the desktop runtime (`pc`, `round`). `ExplorerEnds` and
`TaskbarCreated` are the restart of the notification area. The setting to start
minimized asks for the icon too; it is the wish of the launch (`override`) with a window that
is shown until the first configuration. A command to synchronize awaits the
synchronization before it refreshes the icon (`Synchronized`). Left out: rows of the
menu, the query of bounds, and `_startTray` hiding a window that an opened
calendar file has just shown.

**NativeMenus.** A call of Dart is a session; `Show` retires the active one,
`ChooseRow` is the deactivation that GTK makes first and `ActivateAction` the
action that follows, `CleanupIdle` the source that frees the session. GTK may
refuse to map a menu and tells nobody; its call is then answered by the next
`Show` or dismissal, and by nothing if there is none, as in the code.

**NativeDialogs.** `stack` holds the modal loops, one inside the other: only the
inmost can end, and the answer of a call is given when its own loop returns.
The order of the rows of a search follows the comparison function with its
regions and best matches; how well a row matches is an input. Left out: minutes,
labels and style, and a quit of the application while a loop runs.

**FirstWeekday.** A read is a number; `waiting` says which callback of the bus
or of the portal is still to come for it, also when it is over. `timers` are the
reads with a timeout source. Messages of the portal come in order (`wire`).
The controller of Dart with its own timeout is part of the module, since whether
a change can be missed depends on the order of subscription and read across
both.

**LinuxWindow.** `requests` is what other launches handed to the application,
`kept` the queue of the runner, `sent` the channel, `pendingDart` and `tail` the
queues of Dart. `arrived` and `wanted` are history. A request is one that Dart
accepts or one it refuses (`ExternalCalendarActivation.isValid`), which shows the window and
opens nothing.

**HeaderIcons.** A catalog is reduced to the screen, theme and scale it was drawn
from and its revision. The loop of Dart (`run`, `loads`, `queued`) follows
`gtk_header_icon_service.dart` await by await. Left out: names, sizes and bytes of an
icon.

## 3. What the runs check

Every run uses small sets and the bounds named in its configuration. The
systems may stop when a bound is used up or the user does nothing, so deadlock
is not looked for; that something happens is what the liveness properties say.

| run | properties | bounds and why they are enough |
|---|---|---|
| `account_gate` | exclusion, order and the count of calls; every call leaves; the chain implements `FifoLock` | three calls of one account and two of another: a chain of three has a head, a middle and a tail |
| `domain_schedule` | the permit is held once; two inside only while one engine is stopping; no lease survives its engine; a cooldown is held; one pull per window | one engine of the user and one worker, a call of each, one account; two throttled requests, so that a short and a long cooldown meet; a clock of three instants set back once. The theorems of section 5 remove these bounds |
| `replay_tasks` | a creation is carried out once; no row without its creation; no edit lost; what was given up stays so; order per task and before barriers | a parent and a child, three operations, a crash, every uncertain answer: a creation, a creation below it and a barrier, edit or move behind both. A list is renamed as the first operation or not at all (`RenamedFirst`): renaming waits for and delays nothing but list operations |
| `replay_lists` | an occurrence is completed once, nothing passes a barrier, every edit settles | a list and one task, both new, three operations: a chain of list, task and completion, or a removal behind both. One crash after the last edit, while a request or the record of its answer is outstanding (`KilledAtRequest`): earlier crashes are in `replay_tasks`, which has no completions. No HTTP 408 here (section 4) |
| `sync_requests` | no edit is forgotten; the monitor ends up current; every edit is attempted | two accounts, two edits, three changes of the network (gone, back, or an error), one manual run |
| `due_today` | a half-imported cache blocks and is never counted; once a day | a REST and a DAV account, two synchronizations, two days, two disturbances among midnight, kill, edit and change of the setting: an import can begin and end between any two queries while the other account's is under way |
| `due_today_progress` | the summary comes; a stale one is withdrawn | one REST account, two synchronizations and two disturbances: a lost announcement is one of an account that comes to rest during an evaluation |
| `windows_runner` | one process opens the data; an acknowledged activation is kept; the guard returns; handles of icons are owned once; no process stays without window and icon | three launches, one of them by a toast: a primary, one client in the pipe, one that waits; two faults, and two launches beside them where a fault happens. Three icons (retained, candidate, one more), one trouble of Windows, one command of the user |
| `linux_runner` | menus and dialogs answered with what the user did; rows grouped; reads answered and changes seen; opens handled once in order; the catalog of now | three menus (active, next, one refused) of two rows; one search over four zones in two regions inside or above one time picker; three reads and one change; three launches with two files and a link; two screens, two scales, three changes |
| `completion_timeout`, `discard_move_race`, `replay_overlap` | fail: section 4 | the smallest instance that shows the failure |

The disturbances of `due_today` share one bound: any two of them meet
every await of the evaluation and of the imports. In `replay_tasks` one crash is enough to meet every state of
the database that the operations reach, since a crash leaves nothing but the
database. The parts of a runner share no variable, so a behavior of
`windows_runner` or `linux_runner` is one of a single part (`part`) and TLC
explores their sum (some half a million states each), not their product.

**Fairness.** Liveness is checked under what the event loop, timers and
transport timeouts give, and no more:

- `AccountGate`: a completed completer resumes its awaiter, an operation ends
  (weak fairness). The requests under it have transport timeouts.
- `TaskReplay`: replay is started again and again (edits, timers, the return of
  the network), each started step goes on, backoffs and cooldowns end. Strong
  fairness says that an operation that is attempted again and again is some
  time sent and some time gets an answer that decides. The user, other clients and crashes owe
  nothing; `EveryEditSettles` therefore allows an edit to stay while some
  operation waits for the user.
- `SyncRequests`: timers fire, notifications arrive, a call waiting for the
  gate is not overtaken for ever (strong fairness, justified by `AccountGate`).
  The periodic timer of fifteen minutes is not assumed.
- `SingleInstance`: a thread that can go on does, the deadlines of a client
  (five seconds, fifteen for the forwarder) pass, and the message box of a failed
  listener is closed some day. Users, kills, launches and Dart owe nothing.
- `WindowsTray`: the window's queue is served (`TaskbarCreated`, calls of Dart),
  Dart takes what it is sent, a configuration that was asked for runs, and the
  timer of one minute fires. That the Explorer comes back is not assumed.
- `DueTodaySummary`: the evaluation goes on and the database answers, submissions
  are some time delivered, synchronizations end. An import may write any number
  of pages, and then has a last one (strong fairness of `ImportEnds`). The clock of one minute is assumed only for
  the withdrawal of a stale summary, as a premise of the property itself.

## 4. What the code does otherwise than it says

1. `completion_timeout` (`pending_ops_replayer.dart:1924`). A recurring
   completion answered by HTTP 408 loses its mark "in progress" when it is
   blocked, so that a manual retry can complete the next occurrence too. For
   creations the same status counts as unknown.
2. `discard_move_race` (`pending_op_resolution_service.dart:697`). Discarding a
   move collects its dependents before it awaits the provider; an edit queued
   meanwhile survives. It names the deleted move as what it depends on, which no longer
holds it back, and the task it was made on has been overwritten with the
provider's copy.
3. `replay_overlap` (`pending_ops_replayer.dart:1812`). A background worker that
   is stopped gives up the gate of its accounts while its replay goes on
   (`CrossEngineGate`), and the app replays the same queue. A task in a list that
   is still being created is claimed by the worker after the app has blocked it; the app
   then records the list and takes the claimed row for a blocked one. The row is
   pending again and is sent although it is claimed, and the worker, whose own request
   was not sent, puts "retry" over the unknown outcome: the task is created
   twice. With a single operation in the queue the claim holds, which is what
   the test of concurrent replayers has. `OverlapSpec` restricts `Spec` to one
   run of the worker that begins before the app's, which is all that a
   stop allows. The invariants of `replay_tasks` are therefore claims about one
   replay at a time, which the gate ensures otherwise.

In each case the run's trace is the sequence of steps; no other bound is
needed. `PROJECT.json` quotes the lines they disagree with.

## 5. What is proved

The theorems hold for any number of accounts, calls, engines, processes, menus
and reads; they assume only the named assumptions on the constants
(`FirstWeekdayProofs`, whose module is only instantiated, states its one
assumption, that `MaxReads` is a natural number, in its theorems; it is part of the
named assumption of `LinuxRunner`). Every invariant and every action property
that a passing run checks is the property of a theorem.

**AccountGate** (`AccountGateProofs`): types, exclusion, order, the count of
active calls, and the refinement to `FifoLock`. Exclusion is not inductive: that
nobody else is running when a call enters follows from the shape of the
chain. `GateInv` states this shape by the order of submission: a waiting call
awaits exactly its predecessor, whoever has left was submitted before whoever
is inside, a running call has only departed calls before it, the tail is the
last call. `Submit` extends the chain, `Enter` advances it and `Finish` removes
its head; each lemma has one step per conjunct.

**CrossEngineGate** (in `DomainScheduleProofs`): the permit is owned once, two
operations overlap only if an engine is stopping, a detached engine leaves no
lease. `CrossInv` says without counting that an account has its permit or one
holder of it (`PermitInv`), that a lease is registered only after its permit was
taken (`LeaseInv`), that whoever is inside an engine nobody told to stop still
has its lease (`AliveInv`), and the third property itself. Giving up leases is
one lemma (`ReleaseKeepsPermits`) used by all four actions that do it: what is
given up are holders, and there is at most one.

**DomainSchedule** (`DomainScheduleProofs`): every step of the policy is a step
of the gate or leaves it alone, hence `Spec => GateSpec` and the gate's theorems
hold here too. A cooldown is held because an end that the clock has not reached
since it was written lies ahead of the clock (`AheadInv`), which setting the
clock back only strengthens; a success stamped no later than now then fails the
condition of its own statement. One pull per window joins the two parts: while
no engine is stopping, a passive pull that is inside knows that its window was
open (`WindowInv`), and the only other writer of the row would have to be inside
the same gate.

**TaskReplay** (`TaskReplayProofs`): every safety property of its passing runs.
Types (`Typed`) and the order of barriers hold for any number of replayers. The
others are theorems under `Replayers = {Ui}`: the run `replay_overlap` shows that
two replayers break the first of them, and the account's gate
excludes two except after a worker was stopped. `CompletionsOnce` also assumes that
no request is answered by HTTP 408, since `completion_timeout` shows it false
otherwise. Tasks, lists, parents, the number of operations, crashes and the
other answers are arbitrary.

- *Identifiers* (`IdsInv`, `CreationInv`, `DepInv`): what the state names was issued; an
  operation depends on an earlier one; an item has one creation, and the first
  operation on it.
- *What the replayer holds* (`TodoInv`): what is on its list and still queued is
  due, until it is done with it (`NoLongerDue`). A blocked or delayed row can
  therefore not be sent by the pass that blocked it, the step on which
  `CreationsOnce` hangs: `CreatedInv` says that a creation was not carried out
  unless its row is claimed or set aside, and that the claimed one the
  replayer is at was not, until an answer leaves it open.
- *Lines* (`LineInv`): the operations of a task, or of a list, form a line. Of two
  queued ones the later waits for a queued one (`ChainInv`), what is blocked, delayed or
  with the replayer waits for none (`FirstInv`, `CurInv`), and a discard that waits
  for the provider takes a whole end of a line (`DiscardInv`). That new rows keep to this is
  `LatestIsLast`; that cancelling and discarding do is `DiscardedFromHere`. The last
  uses the closures only through two facts: they are closed, and contained in
  every closed set that has the base (`ClosureIsSmallest`). `TasksInOrder`
  follows from `ChainInv` and `CurInv`.
- *Given up* (`GivenUpInv`): the replayer can be at an operation that was cancelled after it
  was read. It is then a creation not yet admitted, whose claim fails, or an edit of an item the provider
  does not know, which it refuses.
- *Rows* (`OrphanInv`): items of rows and of queued operations are known, or have
  their creation queued. Needed for `RowsHaveCreations` is that a closure that takes a
  creation takes all that is done to its item (`TakesItems`).
- *Losses* (`LossInv`): what an answer says of the provider is still true when it is recorded
  (`AnswersInv`), and whoever knows a task knows its list (`ListsFirst`), so
  that "not found" at a removal means that the item is gone.
- *Completions* (`CompletedInv`): the row of a completion that may have been carried out says
  in progress or set aside, and one set aside is not retried. No acknowledgement of a
  creation makes it due again (`CompletionsNotUnblocked`), because a completion is only
  blocked when its task is known.

The invariants were checked by TLC on the instances of the runs before they were
proved.

**SyncRequests** (`SyncRequestsProofs`): no edit is forgotten. Two facts make it
inductive: whoever gives up for want of a network leaves the coordinator
remembering it (`OfflineRemembered`), and the scheduler is inside the gate of an
account only while the account is on its list (`SchedulerInside`), so that
making a new list misses nobody. One frame lemma for the requesters and one for
the scheduler carry the other accounts along. That the monitor is current rests
on `MonitorInv`: the last notification on its way is the state of the network or an
error (`LastWord`); with none on its way the monitor believes the network or has no
opinion (`NothingMissed`), and an answer to the initial check that can still
count is true (`AnswerFresh`).

**DueTodaySummary** (`DueTodaySummaryProofs`): a partial cache blocks, one
summary a day, whole caches are counted. The first rests on what an import remembers of earlier ones: one
that runs on a partial cache found the account incomplete or has itself
written (`Remembers`), so that its failure never clears the mark. The second
counts: a day that is neither recorded nor about to be has had no more
summaries than there were kills (`DayInv`). For the third (`WholeInv`), an account of which
half an import was read still blocks when the accounts are asked again (`Held`): what would end its import
is a statement sent after the one that wrote the rows, and either it was sent after the query,
and is then answered after it, or the query would not have seen the rows half
imported. The second round of questions follows the answer in the same turn.

**SingleInstance** (`WindowsRunnerProofs`): one process of a session opens the data. Only the
election makes a primary, of a process that finds the mutex free; `HeldInv` says
that a primary holds a handle of it for as long as it is primary, hence
`OnePrimaryInv`. The lemma `OtherSteps` shows that no other step touches roles or
mutex, so that the length of `Next` does not matter. And acknowledged activations
reach Dart in order (`AcceptedKept`), which is far from inductive. The pipe has one server, the
primary's listener, which is at the client it accepted (`StageInv`, `PipeInv`); a
client is told "yes" only after it wrote and is accepted once (`OnceInv`); and what
Dart has, what the window holds back and what is posted to it make one line
that follows the order of the acknowledgments, with gaps only where the system
lost a message (`LineInv`). The order is that the positions in the order of the
acknowledgments increase along the line (`Ordered`), so that appending to the line, moving its head into Dart and cutting its end off with
the window are three lemmas on sequences.

**WindowsTray** (`WindowsRunnerProofs`, for the specification of `WindowsRunner`):
handles of icons are owned (`OwnedInv`). `IconsOwned` needs two facts more. A handle that Windows refused
to destroy cost a trouble, so that there is one to load under the assumption on
`Icons` (`HandleLeft`); without it `CHOOSE` could return a handle in use, which Windows does not.
And an icon is retained only while Dart wants one, so that the message of a
new Explorer is not passed over while the icon is said to be available. `InstallKeeps` and
`ReplaceKeeps` follow each branch of the code's error handling.

**NativeMenus** (`LinuxRunnerProofs`, as the next four, for the specification of
`LinuxRunner`): every call is answered once, with what its
user chose, and the types. The answer is the row the session stored, the
property speaks of the row the user chose: `PickInv` says that the two differ
only for the active session between its deactivation and the action of its row,
where no session is disposed of. All steps that retire sessions share the lemma
`Retired`.

**LinuxWindow**: what is opened reaches the application once and in order, and shows the
window. `DeliveredInv` says that everything that arrived is, in this order, what
was handled, what Dart is at, what waits for its listener, what is on the
channel and what the runner keeps; a step moves the head of one of these to the
end of the next, which is one lemma on concatenation (`MoveHead`). That nothing
overtakes rests on `ReadyInv`: Dart says that it is ready only once its handler is
set, and what waits for the listener is gone once there is one. `WantedInv` covers
the time before the first frame, which shows no window of an application that was
launched minimized: one that is wanted by then is visible already.

**NativeDialogs**: every call is answered once, with what its user
confirmed in its dialog. `ResultInv` joins the result a dialog has at hand with what the user
saw; the hour is the one on the clock because the clock of each hour is
different (`ClockIsRead`). The steps are a push, a change of the top and a pop
(`PushKeeps`, `ChangeKeeps`, `PopKeeps`); each action is one of them, except the end of the
main window. `RowsGrouped` is not about steps: the rows of a dialog are those of
what is typed in it (`Searched`), and `ResultsAreGrouped` holds for any zones,
regions, ranks and limit. It rests on `MatchesOrdered` (the comparison is a strict
total order, because the best match is one for the whole region) and on `SortedMatches`:
the number of matches before each is a one-to-one map onto the
places, by counting, so that no induction is needed.

**HeaderIcons**: at rest, the catalog is of the screen, the theme and the scale of now.
`DrawnInv` says that what was drawn of the last revision shows the screen, wherever it
is; `LoadsInv` that the load Dart awaits has a number of its own and was drawn no
earlier than its target; `HeardInv` that the last revision was seen or is on its way, and
that a loop that has not ended has the highest one as its target or in its
queue. `ListeningInv` covers the start: until the runner has taken the
subscription nothing is on its way back, and Dart can be at rest only after its first load
failed. That a load which times out leaves its number in `queued` does no harm, since
the next target is higher.

**FirstWeekday** (`FirstWeekdayProofs`): each read is answered once or is the one
whose timeout runs. Callbacks of the bus and replies of the portal come for reads
that are over too; `LateInv` says that whatever is still to come belongs to a
read that was made, `CallsInv` that the read awaited is the only open one and has
the only timer. `CompleteKeepsCalls` is the one place where an answer is given.
That the day is current is `CurrentInv`, which follows a value from the reply on
the wire to the answer sent to Dart and into the controller: at each of these
places it is the setting of now, or a change is on its way behind it, because
whoever gave a value also tells of its changes (`WatchedInv`). Every step of the
runner is a step of this module or leaves it alone (`WeekdaySpec`), so both hold in the
runner.

Only model-checked: all
liveness (temporal reasoning under fairness and ENABLED is out of the prover's
reach). The queue of a semaphore in `CrossEngineGate` is
checked by TLC to be well typed but takes no part in the proofs: fairness of
the semaphore is not needed for any of them.

## 6. What is not modelled

Section 1 names every part; `PROJECT.json` gives the reason of each. In short:
calendars, DAV, authorization, notifications and contacts are planned below;
parsing, recurrence and views are pure functions reached by unit tests;
migrations, the user interface and the release tooling have no
protocol of their own.

Of the queue of tasks: a row without `baselineRawJson` whose local task is gone as
well is sent without reading the provider, even when it says in progress
(`pending_ops_replayer.dart:2081`). The repository queues no such row; one can only come
from before the migration that added the column (`migrations.dart:52`). In the
model every edit has its baseline.

Of the runners, besides what section 2 leaves out: drawing, themes, geometry and
preferences of the windows, the channels that read the clock, the weekday and
the time zone of Windows, its startup task and the text of an activation: one
call of the platform each. `IconsCurrent` speaks only of loads that succeeded: if
the first load fails while a change is announced, the icons drawn instead of
the theme's stay until the next change. `DialogsAnswered` says nothing of what
follows when the window is destroyed under a time dialog, whose loop then uses a freed
dialog (`crashed`). Two logon sessions of one user elect a primary each; nothing is
said of them. `AcceptedKept` counts an activation that was taken over from the
window's queue as kept. The parts of a runner are not composed with each other: they share the main
loop but no state.

## 7. Plan

In this order, each with its run, and with the gates above reused where a part
runs inside them:

1. **Task pull** (`sync_engine.dart`): pages, pruning and cursors against edits
   made meanwhile; composed with the queue: what the user sees after a pull and
   an empty queue is what the provider has. Abstract specification: a map from
   items to versions, with the pending edits on top.
2. **Field edits** (`pending_ops_replayer.dart:490`): chains of edits of one task, the comparison
   with the base of an edit, rebasing after a partial success.
3. **Authorization**: the commit to the secret store and the database, staged
   registrations, a single refresh per account, the race of refresh and sign-out.
   Abstract specification: one atomic commit.
4. **DAV mutations**: writes guarded by entity tags, conflicts and their
   resolution; collection synchronization with an expired token. Abstract
   specification: no overwrite of an unseen version.
5. **Reminders**: desired schedule, platform alarms and registry over kills and
   limits.
6. **Calendar queue and coverage**: windows of pulls extended while others run.
7. **Shared Graph throttle, web calendars, secret store, contacts**: smaller
   protocols with one hazard each.

Proofs worth having next: the abstract specifications named above, with
the refinements that show them implemented. The closures of
`TaskReplay`, loops to a fixpoint in the code, are written as the smallest closed set, which
is what such a loop computes and what a proof can use.
