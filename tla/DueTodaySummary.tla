--------------------------- MODULE DueTodaySummary ---------------------------
(***************************************************************************)
(* The daily summary of due tasks on the desktop:                          *)
(* DueTodayNotificationScheduler counts the due tasks of all accounts in   *)
(* the local cache, once a day, unless AccountSyncCoordinator says that an *)
(* account is synchronizing or was left with a half-finished import.       *)
(*                                                                         *)
(* An account goes through run() and, inside it, trackTaskImport().  Each  *)
(* await of the two and of the evaluation is a step boundary, except for   *)
(* those whose future is complete: the accounts are asked in one turn of   *)
(* the event loop.  A cache is `partial' from the first row an import      *)
(* writes until an import succeeds.                                        *)
(*                                                                         *)
(* The database has one connection, in an isolate of its own, which        *)
(* carries statements out and answers them in the order they were sent.    *)
(* Carrying out and answering are one step here: nothing looks at a table  *)
(* but by a later statement.  Of this order the model keeps what a reader  *)
(* of the tasks can notice: what was sent before its query and what after. *)
(***************************************************************************)
EXTENDS Integers, FiniteSets

CONSTANTS
    Accounts,
    DavAccounts,  \* those whose import counts as partial whenever it fails
    MaxDay,       \* bound: days
    MaxSyncs,     \* bound: synchronizations
    MaxEvents     \* bound: midnights, changes of the setting and of the due tasks,
                  \*        and kills of the application, all together

ASSUME SummaryAssumption ==
    /\ DavAccounts \subseteq Accounts
    /\ MaxDay \in Nat \ {0}
    /\ MaxSyncs \in Nat /\ MaxEvents \in Nat

Days == 1..MaxDay
NoDay == 0

VARIABLES
    day, late,    \* today, and whether its summary time has come
    enabled,      \* settings.notifyDueToday
    someDue,      \* the cache holds a task due today
    \* AccountSyncCoordinator
    sync,         \* where the synchronization of each account is
    behind,       \* the accounts whose statement was sent after the query that is
                  \* waited for
    incomplete,   \* _incompleteTaskImports
    persisted,    \* accounts.task_import_incomplete
    already,      \* local alreadyIncomplete
    wrote,        \* remoteImportWroteData
    partial,      \* history: caches an unfinished import has changed
    \* DueTodayNotificationScheduler
    phase,        \* idle, or the await the evaluation is in
    today, seen,  \* the day, its summary time and the setting as the evaluation began
    counted,      \* whether the tasks read include a due one, and whether the lists
                  \* and the tasks were read from caches that were all whole
    again,        \* _checkAgain
    revised,      \* _inputRevision has changed since the submission
    retry,        \* _retryAt lies ahead
    evaluated,    \* _evaluatedDate
    cleanup,      \* _cleanupService # null
    \* notification centre and history
    posted,       \* the day of the summary that is shown
    recorded,     \* daily_summary_history
    posts,        \* history: summaries posted for each day
    crashes,      \* history: kills of the application
    syncs, events

syncVars == <<sync, incomplete, persisted, already, wrote, partial, syncs>>
evalVars == <<today, seen, counted, evaluated, cleanup, revised>>
centreVars == <<posted, recorded, posts>>
vars == <<day, late, enabled, someDue, syncVars, behind, phase, evalVars, again, retry,
          centreVars, crashes, events>>

\* The queries of notificationTasksDueOn.
Queries == {"reading accounts", "reading lists", "reading tasks"}

TypeOK ==
    /\ day \in Days /\ late \in BOOLEAN /\ enabled \in BOOLEAN /\ someDue \in BOOLEAN
    /\ sync \in [Accounts -> {"idle", "inside", "marking", "importing", "writing",
                            "clearing", "ending"}]
    /\ behind \subseteq Accounts
    /\ incomplete \subseteq Accounts /\ persisted \subseteq Accounts
    /\ already \subseteq Accounts /\ wrote \subseteq Accounts /\ partial \subseteq Accounts
    /\ phase \in {"idle", "cleaning", "withdrawing", "asking", "clearing", "consulting",
                  "posting", "withdrawing post", "recording"} \cup Queries
    /\ today \in Days
    /\ seen \in [late : BOOLEAN, enabled : BOOLEAN] /\ revised \in BOOLEAN
    /\ counted \in {"nothing", "whole", "half"}
    /\ again \in BOOLEAN /\ retry \in BOOLEAN
    /\ evaluated \in Days \cup {NoDay} /\ cleanup \in BOOLEAN
    /\ posted \in Days \cup {NoDay}
    /\ recorded \subseteq Days
    /\ posts \in [Days -> 0..3]

\* The application has started with an empty history; start() has asked for
\* an evaluation.
Init ==
    /\ day = 1 /\ late = FALSE /\ enabled = TRUE /\ someDue \in BOOLEAN
    /\ sync = [a \in Accounts |-> "idle"]
    /\ incomplete = {} /\ persisted = {} /\ already = {} /\ wrote = {} /\ partial = {}
    /\ phase = "cleaning" /\ behind = {} /\ today = 1 /\ counted = "nothing"
    /\ seen = [late |-> FALSE, enabled |-> TRUE] /\ revised = FALSE
    /\ again = FALSE /\ retry = FALSE /\ evaluated = NoDay /\ cleanup = FALSE
    /\ posted = NoDay /\ recorded = {} /\ posts = [d \in Days |-> 0]
    /\ syncs = 0 /\ events = 0 /\ crashes = 0
------------------------------------------------------------------------------
(* Asking for an evaluation                                                 *)

Event == events < MaxEvents /\ events' = events + 1

\* An evaluation begins: it looks at the clock and at the settings.
EvaluateAt(l, e) ==
    /\ phase' = "cleaning"
    /\ today' = day
    /\ seen' = [late |-> l, enabled |-> e]
    /\ again' = FALSE

\* checkNow, with the clock and the setting as they are now
CheckNowAt(l, e) ==
    IF phase = "idle"
    THEN EvaluateAt(l, e)
    ELSE again' = TRUE /\ UNCHANGED <<phase, today, seen>>

CheckNow == CheckNowAt(late, enabled)

KeepEvaluation == UNCHANGED <<counted, evaluated, cleanup>>

\* The clock of the application: every minute, and at the time of the next
\* check.
ClockTick ==
    /\ CheckNow
    /\ KeepEvaluation
    /\ UNCHANGED <<day, late, enabled, someDue, syncVars, behind, retry, revised,
                   centreVars, events, crashes>>

SummaryTime ==
    /\ ~late /\ late' = TRUE
    /\ retry' = FALSE
    /\ CheckNowAt(TRUE, enabled)
    /\ KeepEvaluation
    /\ UNCHANGED <<day, enabled, someDue, syncVars, behind, revised, centreVars, events,
                   crashes>>

RetryTime ==
    /\ retry /\ retry' = FALSE
    /\ CheckNow
    /\ KeepEvaluation
    /\ UNCHANGED <<day, late, enabled, someDue, syncVars, behind, revised, centreVars,
                   events, crashes>>

Midnight ==
    /\ Event /\ day < MaxDay
    /\ day' = day + 1 /\ late' = FALSE /\ someDue' \in BOOLEAN
    /\ UNCHANGED <<enabled, syncVars, behind, phase, evalVars, again, retry, centreVars,
                   crashes>>

\* inputsChanged
Toggle ==
    /\ Event
    /\ enabled' = ~enabled
    /\ retry' = FALSE /\ revised' = TRUE
    /\ CheckNowAt(late, ~enabled)
    /\ KeepEvaluation
    /\ UNCHANGED <<day, late, someDue, syncVars, behind, centreVars, crashes>>

\* The user edits tasks; the scheduler watches their table.
EditTasks ==
    /\ Event
    /\ someDue' = ~someDue
    /\ CheckNow
    /\ KeepEvaluation
    /\ UNCHANGED <<day, late, enabled, syncVars, behind, retry, revised, centreVars,
                   crashes>>
------------------------------------------------------------------------------
(* AccountSyncCoordinator                                                   *)

NotAsked == UNCHANGED <<phase, today, seen, again>>
SyncFrame ==
    /\ KeepEvaluation
    /\ UNCHANGED <<day, late, enabled, retry, revised, centreVars, events, crashes>>

\* The accounts that wait for a statement they sent.
Outstanding == {a \in Accounts : sync[a] \in {"marking", "writing", "clearing"}}

\* An account sends a statement: behind the query, if one is waited for.
Sends(a) == behind' = IF phase \in Queries THEN behind \cup {a} ELSE behind

\* Its statement comes to be carried out and answered.
Answered(a) == a \notin behind /\ UNCHANGED behind

\* run() is entered.
SyncBegins(a) ==
    /\ sync[a] = "idle" /\ syncs < MaxSyncs
    /\ syncs' = syncs + 1
    /\ sync' = [sync EXCEPT ![a] = "inside"]
    /\ CheckNow
    /\ UNCHANGED <<behind, incomplete, persisted, already, wrote, partial, someDue>>
    /\ SyncFrame

\* trackTaskImport up to the await of its persistence.
ImportMarks(a) ==
    /\ sync[a] = "inside"
    /\ sync' = [sync EXCEPT ![a] = "marking"]
    /\ Sends(a)
    /\ already' = IF a \in incomplete THEN already \cup {a} ELSE already \ {a}
    /\ incomplete' = incomplete \cup {a}
    /\ NotAsked
    /\ UNCHANGED <<persisted, wrote, partial, syncs, someDue>>
    /\ SyncFrame

ImportBegins(a) ==
    /\ sync[a] = "marking"
    /\ Answered(a)
    /\ sync' = [sync EXCEPT ![a] = "importing"]
    /\ persisted' = persisted \cup {a}
    /\ CheckNow
    /\ UNCHANGED <<incomplete, already, wrote, partial, syncs, someDue>>
    /\ SyncFrame

\* The import commits rows, which the scheduler watches, or the commit fails.
\* That it writes is noted before.
ImportWrites(a) ==
    /\ sync[a] = "importing"
    /\ sync' = [sync EXCEPT ![a] = "writing"]
    /\ Sends(a)
    /\ wrote' = wrote \cup {a}
    /\ NotAsked
    /\ UNCHANGED <<incomplete, persisted, already, partial, syncs, someDue>>
    /\ SyncFrame

Written(a) ==
    /\ sync[a] = "writing"
    /\ Answered(a)
    /\ sync' = [sync EXCEPT ![a] = "importing"]
    /\ \/ partial' = partial \cup {a} /\ someDue' \in BOOLEAN /\ CheckNow
       \/ UNCHANGED <<partial, someDue>> /\ NotAsked
    /\ UNCHANGED <<incomplete, persisted, already, wrote, syncs>>
    /\ SyncFrame

\* Mutant: an import that changed nothing counts as complete whatever was
\* left before it.
FailsByItsRows(a) == a \in wrote

\* A failed import leaves its account incomplete, unless it changed nothing
\* and the account was complete before.
FailsIncomplete(a) == a \in already \cup wrote \cup DavAccounts

ImportEnds(a) ==
    /\ sync[a] = "importing"
    /\ \/ /\ sync' = [sync EXCEPT ![a] = "clearing"]   \* succeeds
          /\ Sends(a)
          /\ partial' = partial \ {a}
          /\ NotAsked
       \/ /\ FailsIncomplete(a)                         \* fails
          /\ sync' = [sync EXCEPT ![a] = "ending"]
          /\ UNCHANGED <<behind, partial>>
          /\ CheckNow
       \/ /\ ~FailsIncomplete(a)
          /\ sync' = [sync EXCEPT ![a] = "clearing"]
          /\ Sends(a)
          /\ UNCHANGED partial
          /\ NotAsked
    /\ already' = already \ {a} /\ wrote' = wrote \ {a}
    /\ UNCHANGED <<incomplete, persisted, syncs, someDue>>
    /\ SyncFrame

ImportCleared(a) ==
    /\ sync[a] = "clearing"
    /\ Answered(a)
    /\ sync' = [sync EXCEPT ![a] = "ending"]
    /\ persisted' = persisted \ {a}
    /\ incomplete' = incomplete \ {a}
    /\ CheckNow
    /\ UNCHANGED <<already, wrote, partial, syncs, someDue>>
    /\ SyncFrame


LeaveAnnounced == CheckNow

\* run() is left, with or without an import inside.
SyncEnds(a) ==
    /\ sync[a] \in {"inside", "ending"}
    /\ sync' = [sync EXCEPT ![a] = "idle"]
    /\ LeaveAnnounced
    /\ UNCHANGED <<behind, incomplete, persisted, already, wrote, partial, syncs, someDue>>
    /\ SyncFrame

\* Mutant: only a running synchronization blocks.
BlocksWhileRunning(a) == sync[a] # "idle"

\* blocksDueToday
Blocks(a) == sync[a] # "idle" \/ a \in incomplete
------------------------------------------------------------------------------
(* The evaluation                                                           *)

EvalFrame ==
    UNCHANGED <<day, late, enabled, someDue, syncVars, events, crashes>>

Evaluate == EvaluateAt(late, enabled)

\* One evaluation has returned: the loop repeats it if it was asked to.
Return ==
    IF again
    THEN Evaluate
    ELSE phase' = "idle" /\ UNCHANGED <<today, seen, again>>

GoOn(p) == phase' = p /\ UNCHANGED <<today, seen, again>>

\* A cancellation answers.
CancelAnswers(done) ==
    \/ done /\ posted' = NoDay
    \/ ~done /\ UNCHANGED posted

\* A cancellation that failed earlier is repeated.
CleanUp ==
    /\ phase = "cleaning"
    /\ \E done \in BOOLEAN :
          IF cleanup
          THEN CancelAnswers(done) /\ cleanup' = ~done
          ELSE UNCHANGED <<posted, cleanup>>
    /\ GoOn("withdrawing")
    /\ EvalFrame
    /\ UNCHANGED <<behind, counted, evaluated, revised, retry, recorded, posts>>

\* Mutant: a cancellation that failed is not remembered.
NotRemembered(done) == cleanup

Remembered(done) == cleanup \/ ~done

\* What must not stay is withdrawn.
Withdraw ==
    /\ phase = "withdrawing"
    /\ \E done \in BOOLEAN :
          IF ~seen.enabled \/ evaluated \notin {NoDay, today}
          THEN CancelAnswers(done) /\ cleanup' = Remembered(done)
          ELSE UNCHANGED <<posted, cleanup>>
    /\ evaluated' = today
    /\ GoOn("asking")
    /\ EvalFrame
    /\ UNCHANGED <<behind, counted, revised, retry, recorded, posts>>

Quiet == \A a \in Accounts : ~Blocks(a)

\* The accounts are known: the setting and the time decide, then each of them
\* is asked.
Ask ==
    /\ phase = "asking"
    /\ IF seen.enabled /\ Accounts # {} /\ seen.late /\ ~retry /\ Quiet
       THEN GoOn("reading accounts")
       ELSE Return
    /\ EvalFrame
    /\ UNCHANGED <<behind, counted, evaluated, cleanup, revised, retry, centreVars>>

\* A query is answered; what is sent from now on is behind the next one only.
QueryAnswered(q) ==
    /\ phase = q
    /\ Outstanding \subseteq behind
    /\ behind' = {}
    /\ EvalFrame
    /\ UNCHANGED <<evaluated, cleanup, revised, retry, centreVars>>

CacheRead == IF partial = {} THEN "whole" ELSE "half"

ReadAccounts ==
    /\ QueryAnswered("reading accounts")
    /\ GoOn("reading lists")
    /\ UNCHANGED counted

ReadLists ==
    /\ QueryAnswered("reading lists")
    /\ counted' = CacheRead
    /\ GoOn("reading tasks")

\* Mutant: nobody is asked again.
NotAskedAgain == TRUE

StillQuiet == Quiet

\* The tasks of the lists are read.  The day may have ended meanwhile;
\* otherwise the accounts are asked again, and if none of them blocks the count
\* is used.
ReadTasks ==
    /\ QueryAnswered("reading tasks")
    /\ CASE day # today -> Evaluate /\ counted' = "nothing"
         [] day = today /\ ~(StillQuiet /\ enabled) -> Return /\ counted' = "nothing"
         [] day = today /\ StillQuiet /\ enabled /\ ~someDue ->
                GoOn("clearing") /\ counted' = "nothing"
         [] OTHER ->
                /\ GoOn("consulting")
                /\ counted' = IF CacheRead = "half" THEN "half" ELSE counted

\* Mutant: the history is not consulted.
NeverShown == FALSE

AlreadyShown == today \in recorded

\* The summary is submitted, unless the history has one of today.
Consult ==
    /\ phase = "consulting"
    /\ IF AlreadyShown
       THEN Return /\ counted' = "nothing" /\ UNCHANGED revised
       ELSE GoOn("posting") /\ revised' = FALSE /\ UNCHANGED counted
    /\ EvalFrame
    /\ UNCHANGED <<behind, evaluated, cleanup, retry, centreVars>>

\* Nothing is due: a summary that is shown is withdrawn.
ClearEmpty ==
    /\ phase = "clearing"
    /\ \E done \in BOOLEAN : CancelAnswers(done)
    /\ Return
    /\ EvalFrame
    /\ UNCHANGED <<behind, counted, evaluated, cleanup, revised, retry, recorded, posts>>

\* The submission succeeds; it is withdrawn if it has become stale meanwhile.
Posted ==
    /\ phase = "posting"
    /\ posted' = today
    /\ posts' = [posts EXCEPT ![today] = IF @ = 3 THEN 3 ELSE @ + 1]
    /\ retry' = FALSE
    /\ GoOn(IF ~enabled \/ day # today THEN "withdrawing post" ELSE "recording")
    /\ counted' = "nothing"
    /\ EvalFrame
    /\ UNCHANGED <<behind, evaluated, cleanup, revised, recorded>>

\* It fails, or quiet hours defer it: there is a time to retry.
NotPosted ==
    /\ phase = "posting"
    /\ retry' = IF revised THEN retry ELSE TRUE
    /\ Return
    /\ counted' = "nothing"
    /\ EvalFrame
    /\ UNCHANGED <<behind, evaluated, cleanup, revised, centreVars>>

WithdrawPost ==
    /\ phase = "withdrawing post"
    /\ \E done \in BOOLEAN : CancelAnswers(done) /\ cleanup' = Remembered(done)
    /\ GoOn("recording")
    /\ EvalFrame
    /\ UNCHANGED <<behind, counted, evaluated, revised, retry, recorded, posts>>

Record ==
    /\ phase = "recording"
    /\ recorded' = recorded \cup {today}
    /\ Return
    /\ EvalFrame
    /\ UNCHANGED <<behind, counted, evaluated, cleanup, revised, retry, posted, posts>>

\* The application is killed and started again.
Crash ==
    /\ Event /\ crashes' = crashes + 1
    /\ sync' = [a \in Accounts |-> "idle"]
    /\ incomplete' = persisted /\ already' = {} /\ wrote' = {}
    /\ EvaluateAt(late, enabled)
    /\ behind' = {} /\ counted' = "nothing"
    /\ revised' = FALSE /\ retry' = FALSE /\ evaluated' = NoDay /\ cleanup' = FALSE
    /\ UNCHANGED <<day, late, enabled, someDue, persisted, partial, syncs, centreVars>>
------------------------------------------------------------------------------
Synchronization(a) ==
    \/ SyncBegins(a) \/ ImportMarks(a) \/ ImportBegins(a) \/ ImportWrites(a)
    \/ Written(a) \/ ImportEnds(a) \/ ImportCleared(a) \/ SyncEnds(a)

Evaluation ==
    \/ CleanUp \/ Withdraw \/ Ask \/ ReadAccounts \/ ReadLists \/ ReadTasks \/ Consult
    \/ ClearEmpty \/ Posted \/ NotPosted \/ WithdrawPost \/ Record

Next ==
    \/ ClockTick \/ SummaryTime \/ RetryTime \/ Midnight \/ Toggle \/ EditTasks
    \/ \E a \in Accounts : Synchronization(a)
    \/ Evaluation
    \/ Crash

Spec == Init /\ [][Next]_vars

\* The evaluation goes on, its submissions are some time delivered, retries
\* come due, statements are answered, imports end after some writes.  The clock of
\* one minute is left out.
FairSpec ==
    /\ Spec
    /\ WF_vars(Evaluation) /\ SF_vars(Posted) /\ WF_vars(RetryTime)
    /\ \A a \in Accounts : /\ WF_vars(ImportBegins(a) \/ Written(a) \/ ImportCleared(a)
                                      \/ SyncEnds(a))
                           /\ SF_vars(ImportEnds(a))

------------------------------------------------------------------------------
(* Properties                                                               *)

\* A cache that an import left half-way blocks the summary, over failures,
\* repeated imports and restarts, until an import of the account succeeds.
\* (trackTaskImport: alreadyIncomplete, changedOnFailure, the persisted flag)
PartialBlocks == \A a \in partial : Blocks(a) /\ a \in persisted

\* No summary counts what an import had half written, although lists and tasks
\* are read one after the other and imports go on meanwhile.
\* (the two rounds of blocksDueToday around the queries, and the order in which
\* the database answers)
CountedWhole == phase \in {"consulting", "posting"} => counted # "half"

\* One summary a day; only a kill between showing it and recording it can
\* show it once more.
OncePerDay == \A d \in Days : posts[d] <= 1 + crashes


\* A summary does not outlive its day, nor the setting that allows it: it is
\* withdrawn if the clock of one minute goes on, the only one to repeat a
\* cancellation that failed, and cancellations do not fail for ever.
ClockGoesOn == WF_vars(ClockTick)
CancellationsSucceed == SF_vars(posted # NoDay /\ (CleanUp \/ Withdraw) /\ posted' = NoDay)

StaleWithdrawn ==
    ClockGoesOn /\ CancellationsSucceed =>
        ((posted # NoDay /\ (posted # day \/ ~enabled))
            ~> (posted = NoDay \/ (posted = day /\ enabled) \/ crashes > 0))
==============================================================================
