---------------------------- MODULE SyncRequests -----------------------------
(***************************************************************************)
(* What makes a synchronization start on the desktop: a                    *)
(* PendingMutationSyncRequester per account, asked after every local edit; *)
(* the AllAccountsSyncScheduler, asked by its periodic timer, by the tray  *)
(* and by NetworkReconnectSyncCoordinator; and the NetworkConnectivity-    *)
(* Monitor whose view of the network can stop either of them.              *)
(*                                                                         *)
(* An edit is `waiting' until an attempt to synchronize its account starts *)
(* after it with the network allowed: such an attempt reads the queue.     *)
(* What the attempt does is the subject of TaskReplay; the queue for the   *)
(* account is AccountGate, here only its exclusion.                        *)
(***************************************************************************)
EXTENDS Integers, Sequences, FiniteSets

CONSTANTS
    Accounts,     \* the accounts eligible for synchronization
    Nobody,       \* no account, or nobody in the gate
    Scheduler,    \* the scheduler as a holder of the gate; a requester is its account
    MaxEdits,     \* bound: local edits
    MaxChanges,   \* bound: changes of the network and errors of its stream
    MaxRuns       \* bound: runs asked for by the timer or the tray

ASSUME RequestsAssumption ==
    /\ Nobody \notin Accounts /\ Scheduler \notin Accounts /\ Scheduler # Nobody
    /\ MaxEdits \in Nat /\ MaxChanges \in Nat /\ MaxRuns \in Nat

VARIABLES
    \* the platform
    net,          \* whether there is a network
    events,       \* notifications on their way to the monitor
    \* NetworkConnectivityMonitor
    avail,        \* _availability
    check,        \* the initial check: not answered, its answer, or over
    observed,     \* _observationVersion > 0
    wasOffline,   \* NetworkReconnectSyncCoordinator._wasOffline
    \* PendingMutationSyncRequester
    timer,        \* _debounceTimer is armed
    req,          \* _running and where the run is
    again,        \* _runAgain
    \* AllAccountsSyncScheduler
    sched,        \* _running and where the run is
    todo,         \* the accounts the loop has still to visit
    schedAgain,   \* _runAgain
    inside,       \* who holds the gate of each account
    waiting,      \* history: accounts with an edit no attempt has covered
    edits, changes, runs

platformVars == <<net, events, changes>>
monitorVars == <<avail, check, observed, wasOffline>>
requesterVars == <<timer, req, again>>
schedulerVars == <<sched, todo, schedAgain, runs>>
vars == <<platformVars, monitorVars, requesterVars, schedulerVars, inside, waiting, edits>>

NetStates == {"online", "offline"}

TypeOK ==
    /\ net \in NetStates
    /\ events \in Seq(NetStates \cup {"error"})
    /\ avail \in NetStates \cup {"unknown"}
    /\ check \in NetStates \cup {"asked", "over"}
    /\ observed \in BOOLEAN /\ wasOffline \in BOOLEAN
    /\ timer \in [Accounts -> BOOLEAN]
    /\ req \in [Accounts -> {"idle", "checking", "queued", "syncing"}]
    /\ again \in [Accounts -> BOOLEAN]
    /\ sched \in {"idle", "checking", "listing", "visiting"}
    /\ todo \subseteq Accounts
    /\ schedAgain \in BOOLEAN
    /\ inside \in [Accounts -> {Nobody, Scheduler} \cup Accounts]
    /\ waiting \subseteq Accounts
    /\ edits \in 0..MaxEdits /\ changes \in 0..MaxChanges /\ runs \in 0..MaxRuns

\* The application has just subscribed to the platform's notifications and
\* asked for the present state.
Init ==
    /\ net \in NetStates
    /\ events = <<>>
    /\ avail = "unknown" /\ check = "asked" /\ observed = FALSE /\ wasOffline = FALSE
    /\ timer = [a \in Accounts |-> FALSE]
    /\ req = [a \in Accounts |-> "idle"]
    /\ again = [a \in Accounts |-> FALSE]
    /\ sched = "idle" /\ todo = {} /\ schedAgain = FALSE
    /\ inside = [a \in Accounts |-> Nobody]
    /\ waiting = {} /\ edits = 0 /\ changes = 0 /\ runs = 0
------------------------------------------------------------------------------
(* The platform and the monitor                                             *)

NetworkChanges ==
    /\ changes < MaxChanges
    /\ changes' = changes + 1
    /\ \/ /\ net' \in NetStates \ {net}
          /\ events' = Append(events, net')
       \/ /\ net' = net
          /\ events' = Append(events, "error")
    /\ UNCHANGED <<monitorVars, requesterVars, schedulerVars, inside, waiting, edits>>

\* runNow: a run that is under way is asked to repeat itself.
RunNow ==
    IF sched = "idle"
    THEN sched' = "checking" /\ schedAgain' = FALSE
    ELSE schedAgain' = TRUE /\ UNCHANGED sched

\* Mutant: only the monitor is told.
ForgetOffline(v) == UNCHANGED <<wasOffline, sched, schedAgain>>

\* _handleAvailability
Reconnect(v) ==
    /\ wasOffline' = CASE v = "offline" -> TRUE
                       [] v = "online" -> FALSE
                       [] OTHER -> wasOffline
    /\ IF v = "online" /\ wasOffline
       THEN RunNow
       ELSE UNCHANGED <<sched, schedAgain>>

\* _setAvailability; the stream is synchronous, so the coordinator has handled
\* the change when it returns.
SetAvailability(v) ==
    /\ avail' = v
    /\ IF v = avail THEN UNCHANGED <<wasOffline, sched, schedAgain>> ELSE Reconnect(v)

Observe ==
    /\ events # <<>>
    /\ events' = Tail(events)
    /\ observed' = TRUE
    /\ SetAvailability(IF Head(events) = "error" THEN "unknown" ELSE Head(events))
    /\ UNCHANGED <<net, changes, check, requesterVars, todo, runs, inside, waiting, edits>>

\* The platform answers the initial check with the state of this moment; the
\* monitor sees the answer later.
CheckAnswered ==
    /\ check = "asked"
    /\ check' = net
    /\ UNCHANGED <<platformVars, avail, observed, wasOffline, requesterVars,
                   schedulerVars, inside, waiting, edits>>

\* Mutant: the answer counts whatever was observed since.
AnswerCounts == TRUE

NothingObserved == ~observed

\* _initialize after its check, which also ends by a timeout or an error.
CheckOver ==
    /\ check # "over"
    /\ check' = "over"
    /\ \/ check \in NetStates /\ NothingObserved /\ SetAvailability(check)
       \/ check \in NetStates /\ ~NothingObserved /\ UNCHANGED <<avail, wasOffline, sched, schedAgain>>
       \/ check = "asked" /\ UNCHANGED <<avail, wasOffline, sched, schedAgain>>
    /\ UNCHANGED <<platformVars, observed, requesterVars, todo, runs, inside, waiting, edits>>

\* canUseNetwork, once the initial check is over.
CanUseNetwork == avail # "offline"
------------------------------------------------------------------------------
(* PendingMutationSyncRequester                                             *)

\* Mutant: a request during a run is taken as served by it.
ServedByRun(a) == IF req[a] # "idle" THEN UNCHANGED <<timer, again>>
                  ELSE timer' = [timer EXCEPT ![a] = TRUE] /\ UNCHANGED again

\* request
Request(a) ==
    IF req[a] # "idle"
    THEN again' = [again EXCEPT ![a] = TRUE] /\ UNCHANGED timer
    ELSE timer' = [timer EXCEPT ![a] = TRUE] /\ UNCHANGED again

\* A local edit has been queued.
Edit(a) ==
    /\ edits < MaxEdits
    /\ edits' = edits + 1
    /\ waiting' = waiting \cup {a}
    /\ Request(a)
    /\ UNCHANGED <<platformVars, monitorVars, req, schedulerVars, inside>>

\* The debounce timer fires: _startSync.
DebounceOver(a) ==
    /\ timer[a]
    /\ timer' = [timer EXCEPT ![a] = FALSE]
    /\ IF req[a] = "idle"
       THEN req' = [req EXCEPT ![a] = "checking"] /\ UNCHANGED again
       ELSE again' = [again EXCEPT ![a] = TRUE] /\ UNCHANGED req
    /\ UNCHANGED <<platformVars, monitorVars, schedulerVars, inside, waiting, edits>>

\* The finally block of _runSync.
RunOver(a) ==
    /\ again' = [again EXCEPT ![a] = FALSE]
    /\ req' = [req EXCEPT ![a] = IF again[a] THEN "checking" ELSE "idle"]

RequesterChecks(a) ==
    /\ req[a] = "checking" /\ check = "over"
    /\ IF CanUseNetwork
       THEN req' = [req EXCEPT ![a] = "queued"] /\ UNCHANGED again
       ELSE RunOver(a)
    /\ UNCHANGED <<platformVars, monitorVars, timer, schedulerVars, inside, waiting, edits>>

\* The gate of the account opens; without a network the attempt fails there.
RequesterEnters(a) ==
    /\ req[a] = "queued" /\ inside[a] = Nobody
    /\ IF CanUseNetwork
       THEN /\ req' = [req EXCEPT ![a] = "syncing"]
            /\ inside' = [inside EXCEPT ![a] = a]
            /\ waiting' = waiting \ {a}
            /\ UNCHANGED again
       ELSE RunOver(a) /\ UNCHANGED <<inside, waiting>>
    /\ UNCHANGED <<platformVars, monitorVars, timer, schedulerVars, edits>>

\* The synchronization has succeeded or failed.
RequesterEnds(a) ==
    /\ req[a] = "syncing"
    /\ inside' = [inside EXCEPT ![a] = Nobody]
    /\ RunOver(a)
    /\ UNCHANGED <<platformVars, monitorVars, timer, schedulerVars, waiting, edits>>
------------------------------------------------------------------------------
(* AllAccountsSyncScheduler                                                 *)

\* The periodic timer, or the tray.
AskForRun ==
    /\ runs < MaxRuns
    /\ runs' = runs + 1
    /\ RunNow
    /\ UNCHANGED <<platformVars, monitorVars, requesterVars, todo, inside, waiting, edits>>

\* One round of the loop of runNow is over.
RoundOver ==
    /\ sched' = IF schedAgain THEN "checking" ELSE "idle"
    /\ schedAgain' = FALSE

\* Without a network the run returns, whatever was asked for meanwhile.
SchedulerChecks ==
    /\ sched = "checking" /\ check = "over"
    /\ sched' = IF CanUseNetwork THEN "listing" ELSE "idle"
    /\ UNCHANGED <<platformVars, monitorVars, requesterVars, todo, schedAgain, runs,
                   inside, waiting, edits>>

SchedulerLists ==
    /\ sched = "listing"
    /\ sched' = "visiting"
    /\ todo' = Accounts
    /\ UNCHANGED <<platformVars, monitorVars, requesterVars, schedAgain, runs,
                   inside, waiting, edits>>

SchedulerEnters(a) ==
    /\ sched = "visiting" /\ a \in todo
    /\ inside[a] = Nobody
    /\ \A b \in Accounts : inside[b] # Scheduler
    /\ IF CanUseNetwork
       THEN /\ inside' = [inside EXCEPT ![a] = Scheduler]
            /\ waiting' = waiting \ {a}
            /\ UNCHANGED todo
       ELSE todo' = todo \ {a} /\ UNCHANGED <<inside, waiting>>
    /\ UNCHANGED <<platformVars, monitorVars, requesterVars, sched, schedAgain, runs, edits>>

SchedulerLeaves(a) ==
    /\ inside[a] = Scheduler
    /\ inside' = [inside EXCEPT ![a] = Nobody]
    /\ todo' = todo \ {a}
    /\ UNCHANGED <<platformVars, monitorVars, requesterVars, sched, schedAgain, runs,
                   waiting, edits>>

SchedulerEnds ==
    /\ sched = "visiting" /\ todo = {}
    /\ RoundOver
    /\ UNCHANGED <<platformVars, monitorVars, requesterVars, todo, runs, inside, waiting, edits>>
------------------------------------------------------------------------------
RequesterSteps(a) ==
    \/ DebounceOver(a) \/ RequesterChecks(a) \/ RequesterEnters(a) \/ RequesterEnds(a)

SchedulerSteps ==
    \/ SchedulerChecks \/ SchedulerLists \/ SchedulerEnds
    \/ \E a \in Accounts : SchedulerEnters(a) \/ SchedulerLeaves(a)

Next ==
    \/ NetworkChanges \/ Observe \/ CheckAnswered \/ CheckOver
    \/ \E a \in Accounts : Edit(a) \/ RequesterSteps(a)
    \/ AskForRun \/ SchedulerSteps

Spec == Init /\ [][Next]_vars

\* Timers fire, awaits return, the platform delivers its notifications, and a
\* call waiting for the gate of an account is not overtaken forever
\* (AccountGate).  The periodic timer of fifteen minutes is left out: nothing
\* below relies on it.
FairSpec ==
    /\ Spec
    /\ WF_vars(Observe) /\ WF_vars(CheckOver)
    /\ \A a \in Accounts :
          /\ WF_vars(DebounceOver(a)) /\ WF_vars(RequesterChecks(a))
          /\ SF_vars(RequesterEnters(a)) /\ WF_vars(RequesterEnds(a))
          /\ SF_vars(SchedulerEnters(a)) /\ WF_vars(SchedulerLeaves(a))
    /\ WF_vars(SchedulerChecks \/ SchedulerLists \/ SchedulerEnds)
------------------------------------------------------------------------------
(* Properties                                                               *)

\* A run of the requester that has still to look at the queue, or one to come.
RequesterWillTry(a) == timer[a] \/ req[a] \in {"checking", "queued"} \/ again[a]

\* The same of the scheduler.
SchedulerWillTry(a) ==
    \/ sched \in {"checking", "listing"}
    \/ sched = "visiting" /\ (schedAgain \/ (a \in todo /\ inside[a] # Scheduler))

\* No edit is forgotten: until an attempt has started after it, a requester
\* or the scheduler has still to try, or the return of the network will make
\* the scheduler try.  (request during a run, canSync, _wasOffline)
NoForgottenEdit ==
    \A a \in waiting : RequesterWillTry(a) \/ SchedulerWillTry(a) \/ wasOffline

\* An edit made at any time, offline included, is followed by an attempt once
\* the network is back, without waiting for the periodic timer.
EveryEditAttempted ==
    \A a \in Accounts :
        <>[](avail = "online") => [](a \in waiting => <>(a \notin waiting))

\* Of what was on its way, nothing is left: the monitor believes what the
\* platform said last.  A stale answer to the initial check must not win over
\* a later notification.
Believed == IF avail = "unknown" THEN net ELSE avail
AvailabilityCurrent ==
    (check = "over" /\ events = <<>>) => Believed = net
==============================================================================
