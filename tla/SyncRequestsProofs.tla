------------------------- MODULE SyncRequestsProofs --------------------------
(***************************************************************************)
(* Proofs about SyncRequests, for any accounts and any bounds.             *)
(*                                                                         *)
(* That no edit is forgotten rests on two facts beside itself: whoever     *)
(* gives up for want of a network leaves the coordinator remembering that  *)
(* (OfflineRemembered), and the scheduler is inside the gate of an account *)
(* only while that account is still on its list (SchedulerInside).         *)
(***************************************************************************)
EXTENDS SyncRequests, TLAPS

FlagsOK ==
    /\ timer \in [Accounts -> BOOLEAN]
    /\ again \in [Accounts -> BOOLEAN]
    /\ req \in [Accounts -> {"idle", "checking", "queued", "syncing"}]
    /\ sched \in {"idle", "checking", "listing", "visiting"}
    /\ schedAgain \in BOOLEAN /\ wasOffline \in BOOLEAN
    /\ inside \in [Accounts -> {Nobody, Scheduler} \cup Accounts]
    /\ waiting \in SUBSET Accounts /\ todo \in SUBSET Accounts

OfflineRemembered == avail = "offline" => wasOffline

SchedulerInside == \A a \in Accounts : inside[a] = Scheduler => sched = "visiting" /\ a \in todo

RequestsInv == FlagsOK /\ OfflineRemembered /\ SchedulerInside /\ NoForgottenEdit

LEMMA InitRequestsInv == Init => RequestsInv
BY RequestsAssumption
DEF Init, RequestsInv, FlagsOK, OfflineRemembered, SchedulerInside, NoForgottenEdit
------------------------------------------------------------------------------
(* The monitor                                                              *)

\* A change of what the monitor believes: if the network has returned, the
\* scheduler will try, so that what was remembered may be forgotten.
LEMMA MonitorStep ==
    ASSUME RequestsInv, NEW v, SetAvailability(v),
           UNCHANGED <<requesterVars, todo, inside, waiting>>
    PROVE  RequestsInv'
<1>1. /\ sched' \in {"idle", "checking", "listing", "visiting"}
      /\ schedAgain' \in BOOLEAN /\ wasOffline' \in BOOLEAN
      /\ sched # "idle" => sched' = sched
      /\ schedAgain /\ sched # "idle" => schedAgain'
  BY DEF SetAvailability, Reconnect, RunNow, RequestsInv, FlagsOK
<1>2. wasOffline /\ ~wasOffline' => sched' = "checking" \/ (sched # "idle" /\ schedAgain')
  BY DEF SetAvailability, Reconnect, RunNow
<1>3. FlagsOK'
  BY <1>1 DEF RequestsInv, FlagsOK, requesterVars
<1>4. OfflineRemembered'
  BY DEF SetAvailability, Reconnect, RequestsInv, OfflineRemembered
<1>5. SchedulerInside'
  BY <1>1 DEF RequestsInv, SchedulerInside
<1>6. NoForgottenEdit'
  <2> SUFFICES ASSUME NEW a \in waiting
               PROVE  RequesterWillTry(a)' \/ SchedulerWillTry(a)' \/ wasOffline'
    BY DEF NoForgottenEdit
  <2>1. CASE RequesterWillTry(a)
    BY <2>1 DEF RequesterWillTry, requesterVars
  <2>2. CASE SchedulerWillTry(a)
    BY <1>1, <2>2 DEF SchedulerWillTry
  <2>3. CASE wasOffline
    BY <1>1, <1>2, <2>3 DEF SchedulerWillTry, RequestsInv, FlagsOK
  <2> QED BY <2>1, <2>2, <2>3 DEF RequestsInv, NoForgottenEdit
<1> QED BY <1>3, <1>4, <1>5, <1>6 DEF RequestsInv

\* Nothing the properties look at changes.
LEMMA MonitorIdle ==
    ASSUME RequestsInv, UNCHANGED <<requesterVars, sched, todo, schedAgain, inside, waiting>>,
           UNCHANGED <<avail, wasOffline>>
    PROVE  RequestsInv'
BY DEF RequestsInv, FlagsOK, OfflineRemembered, SchedulerInside, NoForgottenEdit,
   RequesterWillTry, SchedulerWillTry, requesterVars

LEMMA PlatformSteps ==
    ASSUME RequestsInv, NetworkChanges \/ Observe \/ CheckAnswered \/ CheckOver
    PROVE  RequestsInv'
<1>1. CASE NetworkChanges \/ CheckAnswered
  BY <1>1, MonitorIdle DEF NetworkChanges, CheckAnswered, monitorVars, schedulerVars
<1>2. CASE Observe
  <2>1. PICK v : SetAvailability(v)
    BY <1>2 DEF Observe
  <2> QED BY <1>2, <2>1, MonitorStep DEF Observe
<1>3. CASE CheckOver
  <2>1. CASE check \in NetStates /\ NothingObserved
    BY <1>3, <2>1, MonitorStep DEF CheckOver, NetStates
  <2>2. CASE ~(check \in NetStates /\ NothingObserved)
    <3>1. UNCHANGED <<avail, wasOffline, sched, schedAgain>>
      BY <1>3, <2>2 DEF CheckOver, NetStates
    <3> QED BY <1>3, <3>1, MonitorIdle DEF CheckOver
  <2> QED BY <2>1, <2>2
<1> QED BY <1>1, <1>2, <1>3
------------------------------------------------------------------------------
(* The requester                                                            *)

\* A step of the requester of account a, whatever it does to the others.
LEMMA RequesterFrame ==
    ASSUME RequestsInv, NEW a \in Accounts,
           UNCHANGED <<avail, wasOffline, sched, todo, schedAgain>>,
           FlagsOK',
           \A b \in Accounts \ {a} :
               /\ timer'[b] = timer[b] /\ req'[b] = req[b] /\ again'[b] = again[b]
               /\ inside'[b] = inside[b]
               /\ b \in waiting' => b \in waiting,
           inside'[a] # Scheduler \/ inside'[a] = inside[a],
           a \in waiting' => RequesterWillTry(a)' \/ SchedulerWillTry(a) \/ wasOffline
    PROVE  RequestsInv'
<1>1. OfflineRemembered' /\ SchedulerInside'
  BY DEF RequestsInv, OfflineRemembered, SchedulerInside
<1>2. NoForgottenEdit'
  <2> SUFFICES ASSUME NEW b \in waiting'
               PROVE  RequesterWillTry(b)' \/ SchedulerWillTry(b)' \/ wasOffline'
    BY DEF NoForgottenEdit
  <2>1. CASE b = a
    BY <2>1 DEF SchedulerWillTry
  <2>2. CASE b # a
    <3>1. b \in Accounts /\ b \in waiting
      BY <2>2 DEF FlagsOK
    <3>2. RequesterWillTry(b) \/ SchedulerWillTry(b) \/ wasOffline
      BY <3>1 DEF RequestsInv, NoForgottenEdit
    <3> QED BY <2>2, <3>1, <3>2 DEF RequesterWillTry, SchedulerWillTry
  <2> QED BY <2>1, <2>2
<1> QED BY <1>1, <1>2 DEF RequestsInv

LEMMA EditStep ==
    ASSUME RequestsInv, NEW a \in Accounts, Edit(a) PROVE RequestsInv'
<1>1. /\ UNCHANGED <<avail, wasOffline, sched, todo, schedAgain, req, inside>>
      /\ waiting' = waiting \cup {a}
      /\ \/ req[a] # "idle" /\ again' = [again EXCEPT ![a] = TRUE] /\ timer' = timer
         \/ timer' = [timer EXCEPT ![a] = TRUE] /\ again' = again
  BY DEF Edit, Request, monitorVars, schedulerVars
<1>2. FlagsOK'
  BY <1>1 DEF RequestsInv, FlagsOK
<1>3. RequesterWillTry(a)'
  BY <1>1 DEF RequesterWillTry, RequestsInv, FlagsOK
<1>4. \A b \in Accounts \ {a} : timer'[b] = timer[b] /\ again'[b] = again[b]
  BY <1>1 DEF RequestsInv, FlagsOK
<1> QED BY <1>1, <1>2, <1>3, <1>4, RequesterFrame

LEMMA DebounceStep ==
    ASSUME RequestsInv, NEW a \in Accounts, DebounceOver(a) PROVE RequestsInv'
<1>1. /\ UNCHANGED <<avail, wasOffline, sched, todo, schedAgain, inside, waiting>>
      /\ timer' = [timer EXCEPT ![a] = FALSE]
      /\ \/ req' = [req EXCEPT ![a] = "checking"] /\ again' = again
         \/ again' = [again EXCEPT ![a] = TRUE] /\ req' = req
  BY DEF DebounceOver, monitorVars, schedulerVars
<1>2. FlagsOK'
  BY <1>1 DEF RequestsInv, FlagsOK
<1>3. RequesterWillTry(a)'
  BY <1>1 DEF RequesterWillTry, RequestsInv, FlagsOK
<1>4. \A b \in Accounts \ {a} : timer'[b] = timer[b] /\ req'[b] = req[b] /\ again'[b] = again[b]
  BY <1>1 DEF RequestsInv, FlagsOK
<1> QED BY <1>1, <1>2, <1>3, <1>4, RequesterFrame

\* A run that is over starts again if it was asked to.
LEMMA RunOverStep ==
    ASSUME RequestsInv, NEW a \in Accounts, RunOver(a), UNCHANGED timer,
           req[a] \in {"checking", "queued"} => wasOffline
    PROVE  /\ req' \in [Accounts -> {"idle", "checking", "queued", "syncing"}]
           /\ again' \in [Accounts -> BOOLEAN]
           /\ \A b \in Accounts \ {a} : req'[b] = req[b] /\ again'[b] = again[b]
           /\ a \in waiting => RequesterWillTry(a)' \/ SchedulerWillTry(a) \/ wasOffline
<1>1. again' = [again EXCEPT ![a] = FALSE]
  BY DEF RunOver
<1>2. req' = [req EXCEPT ![a] = "checking"] \/ req' = [req EXCEPT ![a] = "idle"]
  BY DEF RunOver
<1>3. again[a] => req'[a] = "checking"
  BY DEF RunOver, RequestsInv, FlagsOK
<1>4. /\ req' \in [Accounts -> {"idle", "checking", "queued", "syncing"}]
      /\ again' \in [Accounts -> BOOLEAN]
      /\ \A b \in Accounts \ {a} : req'[b] = req[b] /\ again'[b] = again[b]
  BY <1>1, <1>2 DEF RequestsInv, FlagsOK
<1>5. ASSUME a \in waiting PROVE RequesterWillTry(a)' \/ SchedulerWillTry(a) \/ wasOffline
  <2>1. RequesterWillTry(a) \/ SchedulerWillTry(a) \/ wasOffline
    BY <1>5 DEF RequestsInv, NoForgottenEdit
  <2> QED BY <1>3, <2>1 DEF RequesterWillTry
<1> QED BY <1>4, <1>5

LEMMA ChecksStep ==
    ASSUME RequestsInv, NEW a \in Accounts, RequesterChecks(a) PROVE RequestsInv'
<1>1. UNCHANGED <<avail, wasOffline, sched, todo, schedAgain, inside, waiting, timer>>
  BY DEF RequesterChecks, monitorVars, schedulerVars
<1>2. CASE CanUseNetwork
  <2>1. req' = [req EXCEPT ![a] = "queued"] /\ again' = again
    BY <1>2 DEF RequesterChecks
  <2>2. FlagsOK' /\ RequesterWillTry(a)'
    BY <1>1, <2>1 DEF RequestsInv, FlagsOK, RequesterWillTry
  <2>3. \A b \in Accounts \ {a} : req'[b] = req[b]
    BY <2>1
  <2> QED BY <1>1, <2>1, <2>2, <2>3, RequesterFrame
<1>3. CASE ~CanUseNetwork
  <2>1. wasOffline /\ RunOver(a)
    BY <1>3 DEF CanUseNetwork, RequestsInv, OfflineRemembered, RequesterChecks
  <2>2. FlagsOK'
    BY <1>1, <2>1, RunOverStep DEF RequestsInv, FlagsOK
  <2> QED BY <1>1, <2>1, <2>2, RunOverStep, RequesterFrame
<1> QED BY <1>2, <1>3

LEMMA EntersStep ==
    ASSUME RequestsInv, NEW a \in Accounts, RequesterEnters(a) PROVE RequestsInv'
<1>1. UNCHANGED <<avail, wasOffline, sched, todo, schedAgain, timer>>
  BY DEF RequesterEnters, monitorVars, schedulerVars
<1>2. CASE CanUseNetwork
  <2>1. /\ req' = [req EXCEPT ![a] = "syncing"]
        /\ inside' = [inside EXCEPT ![a] = a]
        /\ waiting' = waiting \ {a}
        /\ again' = again
    BY <1>2 DEF RequesterEnters
  <2>2. FlagsOK'
    BY <1>1, <2>1 DEF RequestsInv, FlagsOK
  <2>3. inside'[a] # Scheduler
    BY <2>1, RequestsAssumption DEF RequestsInv, FlagsOK
  <2>4. \A b \in Accounts \ {a} : req'[b] = req[b] /\ inside'[b] = inside[b]
    BY <2>1
  <2> QED BY <1>1, <2>1, <2>2, <2>3, <2>4, RequesterFrame
<1>3. CASE ~CanUseNetwork
  <2>1. wasOffline /\ RunOver(a) /\ UNCHANGED <<inside, waiting>>
    BY <1>3 DEF CanUseNetwork, RequestsInv, OfflineRemembered, RequesterEnters
  <2>2. FlagsOK'
    BY <1>1, <2>1, RunOverStep DEF RequestsInv, FlagsOK
  <2> QED BY <1>1, <2>1, <2>2, RunOverStep, RequesterFrame
<1> QED BY <1>2, <1>3

LEMMA EndsStep ==
    ASSUME RequestsInv, NEW a \in Accounts, RequesterEnds(a) PROVE RequestsInv'
<1>1. /\ UNCHANGED <<avail, wasOffline, sched, todo, schedAgain, waiting, timer>>
      /\ inside' = [inside EXCEPT ![a] = Nobody]
      /\ RunOver(a) /\ req[a] = "syncing"
  BY DEF RequesterEnds, monitorVars, schedulerVars
<1>2. FlagsOK'
  BY <1>1, RunOverStep DEF RequestsInv, FlagsOK
<1>3. inside'[a] # Scheduler /\ \A b \in Accounts \ {a} : inside'[b] = inside[b]
  BY <1>1, RequestsAssumption DEF RequestsInv, FlagsOK
<1> QED BY <1>1, <1>2, <1>3, RunOverStep, RequesterFrame
------------------------------------------------------------------------------
(* The scheduler                                                            *)

\* A step of the scheduler, which has still to try for whom it had to before,
\* or attempts, or leaves the coordinator remembering.
LEMMA SchedulerFrame ==
    ASSUME RequestsInv, UNCHANGED <<requesterVars, avail, wasOffline>>,
           FlagsOK', SchedulerInside', waiting' \subseteq waiting,
           \A a \in waiting' : SchedulerWillTry(a) => SchedulerWillTry(a)' \/ wasOffline
    PROVE  RequestsInv'
<1>1. OfflineRemembered'
  BY DEF RequestsInv, OfflineRemembered
<1>2. NoForgottenEdit'
  BY DEF RequestsInv, NoForgottenEdit, RequesterWillTry, requesterVars
<1> QED BY <1>1, <1>2 DEF RequestsInv

LEMMA AskStep == ASSUME RequestsInv, AskForRun PROVE RequestsInv'
<1>1. /\ UNCHANGED <<requesterVars, avail, wasOffline, todo, inside, waiting>>
      /\ \/ sched = "idle" /\ sched' = "checking" /\ schedAgain' = FALSE
         \/ sched # "idle" /\ sched' = sched /\ schedAgain' = TRUE
  BY DEF AskForRun, RunNow, monitorVars
<1>2. FlagsOK' /\ SchedulerInside'
  BY <1>1 DEF RequestsInv, FlagsOK, SchedulerInside, requesterVars
<1>3. \A a \in waiting' : SchedulerWillTry(a) => SchedulerWillTry(a)'
  BY <1>1 DEF SchedulerWillTry
<1> QED BY <1>1, <1>2, <1>3, SchedulerFrame

LEMMA SchedulerChecksStep == ASSUME RequestsInv, SchedulerChecks PROVE RequestsInv'
<1>1. /\ UNCHANGED <<requesterVars, avail, wasOffline, todo, schedAgain, inside, waiting>>
      /\ sched = "checking"
      /\ \/ CanUseNetwork /\ sched' = "listing"
         \/ ~CanUseNetwork /\ sched' = "idle"
  BY DEF SchedulerChecks, monitorVars
<1>2. FlagsOK' /\ SchedulerInside'
  BY <1>1 DEF RequestsInv, FlagsOK, SchedulerInside, requesterVars
<1>3. \A a \in waiting' : SchedulerWillTry(a) => SchedulerWillTry(a)' \/ wasOffline
  BY <1>1 DEF SchedulerWillTry, CanUseNetwork, RequestsInv, OfflineRemembered
<1> QED BY <1>1, <1>2, <1>3, SchedulerFrame

LEMMA SchedulerListsStep == ASSUME RequestsInv, SchedulerLists PROVE RequestsInv'
<1>1. /\ UNCHANGED <<requesterVars, avail, wasOffline, schedAgain, inside, waiting>>
      /\ sched = "listing" /\ sched' = "visiting" /\ todo' = Accounts
  BY DEF SchedulerLists, monitorVars
<1>2. FlagsOK' /\ SchedulerInside'
  BY <1>1 DEF RequestsInv, FlagsOK, SchedulerInside, requesterVars
<1>3. \A a \in waiting' : SchedulerWillTry(a)'
  BY <1>1 DEF SchedulerWillTry, RequestsInv, FlagsOK, SchedulerInside
<1> QED BY <1>1, <1>2, <1>3, SchedulerFrame

LEMMA SchedulerEntersStep ==
    ASSUME RequestsInv, NEW a \in Accounts, SchedulerEnters(a) PROVE RequestsInv'
<1>1. /\ UNCHANGED <<requesterVars, avail, wasOffline, sched, schedAgain>>
      /\ sched = "visiting" /\ a \in todo
      /\ inside[a] = Nobody
      /\ \A b \in Accounts : inside[b] # Scheduler
  BY DEF SchedulerEnters, monitorVars
<1>2. CASE CanUseNetwork
  <2>1. /\ inside' = [inside EXCEPT ![a] = Scheduler]
        /\ waiting' = waiting \ {a}
        /\ todo' = todo
    BY <1>2 DEF SchedulerEnters
  <2>2. FlagsOK' /\ SchedulerInside'
    BY <1>1, <2>1 DEF RequestsInv, FlagsOK, SchedulerInside, requesterVars
  <2>3. \A b \in waiting' : SchedulerWillTry(b) => SchedulerWillTry(b)'
    BY <1>1, <2>1 DEF SchedulerWillTry, RequestsInv, FlagsOK
  <2>4. waiting' \subseteq waiting
    BY <2>1
  <2> QED BY <1>1, <2>2, <2>3, <2>4, SchedulerFrame
<1>3. CASE ~CanUseNetwork
  <2>1. wasOffline /\ todo' = todo \ {a} /\ UNCHANGED <<inside, waiting>>
    BY <1>3 DEF SchedulerEnters, CanUseNetwork, RequestsInv, OfflineRemembered
  <2>2. FlagsOK' /\ SchedulerInside'
    BY <1>1, <2>1 DEF RequestsInv, FlagsOK, SchedulerInside, requesterVars
  <2> QED BY <1>1, <2>1, <2>2, SchedulerFrame
<1> QED BY <1>2, <1>3

LEMMA SchedulerLeavesStep ==
    ASSUME RequestsInv, NEW a \in Accounts, SchedulerLeaves(a) PROVE RequestsInv'
<1>1. /\ UNCHANGED <<requesterVars, avail, wasOffline, sched, schedAgain, waiting>>
      /\ inside[a] = Scheduler
      /\ inside' = [inside EXCEPT ![a] = Nobody]
      /\ todo' = todo \ {a}
  BY DEF SchedulerLeaves, monitorVars
<1>2. FlagsOK' /\ SchedulerInside'
  BY <1>1, RequestsAssumption DEF RequestsInv, FlagsOK, SchedulerInside, requesterVars
<1>3. \A b \in waiting' : SchedulerWillTry(b) => SchedulerWillTry(b)'
  BY <1>1 DEF SchedulerWillTry, RequestsInv, FlagsOK
<1> QED BY <1>1, <1>2, <1>3, SchedulerFrame

LEMMA SchedulerEndsStep == ASSUME RequestsInv, SchedulerEnds PROVE RequestsInv'
<1>1. /\ UNCHANGED <<requesterVars, avail, wasOffline, todo, inside, waiting>>
      /\ sched = "visiting" /\ todo = {}
      /\ sched' = (IF schedAgain THEN "checking" ELSE "idle")
      /\ schedAgain' = FALSE
  BY DEF SchedulerEnds, RoundOver, monitorVars
<1>2. FlagsOK' /\ SchedulerInside'
  BY <1>1 DEF RequestsInv, FlagsOK, SchedulerInside, requesterVars
<1>3. \A a \in waiting' : SchedulerWillTry(a) => SchedulerWillTry(a)'
  BY <1>1 DEF SchedulerWillTry
<1> QED BY <1>1, <1>2, <1>3, SchedulerFrame
------------------------------------------------------------------------------
LEMMA StepRequestsInv == RequestsInv /\ [Next]_vars => RequestsInv'
<1> SUFFICES ASSUME RequestsInv, [Next]_vars PROVE RequestsInv'
  OBVIOUS
<1>1. CASE NetworkChanges \/ Observe \/ CheckAnswered \/ CheckOver
  BY <1>1, PlatformSteps
<1>2. ASSUME NEW a \in Accounts, Edit(a) \/ RequesterSteps(a) PROVE RequestsInv'
  BY <1>2, EditStep, DebounceStep, ChecksStep, EntersStep, EndsStep DEF RequesterSteps
<1>3. CASE AskForRun \/ SchedulerSteps
  BY <1>3, AskStep, SchedulerChecksStep, SchedulerListsStep, SchedulerEntersStep,
     SchedulerLeavesStep, SchedulerEndsStep DEF SchedulerSteps
<1>4. CASE UNCHANGED vars
  BY <1>4, MonitorIdle DEF vars, monitorVars, schedulerVars
<1> QED BY <1>1, <1>2, <1>3, <1>4 DEF Next

\* Until an attempt has started after an edit, somebody has still to try or
\* the return of the network will make the scheduler try: for any accounts,
\* any number of edits, runs and changes of the network.
THEOREM NoEditIsForgotten == Spec => []NoForgottenEdit
<1>1. RequestsInv => NoForgottenEdit
  BY DEF RequestsInv
<1> QED BY <1>1, InitRequestsInv, StepRequestsInv, PTL DEF Spec
------------------------------------------------------------------------------
(* The monitor ends up with what the platform said last. Either that is     *)
(* still on its way (LastWord), or the monitor believes it or has no opinion *)
(* (NothingMissed); and an answer to the initial check that still counts     *)
(* cannot be older than it (AnswerFresh).                                    *)

MonitorTypes ==
    /\ net \in NetStates
    /\ events \in Seq(NetStates \cup {"error"})
    /\ check \in NetStates \cup {"asked", "over"}

LastWord == events # <<>> => events[Len(events)] \in {net, "error"}
NothingMissed == events = <<>> => avail \in {net, "unknown"}
AnswerFresh == events = <<>> /\ ~observed /\ check \in NetStates => check = net

MonitorInv == MonitorTypes /\ LastWord /\ NothingMissed /\ AnswerFresh

LEMMA InitMonitorInv == Init => MonitorInv
BY DEF Init, MonitorInv, MonitorTypes, LastWord, NothingMissed, AnswerFresh, NetStates

LEMMA NetworkChangesKeepsMonitor ==
    ASSUME MonitorInv, NetworkChanges PROVE MonitorInv'
<1>1. PICK e \in {net', "error"} : events' = Append(events, e)
  BY DEF NetworkChanges
<1>2. net' \in NetStates /\ UNCHANGED check
  BY DEF NetworkChanges, monitorVars, MonitorInv, MonitorTypes
<1>3. e \in NetStates \cup {"error"} /\ events \in Seq(NetStates \cup {"error"})
  BY <1>1, <1>2 DEF MonitorInv, MonitorTypes
<1>4. /\ events' \in Seq(NetStates \cup {"error"}) /\ events' # <<>>
      /\ events'[Len(events')] = e
  BY <1>1, <1>3
<1> QED
  BY <1>1, <1>2, <1>4
  DEF MonitorInv, MonitorTypes, LastWord, NothingMissed, AnswerFresh

LEMMA ObserveKeepsMonitor == ASSUME MonitorInv, Observe PROVE MonitorInv'
<1>1. /\ events # <<>> /\ events' = Tail(events) /\ observed'
      /\ UNCHANGED <<net, check>>
      /\ avail' = (IF Head(events) = "error" THEN "unknown" ELSE Head(events))
  BY DEF Observe, SetAvailability
<1>2. events \in Seq(NetStates \cup {"error"})
  BY DEF MonitorInv, MonitorTypes
<1>3. /\ events' \in Seq(NetStates \cup {"error"})
      /\ events' = <<>> => Head(events) = events[Len(events)]
      /\ events' # <<>> => events'[Len(events')] = events[Len(events)]
  <2>1. Len(events) \in Nat /\ Len(events) > 0 /\ Head(events) = events[1]
    BY <1>1, <1>2
  <2>2. /\ Tail(events) \in Seq(NetStates \cup {"error"})
        /\ Len(Tail(events)) = Len(events) - 1
        /\ \A i \in 1..(Len(events) - 1) : Tail(events)[i] = events[i + 1]
    BY <1>1, <1>2
  <2>3. Tail(events) = <<>> <=> Len(events) = 1
    BY <2>1, <2>2
  <2> QED BY <1>1, <2>1, <2>2, <2>3
<1>4. events[Len(events)] \in {net, "error"}
  BY <1>1 DEF MonitorInv, LastWord
<1> QED
  BY <1>1, <1>3, <1>4
  DEF MonitorInv, MonitorTypes, LastWord, NothingMissed, AnswerFresh

LEMMA CheckKeepsMonitor ==
    ASSUME MonitorInv, CheckAnswered \/ CheckOver PROVE MonitorInv'
<1>1. CASE CheckAnswered
  BY <1>1
  DEF CheckAnswered, platformVars, MonitorInv, MonitorTypes, LastWord, NothingMissed,
      AnswerFresh
<1>2. CASE CheckOver
  <2>1. /\ UNCHANGED <<net, events, observed>> /\ check' = "over"
        /\ avail' = avail \/ (check \in NetStates /\ ~observed /\ avail' = check)
    BY <1>2 DEF CheckOver, platformVars, SetAvailability, NothingObserved
  <2> QED
    BY <2>1
    DEF MonitorInv, MonitorTypes, LastWord, NothingMissed, AnswerFresh, NetStates
<1> QED BY <1>1, <1>2

LEMMA OthersKeepMonitor ==
    ASSUME MonitorInv, UNCHANGED <<net, events, avail, check, observed>>
    PROVE  MonitorInv'
BY DEF MonitorInv, MonitorTypes, LastWord, NothingMissed, AnswerFresh

LEMMA StepMonitorInv == MonitorInv /\ [Next]_vars => MonitorInv'
<1> SUFFICES ASSUME MonitorInv, [Next]_vars PROVE MonitorInv'
  OBVIOUS
<1>1. CASE NetworkChanges
  BY <1>1, NetworkChangesKeepsMonitor
<1>2. CASE Observe
  BY <1>2, ObserveKeepsMonitor
<1>3. CASE CheckAnswered \/ CheckOver
  BY <1>3, CheckKeepsMonitor
<1>4. ASSUME NEW a \in Accounts, Edit(a) \/ RequesterSteps(a) PROVE MonitorInv'
  BY <1>4, OthersKeepMonitor
  DEF Edit, RequesterSteps, DebounceOver, RequesterChecks, RequesterEnters, RequesterEnds,
      platformVars, monitorVars
<1>5. CASE AskForRun \/ SchedulerSteps
  BY <1>5, OthersKeepMonitor
  DEF AskForRun, SchedulerSteps, SchedulerChecks, SchedulerLists, SchedulerEnds,
      SchedulerEnters, SchedulerLeaves, platformVars, monitorVars
<1>6. CASE UNCHANGED vars
  BY <1>6, OthersKeepMonitor DEF vars, platformVars, monitorVars
<1> QED BY <1>1, <1>2, <1>3, <1>4, <1>5, <1>6 DEF Next

\* Once nothing is on its way, the monitor does not contradict the network: a
\* late answer to the initial check does not win over a notification, for any
\* number of changes and errors.  (_initialize and _observationVersion)
THEOREM MonitorIsCurrent == Spec => []AvailabilityCurrent
<1>1. MonitorInv => AvailabilityCurrent
  BY DEF MonitorInv, NothingMissed, AvailabilityCurrent, Believed
<1> QED BY <1>1, InitMonitorInv, StepMonitorInv, PTL DEF Spec
==============================================================================
