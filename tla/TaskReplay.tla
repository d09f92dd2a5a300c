----------------------------- MODULE TaskReplay -----------------------------
(***************************************************************************)
(* The queue of pending task mutations of one REST account (Google Tasks,  *)
(* Microsoft To Do) and its replay to the provider.                        *)
(*                                                                         *)
(* The user's edits are queued by TasksRepository and TaskListsRepository, *)
(* PendingOpsReplayer sends them one at a time, and                        *)
(* PendingOpResolutionService lets the user retry or discard a blocked     *)
(* one.  All of them run interleaved at the awaits; the app can be killed  *)
(* at any point, and the answer to a request can be lost.                  *)
(*                                                                         *)
(* What a mutation changes is left out: here an operation                  *)
(* is a kind and an item, and what matters is when it is sent, how often   *)
(* the provider carries it out, and how it leaves the queue.  An item is a *)
(* task or a list; its identity stands for both its temporary identifier   *)
(* and the one the provider gives it, and `acked' tells which one the      *)
(* local rows hold.  Operation identifiers are numbers in the order of     *)
(* createdAtUtc, by which the queue is replayed.                           *)
(***************************************************************************)
EXTENDS Integers, FiniteSets

CONSTANTS
    Tasks, Lists,
    ListOf,       \* the list of each task
    ParentOf,     \* the parent of each task, or NoItem
    KnownItems,   \* the items that the provider and the local rows already have
    NoItem,
    Kinds,        \* the kinds of operation the user issues
    UncertainAnswers, \* the answers that leave the outcome of a request open
    Replayers,    \* the replay coordinators (one per open database)
    Ui,           \* the one of the engine the user works with
    MaxOps,       \* bound: operations the user queues
    MaxCrashes    \* bound: times an engine is killed

Items == Tasks \cup Lists
OpIds == 1..MaxOps
NoOp == 0

Creations == {"createList", "createTask"}
Barriers == {"clear", "removeList"}
TaskKinds == {"createTask", "patch", "complete", "move", "delete"}
ListKinds == {"createList", "renameList", "removeList"}
\* _isReconcilableWrite; "complete" is a patch that completes an occurrence of
\* a recurring task.
Reconcilable == {"patch", "complete"}
AllKinds == TaskKinds \cup ListKinds \cup {"clear"}

ASSUME ReplayAssumption ==
    /\ ListOf \in [Tasks -> Lists]
    /\ ParentOf \in [Tasks -> Tasks \cup {NoItem}]
    /\ NoItem \notin Items /\ Tasks \cap Lists = {}
    /\ \A t \in Tasks : ParentOf[t] # NoItem => ListOf[ParentOf[t]] = ListOf[t]
    /\ KnownItems \subseteq Items
    /\ \A t \in Tasks \cap KnownItems : ListOf[t] \in KnownItems
    /\ Kinds \subseteq AllKinds
    /\ UncertainAnswers \subseteq {"lost", "error408", "error5xx"}
    /\ Ui \in Replayers
    /\ MaxOps \in Nat /\ MaxCrashes \in Nat

VARIABLES
    \* the pending_ops table
    queued,       \* the rows present
    kind, item, dep, captured,   \* operation, target, dependsOnOpId, barrier ids
    state,        \* state
    timing,       \* nextAttemptAtUtc: due, later, or never (9999-12-31)
    attempted,    \* attemptCount > 0
    nextOp,       \* history: the next operation identifier
    \* the tasks and task_lists tables
    shown,        \* rows the user can act on
    acked,        \* rows holding the provider's identifier
    \* the provider
    live,         \* items that exist there
    execCount,    \* history: how often each operation was carried out (0, 1, 2 or more)
    abandoned,    \* history: operations discarded or cancelled by the user
    \* the replayers
    phase, todo, pos, progress, cur, seen, fresh, known, answer, sent,
    cooldown,     \* domain_sync_schedules.cooldown_until_utc is in the future
    \* the diagnostics screen
    retrying,     \* retryNow calls between their check and their write
    discarding,   \* the operations an ongoing discard will delete
    crashes

opVars == <<kind, item, dep, captured, nextOp>>
localVars == <<shown, acked>>
providerVars == <<live, execCount>>
uiVars == <<retrying, discarding>>
replayVars == <<phase, todo, pos, progress, cur, seen, fresh, known, answer, sent>>
vars == <<queued, opVars, state, timing, attempted, localVars, providerVars,
          abandoned, replayVars, cooldown, uiVars, crashes>>

MaxOf(S) == CHOOSE x \in S : \A y \in S : y <= x
MinOf(S) == CHOOSE x \in S : \A y \in S : x <= y

OpStates == {"pending", "in_progress", "retry", "failed", "recovery_required"}
Answers == {"ok", "unsent", "lost", "error408", "error5xx", "throttled",
            "rejected", "missing", "conflict"}

TypeOK ==
    /\ queued \subseteq OpIds
    /\ kind \in [OpIds -> AllKinds]
    /\ item \in [OpIds -> Items \cup {NoItem}]
    /\ dep \in [OpIds -> OpIds \cup {NoOp}]
    /\ captured \in [OpIds -> SUBSET OpIds]
    /\ state \in [OpIds -> OpStates]
    /\ timing \in [OpIds -> {"due", "later", "never"}]
    /\ attempted \in [OpIds -> BOOLEAN]
    /\ nextOp \in 1..(MaxOps + 1)
    /\ shown \subseteq Items /\ acked \subseteq Items /\ live \subseteq Items
    /\ execCount \in [OpIds -> 0..2]
    /\ abandoned \subseteq OpIds
    /\ phase \in [Replayers -> {"idle", "scan", "read", "checking", "sent", "answered"}]
    /\ todo \in [Replayers -> SUBSET OpIds]
    /\ pos \in [Replayers -> 0..MaxOps]
    /\ progress \in [Replayers -> BOOLEAN]
    /\ cur \in [Replayers -> OpIds \cup {NoOp}]
    /\ seen \in [Replayers -> OpStates]
    /\ fresh \in [Replayers -> BOOLEAN]
    /\ known \in [Replayers -> SUBSET Items]
    /\ answer \in [Replayers -> Answers]
    /\ sent \in [Replayers -> BOOLEAN]
    /\ cooldown \in BOOLEAN
    /\ retrying \subseteq OpIds
    /\ discarding \subseteq OpIds
    /\ crashes \in 0..MaxCrashes

Init ==
    /\ queued = {}
    /\ kind = [o \in OpIds |-> "patch"]
    /\ item = [o \in OpIds |-> NoItem]
    /\ dep = [o \in OpIds |-> NoOp]
    /\ captured = [o \in OpIds |-> {}]
    /\ state = [o \in OpIds |-> "pending"]
    /\ timing = [o \in OpIds |-> "due"]
    /\ attempted = [o \in OpIds |-> FALSE]
    /\ nextOp = 1
    /\ shown = KnownItems /\ acked = KnownItems /\ live = KnownItems
    /\ execCount = [o \in OpIds |-> 0]
    /\ abandoned = {}
    /\ phase = [r \in Replayers |-> "idle"]
    /\ todo = [r \in Replayers |-> {}]
    /\ pos = [r \in Replayers |-> 0]
    /\ progress = [r \in Replayers |-> FALSE]
    /\ cur = [r \in Replayers |-> NoOp]
    /\ seen = [r \in Replayers |-> "pending"]
    /\ fresh = [r \in Replayers |-> FALSE]
    /\ known = [r \in Replayers |-> {}]
    /\ answer = [r \in Replayers |-> "ok"]
    /\ sent = [r \in Replayers |-> FALSE]
    /\ cooldown = FALSE
    /\ retrying = {} /\ discarding = {}
    /\ crashes = 0

------------------------------------------------------------------------------
(* The queue                                                                *)

OnTask(o, t) == kind[o] \in TaskKinds /\ item[o] = t
ListOfOp(o) == IF item[o] \in Tasks THEN ListOf[item[o]] ELSE item[o]

\* taskOperationTouchesList: the task operations of a list, its own "clear"
\* included, but no list operation.
TouchesList(o, l) == kind[o] \in TaskKinds \cup {"clear"} /\ ListOfOp(o) = l

\* Of the given rows, the last one that no other of them depends on.
LastOf(S) ==
    LET tails == {o \in S : \A p \in S : dep[p] # o}
    IN  IF S = {} THEN NoOp ELSE MaxOf(IF tails = {} THEN S ELSE tails)

\* Mutants: no dependency is recorded; the new operation finds itself.
NoPredecessor(t) == NoOp
SelfPredecessor(t) == nextOp

LatestTaskOp(t) == LastOf({o \in queued : OnTask(o, t)})
LatestListOp(l) == LastOf({o \in queued : kind[o] \in ListKinds /\ item[o] = l})
PendingCreate(t) ==
    LET S == {o \in queued : kind[o] = "createTask" /\ item[o] = t}
    IN  IF t = NoItem \/ S = {} THEN NoOp ELSE MinOf(S)

\* The smallest set of queued operations that contains those of `base' and,
\* with the first of a pair of `pulls', the second.
Closure(base, pulls) ==
    {o \in queued : \A S \in SUBSET queued :
        base \subseteq S /\ (\A e \in pulls : e[1] \in S => e[2] \in S) => o \in S}

\* An operation and one that waits for it; a creation and what is done to the
\* created task.
Dependencies == {e \in queued \X queued : dep[e[2]] = e[1]}
Creating ==
    {e \in queued \X queued : kind[e[1]] = "createTask" /\ OnTask(e[2], item[e[1]])}

\* Mutant: removals do not wait.
NeverWaits(o) == FALSE

\* _waitsForTaskMutationBarrier
WaitsForBarrier(o) ==
    /\ kind[o] \in Barriers
    /\ \E c \in queued \ {o} :
          \/ c \in captured[o]
          \/ /\ TouchesList(c, item[o])
             /\ ~(kind[o] = "clear" /\ kind[c] = "clear")

\* A row was written with a new updatedAtUtc: no snapshot of it matches now.
Outdate(S) == fresh' = [r \in Replayers |-> fresh[r] /\ cur[r] \notin S]

\* A new row, last in createdAtUtc order.
Enqueue(k, i, d, c) ==
    /\ nextOp <= MaxOps
    /\ k \in Kinds
    /\ queued' = queued \cup {nextOp}
    /\ kind' = [kind EXCEPT ![nextOp] = k]
    /\ item' = [item EXCEPT ![nextOp] = i]
    /\ dep' = [dep EXCEPT ![nextOp] = d]
    /\ captured' = [captured EXCEPT ![nextOp] = c]
    /\ nextOp' = nextOp + 1
    /\ UNCHANGED <<state, timing, attempted, acked, providerVars,
                   replayVars, cooldown, uiVars, crashes>>
------------------------------------------------------------------------------
(* The user's edits                                                         *)

UserCreateList(l) ==
    /\ l \notin shown /\ l \notin KnownItems /\ \A o \in OpIds : item[o] # l
    /\ Enqueue("createList", l, LatestListOp(l), {})
    /\ shown' = shown \cup {l}
    /\ UNCHANGED abandoned

\* A task with a parent is created first and moved under it afterwards.
UserCreateTask(t) ==
    /\ t \notin KnownItems /\ \A o \in OpIds : item[o] # t
    /\ ListOf[t] \in shown
    /\ ParentOf[t] \in shown \cup {NoItem}
    /\ shown' = shown \cup {t}
    /\ UNCHANGED abandoned
    /\ IF ParentOf[t] = NoItem
       THEN Enqueue("createTask", t, NoOp, {})
       ELSE /\ nextOp < MaxOps
            /\ "createTask" \in Kinds
            /\ queued' = queued \cup {nextOp, nextOp + 1}
            /\ kind' = [kind EXCEPT ![nextOp] = "createTask", ![nextOp + 1] = "move"]
            /\ item' = [item EXCEPT ![nextOp] = t, ![nextOp + 1] = t]
            /\ dep' = [dep EXCEPT ![nextOp] = PendingCreate(ParentOf[t]),
                                  ![nextOp + 1] = nextOp]
            /\ captured' = captured
            /\ nextOp' = nextOp + 2
            /\ UNCHANGED <<state, timing, attempted, acked, providerVars,
                           replayVars, cooldown, uiVars, crashes>>

Editable(t) == t \in shown /\ ListOf[t] \in shown

UserEditTask(t) ==
    /\ Editable(t)
    /\ \E k \in {"patch", "complete"} : Enqueue(k, t, LatestTaskOp(t), {})
    /\ UNCHANGED <<shown, abandoned>>

UserMoveTask(t) ==
    /\ Editable(t)
    /\ Enqueue("move", t, LatestTaskOp(t), {})
    /\ UNCHANGED <<shown, abandoned>>

\* The operations _cancelPendingTaskCreation takes with it.
CancelledWith(c) ==
    Closure({o \in queued : o = c \/ OnTask(o, item[c])}, Dependencies)

\* Mutant: a claimed creation still counts as unsent.
NeverFailed(c) == c # NoOp /\ ~attempted[c]

\* _pendingUnsentTaskCreate
Unsent(c) == c # NoOp /\ state[c] = "pending" /\ ~attempted[c]

\* Deleting a task whose creation was never attempted only cancels it.
UserDeleteTask(t) ==
    LET c == PendingCreate(t)
        gone == CancelledWith(c)
    IN
    /\ Editable(t)
    /\ IF Unsent(c)
       THEN /\ "delete" \in Kinds
            /\ queued' = queued \ gone
            /\ abandoned' = abandoned \cup gone
            /\ shown' = shown \ {item[o] : o \in {p \in gone : kind[p] = "createTask"}}
            /\ UNCHANGED <<opVars, state, timing, attempted, acked, providerVars,
                           replayVars, cooldown, uiVars, crashes>>
       ELSE /\ Enqueue("delete", t, LatestTaskOp(t), {})
            /\ shown' = shown \ {t}
            /\ UNCHANGED abandoned

UserClearCompleted(l) ==
    /\ l \in shown
    /\ Enqueue("clear", l, NoOp, {o \in queued : TouchesList(o, l)})
    /\ UNCHANGED <<shown, abandoned>>

UserRenameList(l) ==
    /\ l \in shown
    /\ Enqueue("renameList", l, LatestListOp(l), {})
    /\ UNCHANGED <<shown, abandoned>>

UserRemoveList(l) ==
    /\ l \in shown
    /\ Enqueue("removeList", l, LatestListOp(l), {o \in queued : TouchesList(o, l)})
    /\ shown' = shown \ {l}
    /\ UNCHANGED abandoned
------------------------------------------------------------------------------
(* Replay                                                                   *)

StartReplay(r) ==
    LET due == {o \in queued : timing[o] = "due"} IN
    /\ phase[r] = "idle"
    /\ r = Ui => discarding = {}      \* serializePendingOpsReplay
    /\ ~cooldown
    /\ due # {}
    /\ phase' = [phase EXCEPT ![r] = "scan"]
    /\ todo' = [todo EXCEPT ![r] = due]
    /\ pos' = [pos EXCEPT ![r] = 0]
    /\ progress' = [progress EXCEPT ![r] = FALSE]
    /\ UNCHANGED <<queued, opVars, state, timing, attempted, localVars, providerVars,
                   abandoned, cur, seen, fresh, known, answer, sent, cooldown,
                   uiVars, crashes>>

\* What the run of a replayer holds in memory is forgotten.
RunEnds(r) ==
    /\ phase' = [phase EXCEPT ![r] = "idle"]
    /\ todo' = [todo EXCEPT ![r] = {}]
    /\ pos' = [pos EXCEPT ![r] = 0]
    /\ progress' = [progress EXCEPT ![r] = FALSE]
    /\ cur' = [cur EXCEPT ![r] = NoOp]
    /\ seen' = [seen EXCEPT ![r] = "pending"]
    /\ known' = [known EXCEPT ![r] = {}]
    /\ answer' = [answer EXCEPT ![r] = "ok"]
    /\ sent' = [sent EXCEPT ![r] = FALSE]

\* The next operation of the pass is read again, the pass restarts when it
\* made progress, and the run ends when it made none or a cooldown began.
NextOfPass(r) ==
    LET rest == {o \in todo[r] : o > pos[r]}
        o == MinOf(rest)
    IN
    /\ phase[r] = "scan"
    /\ UNCHANGED <<queued, opVars, state, timing, attempted, localVars, providerVars,
                   abandoned, cooldown, uiVars, crashes>>
    /\ \/ /\ rest = {} /\ progress[r] /\ todo[r] # {}
          /\ pos' = [pos EXCEPT ![r] = 0]
          /\ progress' = [progress EXCEPT ![r] = FALSE]
          /\ UNCHANGED <<phase, todo, cur, seen, fresh, known, answer, sent>>
       \/ /\ IF rest = {} THEN ~progress[r] \/ todo[r] = {} ELSE cooldown
          /\ RunEnds(r)
          /\ fresh' = [fresh EXCEPT ![r] = FALSE]
       \/ /\ rest # {} /\ ~cooldown /\ o \notin queued
          /\ todo' = [todo EXCEPT ![r] = @ \ {o}]
          /\ pos' = [pos EXCEPT ![r] = o]
          /\ UNCHANGED <<phase, progress, cur, seen, fresh, known, answer, sent>>
       \/ /\ rest # {} /\ ~cooldown /\ o \in queued
          /\ phase' = [phase EXCEPT ![r] = "read"]
          /\ cur' = [cur EXCEPT ![r] = o]
          /\ seen' = [seen EXCEPT ![r] = state[o]]
          /\ fresh' = [fresh EXCEPT ![r] = TRUE]
          /\ known' = [known EXCEPT ![r] = acked]
          /\ pos' = [pos EXCEPT ![r] = o]
          /\ UNCHANGED <<todo, progress, answer, sent>>

Skip(r) ==
    /\ phase' = [phase EXCEPT ![r] = "scan"]
    /\ cur' = [cur EXCEPT ![r] = NoOp]
    /\ seen' = [seen EXCEPT ![r] = "pending"]
    /\ known' = [known EXCEPT ![r] = {}]
    /\ answer' = [answer EXCEPT ![r] = "ok"]
    /\ sent' = [sent EXCEPT ![r] = FALSE]
    /\ UNCHANGED <<todo, pos, progress>>

Handle(r) ==
    /\ todo' = [todo EXCEPT ![r] = @ \ {cur[r]}]
    /\ progress' = [progress EXCEPT ![r] = TRUE]

\* An update of a row that may have been deleted meanwhile.
WriteRow(o, st, tm, att) ==
    /\ state' = IF o \in queued THEN [state EXCEPT ![o] = st] ELSE state
    /\ timing' = IF o \in queued THEN [timing EXCEPT ![o] = tm] ELSE timing
    /\ attempted' = IF o \in queued THEN [attempted EXCEPT ![o] = att] ELSE attempted

\* The compare-and-set of _claimCreation succeeds.
Claimable(r) == cur[r] \in queued /\ fresh[r] /\ state[cur[r]] = seen[r]

\* Dependencies and barriers are checked, then a creation is claimed by a
\* compare-and-set; one left in progress by an earlier run has an unknown
\* outcome and is blocked instead.
Admit(r) ==
    LET o == cur[r] IN
    /\ phase[r] = "read"
    /\ UNCHANGED <<queued, opVars, localVars, providerVars, abandoned,
                   cooldown, uiVars, crashes>>
    /\ \/ /\ dep[o] \in queued \/ WaitsForBarrier(o)
          /\ Skip(r)
          /\ fresh' = [fresh EXCEPT ![r] = FALSE]
          /\ UNCHANGED <<state, timing, attempted>>
       \/ /\ dep[o] \notin queued /\ ~WaitsForBarrier(o)
          /\ kind[o] \in Creations
          /\ seen[r] \in {"in_progress", "recovery_required"}
          /\ WriteRow(o, "recovery_required", "never",
                      attempted[o] \/ seen[r] = "in_progress")
          /\ Handle(r)
          /\ phase' = [phase EXCEPT ![r] = "scan"]
          /\ cur' = [cur EXCEPT ![r] = NoOp]
          /\ seen' = [seen EXCEPT ![r] = "pending"]
          /\ known' = [known EXCEPT ![r] = {}]
          /\ Outdate({o})
          /\ UNCHANGED <<pos, answer, sent>>
       \/ /\ dep[o] \notin queued /\ ~WaitsForBarrier(o)
          /\ kind[o] \in Creations
          /\ seen[r] \notin {"in_progress", "recovery_required"}
          /\ ~Claimable(r)
          /\ Skip(r)
          /\ fresh' = [fresh EXCEPT ![r] = FALSE]
          /\ UNCHANGED <<state, timing, attempted>>
       \/ /\ dep[o] \notin queued /\ ~WaitsForBarrier(o)
          /\ kind[o] \in Creations
             => /\ seen[r] \notin {"in_progress", "recovery_required"}
                /\ Claimable(r)
          /\ state' = IF kind[o] \in Creations
                      THEN [state EXCEPT ![o] = "in_progress"] ELSE state
          /\ Handle(r)
          /\ phase' = [phase EXCEPT ![r] = "checking"]
          /\ UNCHANGED <<timing, attempted, pos, cur, seen, fresh, known, answer, sent>>

\* The provider knows the items the operation names, by the identifiers it
\* held when it was read.
Acceptable(r) ==
    LET o == cur[r]
        valid == known[r] \cap live
    IN  CASE kind[o] = "createList" -> TRUE
          [] kind[o] = "createTask" -> {ListOf[item[o]], ParentOf[item[o]]} \ {NoItem} \subseteq valid
          [] kind[o] \in TaskKinds \ {"createTask"} -> {item[o], ListOf[item[o]]} \subseteq valid
          [] OTHER -> item[o] \in valid

\* The operations that read the provider before they write to it.
ReadsFirst(o) ==
    /\ kind[o] # "createList"
    /\ kind[o] = "createTask" => ParentOf[item[o]] # NoItem

\* Mutant: only an operation already set aside is uncertain.
SetAside(r) == kind[cur[r]] = "complete" /\ seen[r] = "recovery_required"

\* A recurring completion whose earlier attempt may have advanced the task.
UncertainCompletion(r) ==
    kind[cur[r]] = "complete" /\ seen[r] \in {"in_progress", "recovery_required"}

\* The provider is read before the write: the read can fail, find a conflict,
\* or find an earlier patch carried out, which is then acknowledged.
CheckProvider(r) ==
    LET o == cur[r] IN
    /\ phase[r] = "checking"
    /\ ReadsFirst(o)
    /\ \E a \in Answers \ {"ok"} :
          /\ a \in {"error408", "error5xx", "lost"} => a \in UncertainAnswers
          /\ a = "missing" => ~Acceptable(r)
          /\ a = "conflict" => kind[o] \notin Creations /\ ~UncertainCompletion(r)
          /\ answer' = [answer EXCEPT ![r] = a]
    /\ phase' = [phase EXCEPT ![r] = "answered"]
    /\ UNCHANGED <<queued, opVars, state, timing, attempted, localVars, providerVars,
                   abandoned, todo, pos, progress, cur, seen, fresh, known, sent,
                   cooldown, uiVars, crashes>>

\* _taskPostconditionEstablished
FindDone(r) ==
    LET o == cur[r] IN
    /\ phase[r] = "checking"
    /\ kind[o] = "patch" /\ seen[r] = "in_progress"
    /\ execCount[o] > 0 /\ Acceptable(r)
    /\ answer' = [answer EXCEPT ![r] = "ok"]
    /\ phase' = [phase EXCEPT ![r] = "answered"]
    /\ UNCHANGED <<queued, opVars, state, timing, attempted, localVars, providerVars,
                   abandoned, todo, pos, progress, cur, seen, fresh, known, sent,
                   cooldown, uiVars, crashes>>

\* _blockUnknownRecurringCompletion
BlockUnknownCompletion(r) ==
    LET o == cur[r] IN
    /\ phase[r] = "checking"
    /\ UncertainCompletion(r)
    /\ WriteRow(o, "recovery_required", "never", attempted[o])
    /\ Skip(r)
    /\ Outdate({o})
    /\ UNCHANGED <<queued, opVars, localVars, providerVars, abandoned,
                   cooldown, uiVars, crashes>>

\* A removal checks its barrier again just before it is sent.
BarrierAgain(r) ==
    /\ phase[r] = "checking"
    /\ WaitsForBarrier(cur[r])
    /\ Skip(r)
    /\ fresh' = [fresh EXCEPT ![r] = FALSE]
    /\ UNCHANGED <<queued, opVars, state, timing, attempted, localVars, providerVars,
                   abandoned, cooldown, uiVars, crashes>>

\* The request leaves; a task patch is marked in progress before.
Send(r) ==
    LET o == cur[r] IN
    /\ phase[r] = "checking"
    /\ ~UncertainCompletion(r)
    /\ ~WaitsForBarrier(o)
    /\ phase' = [phase EXCEPT ![r] = "sent"]
    /\ sent' = [sent EXCEPT ![r] = TRUE]
    /\ state' = IF kind[o] \in Reconcilable /\ o \in queued
                THEN [state EXCEPT ![o] = "in_progress"] ELSE state
    /\ UNCHANGED <<queued, opVars, timing, attempted, localVars, providerVars,
                   abandoned, todo, pos, progress, cur, seen, fresh, known, answer,
                   cooldown, uiVars, crashes>>

\* What carrying out an operation changes at the provider.
Effect(o) ==
    /\ execCount' = [execCount EXCEPT ![o] = IF @ = 2 THEN 2 ELSE @ + 1]
    /\ live' = CASE kind[o] \in Creations -> live \cup {item[o]}
                 [] kind[o] = "delete" -> live \ {item[o]}
                 [] kind[o] = "removeList" ->
                       live \ ({item[o]} \cup {t \in Tasks : ListOf[t] = item[o]})
                 [] OTHER -> live

AnswerTo(r, a) ==
    /\ phase[r] = "sent"
    /\ answer' = [answer EXCEPT ![r] = a]
    /\ phase' = [phase EXCEPT ![r] = "answered"]
    /\ UNCHANGED <<queued, opVars, state, timing, attempted, localVars, abandoned,
                   todo, pos, progress, cur, seen, fresh, known, sent, cooldown,
                   uiVars, crashes>>

CarryOut(r) == Acceptable(r) /\ Effect(cur[r])

AnswerOk(r) == AnswerTo(r, "ok") /\ CarryOut(r)

\* A timeout, a dropped connection or a server error says nothing about what
\* the provider did.
AnswerUnknown(r) ==
    \E a \in UncertainAnswers :
        /\ AnswerTo(r, a)
        /\ \/ CarryOut(r)
           \/ UNCHANGED providerVars

AnswerRefused(r) ==
    \E a \in {"unsent", "throttled", "rejected", "missing"} :
        /\ AnswerTo(r, a)
        /\ a = "missing" => ~Acceptable(r)
        /\ UNCHANGED providerVars
------------------------------------------------------------------------------
(* Recording the outcome                                                    *)

\* Mutant: only server errors leave the outcome of a creation open.
ServerErrorOutcome(o, a) == kind[o] \in Creations /\ a = "error5xx"

\* _hasUnknownCreationOutcome, and failures that are no answer at all.
UnknownOutcome(o, a) ==
    kind[o] \in Creations /\ a \in {"lost", "error408", "error5xx"}

\* Mutant: "not found" ends every operation.
AnyMissingDone(o) == TRUE

\* _isSuccessfulMissingDelete
MissingIsDone(o) == kind[o] \in {"delete", "removeList"}

\* The operations whose row names the created item by its temporary
\* identifier.
Referring(o) ==
    {p \in queued \ {o} :
        CASE kind[o] = "createTask" ->
                \/ OnTask(p, item[o])
                \/ kind[p] \in {"createTask", "move"} /\ ParentOf[item[p]] = item[o]
          [] kind[o] = "createList" -> ListOfOp(p) = item[o]
          [] OTHER -> FALSE}

\* _replacePendingReference: those of them that were blocked are due again,
\* except when their own outcome is unknown.
Unblocked(o) ==
    {p \in Referring(o) : timing[p] = "never" /\ state[p] # "recovery_required"}

\* The local result of the operation and the removal of its row commit
\* together; a task created for a row that is gone is not recorded.
Acknowledge(o) ==
    /\ queued' = queued \ {o}
    /\ acked' = IF kind[o] \in Creations THEN acked \cup {item[o]} ELSE acked
    /\ shown' = IF kind[o] = "createList" /\ o \notin queued THEN shown \cup {item[o]} ELSE shown
    /\ state' = [p \in OpIds |-> IF p \in Unblocked(o) THEN "pending" ELSE state[p]]
    /\ timing' = [p \in OpIds |-> IF p \in Unblocked(o) THEN "due" ELSE timing[p]]
    /\ Outdate(Unblocked(o) \cup {p \in Referring(o) : kind[o] = "createTask" /\ kind[p] = "createTask"})

RecordOk(r) ==
    LET o == cur[r] IN
    /\ phase[r] = "answered" /\ answer[r] = "ok"
    /\ IF kind[o] = "createTask" /\ o \notin queued
       THEN UNCHANGED <<queued, state, timing, localVars, fresh>>
       ELSE Acknowledge(o)
    /\ Skip(r)
    /\ UNCHANGED <<opVars, attempted, providerVars, abandoned, cooldown, uiVars, crashes>>

RecordMissingDelete(r) ==
    LET o == cur[r] IN
    /\ phase[r] = "answered" /\ answer[r] = "missing"
    /\ MissingIsDone(o)
    /\ queued' = queued \ {o}
    /\ Skip(r)
    /\ UNCHANGED <<opVars, state, timing, attempted, localVars, providerVars,
                   abandoned, fresh, cooldown, uiVars, crashes>>

\* _blockUnknownCreationOutcome; a server error also starts a cooldown, which
\* ends the run.
RecordUnknownCreation(r) ==
    LET o == cur[r] IN
    /\ phase[r] = "answered"
    /\ UnknownOutcome(o, answer[r])
    /\ WriteRow(o, "recovery_required", "never", TRUE)
    /\ Outdate({o})
    /\ IF answer[r] = "error5xx"
       THEN cooldown' = TRUE /\ RunEnds(r)
       ELSE Skip(r) /\ UNCHANGED cooldown
    /\ UNCHANGED <<queued, opVars, localVars, providerVars, abandoned,
                   uiVars, crashes>>

\* _scheduleRetry, with the state each failure leaves.
RecordRetry(r) ==
    LET o == cur[r]
        a == answer[r]
        st == IF \/ kind[o] \in Creations
                 \/ /\ kind[o] \in Reconcilable
                    /\ \/ a = "unsent" /\ seen[r] # "in_progress"
                       \/ a = "throttled" /\ sent[r]
              THEN "retry" ELSE state[o]
    IN
    /\ phase[r] = "answered"
    /\ \/ a \in {"unsent", "throttled"}
       \/ a \in {"lost", "error5xx"} /\ ~UnknownOutcome(o, a)
    /\ WriteRow(o, st, "later", TRUE)
    /\ Outdate({o})
    /\ \/ a # "lost" /\ cooldown' = TRUE /\ RunEnds(r)
       \/ a \in {"lost", "unsent"} /\ UNCHANGED cooldown /\ Skip(r)
    /\ UNCHANGED <<queued, opVars, localVars, providerVars, abandoned,
                   uiVars, crashes>>

\* _blockOp
RecordBlock(r) ==
    LET o == cur[r]
        a == answer[r]
        st == IF \/ kind[o] \in Creations
                 \/ kind[o] \in Reconcilable /\ seen[r] # "in_progress"
              THEN "failed" ELSE state[o]
    IN
    /\ phase[r] = "answered"
    /\ \/ a \in {"rejected", "conflict"}
       \/ a = "error408" /\ ~UnknownOutcome(o, a)
       \/ a = "missing" /\ ~MissingIsDone(o)
    /\ WriteRow(o, st, "never", TRUE)
    /\ Outdate({o})
    /\ Skip(r)
    /\ UNCHANGED <<queued, opVars, localVars, providerVars, abandoned,
                   cooldown, uiVars, crashes>>
------------------------------------------------------------------------------
(* Time, crashes and other clients                                          *)

AttemptBecomesDue(o) ==
    /\ o \in queued /\ timing[o] = "later"
    /\ timing' = [timing EXCEPT ![o] = "due"]
    /\ UNCHANGED <<queued, opVars, state, attempted, localVars, providerVars,
                   abandoned, replayVars, cooldown, uiVars, crashes>>

CooldownEnds ==
    /\ cooldown
    /\ cooldown' = FALSE
    /\ UNCHANGED <<queued, opVars, state, timing, attempted, localVars, providerVars,
                   abandoned, replayVars, uiVars, crashes>>

\* The engine of a replayer is killed.  A request on its way is carried out
\* or not; the database keeps what was committed.
Crash(r) ==
    /\ crashes < MaxCrashes
    /\ phase[r] # "idle"
    /\ crashes' = crashes + 1
    /\ \/ phase[r] = "sent" /\ CarryOut(r)
       \/ UNCHANGED providerVars
    /\ RunEnds(r)
    /\ fresh' = [fresh EXCEPT ![r] = FALSE]
    /\ retrying' = IF r = Ui THEN {} ELSE retrying
    /\ UNCHANGED <<queued, opVars, state, timing, attempted, localVars, abandoned,
                   cooldown, discarding>>

RemoteDelete(t) ==
    /\ t \in live
    /\ live' = live \ {t}
    /\ UNCHANGED <<queued, opVars, state, timing, attempted, localVars, execCount,
                   abandoned, replayVars, cooldown, uiVars, crashes>>
------------------------------------------------------------------------------
(* The diagnostics screen: retry and discard of a blocked operation         *)

\* retryNow up to its await: operations that must not be sent again are
\* refused.
RetryCheck(o) ==
    /\ o \in queued /\ timing[o] = "never"
    /\ ~(state[o] = "recovery_required" /\ kind[o] \in Creations \cup Reconcilable)
    /\ retrying' = retrying \cup {o}
    /\ UNCHANGED <<queued, opVars, state, timing, attempted, localVars, providerVars,
                   abandoned, replayVars, cooldown, discarding, crashes>>

\* The row is written without looking at it again.
RetryWrite(o) ==
    /\ o \in retrying
    /\ retrying' = retrying \ {o}
    /\ timing' = IF o \in queued THEN [timing EXCEPT ![o] = "due"] ELSE timing
    /\ IF o \in queued THEN Outdate({o}) ELSE UNCHANGED fresh
    /\ UNCHANGED <<queued, opVars, state, attempted, localVars, providerVars,
                   abandoned, phase, todo, pos, progress, cur, seen, known, answer,
                   sent, cooldown, discarding, crashes>>

\* _discardTaskCreation: the operations of every task created by the closure.
CreationClosure(o) == Closure({o} \cap queued, Dependencies \cup Creating)

\* _taskListCreationDiscardedOperationIds
ListCreationClosure(o) ==
    Closure({p \in queued : p = o \/ ListOfOp(p) = item[o]}, Dependencies)

\* _dependentTaskOperationIds
DependentClosure(o) == Closure({o} \cap queued, Dependencies)

DiscardedWith(o) ==
    CASE kind[o] = "createTask" -> CreationClosure(o)
      [] kind[o] = "createList" -> ListCreationClosure(o)
      [] kind[o] = "move" -> DependentClosure(o)
      [] OTHER -> {o}

\* discard enters the replay coordinator and, for all but creations of tasks,
\* reads the provider.  The discarded set of a move is computed here and not
\* again.
DiscardBegin(o) ==
    /\ o \in queued /\ timing[o] = "never"
    /\ phase[Ui] = "idle" /\ discarding = {}
    /\ discarding' = DiscardedWith(o)
    /\ UNCHANGED <<queued, opVars, state, timing, attempted, localVars, providerVars,
                   abandoned, replayVars, cooldown, retrying, crashes>>

\* The read failed: nothing is discarded.
DiscardFails ==
    /\ discarding # {}
    /\ discarding' = {}
    /\ UNCHANGED <<queued, opVars, state, timing, attempted, localVars, providerVars,
                   abandoned, replayVars, cooldown, retrying, crashes>>

\* Mutant: the rows of discarded creations stay.
ShownAnyway(gone) == shown

\* What remains visible after a discard: the items whose creation was
\* discarded are gone; the others are shown as the provider has them, with the
\* operations that remain on top.
ShownAfter(gone) ==
    LET itemsOf(S) == {item[p] : p \in S}
        remaining == queued \ gone
        created == itemsOf({p \in gone : kind[p] \in Creations})
        refreshed == itemsOf({p \in gone : kind[p] # "clear"}) \ created
        removed == itemsOf({p \in remaining : kind[p] \in {"delete", "removeList"}})
    IN  (shown \ (created \cup refreshed))
          \cup ((refreshed \cap live) \ removed)
          \cup ((refreshed \cap shown \cap itemsOf(remaining)) \ live)

DiscardCommit ==
    LET o == MinOf(discarding)
        gone == IF kind[o] = "move" THEN discarding ELSE DiscardedWith(o)
    IN
    /\ discarding # {}
    /\ discarding' = {}
    /\ IF \/ o \notin queued /\ kind[o] # "move"
          \/ kind[o] = "createList" /\ gone # discarding
       THEN UNCHANGED <<queued, abandoned, shown>>
       ELSE /\ queued' = queued \ gone
            /\ abandoned' = abandoned \cup (gone \cap queued)
            /\ shown' = ShownAfter(gone)
    /\ UNCHANGED <<opVars, state, timing, attempted, acked, providerVars,
                   replayVars, cooldown, retrying, crashes>>
------------------------------------------------------------------------------
UserEdits ==
    \/ \E l \in Lists : \/ UserCreateList(l) \/ UserClearCompleted(l)
                        \/ UserRenameList(l) \/ UserRemoveList(l)
    \/ \E t \in Tasks : \/ UserCreateTask(t) \/ UserEditTask(t)
                        \/ UserMoveTask(t) \/ UserDeleteTask(t)

Record(r) ==
    \/ RecordOk(r) \/ RecordMissingDelete(r) \/ RecordUnknownCreation(r)
    \/ RecordRetry(r) \/ RecordBlock(r)

Replay(r) ==
    \/ StartReplay(r) \/ NextOfPass(r) \/ Admit(r)
    \/ CheckProvider(r) \/ FindDone(r) \/ BlockUnknownCompletion(r) \/ BarrierAgain(r)
    \/ Send(r) \/ AnswerOk(r) \/ AnswerUnknown(r) \/ AnswerRefused(r)
    \/ Record(r)

Resolution ==
    \/ \E o \in OpIds : RetryCheck(o) \/ RetryWrite(o) \/ DiscardBegin(o)
    \/ DiscardFails \/ DiscardCommit

Next ==
    \/ UserEdits
    \/ \E r \in Replayers : Replay(r) \/ Crash(r)
    \/ Resolution
    \/ \E o \in OpIds : AttemptBecomesDue(o)
    \/ CooldownEnds
    \/ \E t \in Tasks : RemoteDelete(t)

Spec == Init /\ [][Next]_vars

\* An answer after which the operation is not sent again by itself.
Decided(r) ==
    \/ AnswerOk(r)
    \/ AnswerRefused(r) /\ answer'[r] \in {"rejected", "missing"}

\* Replay keeps running while operations are due, cooldowns and backoffs end,
\* and a request attempted again and again is some time sent and answered.
\* The user, the other clients and the crashes owe nothing.
Fairness ==
    /\ \A r \in Replayers :
          /\ SF_vars(StartReplay(r))
          /\ WF_vars(NextOfPass(r) \/ Admit(r) \/ BlockUnknownCompletion(r) \/ BarrierAgain(r))
          /\ WF_vars(CheckProvider(r) \/ Send(r) \/ AnswerUnknown(r) \/ AnswerRefused(r))
          /\ WF_vars(Record(r))
          /\ \A o \in OpIds : /\ SF_vars(cur[r] = o /\ (Send(r) \/ BlockUnknownCompletion(r)))
                              /\ SF_vars(cur[r] = o /\ Decided(r))
    /\ \A o \in OpIds : WF_vars(AttemptBecomesDue(o))
    /\ WF_vars(CooldownEnds)
    /\ WF_vars(DiscardFails \/ DiscardCommit)

FairSpec == Spec /\ Fairness
------------------------------------------------------------------------------
(* Properties                                                               *)

Carried(o) == execCount'[o] > execCount[o]

\* A creation is carried out by the provider at most once, whatever answers
\* are lost, however often the app is killed and whatever the user retries.
\* (claim before the request, _blockUnknownCreationOutcome, retryNow)
CreatedOnce == \A o \in OpIds : kind[o] \in Creations => execCount[o] <= 1

\* The same of the completion of an occurrence of a recurring task, which
\* would otherwise complete the next occurrence as well.
\* (_blockUnknownRecurringCompletion, retryNow)
CompletedOnce == \A o \in OpIds : kind[o] = "complete" => execCount[o] <= 1

\* The provider carries out the operations on a task in the order in which
\* the user made them.  (dependsOnOpId and its check at replay)
TaskOrder ==
    [][\A o \in OpIds : Carried(o) /\ kind[o] \in TaskKinds =>
          \A p \in queued : p < o => ~OnTask(p, item[o])]_vars

\* A list is removed, or its completed tasks cleared, only after every
\* operation that touched the list before.  (task_mutation_barrier.dart)
BarrierOrder ==
    [][\A o \in OpIds : Carried(o) /\ kind[o] \in Barriers =>
          \A p \in queued : p < o => ~TouchesList(p, item[o])]_vars

\* No edit is lost: it is queued, or was carried out, or the user gave it up,
\* or it removed something that is gone.
NoSilentLoss ==
    \A o \in 1..(nextOp - 1) :
        \/ o \in queued \cup abandoned
        \/ execCount[o] > 0
        \/ kind[o] \in {"delete", "removeList"} /\ item[o] \notin live

\* What the user discarded or cancelled is not carried out afterwards.
GivenUpStays == [][\A o \in abandoned : ~Carried(o)]_vars

\* A row that the provider does not know yet has its creation in the queue:
\* cancelling and discarding leave no row behind that can never be synced.
NoOrphanRow ==
    \A i \in shown \ acked : \E o \in queued : kind[o] \in Creations /\ item[o] = i

\* An operation that was discarded leaves no operation waiting on it.
\* (_discardMoveAndDependents, _discardTaskCreation, _discardTaskListCreation)
DependentsDiscarded ==
    \A o \in queued : dep[o] \in abandoned => kind[dep[o]] \notin Creations \cup {"move"}

\* Every edit leaves the queue unless some operation waits for the user.
EveryEditSettles ==
    \A o \in OpIds : (o \in queued) ~> (o \notin queued \/ \E p \in queued : timing[p] = "never")
==============================================================================
