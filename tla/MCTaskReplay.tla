---------------------------- MODULE MCTaskReplay -----------------------------
(* Model-checking instances of TaskReplay: a parent task and a child in      *)
(* a list of one account, and the replay coordinators of two engines.        *)
EXTENDS TaskReplay

CONSTANTS parentTask, childTask, theList, uiEngine, workerEngine

Family == {parentTask, childTask}
Single == {parentTask}
OneList == {theList}
NoTask == {}
InList == [t \in Tasks |-> theList]
UnderParent == [t \in Tasks |-> IF t = childTask THEN parentTask ELSE NoItem]
Childless == [t \in Tasks |-> NoItem]
ParentKnown == {parentTask, theList}
EverythingKnown == Tasks \cup Lists
ListKnown == Lists

OneReplayer == {uiEngine}
TwoReplayers == {uiEngine, workerEngine}

MakeKinds == {"createList", "createTask"}
TaskEditKinds == {"createTask", "patch", "move", "delete", "clear", "renameList"}
FillKinds == {"createList", "createTask", "patch", "complete", "removeList"}
EditKinds == {"patch", "complete", "move", "delete"}

\* Bound: a list is renamed first or not at all.
RenamedFirst == \A o \in OpIds : o > 1 => kind'[o] # "renameList"

\* Bound: the application is killed after the last edit, while a request is on
\* its way or its answer is not recorded.
KilledAtRequest ==
    crashes' > crashes =>
        /\ nextOp > MaxOps
        /\ \A r \in Replayers : phase[r] \in {"idle", "sent", "answered"}

\* The engine of the background worker is stopped while it replays: its one
\* run began before the other engine could enter, and it begins no other.
OneWorkerRun ==
    phase[workerEngine] = "idle" /\ phase'[workerEngine] # "idle"
        => /\ phase[uiEngine] = "idle"
           /\ \A o \in OpIds : ~attempted[o] /\ execCount[o] = 0

OverlapSpec == Init /\ [][Next /\ OneWorkerRun]_vars
==============================================================================
