----------------------------- MODULE AccountGate -----------------------------
(***************************************************************************)
(* AccountSyncCoordinator.run: the per-account gate every synchronization, *)
(* replay and authorization change of BusyMax goes through.  The gate is a *)
(* chain of completers, one per call: a call awaits the completer of the   *)
(* call before it and completes its own when its operation has ended.  The *)
(* map _accountTails remembers the last completer of an account.           *)
(*                                                                         *)
(* An element of Ops is one call of run(); AccountOf gives its account.    *)
(* The completer of a call is named by the call itself.  The operation of  *)
(* a call is opaque: it ends, by a result or by an exception, and both go  *)
(* through the same finally block.  Every stretch of Dart code between two *)
(* awaits is atomic (one isolate), so each action is such a stretch.       *)
(***************************************************************************)
EXTENDS Integers, FiniteSets

CONSTANTS Ops, Accounts, AccountOf, NoOp

ASSUME GateAssumption ==
    /\ AccountOf \in [Ops -> Accounts]
    /\ NoOp \notin Ops
    /\ IsFiniteSet(Ops)

VARIABLES
    accountTails,   \* _accountTails: account -> completer of its last call
    previous,       \* local `previous` of each call
    completed,      \* the calls whose completer `release` has completed
    pc,             \* where each call is
    activeCounts,   \* _activeCounts
    ticket,         \* history: the order in which the calls were submitted
    issued          \* history: number of calls submitted per account

vars == <<accountTails, previous, completed, pc, activeCounts, ticket, issued>>

OpsOf(a) == {o \in Ops : AccountOf[o] = a}

\* The calls of an account that were submitted and have not left run().
Active(a) == {o \in OpsOf(a) : pc[o] \in {"waiting", "running"}}

TypeOK ==
    /\ accountTails \in [Accounts -> Ops \cup {NoOp}]
    /\ previous \in [Ops -> Ops \cup {NoOp}]
    /\ completed \in SUBSET Ops
    /\ pc \in [Ops -> {"idle", "waiting", "running", "done"}]
    /\ activeCounts \in [Accounts -> Nat]
    /\ ticket \in [Ops -> Nat]
    /\ issued \in [Accounts -> Nat]

Init ==
    /\ accountTails = [a \in Accounts |-> NoOp]
    /\ previous = [o \in Ops |-> NoOp]
    /\ completed = {}
    /\ pc = [o \in Ops |-> "idle"]
    /\ activeCounts = [a \in Accounts |-> 0]
    /\ ticket = [o \in Ops |-> 0]
    /\ issued = [a \in Accounts |-> 0]

\* A call up to its first await: without a predecessor the operation starts
\* in the same stretch of code, otherwise the call awaits the predecessor.
Submit(o) ==
    LET a == AccountOf[o] IN
    /\ pc[o] = "idle"
    /\ activeCounts' = [activeCounts EXCEPT ![a] = @ + 1]
    /\ previous' = [previous EXCEPT ![o] = accountTails[a]]
    /\ accountTails' = [accountTails EXCEPT ![a] = o]
    /\ pc' = [pc EXCEPT ![o] = IF accountTails[a] = NoOp THEN "running" ELSE "waiting"]
    /\ issued' = [issued EXCEPT ![a] = @ + 1]
    /\ ticket' = [ticket EXCEPT ![o] = issued[a] + 1]
    /\ UNCHANGED completed

\* Mutant: the predecessor is not awaited.
EnterAtOnce(o) ==
    /\ pc[o] = "waiting"
    /\ pc' = [pc EXCEPT ![o] = "running"]
    /\ UNCHANGED <<accountTails, previous, completed, activeCounts, ticket, issued>>

\* The await of the predecessor's completer returns.
Enter(o) ==
    /\ pc[o] = "waiting"
    /\ previous[o] \in completed
    /\ pc' = [pc EXCEPT ![o] = "running"]
    /\ UNCHANGED <<accountTails, previous, completed, activeCounts, ticket, issued>>

\* Mutant: only the last call of the chain completes its completer.
FinishTail(o) ==
    LET a == AccountOf[o] IN
    /\ pc[o] = "running"
    /\ IF accountTails[a] = o
       THEN /\ completed' = completed \cup {o}
            /\ accountTails' = [accountTails EXCEPT ![a] = NoOp]
       ELSE UNCHANGED <<completed, accountTails>>
    /\ activeCounts' = [activeCounts EXCEPT ![a] = @ - 1]
    /\ pc' = [pc EXCEPT ![o] = "done"]
    /\ UNCHANGED <<previous, ticket, issued>>

\* Mutant: the call is counted out twice.
FinishTwice(o) ==
    LET a == AccountOf[o] IN
    /\ pc[o] = "running"
    /\ completed' = completed \cup {o}
    /\ accountTails' = IF accountTails[a] = o
                       THEN [accountTails EXCEPT ![a] = NoOp]
                       ELSE accountTails
    /\ activeCounts' = [activeCounts EXCEPT ![a] = @ - 2]
    /\ pc' = [pc EXCEPT ![o] = "done"]
    /\ UNCHANGED <<previous, ticket, issued>>

\* The operation has ended: the finally block.
Finish(o) ==
    LET a == AccountOf[o] IN
    /\ pc[o] = "running"
    /\ completed' = completed \cup {o}
    /\ accountTails' = IF accountTails[a] = o
                       THEN [accountTails EXCEPT ![a] = NoOp]
                       ELSE accountTails
    /\ activeCounts' = [activeCounts EXCEPT ![a] = @ - 1]
    /\ pc' = [pc EXCEPT ![o] = "done"]
    /\ UNCHANGED <<previous, ticket, issued>>

Next == \E o \in Ops : Submit(o) \/ Enter(o) \/ Finish(o)

Spec == Init /\ [][Next]_vars

\* A resolved await is eventually resumed by the event loop, and every
\* operation ends: the requests below it are bounded by transport timeouts.
FairSpec == Spec /\ \A o \in Ops : WF_vars(Enter(o)) /\ WF_vars(Finish(o))

------------------------------------------------------------------------------
\* isRunning
IsRunning(a) == activeCounts[a] > 0

\* No two operations of one account are ever inside the gate together: two
\* synchronizations of an account would otherwise replay the same queued
\* write, or pull over each other.
MutualExclusion ==
    \A o, p \in Ops :
        (o # p /\ AccountOf[o] = AccountOf[p]) => ~(pc[o] = "running" /\ pc[p] = "running")

\* An account counts as running exactly while some call of it is inside run(),
\* waiting ones included: the summary of due tasks relies on it.
RunningWhileActive ==
    \A a \in Accounts : activeCounts[a] = Cardinality(Active(a))

\* A call enters only after every call of its account submitted before it has
\* left: triggers are served in order and none is overtaken.
FirstComeFirstServed ==
    [][\A o, p \in Ops :
          (/\ pc[o] = "waiting" /\ pc'[o] = "running"
           /\ AccountOf[p] = AccountOf[o] /\ pc[p] # "idle" /\ ticket[p] < ticket[o])
          => pc[p] = "done"]_vars

\* The chain of completers never breaks: a submitted call always gets its
\* turn and leaves.
EveryCallLeaves == \A o \in Ops : (pc[o] = "waiting") ~> (pc[o] = "done")

------------------------------------------------------------------------------
\* A call's predecessors: the calls of its account that were submitted before
\* it and are still inside run().
Ahead(o) == {p \in Active(AccountOf[o]) : pc[o] = "waiting" /\ ticket[p] < ticket[o]}

PhaseOf(o) == CASE pc[o] = "idle" -> "outside"
                [] pc[o] = "waiting" -> "queued"
                [] pc[o] = "running" -> "inside"
                [] pc[o] = "done" -> "left"

Lock == INSTANCE FifoLock WITH
    phase <- [o \in Ops |-> PhaseOf(o)],
    ahead <- [o \in Ops |-> Ahead(o)]

\* The chain of completers implements a first-come-first-served lock per
\* account.
ImplementsFifoLock == Lock!Spec
==============================================================================
