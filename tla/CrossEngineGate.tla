--------------------------- MODULE CrossEngineGate ---------------------------
(***************************************************************************)
(* The account gate that the Flutter engines of one Android process share: *)
(* EngineOwnedAccountGateRegistry of the native plugin, a fair semaphore   *)
(* per account whose permits are owned by engines, and                     *)
(* AndroidCrossEngineAccountGate, which runs an operation inside it.       *)
(*                                                                         *)
(* A call waits on a thread of its plugin's pool; the answers and the      *)
(* other methods run on the main thread; the operation runs in the engine. *)
(* An engine may be torn down at any time: its plugin is detached, which   *)
(* gives up its permits, and a moment later its Dart code is gone, with or *)
(* without its finally blocks.  The engine of a background worker is told  *)
(* before that it will be stopped and gives up its permits as well.        *)
(***************************************************************************)
EXTENDS Integers, Sequences, FiniteSets

CONSTANTS
    Engines,
    Workers,      \* the engines of background workers
    Accounts,
    Calls,        \* the calls of acquireAccountGate, one lease each
    EngineOf, AccountOf

ASSUME GateAssumption ==
    /\ Workers \subseteq Engines
    /\ EngineOf \in [Calls -> Engines]
    /\ AccountOf \in [Calls -> Accounts]

VARIABLES
    engine,       \* alive, stopped (onTaskStopped has run), detaching (detached is
                  \* set), detached (onDetachedFromEngine has released) or gone
    at,           \* where each call is
    queue,        \* the calls waiting for the semaphore of each account
    permits,      \* its available permits
    leases        \* the calls whose lease is registered

gateVars == <<engine, at, queue, permits, leases>>

CallStates ==
    {"new",        \* not made yet
     "waiting",    \* in tryAcquire
     "acquired",   \* the permit is taken, the lease not registered
     "leased",     \* registered, `detached' not looked at
     "granted",    \* the lease is on its way to Dart
     "running",    \* the operation runs
     "releasing",  \* the operation is over, its release on its way
     "over"}

GateTypeOK ==
    /\ engine \in [Engines -> {"alive", "stopped", "detaching", "detached", "gone"}]
    /\ at \in [Calls -> CallStates]
    /\ queue \in [Accounts -> Seq(Calls)]
    /\ permits \in [Accounts -> 0..1]
    /\ leases \subseteq Calls

GateInit ==
    /\ engine = [e \in Engines |-> "alive"]
    /\ at = [c \in Calls |-> "new"]
    /\ queue = [a \in Accounts |-> <<>>]
    /\ permits = [a \in Accounts |-> 1]
    /\ leases = {}
------------------------------------------------------------------------------
\* Dart code of an engine runs until the engine is gone; its plugin answers
\* until it is detached.
DartRuns(e) == engine[e] # "gone"
Attached(e) == engine[e] \in {"alive", "stopped"}

Move(c, s) == at' = [at EXCEPT ![c] = s]

LeasesOf(e) == {c \in leases : EngineOf[c] = e}

\* The registry gives up the leases of S and releases their permits.
Release(S) ==
    /\ leases' = leases \ S
    /\ permits' = [a \in Accounts |->
                      permits[a] + Cardinality({c \in S : AccountOf[c] = a})]

\* acquireAccountGate hands the call to a thread.
Acquire(c) ==
    /\ at[c] = "new" /\ Attached(EngineOf[c])
    /\ Move(c, "waiting")
    /\ queue' = [queue EXCEPT ![AccountOf[c]] = Append(@, c)]
    /\ UNCHANGED <<engine, permits, leases>>

\* Mutant: whoever comes takes the permit.
NoPermitNeeded(a) == TRUE

PermitAvailable(a) == permits[a] > 0

\* tryAcquire of a fair semaphore.
TryAcquire(c) ==
    LET a == AccountOf[c] IN
    /\ at[c] = "waiting" /\ Head(queue[a]) = c
    /\ PermitAvailable(a)
    /\ Move(c, "acquired")
    /\ queue' = [queue EXCEPT ![a] = Tail(@)]
    /\ permits' = [permits EXCEPT ![a] = @ - 1]
    /\ UNCHANGED <<engine, leases>>

\* tryAcquire gives up after thirty seconds: android/account-busy.
TimeOut(c) ==
    LET a == AccountOf[c] IN
    /\ at[c] = "waiting"
    /\ Move(c, "over")
    /\ queue' = [queue EXCEPT ![a] = SelectSeq(@, LAMBDA d : d # c)]
    /\ UNCHANGED <<engine, permits, leases>>

RegisterLease(c) ==
    /\ at[c] = "acquired"
    /\ Move(c, "leased")
    /\ leases' = leases \cup {c}
    /\ UNCHANGED <<engine, queue, permits>>

\* Mutant: the thread trusts the engine that asked.
NeverDetached(c) == FALSE

SeenDetached(c) == ~Attached(EngineOf[c])

\* Having registered the lease, the thread looks whether its engine is still
\* there; if not, it gives the lease back.
AnswerLease(c) ==
    /\ at[c] = "leased"
    /\ IF SeenDetached(c)
       THEN Move(c, "over") /\ Release({c} \cap leases)
       ELSE Move(c, "granted") /\ UNCHANGED <<permits, leases>>
    /\ UNCHANGED <<engine, queue>>

\* The lease reaches Dart and the operation begins.
Begin(c) ==
    /\ at[c] = "granted" /\ DartRuns(EngineOf[c])
    /\ Move(c, "running")
    /\ UNCHANGED <<engine, queue, permits, leases>>

\* The operation has returned or thrown.
Finish(c) ==
    /\ at[c] = "running"
    /\ Move(c, "releasing")
    /\ UNCHANGED <<engine, queue, permits, leases>>

\* Mutant: a release gives a permit back whether or not the lease was still
\* registered.
ReleaseAnyway(c) ==
    /\ leases' = leases \ {c}
    /\ permits' = [permits EXCEPT ![AccountOf[c]] = @ + 1]

\* release: computeIfPresent, so that a lease is given up once.
ReleaseLease(c) == Release({c} \cap leases)

\* releaseAccountGate; no plugin hears it once the engine is detached.
ReleaseCall(c) ==
    /\ at[c] = "releasing"
    /\ Move(c, "over")
    /\ IF Attached(EngineOf[c]) THEN ReleaseLease(c) ELSE UNCHANGED <<permits, leases>>
    /\ UNCHANGED <<engine, queue>>

\* onTaskStopped calls releaseOwnedAccountGates; the worker's Dart code goes on.
StopTask(e) ==
    /\ e \in Workers /\ engine[e] = "alive"
    /\ engine' = [engine EXCEPT ![e] = "stopped"]
    /\ Release(LeasesOf(e))
    /\ UNCHANGED <<at, queue>>

\* onDetachedFromEngine sets `detached', then releases.
DetachBegins(e) ==
    /\ Attached(e)
    /\ engine' = [engine EXCEPT ![e] = "detaching"]
    /\ UNCHANGED <<at, queue, permits, leases>>

DetachReleases(e) ==
    /\ engine[e] = "detaching"
    /\ engine' = [engine EXCEPT ![e] = "detached"]
    /\ Release(LeasesOf(e))
    /\ UNCHANGED <<at, queue>>

\* The engine is destroyed; what its Dart code was doing never ends.
EngineGone(e) ==
    /\ engine[e] = "detached"
    /\ engine' = [engine EXCEPT ![e] = "gone"]
    /\ at' = [c \in Calls |->
                 IF EngineOf[c] = e /\ at[c] \in {"granted", "running", "releasing"}
                 THEN "over" ELSE at[c]]
    /\ UNCHANGED <<queue, permits, leases>>
------------------------------------------------------------------------------
Thread(c) == TryAcquire(c) \/ TimeOut(c) \/ RegisterLease(c) \/ AnswerLease(c)

Teardown(e) == StopTask(e) \/ DetachBegins(e) \/ DetachReleases(e) \/ EngineGone(e)

\* Everything but the beginning and the end of an operation.
GateStep ==
    \/ \E c \in Calls : Acquire(c) \/ Thread(c) \/ ReleaseCall(c)
    \/ \E e \in Engines : Teardown(e)

GateNext == GateStep \/ \E c \in Calls : Begin(c) \/ Finish(c)

GateSpec == GateInit /\ [][GateNext]_gateVars
------------------------------------------------------------------------------
(* Properties                                                               *)

\* The permit of an account is available, or exactly one thread has just taken
\* it, or exactly one lease holds it: none is lost and none is given back
\* twice, however release, releaseOwned and the threads of an engine that is
\* going away interleave.
Holders(a) == {c \in Calls : AccountOf[c] = a /\ (at[c] = "acquired" \/ c \in leases)}

PermitOwnedOnce == \A a \in Accounts : permits[a] + Cardinality(Holders(a)) = 1

\* Two operations of one account run together only if the engine of one of
\* them has been told to stop or is being torn down.
\* ("Extends account serialization across foreground and WorkManager engines")
OneInside ==
    \A c, d \in Calls :
        (/\ c # d /\ AccountOf[c] = AccountOf[d]
         /\ at[c] = "running" /\ at[d] = "running")
            => engine[EngineOf[c]] # "alive" \/ engine[EngineOf[d]] # "alive"

\* No engine takes a permit with it: what is registered for an engine that has
\* been detached is a lease whose thread is about to give it back.
NoLeaseLeftBehind ==
    \A e \in Engines : engine[e] \in {"detached", "gone"} => \A c \in LeasesOf(e) : at[c] = "leased"
==============================================================================
