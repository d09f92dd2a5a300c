------------------------ MODULE DomainScheduleProofs -------------------------
(***************************************************************************)
(* Proofs about CrossEngineGate and, since DomainSchedule drives it and    *)
(* inherits its theorems, about DomainSchedule; for any engines, accounts  *)
(* and calls.                                                              *)
(*                                                                         *)
(* Exclusion rests on the permit: PermitInv says, without counting, that   *)
(* an account has its permit or exactly one holder of it; AliveInv that    *)
(* whoever is inside, of an engine that nobody has told to stop, still has *)
(* its lease, so that it is the holder; LeaseInv that a lease is           *)
(* registered only after its permit was taken, so that giving up the lease *)
(* gives up the holder.                                                    *)
(*                                                                         *)
(* CooldownHeld rests on one fact about the clock: an end of a cooldown    *)
(* that the clock has not reached since it was written lies ahead of it    *)
(* (AheadInv).  A success stamped no later than now cannot satisfy the     *)
(* condition of its statement then, and recording only ever raises.        *)
(***************************************************************************)
EXTENDS DomainSchedule, FiniteSetTheorems, TLAPS

CoreTypeOK ==
    /\ engine \in [Engines -> {"alive", "stopped", "detaching", "detached", "gone"}]
    /\ at \in [Calls -> CallStates]
    /\ permits \in [Accounts -> Int]
    /\ leases \in SUBSET Calls

PermitAt(a) ==
    \/ permits[a] = 1 /\ Holders(a) = {}
    \/ permits[a] = 0 /\ \E c \in Calls : Holders(a) = {c}

PermitInv == \A a \in Accounts : PermitAt(a)

LeaseInv == \A c \in leases : at[c] \notin {"new", "waiting", "acquired"}

AliveInv ==
    \A c \in Calls :
        engine[EngineOf[c]] = "alive" /\ at[c] \in {"leased", "granted", "running", "releasing"}
            => c \in leases

CrossInv ==
    /\ CoreTypeOK
    /\ PermitInv
    /\ LeaseInv
    /\ AliveInv
    /\ NoLeaseLeftBehind

\* Counting the calls of S of one account, when at most one can be among them.
LEMMA CountOne ==
    ASSUME NEW T PROVE /\ T = {} => Cardinality(T) = 0
                       /\ \A c : T = {c} => Cardinality(T) = 1
BY FS_EmptySet, FS_Singleton

\* Giving up leases gives up exactly the permits they hold.
LEMMA ReleaseKeepsPermits ==
    ASSUME CrossInv, NEW S \in SUBSET leases, Release(S),
           NEW a \in Accounts,
           \A c \in Calls : at'[c] = "acquired" <=> at[c] = "acquired"
    PROVE  PermitAt(a)'
<1> DEFINE T == {c \in S : AccountOf[c] = a}
<1>1. permits'[a] = permits[a] + Cardinality(T) /\ leases' = leases \ S
  BY DEF Release, CrossInv, CoreTypeOK
<1>2. T \subseteq Holders(a)
  BY DEF CrossInv, CoreTypeOK, Holders
<1>3. Holders(a)' = Holders(a) \ T
  <2>1. \A c \in S : at[c] # "acquired"
    BY DEF CrossInv, LeaseInv
  <2> QED BY <1>1, <2>1 DEF Holders
<1>4. CASE permits[a] = 1 /\ Holders(a) = {}
  <2>1. T = {}
    BY <1>2, <1>4
  <2>2. Cardinality(T) = 0
    BY <2>1, CountOne
  <2> QED BY <1>1, <1>3, <1>4, <2>2 DEF PermitAt
<1>5. CASE permits[a] = 0 /\ \E c \in Calls : Holders(a) = {c}
  <2>1. PICK c \in Calls : Holders(a) = {c}
    BY <1>5
  <2>2. CASE T = {}
    <3>1. Cardinality(T) = 0
      BY <2>2, CountOne
    <3>2. Holders(a)' = {c} /\ permits'[a] = 0
      BY <1>1, <1>3, <1>5, <2>1, <2>2, <3>1
    <3> QED BY <3>2 DEF PermitAt
  <2>3. CASE T # {}
    <3>1. T = {c}
      BY <1>2, <2>1, <2>3
    <3>2. Cardinality(T) = 1
      BY <3>1, CountOne
    <3>3. Holders(a)' = {} /\ permits'[a] = 1
      BY <1>1, <1>3, <1>5, <2>1, <3>1, <3>2
    <3> QED BY <3>3 DEF PermitAt
  <2> QED BY <2>2, <2>3
<1> QED BY <1>4, <1>5 DEF CrossInv, PermitInv, PermitAt

\* Nothing of it changes when no permit, lease or acquisition does.
LEMMA SameHolders ==
    ASSUME CrossInv, UNCHANGED <<permits, leases>>,
           \A c \in Calls : at'[c] = "acquired" <=> at[c] = "acquired"
    PROVE  PermitInv'
BY DEF CrossInv, PermitInv, PermitAt, Holders

LEMMA InitCrossInv == GateInit => CrossInv
BY GateAssumption DEF GateInit, CrossInv, CoreTypeOK, PermitInv, PermitAt, Holders,
   LeaseInv, AliveInv, NoLeaseLeftBehind, LeasesOf, CallStates

\* What a release of leases leaves of the types, the permits included.
LEMMA ReleaseType ==
    ASSUME CrossInv, NEW S \in SUBSET leases, Release(S),
           \A c \in Calls : at'[c] = "acquired" <=> at[c] = "acquired"
    PROVE  permits' \in [Accounts -> Int] /\ leases' \in SUBSET Calls
<1>1. \A a \in Accounts : permits'[a] \in Int
  BY ReleaseKeepsPermits DEF PermitAt
<1> QED BY <1>1 DEF CrossInv, CoreTypeOK, Release

\* Moving one call to a state it may be in, whatever is not about the permit.
LEMMA MoveType ==
    ASSUME CrossInv, NEW c \in Calls, NEW s \in CallStates, Move(c, s)
    PROVE  /\ at' \in [Calls -> CallStates]
           /\ at'[c] = s
           /\ \A d \in Calls : d # c => at'[d] = at[d]
BY DEF CrossInv, CoreTypeOK, Move
------------------------------------------------------------------------------
(* The steps that take no permit and give none up                           *)

\* A call is made, times out, is answered, begins, ends or has nothing to release.
LEMMA QuietMove ==
    ASSUME CrossInv, NEW c \in Calls, NEW s \in CallStates, Move(c, s),
           UNCHANGED <<engine, permits, leases>>,
           s \notin {"acquired", "leased"}, at[c] \notin {"acquired"},
           c \in leases => s \notin {"new", "waiting"},
           at[c] = "leased" => Attached(EngineOf[c]),
           s \in {"granted", "running", "releasing"}
               => at[c] \in {"leased", "granted", "running", "releasing"}
    PROVE  CrossInv'
<1>1. /\ at' \in [Calls -> CallStates]
      /\ at'[c] = s
      /\ \A d \in Calls : d # c => at'[d] = at[d]
  BY MoveType
<1>2. PermitInv'
  <2>1. \A d \in Calls : at'[d] = "acquired" <=> at[d] = "acquired"
    BY <1>1
  <2> QED BY <2>1, SameHolders
<1>3. CoreTypeOK'
  BY <1>1 DEF CrossInv, CoreTypeOK
<1>4. LeaseInv'
  BY <1>1 DEF CrossInv, CoreTypeOK, LeaseInv
<1>5. AliveInv'
  BY <1>1 DEF CrossInv, AliveInv
<1>6. NoLeaseLeftBehind'
  BY <1>1 DEF CrossInv, CoreTypeOK, NoLeaseLeftBehind, LeasesOf, Attached
<1> QED BY <1>2, <1>3, <1>4, <1>5, <1>6 DEF CrossInv

LEMMA AcquireInv ==
    ASSUME CrossInv, NEW c \in Calls, Acquire(c) PROVE CrossInv'
<1>1. c \notin leases
  BY DEF CrossInv, LeaseInv, Acquire
<1>2. "waiting" \in CallStates
  BY DEF CallStates
<1> QED BY <1>1, <1>2, QuietMove DEF Acquire

LEMMA TimeOutInv ==
    ASSUME CrossInv, NEW c \in Calls, TimeOut(c) PROVE CrossInv'
<1>1. "over" \in CallStates
  BY DEF CallStates
<1> QED BY <1>1, QuietMove DEF TimeOut

LEMMA BeginInv ==
    ASSUME CrossInv, NEW c \in Calls, Begin(c) PROVE CrossInv'
<1>1. "running" \in CallStates
  BY DEF CallStates
<1> QED BY <1>1, QuietMove DEF Begin

LEMMA FinishInv ==
    ASSUME CrossInv, NEW c \in Calls, Finish(c) PROVE CrossInv'
<1>1. "releasing" \in CallStates
  BY DEF CallStates
<1> QED BY <1>1, QuietMove DEF Finish

LEMMA DetachBeginsInv ==
    ASSUME CrossInv, NEW e \in Engines, DetachBegins(e) PROVE CrossInv'
<1>1. PermitInv'
  BY SameHolders DEF DetachBegins
<1>2. CoreTypeOK' /\ LeaseInv'
  BY DEF CrossInv, CoreTypeOK, LeaseInv, DetachBegins
<1>3. AliveInv' /\ NoLeaseLeftBehind'
  BY GateAssumption
  DEF CrossInv, CoreTypeOK, AliveInv, NoLeaseLeftBehind, LeasesOf, DetachBegins
<1> QED BY <1>1, <1>2, <1>3 DEF CrossInv

LEMMA EngineGoneInv ==
    ASSUME CrossInv, NEW e \in Engines, EngineGone(e) PROVE CrossInv'
<1>1. \A d \in Calls :
          /\ at'[d] = at[d] \/ at'[d] = "over"
          /\ at[d] \in {"new", "waiting", "acquired", "leased"} => at'[d] = at[d]
  BY DEF EngineGone
<1>2. PermitInv'
  <2>1. \A d \in Calls : at'[d] = "acquired" <=> at[d] = "acquired"
    BY <1>1
  <2> QED BY <2>1, SameHolders DEF EngineGone
<1>3. CoreTypeOK'
  BY DEF CrossInv, CoreTypeOK, EngineGone, CallStates
<1>4. LeaseInv'
  BY <1>1 DEF CrossInv, CoreTypeOK, LeaseInv, EngineGone
<1>5. AliveInv'
  BY <1>1, GateAssumption DEF CrossInv, CoreTypeOK, AliveInv, EngineGone
<1>6. NoLeaseLeftBehind'
  BY <1>1, GateAssumption
  DEF CrossInv, CoreTypeOK, NoLeaseLeftBehind, LeasesOf, EngineGone
<1> QED BY <1>2, <1>3, <1>4, <1>5, <1>6 DEF CrossInv
------------------------------------------------------------------------------
(* Taking the permit and registering the lease                              *)

LEMMA TryAcquireInv ==
    ASSUME CrossInv, NEW c \in Calls, TryAcquire(c) PROVE CrossInv'
<1> DEFINE a == AccountOf[c]
<1>1. a \in Accounts
  BY GateAssumption
<1>2. /\ at' \in [Calls -> CallStates]
      /\ at'[c] = "acquired"
      /\ \A d \in Calls : d # c => at'[d] = at[d]
  BY MoveType DEF TryAcquire, CallStates
<1>3. permits[a] = 1 /\ Holders(a) = {}
  BY <1>1 DEF CrossInv, PermitInv, PermitAt, TryAcquire, PermitAvailable
<1>4. c \notin leases
  BY DEF CrossInv, LeaseInv, TryAcquire
<1>5. PermitInv'
  <2> SUFFICES ASSUME NEW b \in Accounts PROVE PermitAt(b)'
    BY DEF PermitInv
  <2>1. CASE b = a
    <3>1. Holders(b)' = {c}
      BY <1>2, <1>3, <2>1 DEF Holders, TryAcquire
    <3>2. permits'[b] = 0
      BY <1>1, <1>3, <2>1 DEF CrossInv, CoreTypeOK, TryAcquire
    <3> QED BY <3>1, <3>2 DEF PermitAt
  <2>2. CASE b # a
    <3>1. Holders(b)' = Holders(b)
      BY <1>2, <2>2 DEF Holders, TryAcquire
    <3>2. permits'[b] = permits[b]
      BY <2>2 DEF CrossInv, CoreTypeOK, TryAcquire
    <3> QED BY <3>1, <3>2 DEF CrossInv, PermitInv, PermitAt
  <2> QED BY <2>1, <2>2
<1>6. CoreTypeOK'
  BY <1>1, <1>2 DEF CrossInv, CoreTypeOK, TryAcquire
<1>7. LeaseInv' /\ AliveInv'
  BY <1>2, <1>4 DEF CrossInv, CoreTypeOK, LeaseInv, AliveInv, TryAcquire
<1>8. NoLeaseLeftBehind'
  BY <1>2, <1>4 DEF CrossInv, CoreTypeOK, NoLeaseLeftBehind, LeasesOf, TryAcquire
<1> QED BY <1>5, <1>6, <1>7, <1>8 DEF CrossInv

LEMMA RegisterLeaseInv ==
    ASSUME CrossInv, NEW c \in Calls, RegisterLease(c) PROVE CrossInv'
<1>1. /\ at' \in [Calls -> CallStates]
      /\ at'[c] = "leased"
      /\ \A d \in Calls : d # c => at'[d] = at[d]
  BY MoveType DEF RegisterLease, CallStates
<1>2. PermitInv'
  <2>1. \A b \in Accounts : Holders(b)' = Holders(b)
    BY <1>1 DEF Holders, RegisterLease
  <2> QED BY <2>1 DEF CrossInv, PermitInv, PermitAt, RegisterLease
<1>3. CoreTypeOK'
  BY <1>1 DEF CrossInv, CoreTypeOK, RegisterLease
<1>4. LeaseInv' /\ AliveInv'
  BY <1>1 DEF CrossInv, CoreTypeOK, LeaseInv, AliveInv, RegisterLease
<1>5. NoLeaseLeftBehind'
  BY <1>1 DEF CrossInv, CoreTypeOK, NoLeaseLeftBehind, LeasesOf, RegisterLease
<1> QED BY <1>2, <1>3, <1>4, <1>5 DEF CrossInv
------------------------------------------------------------------------------
(* Giving leases up                                                         *)

\* A call that gives its own lease back is over.
LEMMA GiveBackInv ==
    ASSUME CrossInv, NEW c \in Calls, at[c] \in {"leased", "releasing"},
           Move(c, "over"), Release({c} \cap leases), UNCHANGED engine
    PROVE  CrossInv'
<1>1. /\ at' \in [Calls -> CallStates]
      /\ at'[c] = "over"
      /\ \A d \in Calls : d # c => at'[d] = at[d]
  BY MoveType DEF CallStates
<1>2. \A d \in Calls : at'[d] = "acquired" <=> at[d] = "acquired"
  BY <1>1
<1>3. leases' = leases \ {c}
  BY DEF Release
<1>4. PermitInv'
  BY <1>2, ReleaseKeepsPermits DEF PermitInv
<1>5. CoreTypeOK'
  BY <1>1, <1>2, ReleaseType DEF CrossInv, CoreTypeOK
<1>6. LeaseInv' /\ AliveInv'
  BY <1>1, <1>3 DEF CrossInv, CoreTypeOK, LeaseInv, AliveInv
<1>7. NoLeaseLeftBehind'
  BY <1>1, <1>3 DEF CrossInv, CoreTypeOK, NoLeaseLeftBehind, LeasesOf
<1> QED BY <1>4, <1>5, <1>6, <1>7 DEF CrossInv

\* An engine whose leases are all given up is no longer one that nobody has
\* told to stop.
LEMMA GiveUpInv ==
    ASSUME CrossInv, NEW e \in Engines, NEW s \in {"stopped", "detached"},
           engine' = [engine EXCEPT ![e] = s],
           Release(LeasesOf(e)), UNCHANGED at
    PROVE  CrossInv'
<1>1. LeasesOf(e) \in SUBSET leases /\ leases' = leases \ LeasesOf(e)
  BY DEF LeasesOf, Release
<1>2. \A d \in Calls : at'[d] = "acquired" <=> at[d] = "acquired"
  OBVIOUS
<1>3. PermitInv'
  BY <1>1, <1>2, ReleaseKeepsPermits DEF PermitInv
<1>4. CoreTypeOK'
  BY <1>1, <1>2, ReleaseType DEF CrossInv, CoreTypeOK
<1>5. LeaseInv'
  BY <1>1 DEF CrossInv, LeaseInv
<1>6. AliveInv'
  BY <1>1, GateAssumption DEF CrossInv, CoreTypeOK, AliveInv, LeasesOf
<1>7. NoLeaseLeftBehind'
  BY <1>1 DEF CrossInv, CoreTypeOK, NoLeaseLeftBehind, LeasesOf
<1> QED BY <1>3, <1>4, <1>5, <1>6, <1>7 DEF CrossInv

LEMMA AnswerLeaseInv ==
    ASSUME CrossInv, NEW c \in Calls, AnswerLease(c) PROVE CrossInv'
<1>1. CASE SeenDetached(c)
  BY <1>1, GiveBackInv DEF AnswerLease
<1>2. CASE ~SeenDetached(c)
  <2>1. "granted" \in CallStates
    BY DEF CallStates
  <2> QED BY <1>2, <2>1, QuietMove DEF AnswerLease, SeenDetached
<1> QED BY <1>1, <1>2

LEMMA ReleaseCallInv ==
    ASSUME CrossInv, NEW c \in Calls, ReleaseCall(c) PROVE CrossInv'
<1>1. CASE Attached(EngineOf[c])
  BY <1>1, GiveBackInv DEF ReleaseCall, ReleaseLease
<1>2. CASE ~Attached(EngineOf[c])
  <2>1. "over" \in CallStates
    BY DEF CallStates
  <2> QED BY <1>2, <2>1, QuietMove DEF ReleaseCall
<1> QED BY <1>1, <1>2
------------------------------------------------------------------------------
LEMMA StepCrossInv == CrossInv /\ [GateNext]_gateVars => CrossInv'
<1> SUFFICES ASSUME CrossInv, [GateNext]_gateVars PROVE CrossInv'
  OBVIOUS
<1>1. CASE GateNext
  <2>1. ASSUME NEW c \in Calls, Acquire(c) \/ Thread(c) \/ ReleaseCall(c) PROVE CrossInv'
    BY <2>1, AcquireInv, TryAcquireInv, TimeOutInv, RegisterLeaseInv, AnswerLeaseInv,
       ReleaseCallInv DEF Thread
  <2>2. ASSUME NEW e \in Engines, Teardown(e) PROVE CrossInv'
    BY <2>2, GiveUpInv, DetachBeginsInv, EngineGoneInv DEF Teardown, StopTask, DetachReleases
  <2>3. ASSUME NEW c \in Calls, Begin(c) \/ Finish(c) PROVE CrossInv'
    BY <2>3, BeginInv, FinishInv
  <2> QED BY <1>1, <2>1, <2>2, <2>3 DEF GateNext, GateStep
<1>2. CASE UNCHANGED gateVars
  BY <1>2 DEF gateVars, CrossInv, CoreTypeOK, PermitInv, PermitAt, Holders, LeaseInv, AliveInv,
     NoLeaseLeftBehind, LeasesOf
<1> QED BY <1>1, <1>2

\* Everything the exclusion rests on holds throughout.
THEOREM CrossGateInvariant == GateSpec => []CrossInv
BY InitCrossInv, StepCrossInv, PTL DEF GateSpec
------------------------------------------------------------------------------
\* The permit of an account is never lost and never given back twice, for any
\* number of engines and calls.
THEOREM PermitIsOwnedOnce == GateSpec => []PermitOwnedOnce
<1>1. CrossInv => PermitOwnedOnce
  <2> SUFFICES ASSUME CrossInv, NEW a \in Accounts
               PROVE  permits[a] + Cardinality(Holders(a)) = 1
    BY DEF PermitOwnedOnce
  <2>1. PermitAt(a)
    BY DEF CrossInv, PermitInv
  <2> QED BY <2>1, CountOne DEF PermitAt
<1> QED BY <1>1, CrossGateInvariant, PTL

LEMMA CrossExcludes == CrossInv => OneInside
<1> SUFFICES ASSUME CrossInv, NEW c \in Calls, NEW d \in Calls,
                    c # d, AccountOf[c] = AccountOf[d],
                    at[c] = "running", at[d] = "running",
                    engine[EngineOf[c]] = "alive", engine[EngineOf[d]] = "alive"
             PROVE  FALSE
  BY DEF OneInside
<1>1. c \in Holders(AccountOf[c]) /\ d \in Holders(AccountOf[c])
  BY DEF CrossInv, AliveInv, Holders
<1>2. PermitAt(AccountOf[c])
  BY GateAssumption DEF CrossInv, PermitInv
<1> QED BY <1>1, <1>2 DEF PermitAt

\* Operations of one account overlap only if one of their engines is stopping.
THEOREM OneOperationInside == GateSpec => []OneInside
BY CrossExcludes, CrossGateInvariant, PTL

\* A detached engine leaves no lease but one that its thread is about to return.
THEOREM DetachedEnginesLeaveNoLease == GateSpec => []NoLeaseLeftBehind
<1>1. CrossInv => NoLeaseLeftBehind
  BY DEF CrossInv
<1> QED BY <1>1, CrossGateInvariant, PTL
------------------------------------------------------------------------------
(* The schedule                                                             *)

ScheduleTypeInv ==
    /\ clock \in Nat
    /\ cooldown \in [Accounts -> Int]
    /\ served \in [Accounts -> BOOLEAN]
    /\ stamp \in [Calls -> Int]

AheadInv == \A a \in Accounts : served[a] \/ cooldown[a] > clock

ScheduleInv == ScheduleTypeInv /\ AheadInv
------------------------------------------------------------------------------
(* The gate                                                                 *)

LEMMA RunLeavesGate ==
    ASSUME NEW c \in Calls, Run(c) PROVE UNCHANGED gateVars
BY DEF Run, Decide, ReplayThrottled, Throttled, RecordFailure, Ends, PullSucceeds,
   CheckCooldown, WriteSuccess

LEMMA StepOfGate == [Next]_vars => [GateNext]_gateVars
<1> SUFFICES ASSUME [Next]_vars PROVE [GateNext]_gateVars
  OBVIOUS
<1>1. CASE ClockAdvances \/ ClockSetBack
  BY <1>1 DEF ClockAdvances, ClockSetBack
<1>2. CASE GateStep
  BY <1>2 DEF GateNext
<1>3. ASSUME NEW c \in Calls, Entered(c) \/ Left(c) PROVE GateNext
  BY <1>3 DEF Entered, Left, GateNext
<1>4. ASSUME NEW c \in Calls, Run(c) PROVE UNCHANGED gateVars
  BY <1>4, RunLeavesGate
<1>5. CASE UNCHANGED vars
  BY <1>5 DEF vars
<1> QED BY <1>1, <1>2, <1>3, <1>4, <1>5 DEF Next

\* The runs of the domain policy use the gate as it is specified on its own.
THEOREM ScheduleImplementsGate == Spec => GateSpec
<1>1. Init => GateInit
  BY DEF Init
<1> QED BY <1>1, StepOfGate, PTL DEF Spec, GateSpec

\* So the permit is owned once, operations exclude each other and no detached
\* engine keeps a lease while the policy runs.
THEOREM ScheduleKeepsGate == Spec => [](PermitOwnedOnce /\ OneInside /\ NoLeaseLeftBehind)
BY ScheduleImplementsGate, PermitIsOwnedOnce, OneOperationInside,
   DetachedEnginesLeaveNoLease, PTL
------------------------------------------------------------------------------
(* The cooldown                                                             *)

LEMMA InitScheduleInv == Init => ScheduleInv
BY DEF Init, ScheduleInv, ScheduleTypeInv, AheadInv, Never

\* Recording the end of a cooldown.
LEMMA RecordKeepsInv ==
    ASSUME ScheduleInv, NEW a \in Accounts, NEW t \in Int, RecordUntil(a, t), UNCHANGED clock
    PROVE  /\ cooldown' \in [Accounts -> Int]
           /\ served' \in [Accounts -> BOOLEAN]
           /\ AheadInv'
           /\ \A b \in Accounts : cooldown'[b] # cooldown[b] => cooldown'[b] > cooldown[b]
<1>1. /\ cooldown' \in [Accounts -> Int]
      /\ \A b \in Accounts : b # a => cooldown'[b] = cooldown[b] /\ served'[b] = served[b]
      /\ cooldown'[a] = LongerCooldown(cooldown[a], t)
      /\ served' \in [Accounts -> BOOLEAN]
      /\ served'[a] = IF cooldown'[a] = cooldown[a] THEN served[a] ELSE t <= clock
  <2>1. /\ cooldown' \in [Accounts -> Int]
        /\ \A b \in Accounts : b # a => cooldown'[b] = cooldown[b]
        /\ cooldown'[a] = LongerCooldown(cooldown[a], t)
    BY DEF RecordUntil, ScheduleInv, ScheduleTypeInv, LongerCooldown
  <2> DEFINE new == IF cooldown'[a] = cooldown[a] THEN served[a] ELSE t <= clock
  <2>2. served' = [served EXCEPT ![a] = new]
    BY DEF RecordUntil
  <2>3. new \in BOOLEAN
    <3>1. served[a] \in BOOLEAN /\ (t <= clock) \in BOOLEAN
      BY DEF ScheduleInv, ScheduleTypeInv
    <3> QED BY <3>1
  <2> HIDE DEF new
  <2>4. /\ served' \in [Accounts -> BOOLEAN]
        /\ served'[a] = new
        /\ \A b \in Accounts : b # a => served'[b] = served[b]
    BY <2>2, <2>3, Zenon DEF ScheduleInv, ScheduleTypeInv
  <2> QED BY <2>1, <2>4 DEF new
<1>2. cooldown'[a] = cooldown[a] \/ (cooldown'[a] = t /\ t > cooldown[a])
  BY <1>1 DEF LongerCooldown, ScheduleInv, ScheduleTypeInv
<1>3. served'[a] \/ cooldown'[a] > clock
  BY <1>1, <1>2 DEF ScheduleInv, ScheduleTypeInv, AheadInv
<1>4. AheadInv'
  BY <1>1, <1>3 DEF ScheduleInv, AheadInv
<1> QED BY <1>1, <1>2, <1>4

\* What every step does to the invariant, and to a cooldown not yet reached.
HeldStep ==
    \A a \in Accounts :
        (/\ ~served[a] /\ cooldown'[a] # cooldown[a]
         /\ \A c \in Calls : step[c] = "writing" => stamp[c] <= clock)
            => cooldown'[a] > cooldown[a]

\* A step that leaves the clock and the row alone.
LEMMA RowUntouched ==
    ASSUME ScheduleInv, UNCHANGED <<clock, rowVars>>, stamp' \in [Calls -> Int]
    PROVE  ScheduleInv' /\ HeldStep
BY DEF ScheduleInv, ScheduleTypeInv, AheadInv, HeldStep, rowVars

LEMMA RunKeepsInv ==
    ASSUME ScheduleInv, NEW c \in Calls, Run(c)
    PROVE  ScheduleInv' /\ HeldStep
<1> DEFINE a == AccountOf[c]
<1>1. a \in Accounts
  BY GateAssumption
<1>2. \A r \in Retries : clock + r \in Int
  BY ScheduleAssumption DEF ScheduleInv, ScheduleTypeInv
<1>3. CASE Decide(c) \/ Ends(c) \/ PullSucceeds(c)
  BY <1>3, RowUntouched DEF Decide, Ends, PullSucceeds, rowVars, ScheduleInv, ScheduleTypeInv
<1>4. CASE Throttled(c)
  <2>1. stamp' \in [Calls -> Int]
    BY <1>2, <1>4 DEF Throttled, ScheduleInv, ScheduleTypeInv
  <2> QED BY <1>4, <2>1, RowUntouched DEF Throttled
<1>5. CASE CheckCooldown(c)
  <2>1. stamp' = stamp \/ stamp' = [stamp EXCEPT ![c] = clock]
    BY <1>5, Zenon DEF CheckCooldown
  <2>2. stamp' \in [Calls -> Int]
    BY <2>1 DEF ScheduleInv, ScheduleTypeInv
  <2> QED BY <1>5, <2>2, RowUntouched DEF CheckCooldown
<1>6. CASE ReplayThrottled(c)
  <2>1. PICK r \in Retries : RecordUntil(a, clock + r)
    BY <1>6 DEF ReplayThrottled
  <2>2. clock' = clock /\ stamp' = stamp
    BY <1>6 DEF ReplayThrottled, runVars
  <2>3. /\ cooldown' \in [Accounts -> Int]
        /\ served' \in [Accounts -> BOOLEAN]
        /\ AheadInv'
        /\ \A b \in Accounts : cooldown'[b] # cooldown[b] => cooldown'[b] > cooldown[b]
    <3>1. clock + r \in Int
      BY <1>2
    <3> QED BY <1>1, <2>1, <2>2, <3>1, RecordKeepsInv
  <2> QED BY <2>2, <2>3 DEF ScheduleInv, ScheduleTypeInv, HeldStep
<1>7. CASE RecordFailure(c)
  <2>1. stamp[c] \in Int /\ RecordUntil(a, stamp[c]) /\ clock' = clock /\ stamp' = stamp
    BY <1>7 DEF RecordFailure, ScheduleInv, ScheduleTypeInv
  <2> QED BY <1>1, <2>1, RecordKeepsInv DEF ScheduleInv, ScheduleTypeInv, HeldStep
<1>8. CASE WriteSuccess(c)
  <2>1. clock' = clock /\ stamp' = stamp /\ step[c] = "writing"
    BY <1>8 DEF WriteSuccess, At
  <2>2. CASE ~EndsCooldown(a, stamp[c])
    BY <1>8, <2>1, <2>2, RowUntouched DEF WriteSuccess, ScheduleInv, ScheduleTypeInv
  <2>3. CASE EndsCooldown(a, stamp[c])
    <3>1. /\ cooldown' = [cooldown EXCEPT ![a] = Never]
          /\ served' = [served EXCEPT ![a] = TRUE]
      BY <1>8, <2>3 DEF WriteSuccess
    <3>2. ScheduleInv'
      BY <1>1, <2>1, <3>1 DEF ScheduleInv, ScheduleTypeInv, AheadInv, Never
    <3>3. served[a] \/ stamp[c] > clock
      BY <1>1, <2>3 DEF EndsCooldown, ScheduleInv, ScheduleTypeInv, AheadInv, Never
    <3>4. HeldStep
      BY <2>1, <3>1, <3>3 DEF HeldStep, ScheduleInv, ScheduleTypeInv
    <3> QED BY <3>2, <3>4
  <2> QED BY <2>2, <2>3
<1> QED BY <1>3, <1>4, <1>5, <1>6, <1>7, <1>8 DEF Run

LEMMA ClockKeepsInv ==
    ASSUME ScheduleInv, ClockAdvances \/ ClockSetBack
    PROVE  ScheduleInv' /\ HeldStep
<1>1. CASE ClockAdvances
  <2>1. clock' = clock + 1 /\ cooldown' = cooldown /\ stamp' = stamp /\ served' = Reached(clock')
    BY <1>1 DEF ClockAdvances, runVars
  <2>2. served' \in [Accounts -> BOOLEAN]
    BY <2>1, Zenon DEF Reached
  <2>3. AheadInv'
    <3> SUFFICES ASSUME NEW a \in Accounts, ~served'[a] PROVE cooldown'[a] > clock'
      BY DEF AheadInv
    <3>1. ~(cooldown[a] <= clock')
      BY <2>1, Zenon DEF Reached
    <3>2. cooldown[a] \in Int /\ clock' \in Int
      BY <2>1 DEF ScheduleInv, ScheduleTypeInv
    <3> QED BY <2>1, <3>1, <3>2
  <2> QED BY <2>1, <2>2, <2>3 DEF HeldStep, ScheduleInv, ScheduleTypeInv
<1>2. CASE ClockSetBack
  <2>1. clock' \in Nat /\ clock' < clock
    BY <1>2 DEF ClockSetBack, ScheduleInv, ScheduleTypeInv
  <2> QED BY <1>2, <2>1
      DEF ClockSetBack, rowVars, runVars, HeldStep, ScheduleInv, ScheduleTypeInv, AheadInv
<1> QED BY <1>1, <1>2

LEMMA StepScheduleInv == ScheduleInv /\ [Next]_vars => ScheduleInv' /\ HeldStep
<1> SUFFICES ASSUME ScheduleInv, [Next]_vars PROVE ScheduleInv' /\ HeldStep
  OBVIOUS
<1>1. CASE ClockAdvances \/ ClockSetBack
  BY <1>1, ClockKeepsInv
<1>2. CASE UNCHANGED scheduleVars
  BY <1>2, RowUntouched DEF scheduleVars, runVars, ScheduleInv, ScheduleTypeInv
<1>3. ASSUME NEW c \in Calls, Entered(c) PROVE ScheduleInv' /\ HeldStep
  BY <1>3, RowUntouched DEF Entered, ScheduleInv, ScheduleTypeInv
<1>4. ASSUME NEW c \in Calls, Run(c) PROVE ScheduleInv' /\ HeldStep
  BY <1>4, RunKeepsInv
<1>5. ASSUME NEW c \in Calls, Left(c) PROVE UNCHANGED scheduleVars
  BY <1>5 DEF Left
<1> QED BY <1>1, <1>2, <1>3, <1>4, <1>5 DEF Next, vars

\* What a provider asked for is never shortened before it has run out, for any
\* number of engines, accounts, calls and throttled requests.
THEOREM CooldownIsHeld == Spec => CooldownHeld
<1>1. ScheduleInv /\ [Next]_vars => [HeldStep]_vars
  BY StepScheduleInv
<1>2. Spec => []ScheduleInv
  BY InitScheduleInv, StepScheduleInv, PTL DEF Spec
<1> QED BY <1>1, <1>2, PTL DEF Spec, CooldownHeld, HeldStep
------------------------------------------------------------------------------
(* One pull for each window                                                 *)

\* The row and the runs are well typed, a stamp about to be written is an
\* instant, and the next passive pull lies an interval after the last.
WindowTypeInv ==
    /\ last \in [Accounts -> Int] /\ next \in [Accounts -> Int]
    /\ step \in [Calls -> Steps]
    /\ trigger \in [Calls -> AllTriggers]
    /\ due \in [Calls -> {"window", "other"}]
    /\ backs \in Nat

StampInv == \A c \in Calls : step[c] = "writing" => stamp[c] \in Nat

NextInv ==
    \A a \in Accounts : last[a] = Never \/ (next[a] # Never /\ next[a] - last[a] >= Interval)

\* Nobody is being stopped and the clock was never set back.
Calm == backs = 0 /\ \A e \in Engines : engine[e] = "alive"

Pulling(c) ==
    at[c] = "running" /\ step[c] \in {"pulling", "checking", "writing"} /\ due[c] = "window"

\* While a passive pull is inside, the success it builds on is a window old.
WindowOpen(c) ==
    /\ clock - last[AccountOf[c]] >= Shortest
    /\ step[c] = "writing" => stamp[c] - last[AccountOf[c]] >= Shortest

WindowInv == Calm => \A c \in Calls : Pulling(c) => WindowOpen(c)

PullInv == ScheduleInv /\ WindowTypeInv /\ StampInv /\ NextInv /\ WindowInv

\* What the property asks of a step.
WindowStep ==
    \A c \in Calls :
        LET a == AccountOf[c] IN
        (/\ WriteSuccess(c) /\ last'[a] # last[a]
         /\ due[c] = "window" /\ backs = 0
         /\ \A e \in Engines : engine[e] = "alive")
            => last'[a] - last[a] >= Shortest

LEMMA ShortestWindow == Shortest \in Nat /\ Shortest <= Staleness /\ Shortest <= Interval
BY ScheduleAssumption DEF Shortest

\* No engine comes back to life, and the clock was set back once and for all.
LEMMA CalmBefore ==
    ASSUME CrossInv, PullInv, [Next]_vars, Calm' PROVE Calm
<1>1. backs = 0
  <2>1. backs' = backs \/ backs' = backs + 1
    <3>1. CASE ClockSetBack
      BY <3>1 DEF ClockSetBack
    <3>2. CASE UNCHANGED scheduleVars
      BY <3>2 DEF scheduleVars
    <3>3. ASSUME NEW c \in Calls, Entered(c) \/ Run(c) PROVE backs' = backs
      BY <3>3 DEF Entered, Run, Decide, ReplayThrottled, Throttled, RecordFailure, Ends,
         PullSucceeds, CheckCooldown, WriteSuccess
    <3> QED BY <3>1, <3>2, <3>3 DEF Next, ClockAdvances, Left, vars
  <2>2. backs' = 0 /\ backs \in Nat
    BY DEF Calm, PullInv, WindowTypeInv
  <2> QED BY <2>1, <2>2
<1>2. ASSUME NEW e \in Engines PROVE engine[e] = "alive"
  <2>1. engine'[e] = "alive"
    BY DEF Calm
  <2>2. [GateNext]_gateVars
    BY StepOfGate
  <2>3. ASSUME NEW c \in Calls, Acquire(c) \/ Thread(c) \/ ReleaseCall(c) \/ Begin(c) \/ Finish(c)
        PROVE  engine' = engine
    BY <2>3 DEF Acquire, Thread, TryAcquire, TimeOut, RegisterLease, AnswerLease, ReleaseCall,
       Begin, Finish
  <2>4. ASSUME NEW d \in Engines, Teardown(d) PROVE engine[e] = "alive"
    <3>1. \E s \in {"stopped", "detaching", "detached", "gone"} :
              engine' = [engine EXCEPT ![d] = s]
      BY <2>4 DEF Teardown, StopTask, DetachBegins, DetachReleases, EngineGone
    <3> QED BY <2>1, <3>1 DEF CrossInv, CoreTypeOK
  <2> QED BY <2>1, <2>2, <2>3, <2>4 DEF GateNext, GateStep, gateVars
<1> QED BY <1>1, <1>2 DEF Calm

\* Steps that write no success and open no pull.
LEMMA WindowKept ==
    ASSUME PullInv, ScheduleInv', WindowTypeInv', UNCHANGED <<last, next>>,
           Calm' => Calm /\ clock' >= clock,
           \A c \in Calls : Pulling(c)' => Pulling(c),
           \A c \in Calls : step'[c] = "writing" => step[c] = "writing" /\ stamp'[c] = stamp[c]
    PROVE  PullInv'
<1>1. StampInv' /\ NextInv'
  BY DEF PullInv, StampInv, NextInv
<1>2. WindowInv'
  <2> SUFFICES ASSUME Calm', NEW c \in Calls, Pulling(c)' PROVE WindowOpen(c)'
    BY DEF WindowInv
  <2>1. WindowOpen(c)
    BY DEF PullInv, WindowInv
  <2>2. last[AccountOf[c]] \in Int /\ clock \in Nat /\ clock' \in Nat /\ Shortest \in Nat
    BY GateAssumption, ShortestWindow DEF PullInv, WindowTypeInv, ScheduleInv, ScheduleTypeInv
  <2> QED BY <2>1, <2>2 DEF WindowOpen
<1> QED BY <1>1, <1>2 DEF PullInv

LEMMA InitPullInv == Init => PullInv
<1> SUFFICES ASSUME Init PROVE PullInv
  OBVIOUS
<1>1. ScheduleInv
  BY InitScheduleInv
<1>2. WindowTypeInv /\ StampInv
  <2>1. last \in [Accounts -> Int] /\ trigger \in [Calls -> AllTriggers] /\ backs \in Nat
    <3>1. /\ last \in [Accounts -> {Never, 0}] /\ backs = 0
          /\ trigger \in [Calls -> Triggers \cup {"background"}]
      BY DEF Init
    <3>2. Triggers \cup {"background"} \subseteq AllTriggers
      BY ScheduleAssumption DEF AllTriggers
    <3>3. trigger \in [Calls -> AllTriggers]
      BY <3>1, <3>2
    <3> QED BY <3>1, <3>3 DEF Never
  <2>2. next \in [Accounts -> Int]
    <3>1. PICK j \in Jitters :
              next = [a \in Accounts |-> IF last[a] = Never THEN Never ELSE Interval + j]
      BY DEF Init
    <3>2. j \in Nat /\ Interval \in Nat
      BY ScheduleAssumption
    <3> QED BY <3>1, <3>2 DEF Never
  <2>3. step \in [Calls -> Steps] /\ due \in [Calls -> {"window", "other"}] /\ StampInv
    BY DEF Init, Steps, StampInv
  <2> QED BY <2>1, <2>2, <2>3 DEF WindowTypeInv
<1>3. NextInv
  BY ScheduleAssumption DEF Init, NextInv, Never
<1>4. WindowInv
  BY DEF Init, WindowInv, Pulling
<1> QED BY <1>1, <1>2, <1>3, <1>4 DEF PullInv

\* The steps of a run that neither open a pull nor write a success.
LEMMA OtherRunKeepsPull ==
    ASSUME PullInv, ScheduleInv', Calm' => Calm, NEW c \in Calls,
           \/ ReplayThrottled(c) \/ Throttled(c) \/ RecordFailure(c)
           \/ Ends(c) \/ PullSucceeds(c)
    PROVE  PullInv'
<1>1. /\ UNCHANGED <<last, next, clock, at, due, trigger, backs>>
      /\ step' = step \/ \E s \in {"over", "recording", "checking"} : step' = [step EXCEPT ![c] = s]
  BY DEF ReplayThrottled, Throttled, RecordFailure, Ends, PullSucceeds, RecordUntil, Goes,
     rowVars, runVars, gateVars
<1>2. step' \in [Calls -> Steps]
  BY <1>1 DEF PullInv, WindowTypeInv, Steps
<1>3. WindowTypeInv'
  BY <1>1, <1>2 DEF PullInv, WindowTypeInv
<1>4. \A d \in Calls : Pulling(d)' => Pulling(d)
  <2>1. CASE PullSucceeds(c)
    BY <1>1, <2>1 DEF Pulling, PullInv, WindowTypeInv, PullSucceeds, At, Goes
  <2>2. CASE ReplayThrottled(c)
    BY <1>1, <2>2 DEF Pulling, ReplayThrottled, runVars
  <2>3. CASE Throttled(c) \/ RecordFailure(c) \/ Ends(c)
    <3>1. step' = [step EXCEPT ![c] = "over"] \/ step' = [step EXCEPT ![c] = "recording"]
      BY <2>3 DEF Throttled, RecordFailure, Ends, Goes
    <3> QED BY <1>1, <3>1 DEF Pulling, PullInv, WindowTypeInv
  <2> QED BY <2>1, <2>2, <2>3
<1>5. \A d \in Calls : step'[d] = "writing" => step[d] = "writing" /\ stamp'[d] = stamp[d]
  BY <1>1 DEF PullInv, WindowTypeInv, ScheduleInv, ScheduleTypeInv, ReplayThrottled, Throttled,
     RecordFailure, Ends, PullSucceeds, At, Goes, runVars
<1>6. clock' >= clock
  BY <1>1 DEF PullInv, ScheduleInv, ScheduleTypeInv
<1> QED BY <1>1, <1>3, <1>4, <1>5, <1>6, WindowKept

\* The decision opens a passive pull only when the window has passed.
LEMMA DecideKeepsPull ==
    ASSUME PullInv, ScheduleInv', Calm' => Calm, NEW c \in Calls, Decide(c)
    PROVE  PullInv'
<1> DEFINE a == AccountOf[c]
<1>1. a \in Accounts /\ last[a] \in Int /\ next[a] \in Int /\ clock \in Nat
  BY GateAssumption DEF PullInv, WindowTypeInv, ScheduleInv, ScheduleTypeInv
<1>2. /\ UNCHANGED <<last, next, clock, at, trigger, stamp, backs>>
      /\ \E s \in {"over", "pulling", "deferring"} : step' = [step EXCEPT ![c] = s]
      /\ due' = due \/ \E w \in {"window", "other"} : due' = [due EXCEPT ![c] = w]
  BY DEF Decide, Goes, rowVars, gateVars
<1>3. WindowTypeInv'
  BY <1>2 DEF PullInv, WindowTypeInv, Steps
<1>4. StampInv' /\ NextInv'
  BY <1>2 DEF PullInv, WindowTypeInv, StampInv, NextInv
<1>5. ASSUME Pulling(c)' PROVE clock - last[a] >= Shortest
  <2>1. WindowPassed(c) /\ last[a] # Never
    BY <1>5 DEF Decide, Pulling, Goes, PullInv, WindowTypeInv
  <2>2. clock - last[a] >= Staleness \/ (next[a] # Never /\ next[a] <= clock) \/ next[a] = Never
    BY <2>1 DEF WindowPassed
  <2>3. next[a] # Never /\ next[a] - last[a] >= Interval
    BY <1>1, <2>1 DEF PullInv, NextInv
  <2> QED BY <1>1, <2>2, <2>3, ShortestWindow, ScheduleAssumption
<1>6. WindowInv'
  <2> SUFFICES ASSUME Calm', NEW d \in Calls, Pulling(d)' PROVE WindowOpen(d)'
    BY DEF WindowInv
  <2>1. CASE d = c
    <3>1. step'[c] # "writing"
      BY <1>2 DEF PullInv, WindowTypeInv
    <3> QED BY <1>2, <1>5, <2>1, <3>1 DEF WindowOpen
  <2>2. CASE d # c
    <3>1. Pulling(d) /\ step'[d] = step[d]
      BY <1>2, <2>2 DEF Pulling, PullInv, WindowTypeInv
    <3> QED BY <1>2, <3>1 DEF WindowOpen, PullInv, WindowInv
  <2> QED BY <2>1, <2>2
<1> QED BY <1>3, <1>4, <1>6 DEF PullInv

\* The stamp of a success is taken while its window is open.
LEMMA CheckKeepsPull ==
    ASSUME PullInv, ScheduleInv', Calm' => Calm, NEW c \in Calls, CheckCooldown(c)
    PROVE  PullInv'
<1>1. /\ UNCHANGED <<last, next, clock, at, trigger, due, backs>>
      /\ \/ step' = [step EXCEPT ![c] = "over"] /\ stamp' = stamp
         \/ /\ step[c] = "checking"
            /\ step' = [step EXCEPT ![c] = "writing"]
            /\ stamp' = [stamp EXCEPT ![c] = clock]
  BY DEF CheckCooldown, At, Goes, rowVars, gateVars
<1>2. WindowTypeInv'
  BY <1>1 DEF PullInv, WindowTypeInv, Steps
<1>3. clock \in Nat /\ stamp \in [Calls -> Int] /\ step \in [Calls -> Steps]
  BY DEF PullInv, ScheduleInv, ScheduleTypeInv, WindowTypeInv
<1>4. StampInv' /\ NextInv'
  BY <1>1, <1>3 DEF PullInv, StampInv, NextInv
<1>5. WindowInv'
  <2> SUFFICES ASSUME Calm', NEW d \in Calls, Pulling(d)' PROVE WindowOpen(d)'
    BY DEF WindowInv
  <2>1. Pulling(d) /\ WindowOpen(d)
    BY <1>1, <1>3 DEF Pulling, PullInv, WindowInv
  <2>2. step'[d] = "writing" => (step[d] = "writing" /\ stamp'[d] = stamp[d]) \/ stamp'[d] = clock
    BY <1>1, <1>3
  <2> QED BY <1>1, <2>1, <2>2 DEF WindowOpen
<1> QED BY <1>2, <1>4, <1>5 DEF PullInv

\* A success ends the window it used, and nobody of its account builds on it.
LEMMA WriteKeepsPull ==
    ASSUME CrossInv, PullInv, ScheduleInv', Calm' => Calm, NEW c \in Calls, WriteSuccess(c)
    PROVE  PullInv'
<1> DEFINE a == AccountOf[c]
<1>1. /\ UNCHANGED <<clock, at, trigger, due, stamp, backs, engine>>
      /\ at[c] = "running" /\ step[c] = "writing"
      /\ step' = [step EXCEPT ![c] = "checking again"]
  BY DEF WriteSuccess, At, Goes, gateVars
<1>2. stamp[c] \in Nat /\ a \in Accounts /\ Interval \in Nat
  BY <1>1, GateAssumption, ScheduleAssumption DEF PullInv, StampInv
<1>3. \/ UNCHANGED <<last, next>>
      \/ \E j \in Nat : /\ last' = [last EXCEPT ![a] = stamp[c]]
                        /\ next' = [next EXCEPT ![a] = stamp[c] + Interval + j]
  <2>1. CASE EndsCooldown(a, stamp[c])
    BY <2>1, ScheduleAssumption DEF WriteSuccess
  <2>2. CASE ~EndsCooldown(a, stamp[c])
    BY <2>2 DEF WriteSuccess, rowVars
  <2> QED BY <2>1, <2>2
<1>4. last' \in [Accounts -> Int] /\ next' \in [Accounts -> Int]
  BY <1>2, <1>3 DEF PullInv, WindowTypeInv
<1>5. WindowTypeInv'
  BY <1>1, <1>4 DEF PullInv, WindowTypeInv, Steps
<1>6. StampInv'
  BY <1>1 DEF PullInv, StampInv, WindowTypeInv
<1>7. NextInv'
  BY <1>2, <1>3 DEF PullInv, NextInv, WindowTypeInv, Never
<1>8. WindowInv'
  <2> SUFFICES ASSUME Calm', NEW d \in Calls, Pulling(d)' PROVE WindowOpen(d)'
    BY DEF WindowInv
  <2>1. d # c /\ Pulling(d) /\ step'[d] = step[d]
    BY <1>1 DEF Pulling, PullInv, WindowTypeInv
  <2>2. AccountOf[d] # a
    BY <1>1, <2>1, CrossExcludes, GateAssumption DEF OneInside, Pulling, Calm
  <2>3. last'[AccountOf[d]] = last[AccountOf[d]]
    BY <1>3, <2>2, GateAssumption DEF PullInv, WindowTypeInv
  <2> QED BY <1>1, <2>1, <2>3 DEF WindowOpen, PullInv, WindowInv
<1> QED BY <1>5, <1>6, <1>7, <1>8 DEF PullInv

\* Steps outside the runs: nobody who was not inside before is now pulling.
LEMMA GateKeepsPull ==
    ASSUME PullInv, ScheduleInv', Calm' => Calm, GateStep, UNCHANGED scheduleVars
    PROVE  PullInv'
<1>1. \A d \in Calls : at'[d] = "running" => at[d] = "running"
  <2>1. ASSUME NEW c \in Calls, Acquire(c) \/ Thread(c) \/ ReleaseCall(c),
               NEW d \in Calls, at'[d] = "running"
        PROVE  at[d] = "running"
    <3>1. \E s \in {"waiting", "acquired", "leased", "over", "granted"} : Move(c, s)
      BY <2>1 DEF Acquire, Thread, TryAcquire, TimeOut, RegisterLease, AnswerLease, ReleaseCall
    <3> QED BY <2>1, <3>1 DEF Move
  <2>2. ASSUME NEW e \in Engines, Teardown(e), NEW d \in Calls, at'[d] = "running"
        PROVE  at[d] = "running"
    BY <2>2 DEF Teardown, StopTask, DetachBegins, DetachReleases, EngineGone
  <2> QED BY <2>1, <2>2 DEF GateStep
<1>2. UNCHANGED <<last, next, clock, step, trigger, due, stamp, backs>>
  BY DEF scheduleVars, rowVars, runVars
<1>3. WindowTypeInv'
  BY <1>2 DEF PullInv, WindowTypeInv
<1>4. clock' >= clock
  BY <1>2 DEF PullInv, ScheduleInv, ScheduleTypeInv
<1> QED BY <1>1, <1>2, <1>3, <1>4, WindowKept DEF Pulling

LEMMA StepPullInv == CrossInv /\ PullInv /\ [Next]_vars => PullInv' /\ WindowStep
<1> SUFFICES ASSUME CrossInv, PullInv, [Next]_vars PROVE PullInv' /\ WindowStep
  OBVIOUS
<1>1. ScheduleInv'
  BY StepScheduleInv DEF PullInv
<1>2. Calm' => Calm
  BY CalmBefore
<1>3. PullInv'
  <2>1. CASE ClockAdvances
    <3>1. /\ UNCHANGED <<last, next, at, step, trigger, due, stamp, backs>>
          /\ clock' = clock + 1
      BY <2>1 DEF ClockAdvances, gateVars, runVars
    <3>2. WindowTypeInv' /\ clock' >= clock
      BY <3>1 DEF PullInv, WindowTypeInv, ScheduleInv, ScheduleTypeInv
    <3> QED BY <1>1, <1>2, <3>1, <3>2, WindowKept DEF Pulling
  <2>2. CASE ClockSetBack
    <3>1. UNCHANGED <<last, next, at, step, trigger, due, stamp>> /\ backs' = backs + 1
      BY <2>2 DEF ClockSetBack, gateVars, runVars, rowVars
    <3>2. WindowTypeInv' /\ ~Calm'
      BY <3>1 DEF PullInv, WindowTypeInv, Calm
    <3> QED BY <1>1, <3>1, <3>2, WindowKept DEF Pulling
  <2>3. CASE GateStep /\ UNCHANGED scheduleVars
    BY <1>1, <1>2, <2>3, GateKeepsPull
  <2>4. ASSUME NEW c \in Calls, Entered(c) PROVE PullInv'
    <3>1. /\ UNCHANGED <<last, next, clock, trigger, due, stamp, backs>>
          /\ step' = [step EXCEPT ![c] = "start"]
          /\ Move(c, "running")
      BY <2>4 DEF Entered, Begin, Goes, rowVars
    <3>2. WindowTypeInv' /\ clock' >= clock
      <4>1. step' \in [Calls -> Steps]
        BY <3>1 DEF PullInv, WindowTypeInv, Steps
      <4> QED BY <3>1, <4>1 DEF PullInv, WindowTypeInv, ScheduleInv, ScheduleTypeInv
    <3>3. \A d \in Calls : Pulling(d)' => Pulling(d)
      BY <3>1 DEF Pulling, Move, PullInv, WindowTypeInv, CrossInv, CoreTypeOK
    <3>4. \A d \in Calls : step'[d] = "writing" => step[d] = "writing" /\ stamp'[d] = stamp[d]
      BY <3>1 DEF PullInv, WindowTypeInv
    <3> QED BY <1>1, <1>2, <3>1, <3>2, <3>3, <3>4, WindowKept
  <2>5. ASSUME NEW c \in Calls, Left(c) PROVE PullInv'
    <3>1. /\ UNCHANGED <<last, next, clock, step, trigger, due, stamp, backs>>
          /\ Move(c, "releasing")
      BY <2>5 DEF Left, Finish, scheduleVars, rowVars, runVars
    <3>2. WindowTypeInv' /\ clock' >= clock
      BY <3>1 DEF PullInv, WindowTypeInv, ScheduleInv, ScheduleTypeInv
    <3>3. \A d \in Calls : Pulling(d)' => Pulling(d)
      BY <3>1 DEF Pulling, Move, CrossInv, CoreTypeOK
    <3> QED BY <1>1, <1>2, <3>1, <3>2, <3>3, WindowKept
  <2>6. ASSUME NEW c \in Calls, Run(c) PROVE PullInv'
    BY <1>1, <1>2, <2>6, DecideKeepsPull, OtherRunKeepsPull, CheckKeepsPull, WriteKeepsPull DEF Run
  <2>7. CASE UNCHANGED vars
    <3>1. UNCHANGED <<last, next, clock, at, step, trigger, due, stamp, backs>>
      BY <2>7 DEF vars, gateVars, scheduleVars, rowVars, runVars
    <3>2. WindowTypeInv' /\ clock' >= clock
      BY <3>1 DEF PullInv, WindowTypeInv, ScheduleInv, ScheduleTypeInv
    <3> QED BY <1>1, <1>2, <3>1, <3>2, WindowKept DEF Pulling
  <2> QED BY <2>1, <2>2, <2>3, <2>4, <2>5, <2>6, <2>7 DEF Next
<1>4. WindowStep
  <2> SUFFICES ASSUME NEW c \in Calls, WriteSuccess(c),
                      last'[AccountOf[c]] # last[AccountOf[c]], due[c] = "window", Calm
               PROVE  last'[AccountOf[c]] - last[AccountOf[c]] >= Shortest
    BY DEF WindowStep, Calm
  <2>1. at[c] = "running" /\ step[c] = "writing"
    BY DEF WriteSuccess, At
  <2>2. stamp[c] - last[AccountOf[c]] >= Shortest
    BY <2>1 DEF Pulling, PullInv, WindowInv, WindowOpen
  <2>3. last' = [last EXCEPT ![AccountOf[c]] = stamp[c]]
    BY DEF WriteSuccess, rowVars
  <2> QED BY <2>2, <2>3, GateAssumption DEF PullInv, WindowTypeInv
<1> QED BY <1>3, <1>4

\* Passive pulls of an account that no engine's end disturbs are a window apart,
\* whatever the windows, the jitters and the number of calls.
THEOREM PullsOncePerWindow == Spec => OneWindow
<1>1. PullInv /\ CrossInv /\ [Next]_vars => [WindowStep]_vars
  BY StepPullInv
<1>2. Spec => []CrossInv
  BY ScheduleImplementsGate, CrossGateInvariant, PTL
<1>3. Spec => []PullInv
  BY InitPullInv, StepPullInv, <1>2, PTL DEF Spec
<1> QED BY <1>1, <1>2, <1>3, PTL DEF Spec, OneWindow, WindowStep
==============================================================================
