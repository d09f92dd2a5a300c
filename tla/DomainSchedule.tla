--------------------------- MODULE DomainSchedule ----------------------------
(***************************************************************************)
(* DomainSyncPolicy: when a domain (tasks or calendar) of an account is    *)
(* pulled, and the cooldown its provider asked for.  A call that has       *)
(* entered the gate of its account performs DomainSyncPolicy.run.          *)
(*                                                                         *)
(* The schedule of one domain is one row for each account, written by the  *)
(* runs of all engines; each await of run() is a step boundary.  The clock *)
(* is the wall clock of the device, in units of the model, and can be set  *)
(* back.                                                                   *)
(***************************************************************************)
EXTENDS CrossEngineGate

CONSTANTS
    Triggers,     \* the triggers of the user interface's calls; a background worker
                  \* has its own
    Staleness,    \* foregroundStaleness
    Interval,     \* the passive interval of the domain
    Jitters,      \* what the digest may add to it
    Retries,      \* what providers ask for, and the default of one minute
    MaxClock,     \* bound: the clock
    MaxBack,      \* bound: times it is set back
    MaxFailures   \* bound: throttled requests

AllTriggers == {"manual", "foreground", "background", "localMutation"}

ASSUME ScheduleAssumption ==
    /\ Triggers \subseteq AllTriggers
    /\ Staleness \in Nat /\ Interval \in Nat
    /\ Jitters \subseteq Nat /\ Retries \subseteq Nat
    /\ MaxClock \in Nat /\ MaxBack \in Nat /\ MaxFailures \in Nat

Never == -1

VARIABLES
    clock, backs, failures,
    \* domain_sync_schedules
    cooldown,     \* cooldown_until_utc
    last,         \* last_successful_pull_utc
    next,         \* next_passive_pull_utc
    served,       \* history: the clock has reached the cooldown since it was written
    \* the run of each call
    step,         \* the await it is in
    trigger,
    due,          \* history: why it pulls: the window had passed, or other reasons
    stamp         \* the instant it has computed and not yet written

rowVars == <<cooldown, last, next, served>>
runVars == <<step, trigger, due, stamp>>
scheduleVars == <<clock, backs, failures, rowVars, runVars>>
vars == <<gateVars, scheduleVars>>

Steps == {"outside", "start", "deferring", "pulling", "checking", "writing",
          "checking again", "recording", "over"}

TypeOK ==
    /\ GateTypeOK
    /\ clock \in 0..MaxClock /\ backs \in 0..MaxBack /\ failures \in 0..MaxFailures
    /\ cooldown \in [Accounts -> Int] /\ last \in [Accounts -> Int] /\ next \in [Accounts -> Int]
    /\ served \in [Accounts -> BOOLEAN]
    /\ step \in [Calls -> Steps]
    /\ trigger \in [Calls -> AllTriggers]
    /\ due \in [Calls -> {"window", "other"}]
    /\ stamp \in [Calls -> Int]

\* An engine starts: the schedule is what an earlier one left, or empty.
Init ==
    /\ GateInit
    /\ clock = 0 /\ backs = 0 /\ failures = 0
    /\ cooldown = [a \in Accounts |-> Never]
    /\ last \in [Accounts -> {Never, 0}]
    /\ \E j \in Jitters :
          next = [a \in Accounts |-> IF last[a] = Never THEN Never ELSE Interval + j]
    /\ served = [a \in Accounts |-> TRUE]
    /\ step = [c \in Calls |-> "outside"]
    /\ trigger \in [Calls -> Triggers \cup {"background"}]
    /\ \A c \in Calls : trigger[c] = "background" <=> EngineOf[c] \in Workers
    /\ due = [c \in Calls |-> "other"]
    /\ stamp = [c \in Calls |-> Never]
------------------------------------------------------------------------------
(* The clock                                                                *)

Reached(t) == [a \in Accounts |-> served[a] \/ cooldown[a] <= t]

ClockAdvances ==
    /\ clock < MaxClock
    /\ clock' = clock + 1
    /\ served' = Reached(clock')
    /\ UNCHANGED <<gateVars, backs, failures, cooldown, last, next, runVars>>

ClockSetBack ==
    /\ backs < MaxBack /\ backs' = backs + 1
    /\ clock' \in 0..(clock - 1)
    /\ UNCHANGED <<gateVars, failures, rowVars, runVars>>
------------------------------------------------------------------------------
(* DomainSyncPolicy.run                                                     *)

Goes(c, s) == step' = [step EXCEPT ![c] = s]
At(c, s) == at[c] = "running" /\ step[c] = s
CoolingDown(a) == cooldown[a] > clock

Entered(c) ==
    /\ Begin(c)
    /\ Goes(c, "start")
    /\ UNCHANGED <<clock, backs, failures, rowVars, trigger, due, stamp>>

WindowPassed(c) ==
    LET a == AccountOf[c] IN
    CASE trigger[c] = "foreground" -> clock - last[a] >= Staleness
      [] trigger[c] = "background" -> next[a] = Never \/ next[a] <= clock
      [] OTHER -> FALSE

\* The row is read and the decision made: a cooldown ends the run; a local
\* edit only has its due operations sent; everything else pulls when due.
Decide(c) ==
    LET a == AccountOf[c]
        other == \/ last[a] = Never \/ last[a] > clock \/ trigger[c] = "manual"
    IN
    /\ At(c, "start")
    /\ \/ CoolingDown(a) /\ Goes(c, "over") /\ UNCHANGED due
       \/ /\ ~CoolingDown(a)
          /\ trigger[c] # "localMutation" /\ (other \/ WindowPassed(c))
          /\ Goes(c, "pulling")
          /\ due' = [due EXCEPT ![c] = IF other THEN "other" ELSE "window"]
       \/ /\ ~CoolingDown(a)
          /\ trigger[c] = "localMutation" \/ ~(other \/ WindowPassed(c))
          /\ Goes(c, "deferring") /\ UNCHANGED due
    /\ UNCHANGED <<gateVars, clock, backs, failures, rowVars, trigger, stamp>>

\* Mutant: whoever writes last wins.
LastWriteWins(old, new) == new

LongerCooldown(old, new) == IF old > new THEN old ELSE new

\* recordFailureCooldown, an atomic maximum in the database.
RecordUntil(a, t) ==
    /\ cooldown' = [cooldown EXCEPT ![a] = LongerCooldown(@, t)]
    /\ served' = [served EXCEPT ![a] = IF cooldown'[a] = cooldown[a] THEN @ ELSE t <= clock]
    /\ UNCHANGED <<last, next>>

\* Replay inside the pull or the deferred part meets a throttled request and
\* records the cooldown itself, before the error goes on to the operation.
ReplayThrottled(c) ==
    /\ At(c, "pulling") \/ At(c, "deferring")
    /\ failures < MaxFailures /\ failures' = failures + 1
    /\ \E r \in Retries : RecordUntil(AccountOf[c], clock + r)
    /\ UNCHANGED <<gateVars, clock, backs, runVars>>

\* The operation throws an error the provider gave a delay for: the end of the
\* cooldown is computed, then written.
Throttled(c) ==
    /\ At(c, "pulling") \/ At(c, "deferring")
    /\ failures < MaxFailures /\ failures' = failures + 1
    /\ \E r \in Retries : stamp' = [stamp EXCEPT ![c] = clock + r]
    /\ Goes(c, "recording")
    /\ UNCHANGED <<gateVars, clock, backs, rowVars, trigger, due>>

RecordFailure(c) ==
    /\ At(c, "recording")
    /\ RecordUntil(AccountOf[c], stamp[c])
    /\ Goes(c, "over")
    /\ UNCHANGED <<gateVars, clock, backs, failures, trigger, due, stamp>>

\* The deferred part has ended, or any other error has ended the run.
Ends(c) ==
    /\ At(c, "pulling") \/ At(c, "deferring")
    /\ Goes(c, "over")
    /\ UNCHANGED <<gateVars, clock, backs, failures, rowVars, trigger, due, stamp>>

PullSucceeds(c) ==
    /\ At(c, "pulling")
    /\ Goes(c, "checking")
    /\ UNCHANGED <<gateVars, clock, backs, failures, rowVars, trigger, due, stamp>>

\* checkCooldown: a cooldown recorded meanwhile makes the run fail.
CheckCooldown(c) ==
    /\ At(c, "checking") \/ At(c, "checking again")
    /\ IF CoolingDown(AccountOf[c]) \/ step[c] = "checking again"
       THEN Goes(c, "over") /\ UNCHANGED stamp
       ELSE Goes(c, "writing") /\ stamp' = [stamp EXCEPT ![c] = clock]
    /\ UNCHANGED <<gateVars, clock, backs, failures, rowVars, trigger, due>>

\* Mutant: a success always ends the cooldown.
AlwaysEnds(a, t) == TRUE

\* The condition in the statement itself.
EndsCooldown(a, t) == cooldown[a] = Never \/ cooldown[a] <= t

\* The success is written, and the cooldown cleared, by one statement.
WriteSuccess(c) ==
    LET a == AccountOf[c] IN
    /\ At(c, "writing")
    /\ Goes(c, "checking again")
    /\ IF EndsCooldown(a, stamp[c])
       THEN \E j \in Jitters :
               /\ last' = [last EXCEPT ![a] = stamp[c]]
               /\ next' = [next EXCEPT ![a] = stamp[c] + Interval + j]
               /\ cooldown' = [cooldown EXCEPT ![a] = Never]
               /\ served' = [served EXCEPT ![a] = TRUE]
       ELSE UNCHANGED rowVars
    /\ UNCHANGED <<gateVars, clock, backs, failures, trigger, due, stamp>>

Left(c) ==
    /\ step[c] = "over"
    /\ Finish(c)
    /\ UNCHANGED scheduleVars
------------------------------------------------------------------------------
Run(c) ==
    \/ Decide(c) \/ ReplayThrottled(c) \/ Throttled(c) \/ RecordFailure(c) \/ Ends(c)
    \/ PullSucceeds(c) \/ CheckCooldown(c) \/ WriteSuccess(c)

Next ==
    \/ ClockAdvances \/ ClockSetBack
    \/ GateStep /\ UNCHANGED scheduleVars
    \/ \E c \in Calls : Entered(c) \/ Run(c) \/ Left(c)

Spec == Init /\ [][Next]_vars
------------------------------------------------------------------------------
(* Properties                                                               *)

\* An end of a cooldown that the clock has not reached is only ever replaced by
\* a later one, whatever runs, of one engine or of two, write meanwhile, and
\* also when the clock is set back, except between computing the instant of a
\* success and writing it.
\* ("A stale success must not erase a cooldown established during the pull")
CooldownHeld ==
    [][\A a \in Accounts :
          (/\ ~served[a] /\ cooldown'[a] # cooldown[a]
           /\ \A c \in Calls : step[c] = "writing" => stamp[c] <= clock)
              => cooldown'[a] > cooldown[a]]_vars

\* Passive pulls of one account consume one freshness window: the successes
\* that two of them record are at least a window apart, unless a worker was
\* stopped or an engine torn down while it was inside.
\* (the schedule is read and written inside the gate)
Shortest == IF Staleness < Interval THEN Staleness ELSE Interval

OneWindow ==
    [][\A c \in Calls :
          LET a == AccountOf[c] IN
          (/\ WriteSuccess(c) /\ last'[a] # last[a]
           /\ due[c] = "window" /\ backs = 0
           /\ \A e \in Engines : engine[e] = "alive")
              => last'[a] - last[a] >= Shortest]_vars
==============================================================================
