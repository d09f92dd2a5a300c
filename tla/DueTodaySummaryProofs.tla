------------------------ MODULE DueTodaySummaryProofs ------------------------
(***************************************************************************)
(* Proofs about DueTodaySummary, for any accounts and any bounds.          *)
(*                                                                         *)
(* A half-imported cache is forgotten only through ImportCleared.  That    *)
(* this needs a success rests on what the import remembers of earlier      *)
(* ones: while it runs on a partial cache, either it found the account     *)
(* incomplete or it has itself written (Remembers), so that its failure    *)
(* is not taken for one without consequences.                              *)
(***************************************************************************)
EXTENDS DueTodaySummary, TLAPS

SyncTypeInv ==
    /\ sync \in [Accounts -> {"idle", "inside", "marking", "importing", "writing",
                            "clearing", "ending"}]
    /\ partial \in SUBSET Accounts

\* What a synchronization of account a has already noted at each of its awaits.
Noted(a) ==
    /\ sync[a] \in {"marking", "importing", "writing", "clearing"} => a \in incomplete
    /\ sync[a] \in {"importing", "writing"} => a \in persisted
    /\ sync[a] = "clearing" => a \notin partial

Remembers(a) ==
    /\ a \in partial => a \in incomplete /\ a \in persisted
    /\ a \in partial /\ sync[a] = "marking" => a \in already
    /\ a \in partial /\ sync[a] = "importing" => a \in already \cup wrote
    /\ sync[a] = "writing" => a \in wrote

ImportInv == SyncTypeInv /\ \A a \in Accounts : Noted(a) /\ Remembers(a)

LEMMA InitImportInv == Init => ImportInv
BY DEF Init, ImportInv, SyncTypeInv, Noted, Remembers

\* One step of the synchronization of an account leaves the others alone.
LEMMA SynchronizationStep ==
    ASSUME ImportInv, NEW a \in Accounts, Synchronization(a) PROVE ImportInv'
<1> SUFFICES ASSUME NEW b \in Accounts
             PROVE  SyncTypeInv' /\ Noted(b)' /\ Remembers(b)'
  BY DEF ImportInv
<1> USE DEF ImportInv, SyncTypeInv, Noted, Remembers
<1>1. CASE SyncBegins(a)
  BY <1>1 DEF SyncBegins
<1>2. CASE ImportMarks(a)
  BY <1>2 DEF ImportMarks
<1>3. CASE ImportBegins(a)
  BY <1>3 DEF ImportBegins
<1>4. CASE ImportWrites(a)
  BY <1>4 DEF ImportWrites
<1>8. CASE Written(a)
  BY <1>8 DEF Written
<1>5. CASE ImportEnds(a)
  BY <1>5 DEF ImportEnds, FailsIncomplete
<1>6. CASE ImportCleared(a)
  BY <1>6 DEF ImportCleared
<1>7. CASE SyncEnds(a)
  BY <1>7 DEF SyncEnds
<1> QED BY <1>1, <1>2, <1>3, <1>4, <1>5, <1>6, <1>7, <1>8 DEF Synchronization

LEMMA OtherStep ==
    ASSUME ImportInv, UNCHANGED syncVars PROVE ImportInv'
BY DEF ImportInv, SyncTypeInv, Noted, Remembers, syncVars

\* A restart finds the persisted flags.
LEMMA CrashStep == ASSUME ImportInv, Crash PROVE ImportInv'
BY DEF ImportInv, SyncTypeInv, Noted, Remembers, Crash

LEMMA StepImportInv == ImportInv /\ [Next]_vars => ImportInv'
<1> SUFFICES ASSUME ImportInv, [Next]_vars PROVE ImportInv'
  OBVIOUS
<1>1. CASE ClockTick \/ SummaryTime \/ RetryTime \/ Midnight \/ Toggle \/ EditTasks
  BY <1>1, OtherStep DEF ClockTick, SummaryTime, RetryTime, Midnight, Toggle, EditTasks
<1>2. CASE Evaluation
  <2>1. UNCHANGED syncVars
    BY <1>2 DEF Evaluation, EvalFrame, CleanUp, Withdraw, Ask, ReadAccounts, ReadLists, ReadTasks, QueryAnswered, Consult, ClearEmpty,
       Posted, NotPosted, WithdrawPost, Record
  <2> QED BY <2>1, OtherStep
<1>3. ASSUME NEW a \in Accounts, Synchronization(a) PROVE ImportInv'
  BY <1>3, SynchronizationStep
<1>4. CASE UNCHANGED vars
  BY <1>4, OtherStep DEF vars
<1> QED BY <1>1, <1>2, <1>3, <1>4, CrashStep DEF Next

\* A cache that an import left half-way blocks the summary until an import of
\* its account succeeds, whatever fails, is repeated or is killed meanwhile.
THEOREM PartialCachesBlock == Spec => []PartialBlocks
<1>1. ImportInv => PartialBlocks
  BY DEF ImportInv, SyncTypeInv, Remembers, PartialBlocks, Blocks
<1> QED BY <1>1, InitImportInv, StepImportInv, PTL DEF Spec
------------------------------------------------------------------------------
(* Whole caches                                                             *)

\* Account a had imported half of the cache when the lists were read, and is
\* not done with it: if its import has succeeded since, the statement that
\* clears its mark is behind the query of the tasks.
Held(a) ==
    /\ a \in incomplete
    /\ a \in partial \/ (sync[a] = "clearing" /\ a \in behind)

WholeInv ==
    /\ phase = "reading tasks" /\ counted = "half" => \E a \in Accounts : Held(a)
    /\ phase \in {"consulting", "posting"} => counted # "half"

LEMMA InitWholeInv == Init => WholeInv
BY DEF Init, WholeInv

\* Asking for an evaluation interrupts none.
LEMMA AskedKeepsPhase ==
    ASSUME NEW l, NEW e, CheckNowAt(l, e)
    PROVE  phase' = phase \/ phase' = "cleaning"
BY DEF CheckNowAt, EvaluateAt

\* Whatever the other accounts send, and whatever this one does, it is held
\* while the query of the tasks is waited for.
LEMMA HeldStays ==
    ASSUME ImportInv, phase = "reading tasks",
           NEW a \in Accounts, Held(a), NEW b \in Accounts, Synchronization(b)
    PROVE  Held(a)'
<1>1. phase \in Queries
  BY DEF Queries
<1> USE <1>1 DEF Held, ImportInv, SyncTypeInv, Noted
<1>2. CASE SyncBegins(b)
  BY <1>2 DEF SyncBegins
<1>3. CASE ImportMarks(b)
  BY <1>3 DEF ImportMarks, Sends
<1>4. CASE ImportBegins(b)
  BY <1>4 DEF ImportBegins, Answered
<1>5. CASE ImportWrites(b)
  BY <1>5 DEF ImportWrites, Sends
<1>6. CASE Written(b)
  BY <1>6 DEF Written, Answered
<1>7. CASE ImportEnds(b)
  BY <1>7 DEF ImportEnds, Sends
<1>8. CASE ImportCleared(b)
  BY <1>8 DEF ImportCleared, Answered
<1>9. CASE SyncEnds(b)
  BY <1>9 DEF SyncEnds
<1> QED BY <1>2, <1>3, <1>4, <1>5, <1>6, <1>7, <1>8, <1>9 DEF Synchronization

LEMMA SynchronizationKeepsWhole ==
    ASSUME ImportInv, WholeInv, NEW b \in Accounts, Synchronization(b)
    PROVE  WholeInv'
<1>1. counted' = counted
  BY DEF Synchronization, SyncBegins, ImportMarks, ImportBegins, ImportWrites, Written, ImportEnds,
     ImportCleared, SyncEnds, SyncFrame, KeepEvaluation
<1>2. CheckNow \/ NotAsked
  BY DEF Synchronization, SyncBegins, ImportMarks, ImportBegins, ImportWrites, Written, ImportEnds,
     ImportCleared, SyncEnds, LeaveAnnounced
<1>3. phase' = phase \/ phase' = "cleaning"
  BY <1>2, AskedKeepsPhase DEF CheckNow, NotAsked
<1> QED BY <1>1, <1>3, HeldStays DEF WholeInv

\* A step of neither: what is held stays held.
LEMMA OtherKeepsWhole ==
    ASSUME WholeInv, UNCHANGED <<syncVars, behind, counted>>,
           phase' = phase \/ phase' \notin {"reading tasks", "consulting", "posting"}
    PROVE  WholeInv'
BY DEF WholeInv, Held, syncVars

LEMMA RequestsKeepWhole ==
    ASSUME WholeInv,
           ClockTick \/ SummaryTime \/ RetryTime \/ Midnight \/ Toggle \/ EditTasks
    PROVE  WholeInv'
<1>1. UNCHANGED <<syncVars, behind, counted>>
  BY DEF ClockTick, SummaryTime, RetryTime, Midnight, Toggle, EditTasks, KeepEvaluation, evalVars
<1>2. phase' = phase \/ phase' = "cleaning"
  <2>1. CASE Midnight
    BY <2>1 DEF Midnight
  <2>2. ASSUME NEW l, NEW e, CheckNowAt(l, e) PROVE phase' = phase \/ phase' = "cleaning"
    BY <2>2, AskedKeepsPhase
  <2> QED BY <2>1, <2>2 DEF ClockTick, SummaryTime, RetryTime, Toggle, EditTasks, CheckNow
<1> QED BY <1>1, <1>2, OtherKeepsWhole

\* Who had imported half of what is counted blocks.
LEMMA HalfBlocks ==
    ASSUME ImportInv, NEW a \in Accounts, a \in partial \/ Held(a)
    PROVE  ~StillQuiet
BY DEF ImportInv, Remembers, Held, StillQuiet, Quiet, Blocks

LEMMA ReadingKeepsWhole ==
    ASSUME ImportInv, WholeInv, ReadLists \/ ReadTasks PROVE WholeInv'
<1>1. CASE ReadLists
  <2>1. /\ phase' = "reading tasks"
        /\ UNCHANGED <<partial, incomplete>>
        /\ counted' = "half" => partial # {}
    BY <1>1 DEF ReadLists, QueryAnswered, EvalFrame, GoOn, CacheRead, syncVars
  <2>2. partial # {} => \E a \in Accounts : a \in partial /\ a \in incomplete
    BY DEF ImportInv, SyncTypeInv, Remembers
  <2> QED BY <2>1, <2>2 DEF WholeInv, Held
<1>2. CASE ReadTasks
  <2>1. CASE phase' = "consulting"
    <3>1. /\ phase = "reading tasks" /\ StillQuiet
          /\ counted' = IF CacheRead = "half" THEN "half" ELSE counted
      BY <1>2, <2>1 DEF ReadTasks, QueryAnswered, GoOn, Return, Evaluate, EvaluateAt
    <3>2. counted # "half"
      BY <3>1, HalfBlocks DEF WholeInv
    <3>3. CacheRead # "half"
      BY <3>1, HalfBlocks DEF CacheRead, ImportInv, SyncTypeInv
    <3> QED BY <2>1, <3>1, <3>2, <3>3 DEF WholeInv
  <2>2. CASE phase' # "consulting"
    <3>1. phase' \in {"idle", "cleaning", "clearing"}
      BY <1>2, <2>2 DEF ReadTasks, QueryAnswered, GoOn, Return, Evaluate, EvaluateAt
    <3> QED BY <3>1 DEF WholeInv
  <2> QED BY <2>1, <2>2
<1> QED BY <1>1, <1>2

LEMMA EvaluationKeepsWhole ==
    ASSUME ImportInv, WholeInv, Evaluation PROVE WholeInv'
<1>1. CASE ReadLists \/ ReadTasks
  BY <1>1, ReadingKeepsWhole
<1>2. CASE Consult
  <2>1. /\ phase' \in {"idle", "cleaning", "posting"}
        /\ phase' = "posting" => phase = "consulting" /\ counted' = counted
    BY <1>2 DEF Consult, GoOn, Return, Evaluate, EvaluateAt
  <2> QED BY <2>1 DEF WholeInv
<1>3. CASE CleanUp \/ Withdraw \/ Ask \/ ReadAccounts \/ ClearEmpty \/ Posted \/ NotPosted
           \/ WithdrawPost \/ Record
  <2>1. phase' \notin {"reading tasks", "consulting", "posting"}
    BY <1>3 DEF CleanUp, Withdraw, Ask, ReadAccounts, QueryAnswered, ClearEmpty, Posted, NotPosted,
       WithdrawPost, Record, GoOn, Return, Evaluate, EvaluateAt
  <2> QED BY <2>1 DEF WholeInv
<1> QED BY <1>1, <1>2, <1>3 DEF Evaluation

LEMMA StepWholeInv == ImportInv /\ WholeInv /\ [Next]_vars => WholeInv'
<1> SUFFICES ASSUME ImportInv, WholeInv, [Next]_vars PROVE WholeInv'
  OBVIOUS
<1>1. CASE ClockTick \/ SummaryTime \/ RetryTime \/ Midnight \/ Toggle \/ EditTasks
  BY <1>1, RequestsKeepWhole
<1>2. CASE Evaluation
  BY <1>2, EvaluationKeepsWhole
<1>3. ASSUME NEW a \in Accounts, Synchronization(a) PROVE WholeInv'
  BY <1>3, SynchronizationKeepsWhole
<1>4. CASE Crash
  BY <1>4 DEF Crash, EvaluateAt, WholeInv
<1>5. CASE UNCHANGED vars
  BY <1>5, OtherKeepsWhole DEF vars, evalVars
<1> QED BY <1>1, <1>2, <1>3, <1>4, <1>5 DEF Next

\* No summary counts what an import had half written: the account that wrote it
\* still blocks when the accounts are asked again, because what ends its import
\* is sent after the queries and answered after them.
THEOREM WholeCachesAreCounted == Spec => []CountedWhole
<1>1. WholeInv => CountedWhole
  BY DEF WholeInv, CountedWhole
<1> QED BY <1>1, InitImportInv, StepImportInv, InitWholeInv, StepWholeInv, PTL DEF Spec
------------------------------------------------------------------------------
(* Once a day                                                               *)

\* The summary of day d has been shown by the evaluation that is under way, or
\* is recorded.
Accounted(d) == d \in recorded \/ (phase \in {"withdrawing post", "recording"} /\ d = today)

DayInv ==
    /\ day \in Days /\ today \in Days
    /\ posts \in [Days -> Nat] /\ crashes \in Nat
    /\ phase = "posting" => today \notin recorded
    /\ \A d \in Days : /\ posts[d] <= crashes + 1
                       /\ ~Accounted(d) => posts[d] <= crashes

LEMMA InitDayInv == Init => DayInv
BY SummaryAssumption DEF Init, DayInv, Days, Accounted

\* Steps that show and record nothing, and do not reach the posting.
LEMMA QuietStep ==
    ASSUME DayInv, UNCHANGED <<posts, recorded, crashes>>, day' \in Days, today' \in Days,
           phase' = "posting" => today' \notin recorded,
           phase \in {"withdrawing post", "recording"} =>
               today' = today /\ phase' \in {"withdrawing post", "recording"}
    PROVE  DayInv'
<1>1. \A d \in Days : Accounted(d) => Accounted(d)'
  BY DEF Accounted
<1> QED BY <1>1 DEF DayInv

\* Asking for an evaluation disturbs none that is under way.
LEMMA AskedKeepsDay ==
    ASSUME DayInv, NEW l, NEW e, CheckNowAt(l, e)
    PROVE  /\ today' \in Days
           /\ phase # "idle" => phase' = phase /\ today' = today
           /\ phase = "idle" => phase' = "cleaning"
BY DEF DayInv, CheckNowAt, EvaluateAt

\* An evaluation that ends, or is repeated.
LEMMA ReturnKeepsDay ==
    ASSUME DayInv, Return
    PROVE  today' \in Days /\ phase' \in {"idle", "cleaning"}
BY DEF DayInv, Return, Evaluate, EvaluateAt

LEMMA AskingStep ==
    ASSUME DayInv, NEW l, NEW e, CheckNowAt(l, e),
           UNCHANGED <<posts, recorded, crashes>>, day' \in Days
    PROVE  DayInv'
<1>1. /\ today' \in Days
      /\ phase # "idle" => phase' = phase /\ today' = today
      /\ phase = "idle" => phase' = "cleaning"
  BY AskedKeepsDay
<1>2. phase' = "posting" => today' \notin recorded
  BY <1>1 DEF DayInv
<1> QED BY <1>1, <1>2, QuietStep

LEMMA RequestSteps ==
    ASSUME DayInv, ClockTick \/ SummaryTime \/ RetryTime \/ Toggle \/ EditTasks
    PROVE  DayInv'
<1>1. PICK l, e : CheckNowAt(l, e)
  BY DEF ClockTick, SummaryTime, RetryTime, Toggle, EditTasks, CheckNow
<1>2. UNCHANGED <<posts, recorded, crashes, day>>
  BY DEF ClockTick, SummaryTime, RetryTime, Toggle, EditTasks, centreVars
<1> QED BY <1>1, <1>2, AskingStep DEF DayInv

LEMMA MidnightStep == ASSUME DayInv, Midnight PROVE DayInv'
<1>1. UNCHANGED <<posts, recorded, crashes, phase, today>>
  BY DEF Midnight, centreVars, evalVars
<1>2. day' \in Days
  BY SummaryAssumption DEF Midnight, DayInv, Days
<1> QED BY <1>1, <1>2, QuietStep DEF DayInv

LEMMA ImportsStep ==
    ASSUME DayInv, NEW a \in Accounts, Synchronization(a) PROVE DayInv'
<1>1. UNCHANGED <<posts, recorded, crashes, day>>
  BY DEF Synchronization, SyncBegins, ImportMarks, ImportBegins, ImportWrites, Written, ImportEnds,
     ImportCleared, SyncEnds, SyncFrame, centreVars
<1>2. CheckNow \/ NotAsked
  BY DEF Synchronization, SyncBegins, ImportMarks, ImportBegins, ImportWrites, Written, ImportEnds,
     ImportCleared, SyncEnds, LeaveAnnounced
<1>3. CASE CheckNow
  BY <1>1, <1>3, AskingStep DEF CheckNow, DayInv
<1>4. CASE NotAsked
  BY <1>1, <1>4, QuietStep DEF NotAsked, DayInv
<1> QED BY <1>2, <1>3, <1>4

\* The evaluation up to the submission, and the submission that fails.
LEMMA EvaluationSteps ==
    ASSUME DayInv,
           CleanUp \/ Withdraw \/ Ask \/ ReadAccounts \/ ReadLists \/ ReadTasks \/ Consult
           \/ ClearEmpty \/ NotPosted \/ WithdrawPost
    PROVE  DayInv'
<1>1. UNCHANGED <<posts, recorded, crashes, day>>
  BY DEF CleanUp, Withdraw, Ask, ReadAccounts, ReadLists, ReadTasks, QueryAnswered, Consult,
     ClearEmpty, NotPosted, WithdrawPost, EvalFrame, centreVars
<1>2. CASE CleanUp \/ Withdraw \/ WithdrawPost
  <2>1. /\ today' = today
        /\ phase' \in {"withdrawing", "asking", "recording"}
        /\ phase \in {"withdrawing post", "recording"} => phase' = "recording"
    BY <1>2 DEF CleanUp, Withdraw, WithdrawPost, GoOn
  <2> QED BY <1>1, <2>1, QuietStep DEF DayInv
<1>3. CASE Ask \/ ReadAccounts \/ ReadLists \/ ReadTasks
  <2>1. /\ phase \in {"asking"} \cup Queries
        /\ \/ Return \/ Evaluate
           \/ today' = today /\ phase' \in {"clearing", "consulting"} \cup Queries
    BY <1>3 DEF Ask, ReadAccounts, ReadLists, ReadTasks, QueryAnswered, GoOn, Queries
  <2>2. today' \in Days
    BY <2>1 DEF Return, Evaluate, EvaluateAt, DayInv
  <2>3. phase' # "posting" /\ phase \notin {"withdrawing post", "recording"}
    BY <2>1 DEF Return, Evaluate, EvaluateAt, Queries
  <2> QED BY <1>1, <2>2, <2>3, QuietStep DEF DayInv
<1>4. CASE Consult
  <2>1. /\ phase = "consulting" /\ today' \in Days
        /\ phase' = "posting" => today' \notin recorded
    BY <1>4 DEF Consult, AlreadyShown, GoOn, Return, Evaluate, EvaluateAt, DayInv
  <2> QED BY <1>1, <2>1, QuietStep DEF DayInv
<1>5. CASE ClearEmpty \/ NotPosted
  <2>1. phase \notin {"withdrawing post", "recording"} /\ Return
    BY <1>5 DEF ClearEmpty, NotPosted
  <2> QED BY <1>1, <2>1, ReturnKeepsDay, QuietStep DEF DayInv
<1> QED BY <1>2, <1>3, <1>4, <1>5

\* Showing a summary needs a day that was not accounted for; recording it
\* accounts for the day it was shown for.
LEMMA PostingSteps == ASSUME DayInv, Posted \/ Record PROVE DayInv'
<1>1. CASE Posted
  <2>1. /\ UNCHANGED <<recorded, crashes, day, today>>
        /\ phase = "posting" /\ phase' \in {"withdrawing post", "recording"}
        /\ posts' = [posts EXCEPT ![today] = IF @ = 3 THEN 3 ELSE @ + 1]
    BY <1>1 DEF Posted, EvalFrame, GoOn
  <2>2. ~Accounted(today) /\ Accounted(today)'
    BY <2>1 DEF Accounted, DayInv
  <2>3. posts' \in [Days -> Nat] /\ posts'[today] <= crashes + 1
    <3>1. posts[today] \in Nat /\ posts[today] <= crashes /\ crashes \in Nat
      BY <2>2 DEF DayInv
    <3> DEFINE n == IF posts[today] = 3 THEN 3 ELSE posts[today] + 1
    <3>2. n \in Nat /\ n <= crashes + 1
      BY <3>1
    <3>3. posts' = [posts EXCEPT ![today] = n]
      BY <2>1
    <3> HIDE DEF n
    <3> QED BY <3>2, <3>3 DEF DayInv
  <2>4. \A d \in Days \ {today} : posts'[d] = posts[d] /\ (Accounted(d) => Accounted(d)')
    BY <2>1 DEF Accounted, DayInv
  <2> QED BY <2>1, <2>2, <2>3, <2>4 DEF DayInv
<1>2. CASE Record
  <2>1. /\ UNCHANGED <<posts, crashes, day>>
        /\ phase = "recording" /\ recorded' = recorded \cup {today}
        /\ today' \in Days /\ phase' \in {"idle", "cleaning"}
    BY <1>2, ReturnKeepsDay DEF Record, EvalFrame
  <2>2. \A d \in Days : Accounted(d) => Accounted(d)'
    BY <2>1 DEF Accounted
  <2> QED BY <2>1, <2>2 DEF DayInv
<1> QED BY <1>1, <1>2

\* A kill may come between showing and recording, and pays for one summary.
LEMMA KillStep == ASSUME DayInv, Crash PROVE DayInv'
<1>1. /\ UNCHANGED <<posts, recorded, day>>
      /\ crashes' = crashes + 1
      /\ phase' = "cleaning" /\ today' = day
  BY DEF Crash, EvaluateAt, centreVars
<1> QED BY <1>1 DEF DayInv

LEMMA StepDayInv == DayInv /\ [Next]_vars => DayInv'
<1> SUFFICES ASSUME DayInv, [Next]_vars PROVE DayInv'
  OBVIOUS
<1>1. CASE ClockTick \/ SummaryTime \/ RetryTime \/ Midnight \/ Toggle \/ EditTasks
  BY <1>1, RequestSteps, MidnightStep
<1>2. CASE Evaluation
  BY <1>2, EvaluationSteps, PostingSteps DEF Evaluation
<1>3. ASSUME NEW a \in Accounts, Synchronization(a) PROVE DayInv'
  BY <1>3, ImportsStep
<1>4. CASE UNCHANGED vars
  BY <1>4 DEF vars, evalVars, centreVars, DayInv, Accounted
<1> QED BY <1>1, <1>2, <1>3, <1>4, KillStep DEF Next

\* A day has one summary, and one more for each kill at most.
THEOREM OneSummaryADay == Spec => []OncePerDay
<1>1. DayInv => OncePerDay
  BY DEF DayInv, OncePerDay
<1> QED BY <1>1, InitDayInv, StepDayInv, PTL DEF Spec
==============================================================================
