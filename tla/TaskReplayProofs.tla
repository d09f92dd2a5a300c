-------------------------- MODULE TaskReplayProofs ---------------------------
(***************************************************************************)
(* Proofs about TaskReplay, for any tasks, lists, numbers of operations    *)
(* and crashes.                                                            *)
(*                                                                         *)
(* Type correctness and the order of barriers hold for any number of       *)
(* replayers.  The other theorems are about one replayer of an account,    *)
(* the assumption `Alone': two that overlap break them, which a run shows. *)
(*                                                                         *)
(* Each theorem has its inductive invariant.  QueueInv is their common     *)
(* part:                                                                   *)
(*   Ids         what the state names was issued, in order;                *)
(*   TodoInv     what the replayer will send is due;                       *)
(*   CreatedInv  a creation was carried out only if its row says so;       *)
(*   ItemsInv    what is shown or known was created by an operation;       *)
(*   LineInv     the rows of a task, or of a list, wait for each other in  *)
(*               the order of their numbers, and what the replayer is at   *)
(*               waits for none;                                           *)
(*   GivenUpInv  of what the user gave up the replayer is at nothing that  *)
(*               the provider would carry out.                             *)
(* OrphanInv (an item not known yet has its creation queued) and LossInv   *)
(* (an operation that left the queue had an answer that allows it) rest on *)
(* it, and CompletedInv on all three.                                      *)
(***************************************************************************)
EXTENDS TaskReplay, WellFoundedInduction, TLAPS

(* Numbers and closures                                                     *)

\* A set of numbers has a least element, a bounded one a greatest.
LEMMA HasMin ==
    ASSUME NEW S \in SUBSET Nat, S # {}
    PROVE  \E x \in S : \A y \in S : x <= y
<1> DEFINE Less == OpToRel(<, Nat)
<1>1. \A x, y \in Nat : y < x => <<y, x>> \in Less
  BY DEF OpToRel
<1>2. IsWellFoundedOn(Less, Nat)
  BY NatLessThanWellFounded
<1> HIDE DEF Less
<1>3. PICK x \in S : \A y \in S : ~(<<y, x>> \in Less)
  BY <1>2, WFMin
<1>4. \A y \in S : ~(y < x)
  BY <1>1, <1>3
<1>5. \A y \in S : x <= y
  BY <1>4
<1> QED BY <1>5

\* The same of a bounded set and its greatest element.
LEMMA HasMax ==
    ASSUME NEW n \in Nat, NEW S \in SUBSET (1..n), S # {}
    PROVE  \E x \in S : \A y \in S : y <= x
<1> DEFINE T == {n - y : y \in S}
<1>1. T \in SUBSET Nat
  OBVIOUS
<1>2. T # {}
  OBVIOUS
<1>3. PICK z \in T : \A y \in T : z <= y
  <2> HIDE DEF T
  <2> QED BY <1>1, <1>2, HasMin
<1>4. PICK x \in S : z = n - x
  BY <1>3
<1>5. ASSUME NEW y \in S PROVE y <= x
  <2>1. n - y \in T
    OBVIOUS
  <2>2. n - x <= n - y
    BY <2>1, <1>3, <1>4
  <2> QED BY <2>2
<1> QED BY <1>5

\* So MinOf and MaxOf return what their names say.
LEMMA MinOfSet ==
    ASSUME NEW S \in SUBSET OpIds, S # {}
    PROVE  MinOf(S) \in S /\ \A y \in S : MinOf(S) <= y
<1>1. \E x \in S : \A y \in S : x <= y
  BY HasMin DEF OpIds
<1> QED BY <1>1 DEF MinOf

LEMMA MaxOfSet ==
    ASSUME NEW S \in SUBSET OpIds, S # {}
    PROVE  MaxOf(S) \in S /\ \A y \in S : y <= MaxOf(S)
<1>1. \E x \in S : \A y \in S : y <= x
  BY HasMax, ReplayAssumption DEF OpIds
<1> QED BY <1>1 DEF MaxOf

\* The operation a new one waits for is the latest of the given ones, since
\* an operation comes after the one it waits for.
LEMMA LastOfSet ==
    ASSUME NEW S \in SUBSET OpIds, \A o \in S : dep[o] < o
    PROVE  IF S = {} THEN LastOf(S) = NoOp
           ELSE LastOf(S) \in S /\ \A y \in S : y <= LastOf(S)
<1>1. CASE S = {}
  BY <1>1 DEF LastOf
<1>2. CASE S # {}
  <2> DEFINE tails == {o \in S : \A p \in S : dep[p] # o}
  <2>0. S \subseteq Int
    BY ReplayAssumption DEF OpIds
  <2>1. MaxOf(S) \in S /\ \A y \in S : y <= MaxOf(S)
    BY <1>2, MaxOfSet
  <2>2. ASSUME NEW p \in S PROVE dep[p] # MaxOf(S)
    <3>1. dep[p] < p /\ p <= MaxOf(S) /\ p \in Int /\ MaxOf(S) \in Int
      BY <2>1, <2>0
    <3> QED BY <3>1
  <2>3. MaxOf(S) \in tails
    BY <2>1, <2>2
  <2>4. tails \in SUBSET OpIds /\ tails # {} /\ tails \subseteq S
    BY <2>3
  <2>5. MaxOf(tails) \in tails /\ \A y \in tails : y <= MaxOf(tails)
    <3> HIDE DEF tails
    <3> QED BY <2>4, MaxOfSet
  <2>6. LastOf(S) = MaxOf(tails)
    BY <1>2, <2>3 DEF LastOf
  <2> HIDE DEF tails
  <2>7. MaxOf(S) <= MaxOf(tails)
    BY <2>3, <2>5
  <2>8. MaxOf(tails) \in S
    BY <2>4, <2>5
  <2>9. ASSUME NEW y \in S PROVE y <= MaxOf(tails)
    <3>1. y <= MaxOf(S) /\ {y, MaxOf(S), MaxOf(tails)} \subseteq Int
      BY <2>0, <2>1, <2>8
    <3> QED BY <2>7, <3>1
  <2> QED BY <1>2, <2>6, <2>8, <2>9
<1> QED BY <1>1, <1>2

\* A closure is closed, contains its base, and is the smallest such set.
LEMMA ClosureIsClosed ==
    ASSUME NEW base \in SUBSET queued, NEW pulls \in SUBSET (queued \X queued)
    PROVE  /\ Closure(base, pulls) \subseteq queued
           /\ base \subseteq Closure(base, pulls)
           /\ \A e \in pulls : e[1] \in Closure(base, pulls) => e[2] \in Closure(base, pulls)
BY DEF Closure

\* The closure is within every set that has the base and is closed.
LEMMA ClosureIsSmallest ==
    ASSUME NEW base, NEW pulls, NEW S \in SUBSET queued, base \subseteq S,
           \A e \in pulls : e[1] \in S => e[2] \in S
    PROVE  Closure(base, pulls) \subseteq S
BY DEF Closure
------------------------------------------------------------------------------
(* Types                                                                    *)

LEMMA LastOfType ==
    ASSUME NEW S \in SUBSET OpIds PROVE LastOf(S) \in S \cup {NoOp}
<1> DEFINE tails == {o \in S : \A p \in S : dep[p] # o}
           T == IF tails = {} THEN S ELSE tails
<1>1. S # {} => T # {} /\ T \subseteq S
  OBVIOUS
<1>2. S # {} => MaxOf(T) \in T
  <2> HIDE DEF T
  <2> QED BY <1>1, MaxOfSet
<1> QED BY <1>1, <1>2 DEF LastOf

\* What the queue is searched for is one of its rows, or nothing.
LEMMA LatestType ==
    ASSUME TypeOK, NEW i
    PROVE  /\ LatestTaskOp(i) \in OpIds \cup {NoOp}
           /\ LatestListOp(i) \in OpIds \cup {NoOp}
           /\ PendingCreate(i) \in queued \cup {NoOp}
<1>1. queued \subseteq OpIds
  BY DEF TypeOK
<1>2. LatestTaskOp(i) \in OpIds \cup {NoOp}
  BY <1>1, LastOfType DEF LatestTaskOp
<1>3. LatestListOp(i) \in OpIds \cup {NoOp}
  BY <1>1, LastOfType DEF LatestListOp
<1>4. PendingCreate(i) \in queued \cup {NoOp}
  BY <1>1, MinOfSet DEF PendingCreate
<1> QED BY <1>2, <1>3, <1>4

\* Type correctness: the initial state, then one lemma per group of actions.
LEMMA InitTypeOK == Init => TypeOK
<1> SUFFICES ASSUME Init PROVE TypeOK
  OBVIOUS
<1>1. /\ "patch" \in AllKinds /\ "pending" \in OpStates /\ "ok" \in Answers
      /\ KnownItems \subseteq Items /\ MaxOps \in Nat /\ MaxCrashes \in Nat
  BY ReplayAssumption DEF AllKinds, TaskKinds, OpStates, Answers
<1>2. /\ item \in [OpIds -> Items \cup {NoItem}] /\ kind \in [OpIds -> AllKinds]
      /\ dep \in [OpIds -> OpIds \cup {NoOp}] /\ captured \in [OpIds -> SUBSET OpIds]
      /\ state \in [OpIds -> OpStates] /\ timing \in [OpIds -> {"due", "later", "never"}]
      /\ attempted \in [OpIds -> BOOLEAN] /\ execCount \in [OpIds -> 0..2]
  BY <1>1 DEF Init
<1>3. /\ phase \in [Replayers -> {"idle", "scan", "read", "checking", "sent", "answered"}]
      /\ todo \in [Replayers -> SUBSET OpIds] /\ pos \in [Replayers -> 0..MaxOps]
      /\ progress \in [Replayers -> BOOLEAN] /\ cur \in [Replayers -> OpIds \cup {NoOp}]
      /\ seen \in [Replayers -> OpStates] /\ fresh \in [Replayers -> BOOLEAN]
      /\ known \in [Replayers -> SUBSET Items] /\ answer \in [Replayers -> Answers]
      /\ sent \in [Replayers -> BOOLEAN]
  BY <1>1 DEF Init
<1>4. /\ queued \subseteq OpIds /\ nextOp \in 1..(MaxOps + 1)
      /\ shown \subseteq Items /\ acked \subseteq Items /\ live \subseteq Items
      /\ abandoned \subseteq OpIds /\ retrying \subseteq OpIds /\ discarding \subseteq OpIds
      /\ crashes \in 0..MaxCrashes
  BY <1>1 DEF Init
<1>5. cooldown \in BOOLEAN
  BY DEF Init
<1> QED
  BY <1>2, <1>3, <1>4, <1>5 DEF TypeOK

LEMMA EnqueueTypeOK ==
    ASSUME TypeOK, NEW k, NEW i \in Items, NEW d \in OpIds \cup {NoOp},
           NEW c \in SUBSET OpIds, Enqueue(k, i, d, c),
           shown' \subseteq Items, abandoned' \subseteq OpIds
    PROVE  TypeOK'
<1>1. nextOp \in OpIds /\ nextOp + 1 \in 1..(MaxOps + 1) /\ k \in AllKinds
  BY ReplayAssumption DEF Enqueue, TypeOK, OpIds
<1>2. /\ queued' \subseteq OpIds /\ kind' \in [OpIds -> AllKinds]
      /\ item' \in [OpIds -> Items \cup {NoItem}]
      /\ dep' \in [OpIds -> OpIds \cup {NoOp}]
      /\ captured' \in [OpIds -> SUBSET OpIds]
      /\ nextOp' \in 1..(MaxOps + 1)
  BY <1>1 DEF Enqueue, TypeOK
<1> QED
  BY <1>2 DEF Enqueue, TypeOK, replayVars, providerVars, uiVars
\* Every item of a task operation is a task, of a list operation a list.
LEMMA UserEditsTypeOK == ASSUME TypeOK, UserEdits PROVE TypeOK'
<1> USE DEF Items
<1>1. ASSUME NEW l \in Lists, UserCreateList(l) PROVE TypeOK'
  <2>1. LatestListOp(l) \in OpIds \cup {NoOp}
    BY LatestType
  <2>2. shown' \subseteq Items /\ abandoned' \subseteq OpIds
    BY <1>1 DEF UserCreateList, TypeOK
  <2> QED BY <1>1, <2>1, <2>2, EnqueueTypeOK DEF UserCreateList
<1>2. ASSUME NEW l \in Lists, UserClearCompleted(l) PROVE TypeOK'
  <2>1. {o \in queued : TouchesList(o, l)} \in SUBSET OpIds
    BY DEF TypeOK
  <2> QED BY <1>2, <2>1, EnqueueTypeOK DEF UserClearCompleted, TypeOK
<1>3. ASSUME NEW l \in Lists, UserRenameList(l) PROVE TypeOK'
  <2>1. LatestListOp(l) \in OpIds \cup {NoOp}
    BY LatestType
  <2>2. shown' \subseteq Items /\ abandoned' \subseteq OpIds
    BY <1>3 DEF UserRenameList, TypeOK
  <2> QED BY <1>3, <2>1, <2>2, EnqueueTypeOK DEF UserRenameList
<1>4. ASSUME NEW l \in Lists, UserRemoveList(l) PROVE TypeOK'
  <2>1. {o \in queued : TouchesList(o, l)} \in SUBSET OpIds
    BY DEF TypeOK
  <2> QED BY <1>4, <2>1, LatestType, EnqueueTypeOK DEF UserRemoveList, TypeOK
<1>5. ASSUME NEW t \in Tasks, UserCreateTask(t) PROVE TypeOK'
  <2>1. shown' \subseteq Items /\ abandoned' \subseteq OpIds
    BY <1>5 DEF UserCreateTask, TypeOK
  <2>2. CASE ParentOf[t] = NoItem
    BY <1>5, <2>1, <2>2, EnqueueTypeOK DEF UserCreateTask
  <2>3. CASE ParentOf[t] # NoItem
    <3> USE <1>5, <2>3 DEF UserCreateTask
    <3>1. /\ nextOp \in OpIds /\ nextOp + 1 \in OpIds /\ nextOp + 2 \in 1..(MaxOps + 1)
          /\ {"createTask", "move"} \subseteq AllKinds
      BY ReplayAssumption DEF TypeOK, OpIds, AllKinds, TaskKinds
    <3>2. PendingCreate(ParentOf[t]) \in OpIds \cup {NoOp}
      BY LatestType DEF TypeOK
    <3>3. queued' \subseteq OpIds /\ nextOp' \in 1..(MaxOps + 1)
      <4>1. queued' = queued \cup {nextOp, nextOp + 1} /\ nextOp' = nextOp + 2
        OBVIOUS
      <4>2. queued \subseteq OpIds
        BY DEF TypeOK
      <4> QED BY <3>1, <4>1, <4>2
    <3>6. item' \in [OpIds -> Items \cup {NoItem}]
      <4>1. item' = [[item EXCEPT ![nextOp] = t] EXCEPT ![nextOp + 1] = t]
        OBVIOUS
      <4>2. item \in [OpIds -> Items \cup {NoItem}] /\ t \in Items
        BY DEF TypeOK
      <4> QED BY <3>1, <4>1, <4>2
    <3>7. dep' \in [OpIds -> OpIds \cup {NoOp}]
      <4>1. dep' = [[dep EXCEPT ![nextOp] = PendingCreate(ParentOf[t])]
                      EXCEPT ![nextOp + 1] = nextOp]
        OBVIOUS
      <4>2. dep \in [OpIds -> OpIds \cup {NoOp}]
        BY DEF TypeOK
      <4> QED BY <3>1, <3>2, <4>1, <4>2
    <3>5. kind' \in [OpIds -> AllKinds]
      <4>1. kind' = [[kind EXCEPT ![nextOp] = "createTask"] EXCEPT ![nextOp + 1] = "move"]
        OBVIOUS
      <4>2. kind \in [OpIds -> AllKinds]
        BY DEF TypeOK
      <4> QED BY <3>1, <4>1, <4>2
    <3>4. UNCHANGED <<captured, state, timing, attempted, acked, providerVars, replayVars,
                      cooldown, uiVars, crashes>>
      OBVIOUS
    <3> QED BY <2>1, <3>3, <3>4, <3>5, <3>6, <3>7 DEF TypeOK, providerVars, replayVars, uiVars
  <2> QED BY <2>2, <2>3
<1>6. ASSUME NEW t \in Tasks, UserEditTask(t) PROVE TypeOK'
  <2>1. LatestTaskOp(t) \in OpIds \cup {NoOp}
    BY LatestType
  <2>2. shown' \subseteq Items /\ abandoned' \subseteq OpIds
    BY <1>6 DEF UserEditTask, TypeOK
  <2> QED BY <1>6, <2>1, <2>2, EnqueueTypeOK DEF UserEditTask
<1>7. ASSUME NEW t \in Tasks, UserMoveTask(t) PROVE TypeOK'
  <2>1. LatestTaskOp(t) \in OpIds \cup {NoOp}
    BY LatestType
  <2>2. shown' \subseteq Items /\ abandoned' \subseteq OpIds
    BY <1>7 DEF UserMoveTask, TypeOK
  <2> QED BY <1>7, <2>1, <2>2, EnqueueTypeOK DEF UserMoveTask
<1>8. ASSUME NEW t \in Tasks, UserDeleteTask(t) PROVE TypeOK'
  <2>1. CASE Unsent(PendingCreate(t))
    <3>1. CancelledWith(PendingCreate(t)) \subseteq queued
      BY DEF CancelledWith, Closure
    <3>2. queued' \subseteq OpIds /\ abandoned' \subseteq OpIds /\ shown' \subseteq Items
      BY <1>8, <2>1, <3>1 DEF UserDeleteTask, TypeOK
    <3> QED BY <1>8, <2>1, <3>2
            DEF UserDeleteTask, TypeOK, opVars, providerVars, replayVars, uiVars
  <2>2. CASE ~Unsent(PendingCreate(t))
    <3>1. LatestTaskOp(t) \in OpIds \cup {NoOp}
      BY LatestType
    <3>2. shown' \subseteq Items /\ abandoned' \subseteq OpIds
      BY <1>8, <2>2 DEF UserDeleteTask, TypeOK
    <3> QED BY <1>8, <2>2, <3>1, <3>2, EnqueueTypeOK DEF UserDeleteTask
  <2> QED BY <2>1, <2>2
<1> QED BY <1>1, <1>2, <1>3, <1>4, <1>5, <1>6, <1>7, <1>8 DEF UserEdits

LEMMA RunEndsTypeOK ==
    ASSUME TypeOK, NEW r \in Replayers, RunEnds(r)
    PROVE  /\ phase' \in [Replayers -> {"idle", "scan", "read", "checking", "sent", "answered"}]
           /\ todo' \in [Replayers -> SUBSET OpIds] /\ pos' \in [Replayers -> 0..MaxOps]
           /\ progress' \in [Replayers -> BOOLEAN] /\ cur' \in [Replayers -> OpIds \cup {NoOp}]
           /\ seen' \in [Replayers -> OpStates] /\ known' \in [Replayers -> SUBSET Items]
           /\ answer' \in [Replayers -> Answers] /\ sent' \in [Replayers -> BOOLEAN]
<1>1. /\ "pending" \in OpStates /\ "ok" \in Answers /\ 0 \in 0..MaxOps /\ FALSE \in BOOLEAN
      /\ "idle" \in {"idle", "scan", "read", "checking", "sent", "answered"}
  BY ReplayAssumption DEF OpStates, Answers
<1> QED BY <1>1 DEF TypeOK, RunEnds

LEMMA SkipTypeOK ==
    ASSUME TypeOK, NEW r \in Replayers, Skip(r)
    PROVE  /\ phase' \in [Replayers -> {"idle", "scan", "read", "checking", "sent", "answered"}]
           /\ todo' \in [Replayers -> SUBSET OpIds] /\ pos' \in [Replayers -> 0..MaxOps]
           /\ progress' \in [Replayers -> BOOLEAN] /\ cur' \in [Replayers -> OpIds \cup {NoOp}]
           /\ seen' \in [Replayers -> OpStates] /\ known' \in [Replayers -> SUBSET Items]
           /\ answer' \in [Replayers -> Answers] /\ sent' \in [Replayers -> BOOLEAN]
<1>1. /\ "pending" \in OpStates /\ "ok" \in Answers /\ FALSE \in BOOLEAN
      /\ "scan" \in {"idle", "scan", "read", "checking", "sent", "answered"}
  BY DEF OpStates, Answers
<1> QED BY <1>1 DEF TypeOK, Skip

LEMMA WriteRowTypeOK ==
    ASSUME TypeOK, NEW o \in OpIds, NEW st \in OpStates, NEW tm \in {"due", "later", "never"},
           NEW att \in BOOLEAN, WriteRow(o, st, tm, att)
    PROVE  /\ state' \in [OpIds -> OpStates] /\ timing' \in [OpIds -> {"due", "later", "never"}]
           /\ attempted' \in [OpIds -> BOOLEAN]
<1>1. state' \in [OpIds -> OpStates]
  BY DEF TypeOK, WriteRow
<1>2. timing' \in [OpIds -> {"due", "later", "never"}]
  BY DEF TypeOK, WriteRow
<1>3. attempted' \in [OpIds -> BOOLEAN]
  BY DEF TypeOK, WriteRow
<1> QED BY <1>1, <1>2, <1>3

LEMMA EffectTypeOK ==
    ASSUME TypeOK, NEW o \in OpIds, item[o] \in Items, Effect(o)
    PROVE  execCount' \in [OpIds -> 0..2] /\ live' \subseteq Items
<1>1. execCount' \in [OpIds -> 0..2]
  BY DEF Effect, TypeOK
<1>2. live' \subseteq Items
  BY DEF Effect, TypeOK
<1> QED BY <1>1, <1>2
------------------------------------------------------------------------------
(* Identifiers                                                              *)

Busy(r) == phase[r] \in {"checking", "sent", "answered"}
Issued == 1..(nextOp - 1)

\* Everything names operations that were issued, in the order of their
\* numbers; a replayer that is not at an operation holds none.
IdsInv ==
    /\ queued \cup abandoned \cup retrying \cup discarding \subseteq Issued
    /\ \A r \in Replayers : todo[r] \subseteq Issued /\ cur[r] \in Issued \cup {NoOp}
    /\ \A r \in Replayers : phase[r] \in {"idle", "scan"} <=> cur[r] = NoOp
    /\ \A r \in Replayers : phase[r] = "idle" => todo[r] = {}
    /\ \A o \in OpIds \ Issued :
          /\ item[o] = NoItem /\ timing[o] = "due" /\ state[o] = "pending"
          /\ execCount[o] = 0
    /\ \A o \in Issued :
          /\ item[o] \in IF kind[o] \in TaskKinds THEN Tasks ELSE Lists
          /\ dep[o] \in 0..(o - 1)

\* A replayer past its scan is at an operation that was issued.
LEMMA CurIssued ==
    ASSUME TypeOK, IdsInv, NEW r \in Replayers, phase[r] \notin {"idle", "scan"}
    PROVE  cur[r] \in OpIds /\ cur[r] \in Issued /\ item[cur[r]] \in Items
<1>1. cur[r] \in Issued
  BY DEF IdsInv
<1>2. cur[r] \in OpIds
  BY <1>1 DEF TypeOK, Issued, OpIds, NoOp
<1> QED BY <1>1, <1>2 DEF IdsInv, Items

LEMMA StartTypeOK == ASSUME TypeOK, NEW r \in Replayers, StartReplay(r) PROVE TypeOK'
<1>1. phase' \in [Replayers -> {"idle", "scan", "read", "checking", "sent", "answered"}]
  BY DEF StartReplay, TypeOK
<1>2. todo' \in [Replayers -> SUBSET OpIds]
  BY DEF StartReplay, TypeOK
<1>3. pos' \in [Replayers -> 0..MaxOps] /\ progress' \in [Replayers -> BOOLEAN]
  <2>1. 0 \in 0..MaxOps
    BY ReplayAssumption
  <2> QED BY <2>1 DEF StartReplay, TypeOK
<1> QED BY <1>1, <1>2, <1>3 DEF StartReplay, TypeOK, opVars, localVars, providerVars, uiVars

LEMMA NextOfPassTypeOK == ASSUME TypeOK, NEW r \in Replayers, NextOfPass(r) PROVE TypeOK'
<1> DEFINE rest == {o \in todo[r] : o > pos[r]}
<1>1. rest \in SUBSET OpIds
  BY DEF TypeOK
<1>2. rest # {} => MinOf(rest) \in OpIds
  <2> HIDE DEF rest
  <2> QED BY <1>1, MinOfSet
<1>3. OpIds \subseteq 0..MaxOps /\ 0 \in 0..MaxOps
  BY ReplayAssumption DEF OpIds
<1>4. UNCHANGED <<queued, opVars, state, timing, attempted, localVars, providerVars,
                  abandoned, cooldown, uiVars, crashes>>
  BY DEF NextOfPass
<1>5. CASE /\ rest = {} /\ progress[r] /\ todo[r] # {}
           /\ pos' = [pos EXCEPT ![r] = 0]
           /\ progress' = [progress EXCEPT ![r] = FALSE]
           /\ UNCHANGED <<phase, todo, cur, seen, fresh, known, answer, sent>>
  <2>1. pos' \in [Replayers -> 0..MaxOps] /\ progress' \in [Replayers -> BOOLEAN]
    BY <1>3, <1>5 DEF TypeOK
  <2> QED BY <1>4, <1>5, <2>1 DEF TypeOK, opVars, localVars, providerVars, uiVars
<1>6. CASE RunEnds(r) /\ fresh' = [fresh EXCEPT ![r] = FALSE]
  <2>1. fresh' \in [Replayers -> BOOLEAN]
    BY <1>6 DEF TypeOK
  <2> QED BY <1>4, <1>6, <2>1, RunEndsTypeOK
          DEF TypeOK, opVars, localVars, providerVars, uiVars
<1>7. CASE /\ rest # {}
           /\ todo' = [todo EXCEPT ![r] = @ \ {MinOf(rest)}]
           /\ pos' = [pos EXCEPT ![r] = MinOf(rest)]
           /\ UNCHANGED <<phase, progress, cur, seen, fresh, known, answer, sent>>
  <2>1. pos' \in [Replayers -> 0..MaxOps]
    BY <1>2, <1>3, <1>7 DEF TypeOK
  <2>2. todo' \in [Replayers -> SUBSET OpIds]
    BY <1>7 DEF TypeOK
  <2> QED BY <1>4, <1>7, <2>1, <2>2 DEF TypeOK, opVars, localVars, providerVars, uiVars
<1>8. CASE /\ rest # {}
           /\ phase' = [phase EXCEPT ![r] = "read"]
           /\ cur' = [cur EXCEPT ![r] = MinOf(rest)]
           /\ seen' = [seen EXCEPT ![r] = state[MinOf(rest)]]
           /\ fresh' = [fresh EXCEPT ![r] = TRUE]
           /\ known' = [known EXCEPT ![r] = acked]
           /\ pos' = [pos EXCEPT ![r] = MinOf(rest)]
           /\ UNCHANGED <<todo, progress, answer, sent>>
  <2> HIDE DEF rest
  <2>1. pos' \in [Replayers -> 0..MaxOps]
    BY <1>2, <1>3, <1>8 DEF TypeOK
  <2>2. cur' \in [Replayers -> OpIds \cup {NoOp}]
    BY <1>2, <1>8 DEF TypeOK
  <2>3. phase' \in [Replayers -> {"idle", "scan", "read", "checking", "sent", "answered"}]
    BY <1>8 DEF TypeOK
  <2>4. seen' \in [Replayers -> OpStates]
    BY <1>2, <1>8 DEF TypeOK
  <2>5. fresh' \in [Replayers -> BOOLEAN] /\ known' \in [Replayers -> SUBSET Items]
    BY <1>8 DEF TypeOK
  <2> QED BY <1>4, <1>8, <2>1, <2>2, <2>3, <2>4, <2>5
          DEF TypeOK, opVars, localVars, providerVars, uiVars
<1> QED BY <1>5, <1>6, <1>7, <1>8 DEF NextOfPass

LEMMA OutdateTypeOK ==
    ASSUME TypeOK, NEW S, Outdate(S) PROVE fresh' \in [Replayers -> BOOLEAN]
<1>1. \A r \in Replayers : (fresh[r] /\ cur[r] \notin S) \in BOOLEAN
  OBVIOUS
<1> QED BY <1>1 DEF Outdate

LEMMA AdmitTypeOK ==
    ASSUME TypeOK, IdsInv, NEW r \in Replayers, Admit(r) PROVE TypeOK'
<1> DEFINE o == cur[r]
<1>1. o \in OpIds
  BY CurIssued DEF Admit
<1>2. UNCHANGED <<queued, opVars, localVars, providerVars, abandoned,
                  cooldown, uiVars, crashes>>
  BY DEF Admit
<1>3. CASE /\ Skip(r) /\ fresh' = [fresh EXCEPT ![r] = FALSE]
           /\ UNCHANGED <<state, timing, attempted>>
  <2>1. fresh' \in [Replayers -> BOOLEAN]
    BY <1>3 DEF TypeOK
  <2>2. UNCHANGED <<todo, pos, progress>>
    BY <1>3 DEF Skip
  <2> QED BY <1>2, <1>3, <2>1, <2>2, SkipTypeOK
          DEF TypeOK, opVars, localVars, providerVars, uiVars
<1>4. CASE /\ WriteRow(o, "recovery_required", "never",
                       attempted[o] \/ seen[r] = "in_progress")
           /\ Handle(r)
           /\ phase' = [phase EXCEPT ![r] = "scan"]
           /\ cur' = [cur EXCEPT ![r] = NoOp]
           /\ seen' = [seen EXCEPT ![r] = "pending"]
           /\ known' = [known EXCEPT ![r] = {}]
           /\ Outdate({o})
           /\ UNCHANGED <<pos, answer, sent>>
  <2>0. "recovery_required" \in OpStates /\ "pending" \in OpStates
    BY DEF OpStates
  <2>1. /\ state' \in [OpIds -> OpStates] /\ timing' \in [OpIds -> {"due", "later", "never"}]
        /\ attempted' \in [OpIds -> BOOLEAN]
    <3>1. (attempted[o] \/ seen[r] = "in_progress") \in BOOLEAN
      OBVIOUS
    <3> HIDE DEF o
    <3> QED BY <1>1, <1>4, <2>0, <3>1, WriteRowTypeOK
  <2>2. fresh' \in [Replayers -> BOOLEAN]
    BY <1>4, OutdateTypeOK
  <2>3. todo' \in [Replayers -> SUBSET OpIds] /\ progress' \in [Replayers -> BOOLEAN]
    BY <1>4 DEF Handle, TypeOK
  <2>4. phase' \in [Replayers -> {"idle", "scan", "read", "checking", "sent", "answered"}]
    BY <1>4 DEF TypeOK
  <2>5. cur' \in [Replayers -> OpIds \cup {NoOp}] /\ seen' \in [Replayers -> OpStates]
    BY <1>4, <2>0 DEF TypeOK
  <2>6. known' \in [Replayers -> SUBSET Items]
    BY <1>4 DEF TypeOK
  <2> QED BY <1>2, <1>4, <2>1, <2>2, <2>3, <2>4, <2>5, <2>6
          DEF TypeOK, opVars, localVars, providerVars, uiVars
<1>5. CASE /\ state' = IF kind[o] \in Creations
                       THEN [state EXCEPT ![o] = "in_progress"] ELSE state
           /\ Handle(r)
           /\ phase' = [phase EXCEPT ![r] = "checking"]
           /\ UNCHANGED <<timing, attempted, pos, cur, seen, fresh, known, answer, sent>>
  <2>1. state' \in [OpIds -> OpStates]
    BY <1>5 DEF TypeOK, OpStates
  <2>2. todo' \in [Replayers -> SUBSET OpIds] /\ progress' \in [Replayers -> BOOLEAN]
    BY <1>5 DEF Handle, TypeOK
  <2>3. phase' \in [Replayers -> {"idle", "scan", "read", "checking", "sent", "answered"}]
    BY <1>5 DEF TypeOK
  <2> QED BY <1>2, <1>5, <2>1, <2>2, <2>3
          DEF TypeOK, opVars, localVars, providerVars, uiVars
<1> QED BY <1>3, <1>4, <1>5 DEF Admit

LEMMA CheckTypeOK ==
    ASSUME TypeOK, IdsInv, NEW r \in Replayers,
           \/ CheckProvider(r) \/ FindDone(r) \/ BlockUnknownCompletion(r)
           \/ BarrierAgain(r) \/ Send(r)
    PROVE  TypeOK'
<1>0. /\ "answered" \in {"idle", "scan", "read", "checking", "sent", "answered"}
      /\ "sent" \in {"idle", "scan", "read", "checking", "sent", "answered"}
      /\ "ok" \in Answers /\ "recovery_required" \in OpStates /\ "in_progress" \in OpStates
  BY DEF Answers, OpStates
<1>1. cur[r] \in OpIds
  BY CurIssued DEF CheckProvider, FindDone, BlockUnknownCompletion, BarrierAgain, Send
<1>2. CASE CheckProvider(r)
  <2>1. answer' \in [Replayers -> Answers]
    BY <1>2 DEF CheckProvider, TypeOK
  <2>2. phase' \in [Replayers -> {"idle", "scan", "read", "checking", "sent", "answered"}]
    BY <1>0, <1>2 DEF CheckProvider, TypeOK
  <2>3. UNCHANGED <<queued, opVars, state, timing, attempted, localVars, providerVars,
                   abandoned, todo, pos, progress, cur, seen, fresh, known, sent,
                   cooldown, uiVars, crashes>>
    BY <1>2 DEF CheckProvider
  <2> QED BY <2>1, <2>2, <2>3 DEF TypeOK, opVars, localVars, providerVars, uiVars
<1>3. CASE FindDone(r)
  <2>1. answer' \in [Replayers -> Answers]
    BY <1>0, <1>3 DEF FindDone, TypeOK
  <2>2. phase' \in [Replayers -> {"idle", "scan", "read", "checking", "sent", "answered"}]
    BY <1>0, <1>3 DEF FindDone, TypeOK
  <2>3. UNCHANGED <<queued, opVars, state, timing, attempted, localVars, providerVars,
                   abandoned, todo, pos, progress, cur, seen, fresh, known, sent,
                   cooldown, uiVars, crashes>>
    BY <1>3 DEF FindDone
  <2> QED BY <2>1, <2>2, <2>3 DEF TypeOK, opVars, localVars, providerVars, uiVars
<1>4. CASE BlockUnknownCompletion(r)
  <2>1. /\ state' \in [OpIds -> OpStates] /\ timing' \in [OpIds -> {"due", "later", "never"}]
        /\ attempted' \in [OpIds -> BOOLEAN]
    <3>1. attempted[cur[r]] \in BOOLEAN
      BY <1>1 DEF TypeOK
    <3> QED BY <1>0, <1>1, <1>4, <3>1, WriteRowTypeOK DEF BlockUnknownCompletion
  <2>2. fresh' \in [Replayers -> BOOLEAN]
    BY <1>4, OutdateTypeOK DEF BlockUnknownCompletion
  <2>3. Skip(r) /\ UNCHANGED <<queued, opVars, localVars, providerVars, abandoned,
                               cooldown, uiVars, crashes>>
    BY <1>4 DEF BlockUnknownCompletion
  <2> QED BY <2>1, <2>2, <2>3, SkipTypeOK
          DEF TypeOK, opVars, localVars, providerVars, uiVars
<1>5. CASE BarrierAgain(r)
  <2>1. fresh' \in [Replayers -> BOOLEAN]
    BY <1>5 DEF BarrierAgain, TypeOK
  <2>2. Skip(r) /\ UNCHANGED <<queued, opVars, state, timing, attempted, localVars,
                               providerVars, abandoned, cooldown, uiVars, crashes>>
    BY <1>5 DEF BarrierAgain
  <2> QED BY <2>1, <2>2, SkipTypeOK DEF TypeOK, opVars, localVars, providerVars, uiVars
<1>6. CASE Send(r)
  <2>1. state' \in [OpIds -> OpStates]
    BY <1>0, <1>6 DEF Send, TypeOK
  <2>2. phase' \in [Replayers -> {"idle", "scan", "read", "checking", "sent", "answered"}]
    BY <1>0, <1>6 DEF Send, TypeOK
  <2>3. sent' \in [Replayers -> BOOLEAN]
    BY <1>6 DEF Send, TypeOK
  <2>4. UNCHANGED <<queued, opVars, timing, attempted, localVars, providerVars,
                   abandoned, todo, pos, progress, cur, seen, fresh, known, answer,
                   cooldown, uiVars, crashes>>
    BY <1>6 DEF Send
  <2> QED BY <2>1, <2>2, <2>3, <2>4 DEF TypeOK, opVars, localVars, providerVars, uiVars
<1> QED BY <1>2, <1>3, <1>4, <1>5, <1>6

LEMMA AnswerTypeOK ==
    ASSUME TypeOK, IdsInv, NEW r \in Replayers,
           AnswerOk(r) \/ AnswerUnknown(r) \/ AnswerRefused(r)
    PROVE  TypeOK'
<1>1. PICK a \in Answers : AnswerTo(r, a)
  BY ReplayAssumption DEF AnswerOk, AnswerUnknown, AnswerRefused, Answers
<1>2. execCount' \in [OpIds -> 0..2] /\ live' \subseteq Items
  <2>1. CASE UNCHANGED providerVars
    BY <2>1 DEF TypeOK, providerVars
  <2>2. CASE Effect(cur[r])
    BY <1>1, <2>2, CurIssued, EffectTypeOK DEF AnswerTo
  <2> QED BY <2>1, <2>2 DEF AnswerOk, AnswerUnknown, AnswerRefused, CarryOut
<1>3. answer' \in [Replayers -> Answers]
  BY <1>1 DEF AnswerTo, TypeOK
<1>4. phase' \in [Replayers -> {"idle", "scan", "read", "checking", "sent", "answered"}]
  BY <1>1 DEF AnswerTo, TypeOK
<1>5. UNCHANGED <<queued, opVars, state, timing, attempted, localVars, abandoned,
                  todo, pos, progress, cur, seen, fresh, known, sent, cooldown,
                  uiVars, crashes>>
  BY <1>1 DEF AnswerTo
<1> QED BY <1>2, <1>3, <1>4, <1>5 DEF TypeOK, opVars, localVars, uiVars

LEMMA AcknowledgeTypeOK ==
    ASSUME TypeOK, NEW o \in OpIds, item[o] \in Items, Acknowledge(o)
    PROVE  /\ queued' \subseteq OpIds /\ acked' \subseteq Items /\ shown' \subseteq Items
           /\ state' \in [OpIds -> OpStates] /\ timing' \in [OpIds -> {"due", "later", "never"}]
           /\ fresh' \in [Replayers -> BOOLEAN]
<1>1. queued' \subseteq OpIds /\ acked' \subseteq Items /\ shown' \subseteq Items
  BY DEF Acknowledge, TypeOK
<1>2. state' \in [OpIds -> OpStates]
  BY DEF Acknowledge, TypeOK, OpStates
<1>3. timing' \in [OpIds -> {"due", "later", "never"}]
  BY DEF Acknowledge, TypeOK
<1>4. fresh' \in [Replayers -> BOOLEAN]
  BY OutdateTypeOK DEF Acknowledge
<1> QED BY <1>1, <1>2, <1>3, <1>4

LEMMA RecordTypeOK ==
    ASSUME TypeOK, IdsInv, NEW r \in Replayers, Record(r) PROVE TypeOK'
<1> DEFINE o == cur[r]
<1>1. o \in OpIds /\ item[o] \in Items
  BY CurIssued
     DEF Record, RecordOk, RecordMissingDelete, RecordUnknownCreation, RecordRetry, RecordBlock
<1>2. CASE RecordOk(r)
  <2>1. /\ queued' \subseteq OpIds /\ acked' \subseteq Items /\ shown' \subseteq Items
        /\ state' \in [OpIds -> OpStates] /\ timing' \in [OpIds -> {"due", "later", "never"}]
        /\ fresh' \in [Replayers -> BOOLEAN]
    <3>1. CASE UNCHANGED <<queued, state, timing, localVars, fresh>>
      BY <3>1 DEF TypeOK, localVars
    <3>2. CASE Acknowledge(o)
      BY <1>1, <3>2, AcknowledgeTypeOK
    <3> QED BY <1>2, <3>1, <3>2 DEF RecordOk
  <2>2. Skip(r) /\ UNCHANGED <<opVars, attempted, providerVars, abandoned, cooldown,
                               uiVars, crashes>>
    BY <1>2 DEF RecordOk
  <2> QED BY <2>1, <2>2, SkipTypeOK DEF TypeOK, opVars, providerVars, uiVars
<1>3. CASE RecordMissingDelete(r)
  <2>1. queued' \subseteq OpIds
    BY <1>3 DEF RecordMissingDelete, TypeOK
  <2>2. Skip(r) /\ UNCHANGED <<opVars, state, timing, attempted, localVars, providerVars,
                               abandoned, fresh, cooldown, uiVars, crashes>>
    BY <1>3 DEF RecordMissingDelete
  <2> QED BY <2>1, <2>2, SkipTypeOK DEF TypeOK, opVars, localVars, providerVars, uiVars
<1>4. CASE \/ RecordUnknownCreation(r) \/ RecordRetry(r) \/ RecordBlock(r)
  <2>1. PICK st \in OpStates, tm \in {"due", "later", "never"} : WriteRow(o, st, tm, TRUE)
    <3>1. state[o] \in OpStates
      BY <1>1 DEF TypeOK
    <3>2. {"recovery_required", "retry", "failed"} \subseteq OpStates
      BY DEF OpStates
    <3> QED BY <1>4, <3>1, <3>2 DEF RecordUnknownCreation, RecordRetry, RecordBlock
  <2>2. /\ state' \in [OpIds -> OpStates] /\ timing' \in [OpIds -> {"due", "later", "never"}]
        /\ attempted' \in [OpIds -> BOOLEAN]
    <3> HIDE DEF o
    <3> QED BY <1>1, <2>1, WriteRowTypeOK
  <2>3. fresh' \in [Replayers -> BOOLEAN]
    BY <1>4, OutdateTypeOK DEF RecordUnknownCreation, RecordRetry, RecordBlock
  <2>4. /\ RunEnds(r) \/ Skip(r)
        /\ cooldown' \in {TRUE, cooldown}
        /\ UNCHANGED <<queued, opVars, localVars, providerVars, abandoned, uiVars, crashes>>
    BY <1>4 DEF RecordUnknownCreation, RecordRetry, RecordBlock
  <2>5. cooldown' \in BOOLEAN
    BY <2>4 DEF TypeOK
  <2> QED BY <2>2, <2>3, <2>4, <2>5, RunEndsTypeOK, SkipTypeOK
          DEF TypeOK, opVars, localVars, providerVars, uiVars
<1> QED BY <1>2, <1>3, <1>4 DEF Record

LEMMA CrashTypeOK ==
    ASSUME TypeOK, IdsInv, NEW r \in Replayers, Crash(r) PROVE TypeOK'
<1>1. execCount' \in [OpIds -> 0..2] /\ live' \subseteq Items
  <2>1. CASE UNCHANGED providerVars
    BY <2>1 DEF TypeOK, providerVars
  <2>2. CASE phase[r] = "sent" /\ Effect(cur[r])
    BY <2>2, CurIssued, EffectTypeOK
  <2> QED BY <2>1, <2>2 DEF Crash, CarryOut
<1>2. fresh' \in [Replayers -> BOOLEAN]
  BY DEF Crash, TypeOK
<1>3. RunEnds(r)
  BY DEF Crash
<1>4. crashes' \in 0..MaxCrashes
  BY ReplayAssumption DEF Crash, TypeOK
<1>5. retrying' \subseteq OpIds
  BY DEF Crash, TypeOK
<1>6. UNCHANGED <<queued, opVars, state, timing, attempted, localVars, abandoned,
                  cooldown, discarding>>
  BY DEF Crash
<1> QED BY <1>1, <1>2, <1>3, <1>4, <1>5, <1>6, RunEndsTypeOK DEF TypeOK, opVars, localVars

LEMMA ResolutionTypeOK == ASSUME TypeOK, Resolution PROVE TypeOK'
<1> USE DEF opVars, localVars, providerVars, replayVars, uiVars
<1>1. ASSUME NEW o \in OpIds, RetryCheck(o) PROVE TypeOK'
  BY <1>1 DEF RetryCheck, TypeOK
<1>2. ASSUME NEW o \in OpIds, RetryWrite(o) PROVE TypeOK'
  <2>1. timing' \in [OpIds -> {"due", "later", "never"}]
    BY <1>2 DEF RetryWrite, TypeOK
  <2>2. fresh' \in [Replayers -> BOOLEAN]
    <3>1. CASE Outdate({o})
      BY <3>1, OutdateTypeOK
    <3>2. CASE UNCHANGED fresh
      BY <3>2 DEF TypeOK
    <3> QED BY <1>2, <3>1, <3>2 DEF RetryWrite
  <2> QED BY <1>2, <2>1, <2>2 DEF RetryWrite, TypeOK
<1>3. ASSUME NEW o \in OpIds, DiscardBegin(o) PROVE TypeOK'
  <2>1. DiscardedWith(o) \subseteq queued \cup {o}
    BY DEF DiscardedWith, CreationClosure, ListCreationClosure, DependentClosure, Closure
  <2>2. discarding' \subseteq OpIds
    BY <1>3, <2>1 DEF DiscardBegin, TypeOK
  <2> QED BY <1>3, <2>2 DEF DiscardBegin, TypeOK
<1>4. CASE DiscardFails
  BY <1>4 DEF DiscardFails, TypeOK
<1>5. CASE DiscardCommit
  <2>1. PICK gone : /\ queued' \subseteq queued \ gone \/ queued' = queued
                    /\ abandoned' = abandoned \cup (gone \cap queued) \/ abandoned' = abandoned
                    /\ shown' = ShownAfter(gone) \/ shown' = shown
    BY <1>5 DEF DiscardCommit
  <2>2. ShownAfter(gone) \subseteq shown \cup live
    BY DEF ShownAfter
  <2>3. queued' \subseteq OpIds /\ abandoned' \subseteq OpIds /\ shown' \subseteq Items
    BY <2>1, <2>2 DEF TypeOK
  <2> QED BY <1>5, <2>3 DEF DiscardCommit, TypeOK
<1> QED BY <1>1, <1>2, <1>3, <1>4, <1>5 DEF Resolution

LEMMA NextTypeOK == ASSUME TypeOK, IdsInv, [Next]_vars PROVE TypeOK'
<1>1. CASE UserEdits
  BY <1>1, UserEditsTypeOK
<1>2. ASSUME NEW r \in Replayers, Replay(r) \/ Crash(r) PROVE TypeOK'
  BY <1>2, StartTypeOK, NextOfPassTypeOK, AdmitTypeOK, CheckTypeOK, AnswerTypeOK,
     RecordTypeOK, CrashTypeOK DEF Replay
<1>3. CASE Resolution
  BY <1>3, ResolutionTypeOK
<1>4. ASSUME NEW o \in OpIds, AttemptBecomesDue(o) PROVE TypeOK'
  BY <1>4 DEF AttemptBecomesDue, TypeOK, opVars, localVars, providerVars, replayVars, uiVars
<1>5. CASE CooldownEnds
  BY <1>5 DEF CooldownEnds, TypeOK, opVars, localVars, providerVars, replayVars, uiVars
<1>6. ASSUME NEW t \in Tasks, RemoteDelete(t) PROVE TypeOK'
  BY <1>6 DEF RemoteDelete, TypeOK, opVars, localVars, providerVars, replayVars, uiVars
<1>7. CASE UNCHANGED vars
  BY <1>7 DEF TypeOK, vars, opVars, localVars, providerVars, replayVars, uiVars
<1> QED BY <1>1, <1>2, <1>3, <1>4, <1>5, <1>6, <1>7 DEF Next
------------------------------------------------------------------------------
(* What the user's edits issue                                              *)

\* Two operations on one task, or two on one list: they are sent in order.
SameLine(o, p) ==
    /\ item[o] = item[p]
    /\ \/ kind[o] \in TaskKinds /\ kind[p] \in TaskKinds
       \/ kind[o] \in ListKinds /\ kind[p] \in ListKinds

\* What a step leaves of the operations issued before it, and those it issues.
Kept ==
    /\ nextOp' \in Int /\ nextOp <= nextOp'
    /\ \A o \in Issued : /\ kind'[o] = kind[o] /\ item'[o] = item[o]
                         /\ dep'[o] = dep[o] /\ captured'[o] = captured[o]
    /\ \A o \in OpIds \ Issued' : item'[o] = item[o]
New == Issued' \ Issued

\* The queued operations on the same line before a new one.
Before(o) == {p \in queued' : p < o /\ SameLine(p, o)'}

\* What holds of a new operation: it waits for the last one before it on its
\* line, a creation names an item nobody used before, and a removal captures
\* what touches its list.
NewOp(o) ==
    /\ o \in OpIds
    /\ item'[o] \in IF kind'[o] \in TaskKinds THEN Tasks ELSE Lists
    /\ dep'[o] \in 0..(o - 1)
    /\ Before(o) = {} =>
          \/ dep'[o] = NoOp
          \/ kind'[o] = "createTask" /\ dep'[o] \in queued /\ kind[dep'[o]] = "createTask"
    /\ Before(o) # {} => dep'[o] \in Before(o) /\ \A p \in Before(o) : p <= dep'[o]
    /\ kind'[o] \in Barriers =>
          o = nextOp /\ captured'[o] = {p \in queued : TouchesList(p, item'[o])}
    /\ IF kind'[o] \in Creations
       THEN /\ item'[o] \notin KnownItems
            /\ \A p \in Issued' \ {o} : item'[p] = item'[o] => o < p
       ELSE \/ item'[o] \in shown
            \/ \E n \in New : n < o /\ kind'[n] \in Creations /\ item'[n] = item'[o]
    /\ item'[o] \in Tasks => ListOf[item'[o]] \in shown

Appends ==
    /\ UNCHANGED <<state, timing, attempted, acked, providerVars, abandoned, replayVars,
                   cooldown, uiVars, crashes>>
    /\ Kept
    /\ queued' = queued \cup New
    /\ \A o \in New : NewOp(o)
    /\ shown' \subseteq shown \cup {item'[o] : o \in {p \in New : kind'[p] \in Creations}}

\* One more row: what an edit has to show to have appended it.
LEMMA EnqueueAppends ==
    ASSUME TypeOK, IdsInv, NEW k \in AllKinds,
           NEW i \in IF k \in TaskKinds THEN Tasks ELSE Lists,
           NEW d \in 0..(nextOp - 1), NEW c \in SUBSET OpIds,
           Enqueue(k, i, d, c), UNCHANGED abandoned,
           LET P == {p \in queued : /\ item[p] = i
                                    /\ \/ kind[p] \in TaskKinds /\ k \in TaskKinds
                                       \/ kind[p] \in ListKinds /\ k \in ListKinds}
           IN  /\ P = {} => \/ d = NoOp
                            \/ k = "createTask" /\ d \in queued /\ kind[d] = "createTask"
               /\ P # {} => d \in P /\ \A p \in P : p <= d,
           k \in Barriers => c = {p \in queued : TouchesList(p, i)},
           i \in Tasks => ListOf[i] \in shown,
           IF k \in Creations
           THEN i \notin KnownItems /\ (\A p \in OpIds : item[p] # i) /\ shown' \subseteq shown \cup {i}
           ELSE i \in shown /\ shown' \subseteq shown
    PROVE  Appends
<1>0. PICK n \in OpIds : n = nextOp /\ nextOp' = n + 1
  BY ReplayAssumption DEF Enqueue, TypeOK, OpIds
<1>2. New = {n}
  <2>1. \A o \in Int : o \in New <=> o = n
    BY <1>0 DEF New, Issued, OpIds
  <2>2. New \subseteq Int
    BY <1>0 DEF New, Issued, OpIds
  <2>3. n \in Int
    BY <1>0 DEF OpIds
  <2> QED BY <2>1, <2>2, <2>3
<1>3. /\ kind'[n] = k /\ item'[n] = i /\ dep'[n] = d /\ captured'[n] = c
      /\ queued' = queued \cup {n}
      /\ \A o \in OpIds \ {n} : /\ kind'[o] = kind[o] /\ item'[o] = item[o]
                                     /\ dep'[o] = dep[o] /\ captured'[o] = captured[o]
  BY <1>0 DEF Enqueue, TypeOK
<1>4. Issued \subseteq OpIds \ {n} /\ Issued' \subseteq OpIds
  BY <1>0, ReplayAssumption DEF Issued, OpIds
<1>5. queued \subseteq Issued /\ \A p \in queued : p < n
  BY <1>0 DEF IdsInv, Issued, OpIds
<1>6. Kept
  <2>1. n \in Issued'
    BY <1>0 DEF Issued, OpIds
  <2> QED BY <1>0, <1>3, <1>4, <2>1 DEF Kept, OpIds
<1>7. Before(n) = {p \in queued : /\ item[p] = i
                                       /\ \/ kind[p] \in TaskKinds /\ k \in TaskKinds
                                          \/ kind[p] \in ListKinds /\ k \in ListKinds}
  <2>1. \A p \in queued' : p < n <=> p \in queued
    BY <1>0, <1>3, <1>5 DEF OpIds
  <2>2. \A p \in queued : p \in OpIds \ {n}
    BY <1>4, <1>5
  <2>3. ASSUME NEW p \in queued
        PROVE  SameLine(p, n)' <=> /\ item[p] = i
                                        /\ \/ kind[p] \in TaskKinds /\ k \in TaskKinds
                                           \/ kind[p] \in ListKinds /\ k \in ListKinds
    <3>1. /\ item'[p] = item[p] /\ kind'[p] = kind[p] /\ item'[n] = i /\ kind'[n] = k
      BY <1>3, <2>2
    <3>2. SameLine(p, n)' <=>
             /\ item'[p] = item'[n]
             /\ \/ kind'[p] \in TaskKinds /\ kind'[n] \in TaskKinds
                \/ kind'[p] \in ListKinds /\ kind'[n] \in ListKinds
      BY DEF SameLine
    <3> QED BY <3>1, <3>2
  <2>4. ~(n < n)
    BY <1>0 DEF OpIds
  <2>5. \A p : p \in Before(n) <=> p \in queued /\ SameLine(p, n)'
    BY <1>3, <2>1, <2>4 DEF Before
  <2> QED BY <2>3, <2>5
<1>8. NewOp(n)
  <2>1. k \in Creations => \A p \in Issued' \ {n} : item'[p] # i
    BY <1>3, <1>4
  <2>2. dep'[n] \in 0..(n - 1)
    BY <1>0, <1>3
  <2>3. kind'[n] \in Barriers =>
           captured'[n] = {p \in queued : TouchesList(p, item'[n])}
    BY <1>3
  <2>4. item'[n] \in IF kind'[n] \in TaskKinds THEN Tasks ELSE Lists
    BY <1>3
  <2>5. /\ Before(n) = {} =>
              \/ dep'[n] = NoOp
              \/ kind'[n] = "createTask" /\ dep'[n] \in queued
                 /\ kind[dep'[n]] = "createTask"
        /\ Before(n) # {} =>
              dep'[n] \in Before(n) /\ \A p \in Before(n) : p <= dep'[n]
    BY <1>3, <1>7
  <2>6. IF kind'[n] \in Creations
        THEN /\ item'[n] \notin KnownItems
             /\ \A p \in Issued' \ {n} : item'[p] = item'[n] => n < p
        ELSE item'[n] \in shown
    BY <1>3, <2>1
  <2>7. item'[n] \in Tasks => ListOf[item'[n]] \in shown
    BY <1>3
  <2> QED BY <1>0, <2>2, <2>3, <2>4, <2>5, <2>6, <2>7 DEF NewOp
<1>9. shown' \subseteq shown \cup {item'[o] : o \in {p \in New : kind'[p] \in Creations}}
  BY <1>2, <1>3
<1> QED BY <1>2, <1>3, <1>6, <1>8, <1>9 DEF Appends, Enqueue

\* The row a new operation waits for is the last one on its task, or its list.
LEMMA LatestIsLast ==
    ASSUME TypeOK, IdsInv, NEW i
    PROVE  /\ LET S == {o \in queued : OnTask(o, i)}
              IN  IF S = {} THEN LatestTaskOp(i) = NoOp
                  ELSE LatestTaskOp(i) \in S /\ \A y \in S : y <= LatestTaskOp(i)
           /\ LET S == {o \in queued : kind[o] \in ListKinds /\ item[o] = i}
              IN  IF S = {} THEN LatestListOp(i) = NoOp
                  ELSE LatestListOp(i) \in S /\ \A y \in S : y <= LatestListOp(i)
<1>1. queued \subseteq OpIds /\ \A o \in queued : dep[o] < o
  BY DEF IdsInv, TypeOK, Issued
<1>2. \A S \in SUBSET queued : S \in SUBSET OpIds /\ \A o \in S : dep[o] < o
  BY <1>1
<1>3. \A S \in SUBSET queued : IF S = {} THEN LastOf(S) = NoOp
                               ELSE LastOf(S) \in S /\ \A y \in S : y <= LastOf(S)
  BY <1>2, LastOfSet
<1>4. {o \in queued : OnTask(o, i)} \in SUBSET queued
  OBVIOUS
<1>5. {o \in queued : kind[o] \in ListKinds /\ item[o] = i} \in SUBSET queued
  OBVIOUS
<1>6. LET S == {o \in queued : OnTask(o, i)}
      IN  IF S = {} THEN LatestTaskOp(i) = NoOp
          ELSE LatestTaskOp(i) \in S /\ \A y \in S : y <= LatestTaskOp(i)
  BY <1>3, <1>4 DEF LatestTaskOp
<1>7. LET S == {o \in queued : kind[o] \in ListKinds /\ item[o] = i}
      IN  IF S = {} THEN LatestListOp(i) = NoOp
          ELSE LatestListOp(i) \in S /\ \A y \in S : y <= LatestListOp(i)
  BY <1>3, <1>5 DEF LatestListOp
<1> QED BY <1>6, <1>7

\* The same for the two rows of a task created under a parent.
LEMMA CreateUnderParentAppends ==
    ASSUME TypeOK, IdsInv, NEW t \in Tasks, ParentOf[t] # NoItem, UserCreateTask(t)
    PROVE  Appends
<1>0. PICK n \in OpIds : n = nextOp /\ n + 1 \in OpIds /\ nextOp' = n + 2
  BY ReplayAssumption DEF UserCreateTask, TypeOK, OpIds
<1>1. /\ t \notin KnownItems /\ \A o \in OpIds : item[o] # t
      /\ ListOf[t] \in shown
      /\ shown' = shown \cup {t} /\ UNCHANGED abandoned
      /\ queued' = queued \cup {n, n + 1}
      /\ UNCHANGED <<captured, state, timing, attempted, acked, providerVars,
                     replayVars, cooldown, uiVars, crashes>>
  BY <1>0 DEF UserCreateTask
<1>2. New = {n, n + 1}
  <2>1. \A o \in Int : o \in New <=> o = n \/ o = n + 1
    BY <1>0 DEF New, Issued, OpIds
  <2>2. New \subseteq Int /\ n \in Int /\ n + 1 \in Int
    BY <1>0 DEF New, Issued, OpIds
  <2> QED BY <2>1, <2>2
<1>3. /\ kind'[n] = "createTask" /\ item'[n] = t /\ dep'[n] = PendingCreate(ParentOf[t])
      /\ kind'[n + 1] = "move" /\ item'[n + 1] = t /\ dep'[n + 1] = n
      /\ \A o \in OpIds \ {n, n + 1} : /\ kind'[o] = kind[o] /\ item'[o] = item[o]
                                       /\ dep'[o] = dep[o] /\ captured'[o] = captured[o]
  <2>1. /\ kind' = [[kind EXCEPT ![n] = "createTask"] EXCEPT ![n + 1] = "move"]
        /\ item' = [[item EXCEPT ![n] = t] EXCEPT ![n + 1] = t]
        /\ dep' = [[dep EXCEPT ![n] = PendingCreate(ParentOf[t])] EXCEPT ![n + 1] = n]
        /\ captured' = captured
    BY <1>0 DEF UserCreateTask
  <2>2. n # n + 1 /\ n + 1 \in OpIds
    BY <1>0 DEF OpIds
  <2>3. kind'[n] = "createTask" /\ kind'[n + 1] = "move"
    BY <1>0, <2>1, <2>2 DEF TypeOK
  <2>4. item'[n] = t /\ item'[n + 1] = t
    BY <1>0, <2>1, <2>2 DEF TypeOK
  <2>5. dep'[n] = PendingCreate(ParentOf[t]) /\ dep'[n + 1] = n
    BY <1>0, <2>1, <2>2 DEF TypeOK
  <2>6. ASSUME NEW o \in OpIds \ {n, n + 1}
        PROVE kind'[o] = kind[o] /\ item'[o] = item[o] /\ dep'[o] = dep[o]
    BY <2>1 DEF TypeOK
  <2> QED BY <2>1, <2>3, <2>4, <2>5, <2>6
<1>4. Issued \subseteq OpIds \ {n, n + 1} /\ Issued' \subseteq OpIds
  BY <1>0, ReplayAssumption DEF Issued, OpIds
<1>5. queued \subseteq Issued /\ \A p \in queued : p < n
  BY <1>0 DEF IdsInv, Issued, OpIds
<1>6. Kept
  <2>1. n \in Issued' /\ n + 1 \in Issued'
    BY <1>0 DEF Issued, OpIds
  <2>2. nextOp' \in Int /\ nextOp <= nextOp'
    BY <1>0 DEF OpIds
  <2>3. \A o \in Issued : /\ kind'[o] = kind[o] /\ item'[o] = item[o]
                          /\ dep'[o] = dep[o] /\ captured'[o] = captured[o]
    BY <1>3, <1>4
  <2>4. \A o \in OpIds \ Issued' : item'[o] = item[o]
    BY <1>3, <2>1
  <2> QED BY <2>2, <2>3, <2>4 DEF Kept
<1>7. \A p \in queued : item'[p] # t
  BY <1>1, <1>3, <1>4, <1>5
<1>8. \A o, p : SameLine(p, o)' => item'[p] = item'[o]
  BY DEF SameLine
<1>9. PendingCreate(ParentOf[t]) # NoOp =>
         /\ PendingCreate(ParentOf[t]) \in queued
         /\ kind[PendingCreate(ParentOf[t])] = "createTask"
  <2>1. queued \subseteq OpIds
    BY DEF TypeOK
  <2>2. {o \in queued : kind[o] = "createTask" /\ item[o] = ParentOf[t]} \in SUBSET OpIds
    BY <2>1
  <2> QED BY <2>2, MinOfSet DEF PendingCreate
<1>10. NewOp(n)
  <2>1. Before(n) = {}
    <3>1. \A p \in queued' : p < n => p \in queued
      BY <1>0, <1>1 DEF OpIds
    <3> QED BY <1>3, <1>7, <1>8, <3>1 DEF Before
  <2>2. dep'[n] \in 0..(n - 1)
    <3>1. dep'[n] = NoOp \/ (dep'[n] \in Issued /\ dep'[n] < n)
      BY <1>3, <1>5, <1>9
    <3> QED BY <1>0, <3>1 DEF Issued, OpIds, NoOp
  <2>3. \A p \in Issued' \ {n} : item'[p] = t => n < p
    <3>1. \A p \in Issued' \ {n, n + 1} : item'[p] # t
      BY <1>1, <1>3, <1>4
    <3>2. n < n + 1
      BY <1>0 DEF OpIds
    <3> QED BY <3>1, <3>2
  <2>4. "createTask" \in TaskKinds /\ "createTask" \in Creations /\ "createTask" \notin Barriers
    BY DEF TaskKinds, Creations, Barriers
  <2> QED BY <1>0, <1>1, <1>3, <1>9, <2>1, <2>2, <2>3, <2>4 DEF NewOp
<1>11. \A m \in OpIds : m = n + 1 => NewOp(m)
  <2> TAKE m \in OpIds
  <2> HAVE m = n + 1
  <2>0. "createTask" \in TaskKinds /\ "move" \in TaskKinds
        /\ "move" \notin Barriers /\ "move" \notin Creations /\ "createTask" \in Creations
    BY DEF TaskKinds, Creations, Barriers
  <2>1. Before(m) = {n}
    <3>1. \A p \in queued' : p < m <=> p \in queued \/ p = n
      <4>1. n \in Int /\ n < n + 1 /\ ~(n + 1 < n + 1) /\ n # n + 1
        BY <1>0 DEF OpIds
      <4>2. \A p \in queued : p \in Int /\ p < n /\ p < n + 1 /\ p # n + 1
        BY <1>4, <1>5, <4>1 DEF OpIds
      <4>3. queued' = queued \cup {n, n + 1}
        BY <1>1
      <4> QED BY <4>1, <4>2, <4>3
    <3>2. SameLine(n, m)'
      BY <1>3, <2>0 DEF SameLine
    <3>3. \A p \in queued : ~SameLine(p, m)'
      BY <1>3, <1>7, <1>8
    <3>4. n \in queued'
      BY <1>1
    <3> QED BY <3>1, <3>2, <3>3, <3>4 DEF Before
  <2>2. dep'[m] \in 0..(m - 1)
    BY <1>0, <1>3 DEF OpIds
  <2>3. dep'[m] \in Before(m) /\ \A p \in Before(m) : p <= dep'[m]
    BY <1>0, <1>3, <2>1 DEF OpIds
  <2>4. \E p \in New : p < m /\ kind'[p] \in Creations /\ item'[p] = item'[m]
    <3>1. n < n + 1
      BY <1>0 DEF OpIds
    <3> QED BY <1>2, <1>3, <2>0, <3>1
  <2> QED BY <1>0, <1>1, <1>3, <2>0, <2>2, <2>3, <2>4 DEF NewOp
<1>12. \A o \in New : NewOp(o)
  BY <1>0, <1>2, <1>10, <1>11
<1>13. shown' \subseteq shown \cup {item'[o] : o \in {p \in New : kind'[p] \in Creations}}
  <2>1. "createTask" \in Creations
    BY DEF Creations
  <2> QED BY <1>1, <1>2, <1>3, <2>1
<1> QED BY <1>1, <1>2, <1>6, <1>12, <1>13 DEF Appends
\* Deleting a task whose creation was not attempted takes the creation and all
\* that waits for it off the queue.
Cancels(t) ==
    LET c == PendingCreate(t)
        gone == CancelledWith(c)
    IN
    /\ c \in queued /\ kind[c] = "createTask" /\ item[c] = t
    /\ state[c] = "pending" /\ ~attempted[c]
    /\ queued' = queued \ gone
    /\ abandoned' = abandoned \cup gone
    /\ shown' = shown \ {item[o] : o \in {p \in gone : kind[p] = "createTask"}}
    /\ UNCHANGED <<opVars, state, timing, attempted, acked, providerVars,
                   replayVars, cooldown, uiVars, crashes>>

\* An edit appends operations or cancels a creation, and nothing else.
LEMMA EditShape ==
    ASSUME TypeOK, IdsInv, UserEdits PROVE Appends \/ \E t \in Tasks : Cancels(t)
<1>0. queued \subseteq Issued /\ nextOp \in Int /\ NoOp \in 0..(nextOp - 1)
  BY DEF IdsInv, TypeOK, NoOp
<1>1. \A o \in queued : o \in 0..(nextOp - 1)
  BY <1>0 DEF Issued
<1>2. ASSUME NEW l \in Lists
      PROVE  LET P == {p \in queued : kind[p] \in ListKinds /\ item[p] = l}
                 d == LatestListOp(l)
             IN  /\ d \in 0..(nextOp - 1)
                 /\ P = {} => d = NoOp
                 /\ P # {} => d \in P /\ \A p \in P : p <= d
  BY <1>0, <1>1, LatestIsLast
<1>3. ASSUME NEW t \in Tasks
      PROVE  LET P == {p \in queued : kind[p] \in TaskKinds /\ item[p] = t}
                 d == LatestTaskOp(t)
             IN  /\ d \in 0..(nextOp - 1)
                 /\ P = {} => d = NoOp
                 /\ P # {} => d \in P /\ \A p \in P : p <= d
  <2>1. \A p : OnTask(p, t) <=> kind[p] \in TaskKinds /\ item[p] = t
    BY DEF OnTask
  <2> QED BY <1>0, <1>1, <2>1, LatestIsLast
<1>4. \A l : {o \in queued : TouchesList(o, l)} \in SUBSET OpIds
  BY DEF TypeOK
<1>5. /\ "createList" \in AllKinds /\ "renameList" \in AllKinds /\ "removeList" \in AllKinds
      /\ "clear" \in AllKinds /\ "createTask" \in AllKinds /\ "delete" \in AllKinds
      /\ {"patch", "complete", "move"} \subseteq AllKinds
  BY DEF AllKinds, TaskKinds, ListKinds
<1>14. Tasks \cap Lists = {}
  BY ReplayAssumption
<1>6. ASSUME NEW l \in Lists, UserCreateList(l) PROVE Appends
  <2>1. Enqueue("createList", l, LatestListOp(l), {}) /\ UNCHANGED abandoned
        /\ l \notin KnownItems /\ (\A o \in OpIds : item[o] # l) /\ shown' = shown \cup {l}
    BY <1>6 DEF UserCreateList
  <2>2. {} \in SUBSET OpIds
    OBVIOUS
  <2>3. LET P == {p \in queued : /\ item[p] = l
                                 /\ \/ kind[p] \in TaskKinds /\ "createList" \in TaskKinds
                                    \/ kind[p] \in ListKinds /\ "createList" \in ListKinds}
        IN  P = {p \in queued : kind[p] \in ListKinds /\ item[p] = l}
    BY DEF TaskKinds, ListKinds
  <2>4. /\ "createList" \notin TaskKinds /\ "createList" \notin Barriers
        /\ "createList" \in Creations
    BY DEF TaskKinds, Barriers, Creations
  <2> QED BY <1>2, <1>5, <1>14, <2>1, <2>2, <2>3, <2>4, EnqueueAppends
<1>7. ASSUME NEW l \in Lists, UserClearCompleted(l) PROVE Appends
  <2>1. Enqueue("clear", l, NoOp, {o \in queued : TouchesList(o, l)})
        /\ UNCHANGED <<shown, abandoned>> /\ l \in shown
    BY <1>7 DEF UserClearCompleted
  <2>3. LET P == {p \in queued : /\ item[p] = l
                                 /\ \/ kind[p] \in TaskKinds /\ "clear" \in TaskKinds
                                    \/ kind[p] \in ListKinds /\ "clear" \in ListKinds}
        IN  P = {}
    BY DEF TaskKinds, ListKinds
  <2>4. "clear" \notin TaskKinds /\ "clear" \notin Creations
    BY DEF TaskKinds, Creations
  <2> QED BY <1>0, <1>4, <1>5, <1>14, <2>1, <2>3, <2>4, EnqueueAppends
<1>8. ASSUME NEW l \in Lists, UserRenameList(l) PROVE Appends
  <2>1. Enqueue("renameList", l, LatestListOp(l), {}) /\ UNCHANGED <<shown, abandoned>>
        /\ l \in shown
    BY <1>8 DEF UserRenameList
  <2>2. {} \in SUBSET OpIds
    OBVIOUS
  <2>3. LET P == {p \in queued : /\ item[p] = l
                                 /\ \/ kind[p] \in TaskKinds /\ "renameList" \in TaskKinds
                                    \/ kind[p] \in ListKinds /\ "renameList" \in ListKinds}
        IN  P = {p \in queued : kind[p] \in ListKinds /\ item[p] = l}
    BY DEF TaskKinds, ListKinds
  <2>4. "renameList" \notin TaskKinds \cup Barriers \cup Creations
    BY DEF TaskKinds, Barriers, Creations
  <2> QED BY <1>2, <1>5, <1>14, <2>1, <2>2, <2>3, <2>4, EnqueueAppends
<1>9. ASSUME NEW l \in Lists, UserRemoveList(l) PROVE Appends
  <2>1. /\ Enqueue("removeList", l, LatestListOp(l), {o \in queued : TouchesList(o, l)})
        /\ UNCHANGED abandoned /\ l \in shown /\ shown' = shown \ {l}
    BY <1>9 DEF UserRemoveList
  <2>3. LET P == {p \in queued : /\ item[p] = l
                                 /\ \/ kind[p] \in TaskKinds /\ "removeList" \in TaskKinds
                                    \/ kind[p] \in ListKinds /\ "removeList" \in ListKinds}
        IN  P = {p \in queued : kind[p] \in ListKinds /\ item[p] = l}
    BY DEF TaskKinds, ListKinds
  <2>4. "removeList" \notin TaskKinds \cup Creations
    BY DEF TaskKinds, Creations
  <2> QED BY <1>2, <1>4, <1>5, <1>14, <2>1, <2>3, <2>4, EnqueueAppends
<1>10. ASSUME NEW t \in Tasks, UserCreateTask(t) PROVE Appends
  <2>1. CASE ParentOf[t] # NoItem
    BY <1>10, <2>1, CreateUnderParentAppends
  <2>2. CASE ParentOf[t] = NoItem
    <3>1. /\ Enqueue("createTask", t, NoOp, {}) /\ UNCHANGED abandoned
          /\ t \notin KnownItems /\ (\A o \in OpIds : item[o] # t) /\ shown' = shown \cup {t}
          /\ ListOf[t] \in shown
      BY <1>10, <2>2 DEF UserCreateTask
    <3>2. {} \in SUBSET OpIds
      OBVIOUS
    <3>3. {p \in queued : item[p] = t} = {}
      BY <3>1 DEF TypeOK
    <3>4. /\ "createTask" \in TaskKinds /\ "createTask" \notin Barriers
          /\ "createTask" \in Creations
      BY DEF TaskKinds, Barriers, Creations
    <3> QED BY <1>0, <1>5, <3>1, <3>2, <3>3, <3>4, EnqueueAppends
  <2> QED BY <2>1, <2>2
<1>11. ASSUME NEW t \in Tasks, NEW k \in {"patch", "complete", "move", "delete"},
              Enqueue(k, t, LatestTaskOp(t), {}), t \in shown,
              ListOf[t] \in shown, shown' \subseteq shown,
              UNCHANGED abandoned
       PROVE  Appends
  <2>2. {} \in SUBSET OpIds
    OBVIOUS
  <2>3. LET P == {p \in queued : /\ item[p] = t
                                 /\ \/ kind[p] \in TaskKinds /\ k \in TaskKinds
                                    \/ kind[p] \in ListKinds /\ k \in ListKinds}
        IN  P = {p \in queued : kind[p] \in TaskKinds /\ item[p] = t}
    BY DEF TaskKinds, ListKinds
  <2>4. k \in AllKinds /\ k \in TaskKinds /\ k \notin Barriers /\ k \notin Creations
    BY DEF AllKinds, TaskKinds, Barriers, Creations
  <2> QED BY <1>3, <1>11, <2>2, <2>3, <2>4, EnqueueAppends
<1>12. ASSUME NEW t \in Tasks, UserEditTask(t) PROVE Appends
  <2>1. PICK k \in {"patch", "complete"} : Enqueue(k, t, LatestTaskOp(t), {})
    BY <1>12 DEF UserEditTask
  <2>2. k \in {"patch", "complete", "move", "delete"}
    OBVIOUS
  <2> QED BY <1>11, <1>12, <2>1, <2>2 DEF UserEditTask, Editable
<1>15. ASSUME NEW t \in Tasks, UserMoveTask(t) PROVE Appends
  <2>1. "move" \in {"patch", "complete", "move", "delete"}
    OBVIOUS
  <2> QED BY <1>11, <1>15, <2>1 DEF UserMoveTask, Editable
<1>13. ASSUME NEW t \in Tasks, UserDeleteTask(t) PROVE Appends \/ Cancels(t)
  <2>1. CASE Unsent(PendingCreate(t))
    <3>1. /\ PendingCreate(t) \in queued /\ kind[PendingCreate(t)] = "createTask"
          /\ item[PendingCreate(t)] = t
      <4>1. {o \in queued : kind[o] = "createTask" /\ item[o] = t} \in SUBSET OpIds
        BY DEF TypeOK
      <4>2. PendingCreate(t) # NoOp
        BY <2>1 DEF Unsent
      <4> QED BY <4>1, <4>2, MinOfSet DEF PendingCreate
    <3> QED BY <1>13, <2>1, <3>1 DEF UserDeleteTask, Unsent, Cancels
  <2>2. CASE ~Unsent(PendingCreate(t))
    <3>1. "delete" \in {"patch", "complete", "move", "delete"}
      OBVIOUS
    <3> QED BY <1>11, <1>13, <2>2, <3>1 DEF UserDeleteTask, Editable
  <2> QED BY <2>1, <2>2
<1> QED BY <1>6, <1>7, <1>8, <1>9, <1>10, <1>12, <1>13, <1>15 DEF UserEdits
\* The answer of the provider takes the operation off the queue.
Removes(r) ==
    /\ phase[r] = "answered"
    /\ \/ answer[r] = "ok"
       \/ answer[r] = "missing" /\ kind[cur[r]] \in {"delete", "removeList"}
    /\ queued' = queued \ {cur[r]}
    /\ Skip(r)
    /\ UNCHANGED <<opVars, attempted, providerVars, abandoned, cooldown, uiVars, crashes>>

\* The ways in which the queue changes.
LEMMA QueueShape ==
    ASSUME TypeOK, IdsInv, [Next]_vars
    PROVE  \/ Appends
           \/ \E t \in Tasks : Cancels(t)
           \/ \E r \in Replayers : Removes(r)
           \/ DiscardCommit
           \/ UNCHANGED <<queued, opVars, abandoned>>
<1>1. CASE UserEdits
  BY <1>1, EditShape
<1>2. ASSUME NEW r \in Replayers, Replay(r)
      PROVE  Removes(r) \/ UNCHANGED <<queued, opVars, abandoned>>
  <2>1. CASE RecordOk(r)
    BY <2>1 DEF RecordOk, Acknowledge, Removes
  <2>2. CASE RecordMissingDelete(r)
    BY <2>2 DEF RecordMissingDelete, MissingIsDone, Removes
  <2>3. CASE RecordUnknownCreation(r) \/ RecordRetry(r) \/ RecordBlock(r)
    BY <2>3 DEF RecordUnknownCreation, RecordRetry, RecordBlock
  <2>4. CASE StartReplay(r) \/ NextOfPass(r) \/ Admit(r)
    BY <2>4 DEF StartReplay, NextOfPass, Admit
  <2>5. CASE \/ CheckProvider(r) \/ FindDone(r) \/ BlockUnknownCompletion(r)
             \/ BarrierAgain(r) \/ Send(r)
    BY <2>5 DEF CheckProvider, FindDone, BlockUnknownCompletion, BarrierAgain, Send
  <2>6. CASE AnswerOk(r) \/ AnswerUnknown(r) \/ AnswerRefused(r)
    BY <2>6 DEF AnswerOk, AnswerUnknown, AnswerRefused, AnswerTo
  <2> QED BY <1>2, <2>1, <2>2, <2>3, <2>4, <2>5, <2>6 DEF Replay, Record
<1>3. ASSUME NEW r \in Replayers, Crash(r) PROVE UNCHANGED <<queued, opVars, abandoned>>
  BY <1>3 DEF Crash
<1>4. CASE Resolution
  BY <1>4 DEF Resolution, RetryCheck, RetryWrite, DiscardBegin, DiscardFails
<1>5. ASSUME \/ \E o \in OpIds : AttemptBecomesDue(o)
             \/ CooldownEnds \/ \E t \in Tasks : RemoteDelete(t)
      PROVE  UNCHANGED <<queued, opVars, abandoned>>
  BY <1>5 DEF AttemptBecomesDue, CooldownEnds, RemoteDelete
<1>6. CASE UNCHANGED vars
  BY <1>6 DEF vars
<1> QED BY <1>1, <1>2, <1>3, <1>4, <1>5, <1>6 DEF Next

\* A discard only takes queued operations away.
LEMMA CommitShape ==
    ASSUME DiscardCommit
    PROVE  /\ queued' \subseteq queued /\ abandoned \subseteq abandoned'
           /\ abandoned' = abandoned \cup (queued \ queued')
           /\ UNCHANGED opVars
BY DEF DiscardCommit

\* Operations once issued keep what they are, and come off the queue for good.
LEMMA OpsKept ==
    ASSUME TypeOK, IdsInv, [Next]_vars
    PROVE  /\ Kept /\ Issued \subseteq Issued'
           /\ queued' \subseteq queued \cup New
           /\ abandoned \subseteq abandoned'
           /\ abandoned' \subseteq abandoned \cup queued
           /\ Appends \/ UNCHANGED opVars
           /\ \A o \in New : NewOp(o)
<1>1. nextOp \in Int
  BY DEF TypeOK
<1>2. UNCHANGED opVars => Kept /\ New = {}
  BY <1>1 DEF opVars, Kept, New, Issued
<1>3. Kept => Issued \subseteq Issued'
  <2>1. Kept => nextOp' \in Int /\ nextOp <= nextOp'
    BY DEF Kept
  <2> QED BY <1>1, <2>1 DEF Issued
<1>4. CASE Appends
  BY <1>3, <1>4 DEF Appends
<1>5. ASSUME NEW t \in Tasks, Cancels(t) PROVE /\ queued' \subseteq queued
                                               /\ abandoned \subseteq abandoned'
                                               /\ abandoned' \subseteq abandoned \cup queued
                                               /\ UNCHANGED opVars
  BY <1>5 DEF Cancels, CancelledWith, Closure
<1>6. ASSUME NEW r \in Replayers, Removes(r) PROVE /\ queued' \subseteq queued
                                                   /\ abandoned' = abandoned
                                                   /\ UNCHANGED opVars
  BY <1>6 DEF Removes
<1>7. CASE DiscardCommit
  BY <1>2, <1>3, <1>7, CommitShape
<1>8. CASE UNCHANGED <<queued, opVars, abandoned>>
  BY <1>2, <1>3, <1>8
<1> QED BY <1>2, <1>3, <1>4, <1>5, <1>6, <1>7, <1>8, QueueShape

\* A replayer leaves what the others hold in memory alone, but for the
\* snapshots it outdates.
LEMMA OthersKept ==
    ASSUME TypeOK, NEW r \in Replayers, NEW q \in Replayers \ {r}, Replay(r) \/ Crash(r)
    PROVE  /\ phase'[q] = phase[q] /\ todo'[q] = todo[q] /\ cur'[q] = cur[q]
           /\ seen'[q] = seen[q] /\ known'[q] = known[q] /\ answer'[q] = answer[q]
           /\ sent'[q] = sent[q]
<1>1. CASE RunEnds(r)
  BY <1>1 DEF RunEnds, TypeOK
<1>2. CASE Skip(r)
  BY <1>2 DEF Skip, TypeOK
<1>3. CASE StartReplay(r)
  BY <1>3 DEF StartReplay, TypeOK
<1>4. CASE NextOfPass(r)
  BY <1>1, <1>4 DEF NextOfPass, TypeOK
<1>5. CASE Admit(r)
  BY <1>2, <1>5 DEF Admit, Handle, TypeOK
<1>6. CASE CheckProvider(r) \/ FindDone(r) \/ Send(r)
  BY <1>6 DEF CheckProvider, FindDone, Send, TypeOK
<1>7. CASE \/ BlockUnknownCompletion(r) \/ BarrierAgain(r)
           \/ RecordOk(r) \/ RecordMissingDelete(r) \/ RecordUnknownCreation(r)
           \/ RecordRetry(r) \/ RecordBlock(r) \/ Crash(r)
  <2>1. RunEnds(r) \/ Skip(r)
    BY <1>7 DEF BlockUnknownCompletion, BarrierAgain, RecordOk, RecordMissingDelete,
                RecordUnknownCreation, RecordRetry, RecordBlock, Crash
  <2> QED BY <1>1, <1>2, <2>1
<1>8. CASE AnswerOk(r) \/ AnswerUnknown(r) \/ AnswerRefused(r)
  <2>1. PICK a : AnswerTo(r, a)
    BY <1>8 DEF AnswerOk, AnswerUnknown, AnswerRefused
  <2> QED BY <2>1 DEF AnswerTo, TypeOK
<1> QED BY <1>3, <1>4, <1>5, <1>6, <1>7, <1>8 DEF Replay, Record
\* The steps of a replayer: it starts, goes on with its pass, takes an
\* operation, carries on with it, or is done with it.
Starts(r) ==
    /\ phase[r] = "idle" /\ phase'[r] = "scan" /\ cur'[r] = cur[r]
    /\ r = Ui => discarding = {}
    /\ todo'[r] = {o \in queued : timing[o] = "due"}
    /\ known'[r] = known[r]
Scans(r) ==
    /\ phase[r] = "scan" /\ phase'[r] = "scan" /\ cur'[r] = cur[r] /\ todo'[r] \subseteq todo[r]
    /\ known'[r] = known[r]
Takes(r) ==
    /\ phase[r] = "scan" /\ phase'[r] = "read" /\ cur'[r] \in todo[r] \cap queued
    /\ todo'[r] = todo[r] /\ known'[r] = acked /\ seen'[r] = state[cur'[r]]
Leaves(r) ==
    /\ phase[r] # "idle" /\ phase'[r] \in {"idle", "scan"} /\ cur'[r] = NoOp
    /\ todo'[r] \subseteq todo[r]
    /\ phase'[r] = "idle" => todo'[r] = {}
    /\ known'[r] = {}
Advances(r) ==
    /\ \/ /\ phase[r] = "read" /\ phase'[r] = "checking" /\ todo'[r] = todo[r] \ {cur[r]}
       \/ /\ phase[r] = "checking" /\ phase'[r] \in {"sent", "answered"} /\ todo'[r] = todo[r]
       \/ /\ phase[r] = "sent" /\ phase'[r] = "answered" /\ todo'[r] = todo[r]
    /\ cur'[r] = cur[r] /\ known'[r] = known[r] /\ seen'[r] = seen[r]

\* Every step of a replayer is one of these.
LEMMA RunShape ==
    ASSUME TypeOK, NEW r \in Replayers, Replay(r) \/ Crash(r)
    PROVE  Starts(r) \/ Scans(r) \/ Takes(r) \/ Leaves(r) \/ Advances(r)
<1>1. CASE RunEnds(r) /\ phase[r] # "idle"
  BY <1>1 DEF RunEnds, TypeOK, Leaves
<1>2. CASE Skip(r) /\ phase[r] # "idle"
  BY <1>2 DEF Skip, TypeOK, Leaves
<1>3. CASE StartReplay(r)
  BY <1>3 DEF StartReplay, TypeOK, Starts
<1>4. CASE NextOfPass(r)
  <2> DEFINE rest == {o \in todo[r] : o > pos[r]}
  <2>1. rest \in SUBSET OpIds /\ rest \subseteq todo[r]
    BY DEF TypeOK
  <2>2. rest # {} => MinOf(rest) \in todo[r]
    <3> HIDE DEF rest
    <3> QED BY <2>1, MinOfSet
  <2>3. CASE RunEnds(r)
    BY <1>1, <1>4, <2>3 DEF NextOfPass
  <2>4. CASE /\ phase[r] = "scan"
             /\ UNCHANGED <<phase, cur, known>> /\ todo' \in {todo, [todo EXCEPT ![r] = @ \ {MinOf(rest)}]}
    BY <2>4 DEF TypeOK, Scans
  <2>5. CASE /\ rest # {} /\ phase[r] = "scan"
             /\ MinOf(rest) \in queued
             /\ phase' = [phase EXCEPT ![r] = "read"]
             /\ cur' = [cur EXCEPT ![r] = MinOf(rest)]
             /\ seen' = [seen EXCEPT ![r] = state[MinOf(rest)]]
             /\ known' = [known EXCEPT ![r] = acked]
             /\ UNCHANGED todo
    <3> HIDE DEF rest
    <3> QED BY <2>2, <2>5 DEF TypeOK, Takes
  <2> QED BY <1>4, <2>3, <2>4, <2>5 DEF NextOfPass
<1>5. CASE Admit(r)
  <2>1. CASE Skip(r)
    BY <1>2, <1>5, <2>1 DEF Admit
  <2>2. CASE /\ Handle(r)
             /\ phase' = [phase EXCEPT ![r] = "scan"]
             /\ cur' = [cur EXCEPT ![r] = NoOp]
             /\ known' = [known EXCEPT ![r] = {}]
    BY <1>5, <2>2 DEF Admit, Handle, TypeOK, Leaves
  <2>3. CASE /\ Handle(r) /\ phase' = [phase EXCEPT ![r] = "checking"]
             /\ UNCHANGED <<cur, known, seen>>
    BY <1>5, <2>3 DEF Admit, Handle, TypeOK, Advances
  <2> QED BY <1>5, <2>1, <2>2, <2>3 DEF Admit
<1>6. CASE CheckProvider(r) \/ FindDone(r) \/ Send(r)
  BY <1>6 DEF CheckProvider, FindDone, Send, TypeOK, Advances
<1>7. CASE \/ BlockUnknownCompletion(r) \/ BarrierAgain(r)
           \/ RecordOk(r) \/ RecordMissingDelete(r) \/ RecordUnknownCreation(r)
           \/ RecordRetry(r) \/ RecordBlock(r) \/ Crash(r)
  <2>1. (RunEnds(r) \/ Skip(r)) /\ phase[r] # "idle"
    BY <1>7 DEF BlockUnknownCompletion, BarrierAgain, RecordOk, RecordMissingDelete,
                RecordUnknownCreation, RecordRetry, RecordBlock, Crash
  <2> QED BY <1>1, <1>2, <2>1
<1>8. CASE AnswerOk(r) \/ AnswerUnknown(r) \/ AnswerRefused(r)
  <2>1. PICK a : AnswerTo(r, a)
    BY <1>8 DEF AnswerOk, AnswerUnknown, AnswerRefused
  <2> QED BY <2>1 DEF AnswerTo, TypeOK, Advances
<1> QED BY <1>3, <1>4, <1>5, <1>6, <1>7, <1>8 DEF Replay, Record
\* Nothing else touches what a replayer holds, but for its snapshot.
LEMMA RunsOfReplayers ==
    ASSUME [Next]_vars
    PROVE  \/ \E r \in Replayers : Replay(r) \/ Crash(r)
           \/ UNCHANGED <<phase, todo, pos, progress, cur, seen, known, answer, sent>>
<1>1. CASE UserEdits
  BY <1>1 DEF UserEdits, UserCreateList, UserClearCompleted, UserRenameList, UserRemoveList,
              UserCreateTask, UserEditTask, UserMoveTask, UserDeleteTask, Enqueue, replayVars
<1>2. CASE Resolution
  BY <1>2 DEF Resolution, RetryCheck, RetryWrite, DiscardBegin, DiscardFails, DiscardCommit,
              replayVars
<1>3. CASE \/ \E o \in OpIds : AttemptBecomesDue(o)
           \/ CooldownEnds \/ \E t \in Tasks : RemoteDelete(t)
  BY <1>3 DEF AttemptBecomesDue, CooldownEnds, RemoteDelete, replayVars
<1>4. CASE UNCHANGED vars
  BY <1>4 DEF vars, replayVars
<1> QED BY <1>1, <1>2, <1>3, <1>4 DEF Next

\* Only the rows of queued operations are written.
LEMMA RowsKept ==
    ASSUME TypeOK, IdsInv, [Next]_vars, NEW o \in OpIds \ queued
    PROVE  state'[o] = state[o] /\ timing'[o] = timing[o] /\ attempted'[o] = attempted[o]
<1>1. CASE UserEdits
  BY <1>1 DEF UserEdits, UserCreateList, UserClearCompleted, UserRenameList, UserRemoveList,
              UserCreateTask, UserEditTask, UserMoveTask, UserDeleteTask, Enqueue
<1>2. ASSUME NEW p, NEW st, NEW tm, NEW att, WriteRow(p, st, tm, att)
      PROVE  state'[o] = state[o] /\ timing'[o] = timing[o] /\ attempted'[o] = attempted[o]
  BY <1>2 DEF WriteRow, TypeOK
<1>3. ASSUME NEW r \in Replayers, Replay(r) \/ Crash(r)
      PROVE  state'[o] = state[o] /\ timing'[o] = timing[o] /\ attempted'[o] = attempted[o]
  <2>1. CASE StartReplay(r) \/ NextOfPass(r) \/ Crash(r)
    BY <2>1 DEF StartReplay, NextOfPass, Crash
  <2>2. CASE Admit(r)
    BY <1>2, <2>2 DEF Admit, Claimable, TypeOK
  <2>3. CASE CheckProvider(r) \/ FindDone(r) \/ BarrierAgain(r) \/ Send(r)
    BY <2>3 DEF CheckProvider, FindDone, BarrierAgain, Send, TypeOK
  <2>4. CASE BlockUnknownCompletion(r)
    BY <1>2, <2>4 DEF BlockUnknownCompletion
  <2>5. CASE AnswerOk(r) \/ AnswerUnknown(r) \/ AnswerRefused(r)
    BY <2>5 DEF AnswerOk, AnswerUnknown, AnswerRefused, AnswerTo
  <2>6. CASE RecordOk(r)
    BY <2>6 DEF RecordOk, Acknowledge, Unblocked, Referring, TypeOK
  <2>7. CASE RecordMissingDelete(r)
    BY <2>7 DEF RecordMissingDelete
  <2>8. CASE RecordUnknownCreation(r) \/ RecordRetry(r) \/ RecordBlock(r)
    BY <1>2, <2>8 DEF RecordUnknownCreation, RecordRetry, RecordBlock
  <2> QED BY <1>3, <2>1, <2>2, <2>3, <2>4, <2>5, <2>6, <2>7, <2>8 DEF Replay, Record
<1>4. CASE Resolution
  BY <1>4 DEF Resolution, RetryCheck, RetryWrite, DiscardBegin, DiscardFails, DiscardCommit,
              TypeOK
<1>5. CASE \/ \E p \in OpIds : AttemptBecomesDue(p)
           \/ CooldownEnds \/ \E t \in Tasks : RemoteDelete(t)
  BY <1>5 DEF AttemptBecomesDue, CooldownEnds, RemoteDelete, TypeOK
<1>6. CASE UNCHANGED vars
  BY <1>6 DEF vars
<1> QED BY <1>1, <1>3, <1>4, <1>5, <1>6 DEF Next

\* The provider carries out what a replayer sent, or another client deletes.
LEMMA ProviderShape ==
    ASSUME [Next]_vars
    PROVE  \/ UNCHANGED providerVars
           \/ \E r \in Replayers :
                 /\ phase[r] = "sent" /\ CarryOut(r)
                 /\ AnswerOk(r) \/ AnswerUnknown(r) \/ Crash(r)
           \/ \E t \in Tasks : RemoteDelete(t)
<1>1. CASE UserEdits
  BY <1>1 DEF UserEdits, UserCreateList, UserClearCompleted, UserRenameList, UserRemoveList,
              UserCreateTask, UserEditTask, UserMoveTask, UserDeleteTask, Enqueue
<1>2. ASSUME NEW r \in Replayers, Replay(r) \/ Crash(r)
      PROVE  \/ UNCHANGED providerVars
             \/ /\ phase[r] = "sent" /\ CarryOut(r)
                /\ AnswerOk(r) \/ AnswerUnknown(r) \/ Crash(r)
  <2>1. CASE StartReplay(r) \/ NextOfPass(r) \/ Admit(r)
    BY <2>1 DEF StartReplay, NextOfPass, Admit
  <2>2. CASE \/ CheckProvider(r) \/ FindDone(r) \/ BlockUnknownCompletion(r)
             \/ BarrierAgain(r) \/ Send(r)
    BY <2>2 DEF CheckProvider, FindDone, BlockUnknownCompletion, BarrierAgain, Send
  <2>3. CASE AnswerOk(r) \/ AnswerUnknown(r) \/ AnswerRefused(r)
    BY <2>3 DEF AnswerOk, AnswerUnknown, AnswerRefused, AnswerTo
  <2>4. CASE Record(r)
    BY <2>4 DEF Record, RecordOk, RecordMissingDelete, RecordUnknownCreation, RecordRetry,
                RecordBlock
  <2>5. CASE Crash(r)
    BY <2>5 DEF Crash
  <2> QED BY <1>2, <2>1, <2>2, <2>3, <2>4, <2>5 DEF Replay
<1>3. CASE Resolution
  BY <1>3 DEF Resolution, RetryCheck, RetryWrite, DiscardBegin, DiscardFails, DiscardCommit
<1>4. CASE (\E p \in OpIds : AttemptBecomesDue(p)) \/ CooldownEnds
  BY <1>4 DEF AttemptBecomesDue, CooldownEnds
<1>5. CASE UNCHANGED vars
  BY <1>5 DEF vars
<1> QED BY <1>1, <1>2, <1>3, <1>4, <1>5 DEF Next

LEMMA InitIdsInv == Init => IdsInv
<1> SUFFICES ASSUME Init PROVE IdsInv
  OBVIOUS
<1>1. Issued = {}
  BY DEF Init, Issued
<1>2. \A r \in Replayers : /\ todo[r] = {} /\ cur[r] = NoOp /\ phase[r] = "idle"
  BY DEF Init
<1>3. \A o \in OpIds : /\ item[o] = NoItem /\ timing[o] = "due" /\ state[o] = "pending"
                       /\ execCount[o] = 0
  BY DEF Init
<1>4. queued \cup abandoned \cup retrying \cup discarding = {}
  BY DEF Init
<1> QED BY <1>1, <1>2, <1>3, <1>4 DEF IdsInv

LEMMA NextIdsInv == ASSUME TypeOK, IdsInv, [Next]_vars PROVE IdsInv'
<1>1. /\ Kept /\ Issued \subseteq Issued' /\ Issued' = Issued \cup New
      /\ queued' \subseteq queued \cup New /\ abandoned' \subseteq abandoned \cup queued
      /\ \A o \in New : NewOp(o)
  BY OpsKept DEF New
<1>2. queued \subseteq Issued /\ abandoned \subseteq Issued /\ retrying \subseteq Issued
      /\ discarding \subseteq Issued
  BY DEF IdsInv
<1>3. retrying' \subseteq retrying \cup queued /\ discarding' \subseteq discarding \cup queued
  <2>1. CASE UserEdits
    BY <2>1, EditShape DEF Appends, Cancels, uiVars
  <2>2. ASSUME NEW r \in Replayers, Replay(r)
        PROVE  UNCHANGED <<retrying, discarding>>
    BY <2>2 DEF Replay, StartReplay, NextOfPass, Admit, CheckProvider, FindDone,
            BlockUnknownCompletion, BarrierAgain, Send, AnswerOk, AnswerUnknown,
            AnswerRefused, AnswerTo, Record, RecordOk, RecordMissingDelete,
            RecordUnknownCreation, RecordRetry, RecordBlock, uiVars
  <2>3. ASSUME NEW r \in Replayers, Crash(r)
        PROVE  retrying' \subseteq retrying /\ UNCHANGED discarding
    BY <2>3 DEF Crash
  <2>4. CASE Resolution
    <3>1. \A o \in queued : DiscardedWith(o) \subseteq queued
      BY DEF DiscardedWith, CreationClosure, ListCreationClosure, DependentClosure, Closure
    <3> QED BY <2>4, <3>1 DEF Resolution, RetryCheck, RetryWrite, DiscardBegin, DiscardFails,
                              DiscardCommit
  <2>5. CASE \/ \E p \in OpIds : AttemptBecomesDue(p)
             \/ CooldownEnds \/ \E t \in Tasks : RemoteDelete(t)
    BY <2>5 DEF AttemptBecomesDue, CooldownEnds, RemoteDelete, uiVars
  <2>6. CASE UNCHANGED vars
    BY <2>6 DEF vars, uiVars
  <2> QED BY <2>1, <2>2, <2>3, <2>4, <2>5, <2>6 DEF Next
<1>4. queued' \cup abandoned' \cup retrying' \cup discarding' \subseteq Issued'
  BY <1>1, <1>2, <1>3
<1>5. ASSUME NEW q \in Replayers
      PROVE  /\ todo'[q] \subseteq Issued' /\ cur'[q] \in Issued' \cup {NoOp}
             /\ phase'[q] \in {"idle", "scan"} <=> cur'[q] = NoOp
             /\ phase'[q] = "idle" => todo'[q] = {}
  <2>1. /\ todo[q] \subseteq Issued /\ cur[q] \in Issued \cup {NoOp}
        /\ phase[q] \in {"idle", "scan"} <=> cur[q] = NoOp
        /\ phase[q] = "idle" => todo[q] = {}
        /\ NoOp \notin Issued
    BY DEF IdsInv, Issued, NoOp
  <2>2. CASE UNCHANGED <<phase, todo, cur>>
    BY <1>1, <2>1, <2>2
  <2>3. ASSUME NEW r \in Replayers, Replay(r) \/ Crash(r), q # r
        PROVE  phase'[q] = phase[q] /\ todo'[q] = todo[q] /\ cur'[q] = cur[q]
    BY <2>3, OthersKept
  <2>4. CASE Starts(q)
    BY <1>1, <1>2, <2>1, <2>4 DEF Starts
  <2>5. CASE Scans(q)
    BY <1>1, <2>1, <2>5 DEF Scans
  <2>7. CASE Leaves(q)
    <3>1. /\ phase'[q] \in {"idle", "scan"} /\ cur'[q] = NoOp /\ todo'[q] \subseteq todo[q]
          /\ phase'[q] = "idle" => todo'[q] = {}
      BY <2>7 DEF Leaves
    <3> QED BY <1>1, <2>1, <3>1
  <2>6. CASE Takes(q) \/ Advances(q)
    BY <1>1, <2>1, <2>6 DEF Takes, Advances
  <2> QED BY <1>1, <2>1, <2>2, <2>3, <2>4, <2>5, <2>6, <2>7, RunsOfReplayers, RunShape
<1>6. ASSUME NEW o \in OpIds \ Issued'
      PROVE  /\ item'[o] = NoItem /\ timing'[o] = "due" /\ state'[o] = "pending"
             /\ execCount'[o] = 0
  <2>1. o \in OpIds \ Issued /\ o \notin queued /\ o \notin New
    BY <1>1, <1>2
  <2>2. timing'[o] = "due" /\ state'[o] = "pending"
    BY <2>1, RowsKept DEF IdsInv
  <2>3. execCount'[o] = execCount[o]
    <3>1. ASSUME NEW r \in Replayers, phase[r] = "sent", CarryOut(r)
          PROVE  execCount'[o] = execCount[o]
      <4>1. cur[r] \in Issued /\ cur[r] \in OpIds
        BY <3>1, CurIssued
      <4> QED BY <2>1, <3>1, <4>1 DEF CarryOut, Effect, TypeOK
    <3> QED BY <3>1, ProviderShape DEF providerVars, RemoteDelete
  <2>4. item'[o] = NoItem
    <3>1. item[o] = NoItem
      BY <2>1 DEF IdsInv
    <3> QED BY <1>1, <3>1 DEF Kept
  <2> QED BY <2>2, <2>3, <2>4, <2>1 DEF IdsInv
<1>7. ASSUME NEW o \in Issued'
      PROVE  /\ item'[o] \in IF kind'[o] \in TaskKinds THEN Tasks ELSE Lists
             /\ dep'[o] \in 0..(o - 1)
  <2>1. CASE o \in Issued
    BY <1>1, <2>1 DEF Kept, IdsInv
  <2>2. CASE o \in New
    BY <1>1, <2>2 DEF NewOp
  <2> QED BY <1>1, <2>1, <2>2
<1> QED BY <1>4, <1>5, <1>6, <1>7 DEF IdsInv

\* The variables keep their types, and every reference to an operation is to
\* one that was issued.
THEOREM Typed == Spec => [](TypeOK /\ IdsInv)
<1>1. Init => TypeOK /\ IdsInv
  BY InitTypeOK, InitIdsInv
<1>2. (TypeOK /\ IdsInv) /\ [Next]_vars => (TypeOK /\ IdsInv)'
  BY NextTypeOK, NextIdsInv
<1> QED BY <1>1, <1>2, PTL DEF Spec
------------------------------------------------------------------------------
(* Barriers                                                                 *)

\* A new operation comes after those issued before.
LEMMA NewIsLater ==
    ASSUME TypeOK, NEW o \in New PROVE o \in Int /\ nextOp <= o /\ \A p \in Issued : p < o
BY DEF New, Issued, TypeOK

\* What an issued operation touches never changes.
LEMMA TouchesKept ==
    ASSUME TypeOK, IdsInv, [Next]_vars, NEW p \in Issued, NEW l
    PROVE  TouchesList(p, l)' <=> TouchesList(p, l)
<1>1. kind'[p] = kind[p] /\ item'[p] = item[p]
  BY OpsKept DEF Kept
<1> QED BY <1>1 DEF TouchesList, ListOfOp

\* A request leaves only through Send.
LEMMA SentBySend ==
    ASSUME TypeOK, NEW r \in Replayers, Replay(r) \/ Crash(r), phase'[r] = "sent"
    PROVE  Send(r)
<1>1. CASE RunEnds(r) \/ Skip(r)
  BY <1>1 DEF RunEnds, Skip, TypeOK
<1>2. CASE StartReplay(r)
  BY <1>2 DEF StartReplay, TypeOK
<1>3. CASE NextOfPass(r)
  BY <1>1, <1>3 DEF NextOfPass, TypeOK
<1>4. CASE Admit(r)
  BY <1>1, <1>4 DEF Admit, TypeOK
<1>5. CASE CheckProvider(r) \/ FindDone(r)
  BY <1>5 DEF CheckProvider, FindDone, TypeOK
<1>6. CASE AnswerOk(r) \/ AnswerUnknown(r) \/ AnswerRefused(r)
  <2>1. PICK a : AnswerTo(r, a)
    BY <1>6 DEF AnswerOk, AnswerUnknown, AnswerRefused
  <2> QED BY <2>1 DEF AnswerTo, TypeOK
<1>7. CASE BlockUnknownCompletion(r) \/ BarrierAgain(r) \/ Record(r) \/ Crash(r)
  BY <1>1, <1>7 DEF BlockUnknownCompletion, BarrierAgain, Record, RecordOk,
     RecordMissingDelete, RecordUnknownCreation, RecordRetry, RecordBlock, Crash
<1> QED BY <1>2, <1>3, <1>4, <1>5, <1>6, <1>7 DEF Replay

\* A removal has captured all that is queued before it for its list, and what
\* it captured is gone when its request is on the way.
BarrierInv ==
    /\ \A o \in Issued : kind[o] \in Barriers =>
          \A p \in queued : p < o /\ TouchesList(p, item[o]) => p \in captured[o]
    /\ \A r \in Replayers : phase[r] = "sent" /\ kind[cur[r]] \in Barriers =>
          \A p \in queued : p < cur[r] => ~TouchesList(p, item[cur[r]])

LEMMA NextBarrierInv ==
    ASSUME TypeOK, IdsInv, BarrierInv, [Next]_vars PROVE BarrierInv'
<1>1. /\ Kept /\ Issued' = Issued \cup New /\ queued' \subseteq queued \cup New
      /\ \A o \in New : NewOp(o)
  BY OpsKept DEF New
<1>2. queued \subseteq Issued /\ Issued \subseteq Int
  BY DEF IdsInv, Issued
<1>3. \A p \in queued' : \A o \in Issued : p < o => p \in queued
  <2> SUFFICES ASSUME NEW p \in New, NEW o \in Issued PROVE ~(p < o)
    BY <1>1
  <2> QED BY NewIsLater, <1>2
<1>4. ASSUME NEW o \in Issued', kind'[o] \in Barriers, NEW p \in queued', p < o,
             TouchesList(p, item[o])'
      PROVE  p \in captured'[o]
  <2>1. CASE o \in Issued
    <3>1. p \in queued /\ p \in Issued
      BY <1>2, <1>3, <1>4, <2>1
    <3>2. item'[o] = item[o] /\ kind'[o] = kind[o] /\ captured'[o] = captured[o]
      BY <1>1, <2>1 DEF Kept
    <3>3. TouchesList(p, item[o])
      <4>1. PICK l : l = item[o]
        OBVIOUS
      <4>2. TouchesList(p, l)'
        BY <1>4, <3>2, <4>1 DEF TouchesList, ListOfOp
      <4> QED BY <3>1, <4>1, <4>2, TouchesKept
    <3> QED BY <1>4, <2>1, <3>1, <3>2, <3>3 DEF BarrierInv
  <2>2. CASE o \in New
    <3>1. o = nextOp /\ captured'[o] = {q \in queued : TouchesList(q, item'[o])}
      BY <1>1, <1>4, <2>2 DEF NewOp
    <3>2. p \in queued
      <4>1. p \notin New
        BY <1>4, <2>2, <3>1, NewIsLater
      <4> QED BY <1>1, <4>1
    <3>3. TouchesList(p, item'[o])
      <4>1. kind'[p] = kind[p] /\ item'[p] = item[p]
        BY <1>1, <1>2, <3>2 DEF Kept
      <4> QED BY <1>4, <4>1 DEF TouchesList, ListOfOp
    <3> QED BY <3>1, <3>2, <3>3
  <2> QED BY <1>1, <2>1, <2>2
<1>5. ASSUME NEW r \in Replayers, phase'[r] = "sent", kind'[cur'[r]] \in Barriers,
             NEW p \in queued', p < cur'[r]
      PROVE  ~TouchesList(p, item[cur[r]])'
  <2>1. ASSUME cur'[r] = cur[r], phase[r] \in {"checking", "sent"},
               \A q \in queued : q < cur[r] => ~TouchesList(q, item[cur[r]])
        PROVE  ~TouchesList(p, item[cur[r]])'
    <3>1. cur[r] \in Issued
      BY <2>1, CurIssued
    <3>2. p \in queued /\ p \in Issued
      BY <1>2, <1>3, <1>5, <2>1, <3>1
    <3>3. item'[cur'[r]] = item[cur[r]] /\ kind'[p] = kind[p] /\ item'[p] = item[p]
      BY <1>1, <2>1, <3>1, <3>2 DEF Kept
    <3>4. ~TouchesList(p, item[cur[r]])
      BY <1>5, <2>1, <3>2
    <3> QED BY <3>3, <3>4 DEF TouchesList, ListOfOp
  <2>2. CASE phase[r] = "sent" /\ cur'[r] = cur[r]
    <3>1. kind'[cur[r]] = kind[cur[r]]
      BY <1>1, <2>2, CurIssued DEF Kept
    <3>2. \A q \in queued : q < cur[r] => ~TouchesList(q, item[cur[r]])
      BY <1>5, <2>2, <3>1 DEF BarrierInv
    <3> QED BY <2>1, <2>2, <3>2
  <2>3. CASE Send(r)
    <3>1. cur'[r] = cur[r] /\ phase[r] = "checking" /\ ~WaitsForBarrier(cur[r])
          /\ UNCHANGED kind
      BY <2>3 DEF Send, opVars
    <3>2. cur[r] \in Issued /\ kind[cur[r]] \in Barriers
      BY <1>5, <3>1, CurIssued
    <3>3. ASSUME NEW q \in queued, q < cur[r] PROVE ~TouchesList(q, item[cur[r]])
      <4>1. q # cur[r] /\ q \notin captured[cur[r]]
        BY <1>2, <3>1, <3>2, <3>3 DEF WaitsForBarrier
      <4> QED BY <3>2, <3>3, <4>1 DEF BarrierInv
    <3> QED BY <2>1, <3>1, <3>3
  <2>4. ASSUME NEW q \in Replayers, Replay(q) \/ Crash(q), q # r
        PROVE  phase'[r] = phase[r] /\ cur'[r] = cur[r]
    BY <2>4, OthersKept
  <2> QED BY <1>5, <2>2, <2>3, <2>4, SentBySend, RunsOfReplayers
<1> QED BY <1>4, <1>5 DEF BarrierInv

\* The provider carries out only what a replayer has sent and not heard of.
LEMMA CarriedBySender ==
    ASSUME TypeOK, IdsInv, [Next]_vars, NEW o \in OpIds, Carried(o)
    PROVE  \E r \in Replayers :
              /\ phase[r] = "sent" /\ cur[r] = o /\ Acceptable(r) /\ Effect(o)
              /\ AnswerOk(r) \/ AnswerUnknown(r) \/ Crash(r)
<1>1. execCount[o] \in Int /\ execCount'[o] # execCount[o]
  BY DEF TypeOK, Carried
<1>2. PICK r \in Replayers : /\ phase[r] = "sent" /\ CarryOut(r)
                             /\ AnswerOk(r) \/ AnswerUnknown(r) \/ Crash(r)
  BY <1>1, ProviderShape DEF providerVars, RemoteDelete
<1>3. cur[r] = o
  BY <1>1, <1>2, CurIssued DEF CarryOut, Effect, TypeOK
<1> QED BY <1>2, <1>3 DEF CarryOut

\* A list is removed, or its completed tasks cleared, only after all that
\* touched the list before, however many replayers run at once.
THEOREM BarriersInOrder == Spec => BarrierOrder
<1>1. Init => TypeOK /\ IdsInv /\ BarrierInv
  BY InitTypeOK, InitIdsInv DEF Init, BarrierInv, Issued
<1>2. TypeOK /\ IdsInv /\ BarrierInv /\ [Next]_vars => (TypeOK /\ IdsInv /\ BarrierInv)'
  BY NextTypeOK, NextIdsInv, NextBarrierInv
<1>3. TypeOK /\ IdsInv /\ BarrierInv /\ [Next]_vars
        => [\A o \in OpIds : Carried(o) /\ kind[o] \in Barriers =>
               \A p \in queued : p < o => ~TouchesList(p, item[o])]_vars
  <2> SUFFICES ASSUME TypeOK, IdsInv, BarrierInv, [Next]_vars,
                      NEW o \in OpIds, Carried(o), kind[o] \in Barriers
               PROVE  \A p \in queued : p < o => ~TouchesList(p, item[o])
    OBVIOUS
  <2>1. PICK r \in Replayers : phase[r] = "sent" /\ cur[r] = o
    BY CarriedBySender
  <2> QED BY <2>1 DEF BarrierInv
<1> QED BY <1>1, <1>2, <1>3, PTL DEF Spec, BarrierOrder
------------------------------------------------------------------------------
(* Rows                                                                     *)

SameRow(o) == state'[o] = state[o] /\ timing'[o] = timing[o] /\ attempted'[o] = attempted[o]

\* The row of an operation changes when its replayer writes it, when the
\* operation before it is acknowledged, when its time comes, or when the user
\* retries it.
LEMMA RowShape ==
    ASSUME TypeOK, IdsInv, [Next]_vars, NEW o \in OpIds
    PROVE  \/ SameRow(o)
           \/ AttemptBecomesDue(o)
           \/ o \in queued /\ RetryWrite(o)
           \/ \E r \in Replayers : RecordOk(r) /\ Acknowledge(cur[r]) /\ o \in Unblocked(cur[r])
           \/ \E r \in Replayers :
                 /\ cur[r] = o
                 /\ \/ Admit(r) \/ BlockUnknownCompletion(r) \/ Send(r)
                    \/ RecordUnknownCreation(r) \/ RecordRetry(r) \/ RecordBlock(r)
<1>1. CASE UserEdits
  BY <1>1 DEF UserEdits, UserCreateList, UserClearCompleted, UserRenameList, UserRemoveList,
              UserCreateTask, UserEditTask, UserMoveTask, UserDeleteTask, Enqueue, SameRow
<1>2. ASSUME NEW p, NEW st, NEW tm, NEW att, WriteRow(p, st, tm, att), p # o
      PROVE  SameRow(o)
  BY <1>2 DEF WriteRow, TypeOK, SameRow
<1>3. ASSUME NEW r \in Replayers, Replay(r) \/ Crash(r),
             ~ (/\ cur[r] = o
                /\ \/ Admit(r) \/ BlockUnknownCompletion(r) \/ Send(r)
                   \/ RecordUnknownCreation(r) \/ RecordRetry(r) \/ RecordBlock(r)),
             ~ (RecordOk(r) /\ Acknowledge(cur[r]) /\ o \in Unblocked(cur[r]))
      PROVE  SameRow(o)
  <2>1. CASE StartReplay(r) \/ NextOfPass(r) \/ Crash(r)
    BY <2>1 DEF StartReplay, NextOfPass, Crash, SameRow
  <2>2. CASE Admit(r)
    <3>1. cur[r] # o
      BY <1>3, <2>2
    <3>2. \/ UNCHANGED <<state, timing, attempted>>
          \/ WriteRow(cur[r], "recovery_required", "never",
                      attempted[cur[r]] \/ seen[r] = "in_progress")
          \/ /\ state' = IF kind[cur[r]] \in Creations
                         THEN [state EXCEPT ![cur[r]] = "in_progress"] ELSE state
             /\ UNCHANGED <<timing, attempted>>
      BY <2>2 DEF Admit
    <3> QED BY <1>2, <3>1, <3>2 DEF TypeOK, SameRow
  <2>3. CASE CheckProvider(r) \/ FindDone(r) \/ BarrierAgain(r)
    BY <2>3 DEF CheckProvider, FindDone, BarrierAgain, SameRow
  <2>4. CASE Send(r)
    BY <1>3, <2>4 DEF Send, TypeOK, SameRow
  <2>5. CASE BlockUnknownCompletion(r)
    BY <1>2, <1>3, <2>5 DEF BlockUnknownCompletion
  <2>6. CASE AnswerOk(r) \/ AnswerUnknown(r) \/ AnswerRefused(r)
    BY <2>6 DEF AnswerOk, AnswerUnknown, AnswerRefused, AnswerTo, SameRow
  <2>7. CASE RecordOk(r)
    <3>1. UNCHANGED attempted
      BY <2>7 DEF RecordOk
    <3>2. CASE UNCHANGED <<queued, state, timing, localVars, fresh>>
      BY <3>1, <3>2 DEF SameRow
    <3>3. CASE Acknowledge(cur[r])
      <4>1. o \notin Unblocked(cur[r])
        BY <1>3, <2>7, <3>3
      <4>2. /\ state' = [p \in OpIds |-> IF p \in Unblocked(cur[r]) THEN "pending" ELSE state[p]]
            /\ timing' = [p \in OpIds |-> IF p \in Unblocked(cur[r]) THEN "due" ELSE timing[p]]
        BY <3>3 DEF Acknowledge
      <4> QED BY <3>1, <4>1, <4>2 DEF SameRow
    <3> QED BY <2>7, <3>2, <3>3 DEF RecordOk
  <2>8. CASE RecordMissingDelete(r)
    BY <2>8 DEF RecordMissingDelete, SameRow
  <2>9. CASE RecordUnknownCreation(r) \/ RecordRetry(r) \/ RecordBlock(r)
    BY <1>2, <1>3, <2>9 DEF RecordUnknownCreation, RecordRetry, RecordBlock
  <2> QED BY <1>3, <2>1, <2>2, <2>3, <2>4, <2>5, <2>6, <2>7, <2>8, <2>9 DEF Replay, Record
<1>4. CASE Resolution
  <2>1. ASSUME NEW p \in OpIds, RetryWrite(p)
        PROVE  SameRow(o) \/ (o \in queued /\ RetryWrite(o))
    BY <2>1 DEF RetryWrite, TypeOK, SameRow
  <2> QED BY <1>4, <2>1
          DEF Resolution, RetryCheck, DiscardBegin, DiscardFails, DiscardCommit, SameRow
<1>5. ASSUME NEW p \in OpIds, AttemptBecomesDue(p) PROVE SameRow(o) \/ AttemptBecomesDue(o)
  BY <1>5 DEF AttemptBecomesDue, TypeOK, SameRow
<1>6. CASE CooldownEnds \/ \E t \in Tasks : RemoteDelete(t)
  BY <1>6 DEF CooldownEnds, RemoteDelete, SameRow
<1>7. CASE UNCHANGED vars
  BY <1>7 DEF vars, SameRow
<1> QED BY <1>1, <1>3, <1>4, <1>5, <1>6, <1>7 DEF Next

\* An item is acknowledged with its creation.
LEMMA AckedShape ==
    ASSUME TypeOK, [Next]_vars
    PROVE  \/ acked' = acked
           \/ \E r \in Replayers :
                 /\ RecordOk(r) /\ Acknowledge(cur[r])
                 /\ kind[cur[r]] \in Creations /\ acked' = acked \cup {item[cur[r]]}
                 /\ queued' = queued \ {cur[r]} /\ UNCHANGED opVars
<1>1. CASE UserEdits
  BY <1>1 DEF UserEdits, UserCreateList, UserClearCompleted, UserRenameList, UserRemoveList,
              UserCreateTask, UserEditTask, UserMoveTask, UserDeleteTask, Enqueue
<1>2. ASSUME NEW r \in Replayers, Replay(r) \/ Crash(r)
      PROVE  \/ acked' = acked
             \/ /\ RecordOk(r) /\ Acknowledge(cur[r])
                /\ kind[cur[r]] \in Creations /\ acked' = acked \cup {item[cur[r]]}
                /\ queued' = queued \ {cur[r]} /\ UNCHANGED opVars
  <2> USE DEF localVars
  <2>1. CASE StartReplay(r) \/ NextOfPass(r) \/ Admit(r) \/ Crash(r)
    BY <2>1 DEF StartReplay, NextOfPass, Admit, Crash
  <2>2. CASE \/ CheckProvider(r) \/ FindDone(r) \/ BlockUnknownCompletion(r)
             \/ BarrierAgain(r) \/ Send(r)
    BY <2>2 DEF CheckProvider, FindDone, BlockUnknownCompletion, BarrierAgain, Send
  <2>3. CASE AnswerOk(r) \/ AnswerUnknown(r) \/ AnswerRefused(r)
    BY <2>3 DEF AnswerOk, AnswerUnknown, AnswerRefused, AnswerTo
  <2>4. CASE RecordOk(r)
    BY <2>4 DEF RecordOk, Acknowledge
  <2>5. CASE \/ RecordMissingDelete(r) \/ RecordUnknownCreation(r) \/ RecordRetry(r)
             \/ RecordBlock(r)
    BY <2>5 DEF RecordMissingDelete, RecordUnknownCreation, RecordRetry, RecordBlock
  <2> QED BY <1>2, <2>1, <2>2, <2>3, <2>4, <2>5 DEF Replay, Record
<1>3. CASE Resolution
  BY <1>3 DEF Resolution, RetryCheck, RetryWrite, DiscardBegin, DiscardFails, DiscardCommit,
              localVars
<1>4. CASE \/ \E p \in OpIds : AttemptBecomesDue(p)
           \/ CooldownEnds \/ \E t \in Tasks : RemoteDelete(t)
  BY <1>4 DEF AttemptBecomesDue, CooldownEnds, RemoteDelete, localVars
<1>5. CASE UNCHANGED vars
  BY <1>5 DEF vars, localVars
<1> QED BY <1>1, <1>2, <1>3, <1>4, <1>5 DEF Next

------------------------------------------------------------------------------
(* Creations                                                                *)

\* An item has one creation, the first operation on it; it is acknowledged
\* only when that is off the queue.
CreationInv ==
    /\ KnownItems \subseteq acked
    /\ \A i \in acked \ KnownItems : \E o \in Issued : kind[o] \in Creations /\ item[o] = i
    /\ \A o \in Issued : kind[o] \in Creations =>
          /\ item[o] \notin KnownItems
          /\ o \in queued => item[o] \notin acked
          /\ \A p \in Issued : item[p] = item[o] => o <= p

LEMMA NextCreationInv ==
    ASSUME TypeOK, IdsInv, CreationInv, [Next]_vars PROVE CreationInv'
<1>1. /\ Kept /\ Issued \subseteq Issued' /\ Issued' = Issued \cup New
      /\ queued' \subseteq queued \cup New /\ \A o \in New : NewOp(o)
  BY OpsKept DEF New
<1>2. \A o \in Issued : kind'[o] = kind[o] /\ item'[o] = item[o]
  BY <1>1 DEF Kept
<1>3. Issued \subseteq Int /\ queued \subseteq Issued /\ acked \subseteq acked'
  BY AckedShape DEF IdsInv, Issued
<1>4. KnownItems \subseteq acked'
  BY <1>3 DEF CreationInv
<1>5. ASSUME NEW i \in acked' \ KnownItems
      PROVE  \E o \in Issued' : kind'[o] \in Creations /\ item'[o] = i
  <2>1. CASE i \in acked
    <3>1. PICK o \in Issued : kind[o] \in Creations /\ item[o] = i
      BY <1>5, <2>1 DEF CreationInv
    <3> QED BY <1>1, <1>2, <3>1
  <2>2. CASE i \notin acked
    <3>1. PICK r \in Replayers : /\ kind[cur[r]] \in Creations /\ item[cur[r]] = i
                                 /\ RecordOk(r)
      BY <1>5, <2>2, AckedShape
    <3>2. cur[r] \in Issued
      BY <3>1, CurIssued DEF RecordOk
    <3> QED BY <1>1, <1>2, <3>1, <3>2
  <2> QED BY <2>1, <2>2
<1>6. ASSUME NEW o \in Issued', kind'[o] \in Creations
      PROVE  /\ item'[o] \notin KnownItems
             /\ o \in queued' => item'[o] \notin acked'
             /\ \A p \in Issued' : item'[p] = item'[o] => o <= p
  <2>1. CASE o \in Issued
    <3>1. kind[o] \in Creations /\ item'[o] = item[o]
      BY <1>2, <1>6, <2>1
    <3>2. \A p \in New : o <= p
      BY <1>3, <2>1, NewIsLater
    <3>3. \A p \in Issued' : item'[p] = item'[o] => o <= p
      BY <1>1, <1>2, <2>1, <3>1, <3>2 DEF CreationInv
    <3>4. ASSUME o \in queued' PROVE item[o] \notin acked'
      <4>1. o \in queued
        BY <1>1, <2>1, <3>4 DEF New
      <4>2. item[o] \notin acked
        BY <2>1, <3>1, <4>1 DEF CreationInv
      <4>3. ASSUME NEW r \in Replayers, RecordOk(r), kind[cur[r]] \in Creations,
                   queued' = queued \ {cur[r]}
            PROVE  item[o] # item[cur[r]]
        <5>1. cur[r] \in Issued /\ cur[r] # o
          BY <3>4, <4>3, CurIssued DEF RecordOk
        <5>2. item[o] = item[cur[r]] => o <= cur[r] /\ cur[r] <= o
          BY <2>1, <3>1, <4>3, <5>1 DEF CreationInv
        <5>3. o \in Int /\ cur[r] \in Int
          BY <1>3, <2>1, <5>1
        <5> QED BY <5>1, <5>2, <5>3
      <4> QED BY <4>2, <4>3, AckedShape
    <3> QED BY <2>1, <3>1, <3>3, <3>4 DEF CreationInv
  <2>2. CASE o \in New
    <3>1. /\ item'[o] \notin KnownItems
          /\ \A p \in Issued' \ {o} : item'[p] = item'[o] => o < p
      BY <1>1, <1>6, <2>2 DEF NewOp
    <3>2. o \in Int /\ \A p \in Issued : p < o
      BY <2>2, NewIsLater
    <3>3. \A p \in Issued : item[p] # item'[o]
      <4> SUFFICES ASSUME NEW p \in Issued, item[p] = item'[o] PROVE FALSE
        OBVIOUS
      <4>1. p \in Issued' /\ item'[p] = item'[o] /\ p # o
        BY <1>1, <1>2, <2>2 DEF New
      <4>2. o < p /\ p < o /\ p \in Int
        BY <1>3, <3>1, <3>2, <4>1
      <4> QED BY <3>2, <4>2
    <3>4. item'[o] \notin acked
      BY <3>1, <3>3 DEF CreationInv
    <3>5. item'[o] \notin acked'
      BY <3>3, <3>4, AckedShape, CurIssued DEF RecordOk
    <3>6. \A p \in Issued' : item'[p] = item'[o] => o <= p
      <4>1. \A p \in Issued' : p \in Int
        BY <1>1, <1>3, NewIsLater
      <4> QED BY <3>1, <3>2, <4>1
    <3> QED BY <3>1, <3>5, <3>6
  <2> QED BY <1>1, <2>1, <2>2
<1> QED BY <1>4, <1>5, <1>6 DEF CreationInv

LEMMA InitCreationInv == Init => CreationInv
BY DEF Init, CreationInv, Issued
------------------------------------------------------------------------------
(* One replayer: what it has taken                                          *)

Alone == Replayers = {Ui}

\* With one replayer a step of the replay is one of its own.
LEMMA AloneUi == ASSUME Alone, NEW r \in Replayers PROVE r = Ui
BY DEF Alone

\* Its steps are the steps above; those of others leave its run alone.
LEMMA RunOfUi ==
    ASSUME Alone, TypeOK, [Next]_vars
    PROVE  \/ UNCHANGED <<phase, todo, pos, progress, cur, seen, known, answer, sent>>
           \/ /\ Replay(Ui) \/ Crash(Ui)
              /\ Starts(Ui) \/ Scans(Ui) \/ Takes(Ui) \/ Leaves(Ui) \/ Advances(Ui)
BY RunsOfReplayers, RunShape, AloneUi

\* What the replayer has still to do, and what it is at, is due; what it is at
\* is no longer to do.
TodoInv ==
    /\ \A o \in todo[Ui] \cap queued : timing[o] = "due"
    /\ cur[Ui] \in queued => timing[cur[Ui]] = "due"
    /\ Busy(Ui) => cur[Ui] \notin todo[Ui]

\* An operation that stops being due is done with, and off the list.
LEMMA NoLongerDue ==
    ASSUME Alone, TypeOK, IdsInv, TodoInv, [Next]_vars,
           NEW o \in queued, timing[o] = "due", timing'[o] # "due"
    PROVE  /\ cur[Ui] = o /\ cur'[Ui] = NoOp /\ o \notin todo'[Ui]
           /\ Busy(Ui) \/ dep[o] \notin queued
<1>0. o \in OpIds /\ NoOp \notin OpIds
  BY DEF TypeOK, NoOp, OpIds
<1>1. ~SameRow(o) /\ ~AttemptBecomesDue(o)
  BY <1>0 DEF SameRow, AttemptBecomesDue, TypeOK
<1>2. ~RetryWrite(o)
  BY <1>0 DEF RetryWrite, TypeOK
<1>3. \A r \in Replayers : ~(Acknowledge(cur[r]) /\ o \in Unblocked(cur[r]))
  BY <1>0 DEF Acknowledge
<1>4. /\ cur[Ui] = o
      /\ \/ Admit(Ui) \/ BlockUnknownCompletion(Ui) \/ Send(Ui)
         \/ RecordUnknownCreation(Ui) \/ RecordRetry(Ui) \/ RecordBlock(Ui)
  BY <1>0, <1>1, <1>2, <1>3, RowShape, AloneUi
<1>5. Ui \in Replayers
  BY ReplayAssumption
<1>6. CASE Admit(Ui)
  <2>1. /\ Handle(Ui) /\ cur' = [cur EXCEPT ![Ui] = NoOp]
        /\ dep[o] \notin queued
    BY <1>1, <1>4, <1>6 DEF Admit, SameRow, TypeOK
  <2> QED BY <1>4, <1>5, <2>1 DEF Handle, TypeOK
<1>7. CASE \/ BlockUnknownCompletion(Ui) \/ RecordUnknownCreation(Ui)
           \/ RecordRetry(Ui) \/ RecordBlock(Ui)
  <2>1. Busy(Ui) /\ (Skip(Ui) \/ RunEnds(Ui))
    BY <1>7 DEF Busy, BlockUnknownCompletion, RecordUnknownCreation, RecordRetry, RecordBlock
  <2> QED BY <1>4, <1>5, <2>1 DEF TodoInv, Skip, RunEnds, TypeOK
<1>8. CASE Send(Ui)
  BY <1>1, <1>8 DEF Send
<1> QED BY <1>4, <1>6, <1>7, <1>8

LEMMA NextTodoInv ==
    ASSUME Alone, TypeOK, IdsInv, TodoInv, [Next]_vars PROVE TodoInv'
<1>0. Ui \in Replayers /\ NoOp \notin queued /\ NoOp \notin Issued'
  BY ReplayAssumption DEF TypeOK, NoOp, OpIds, Issued
<1>1. queued' \subseteq queued \cup New
  BY OpsKept
<1>2. ASSUME NEW o \in queued', o \in todo[Ui] \cup {cur[Ui]} \cup queued PROVE o \in queued
  <2>1. todo[Ui] \cup {cur[Ui]} \subseteq Issued \cup {NoOp} /\ queued \subseteq Issued
    BY <1>0 DEF IdsInv
  <2>2. o # NoOp
    BY <1>0, NextIdsInv DEF IdsInv
  <2> QED BY <1>1, <1>2, <2>1, <2>2 DEF New
<1>3. CASE UNCHANGED <<phase, todo, cur>>
  <2>1. \A o \in todo'[Ui] \cap queued' : timing'[o] = "due"
    BY <1>2, <1>3, NoLongerDue DEF TodoInv
  <2>2. cur'[Ui] \in queued' => timing'[cur'[Ui]] = "due"
    BY <1>0, <1>2, <1>3, NoLongerDue DEF TodoInv
  <2> QED BY <1>3, <2>1, <2>2 DEF TodoInv, Busy
<1>4. CASE Starts(Ui)
  <2>1. \A o \in todo'[Ui] : o \in queued /\ timing[o] = "due"
    BY <1>4 DEF Starts
  <2>2. \A o \in todo'[Ui] \cap queued' : timing'[o] = "due"
    BY <2>1, NoLongerDue
  <2>3. cur'[Ui] = NoOp /\ ~Busy(Ui)'
    BY <1>0, <1>4 DEF Starts, IdsInv, Busy
  <2> QED BY <1>0, <2>2, <2>3, NextIdsInv DEF TodoInv, IdsInv
<1>5. CASE Scans(Ui) \/ Leaves(Ui)
  <2>1. cur'[Ui] = NoOp /\ ~Busy(Ui)' /\ todo'[Ui] \subseteq todo[Ui]
    BY <1>0, <1>5 DEF Scans, Leaves, IdsInv, Busy
  <2>2. \A o \in todo'[Ui] \cap queued' : timing'[o] = "due"
    BY <1>2, <2>1, NoLongerDue DEF TodoInv
  <2> QED BY <1>0, <2>1, <2>2, NextIdsInv DEF TodoInv, IdsInv
<1>6. CASE Takes(Ui)
  <2>1. /\ cur'[Ui] \in todo[Ui] \cap queued /\ todo'[Ui] = todo[Ui] /\ ~Busy(Ui)'
    BY <1>6 DEF Takes, Busy
  <2>2. cur'[Ui] # NoOp
    BY <1>0, <2>1
  <2>3. \A o \in todo'[Ui] \cap queued' : timing'[o] = "due"
    BY <1>2, <2>1, <2>2, NoLongerDue DEF TodoInv
  <2> QED BY <2>1, <2>3 DEF TodoInv
<1>7. CASE Advances(Ui)
  <2>1. cur'[Ui] = cur[Ui] /\ todo'[Ui] \subseteq todo[Ui] /\ cur[Ui] # NoOp
    BY <1>0, <1>7 DEF Advances, IdsInv
  <2>2. \A o \in todo'[Ui] \cap queued' : timing'[o] = "due"
    BY <1>2, <2>1, NoLongerDue DEF TodoInv
  <2>3. cur'[Ui] \in queued' => timing'[cur'[Ui]] = "due"
    BY <1>2, <2>1, NoLongerDue DEF TodoInv
  <2>4. cur'[Ui] \notin todo'[Ui]
    BY <1>7 DEF Advances, TodoInv, Busy
  <2> QED BY <2>2, <2>3, <2>4 DEF TodoInv
<1> QED BY <1>3, <1>4, <1>5, <1>6, <1>7, RunOfUi
------------------------------------------------------------------------------
(* Creations are carried out once                                           *)

\* A new operation is due and pending, and nobody carried it out.
LEMMA NewAppends ==
    ASSUME TypeOK, IdsInv, [Next]_vars, NEW o \in New
    PROVE  /\ Appends /\ o \in OpIds \ Issued /\ o \notin queued
           /\ state'[o] = "pending" /\ timing'[o] = "due" /\ execCount'[o] = 0
<1>1. UNCHANGED opVars => New = {}
  BY DEF opVars, New, Issued
<1>2. Appends
  BY <1>1, OpsKept
<1>3. o \in OpIds \ Issued
  BY <1>2 DEF Appends, NewOp, New
<1> QED BY <1>2, <1>3 DEF Appends, IdsInv, providerVars

\* What is not carried out by a step keeps its count.
LEMMA ExecKept ==
    ASSUME TypeOK, IdsInv, [Next]_vars, NEW o \in OpIds, ~Carried(o)
    PROVE  execCount'[o] = execCount[o]
<1>1. execCount[o] \in 0..2
  BY DEF TypeOK
<1>2. ASSUME NEW r \in Replayers, phase[r] = "sent", CarryOut(r)
      PROVE  execCount'[o] = execCount[o]
  <2>1. cur[r] \in OpIds /\ execCount[cur[r]] \in 0..2
    BY <1>2, CurIssued DEF TypeOK
  <2>2. execCount' = [execCount EXCEPT ![cur[r]] = IF @ = 2 THEN 2 ELSE @ + 1]
    BY <1>2 DEF CarryOut, Effect
  <2>3. CASE o # cur[r]
    BY <2>2, <2>3 DEF TypeOK
  <2>4. CASE o = cur[r]
    <3>1. execCount'[o] = IF execCount[o] = 2 THEN 2 ELSE execCount[o] + 1
      BY <2>1, <2>2, <2>4 DEF TypeOK
    <3> QED BY <1>1, <3>1 DEF Carried
  <2> QED BY <2>3, <2>4
<1> QED BY <1>2, ProviderShape DEF providerVars, RemoteDelete

\* How a replayer comes to be, or stays, busy.
Admits(r) ==
    LET o == cur[r] IN
    /\ phase[r] = "read" /\ phase'[r] = "checking"
    /\ dep[o] \notin queued /\ ~WaitsForBarrier(o)
    /\ kind[o] \in Creations
         => seen[r] \notin {"in_progress", "recovery_required"} /\ Claimable(r)
    /\ state' = IF kind[o] \in Creations THEN [state EXCEPT ![o] = "in_progress"] ELSE state
    /\ UNCHANGED <<queued, opVars, localVars, providerVars, abandoned, timing, attempted,
                   cur, seen, known, answer, sent, uiVars>>

\* How a replayer comes to be, or stays, between its check and its record.
LEMMA BusyBy ==
    ASSUME TypeOK, NEW r \in Replayers, Replay(r) \/ Crash(r), Busy(r)'
    PROVE  \/ Admits(r) \/ CheckProvider(r) \/ FindDone(r) \/ Send(r)
           \/ AnswerOk(r) \/ AnswerUnknown(r) \/ AnswerRefused(r)
<1>0. phase'[r] \in {"checking", "sent", "answered"}
  BY DEF Busy
<1>1. CASE RunEnds(r) \/ Skip(r)
  BY <1>0, <1>1 DEF RunEnds, Skip, TypeOK
<1>2. CASE StartReplay(r)
  BY <1>0, <1>2 DEF StartReplay, TypeOK
<1>3. CASE NextOfPass(r)
  BY <1>0, <1>1, <1>3 DEF NextOfPass, TypeOK
<1>4. CASE Admit(r)
  <2>1. CASE phase' = [phase EXCEPT ![r] = "scan"]
    BY <1>0, <2>1 DEF TypeOK
  <2>2. CASE /\ dep[cur[r]] \notin queued /\ ~WaitsForBarrier(cur[r])
             /\ kind[cur[r]] \in Creations
                  => seen[r] \notin {"in_progress", "recovery_required"} /\ Claimable(r)
             /\ state' = IF kind[cur[r]] \in Creations
                         THEN [state EXCEPT ![cur[r]] = "in_progress"] ELSE state
             /\ phase' = [phase EXCEPT ![r] = "checking"]
             /\ UNCHANGED <<timing, attempted, pos, cur, seen, fresh, known, answer, sent>>
    BY <1>4, <2>2 DEF Admit, Admits, TypeOK
  <2> QED BY <1>1, <1>4, <2>1, <2>2 DEF Admit
<1>5. CASE BlockUnknownCompletion(r) \/ BarrierAgain(r) \/ Record(r) \/ Crash(r)
  BY <1>1, <1>5 DEF BlockUnknownCompletion, BarrierAgain, Record, RecordOk,
     RecordMissingDelete, RecordUnknownCreation, RecordRetry, RecordBlock, Crash
<1> QED BY <1>2, <1>3, <1>4, <1>5 DEF Replay

\* A creation was not carried out unless it is claimed or set aside, a claimed
\* one is not blocked, and the one the replayer is at is claimed and, until
\* its answer says otherwise, not carried out.
Refusals == {"unsent", "throttled", "rejected", "missing", "conflict"}
CreatedInv ==
    /\ \A o \in Issued : kind[o] \in Creations =>
          /\ execCount[o] <= 1
          /\ o \in queued /\ state[o] \notin {"in_progress", "recovery_required"}
                => execCount[o] = 0
          /\ o \in queued /\ state[o] = "in_progress" => timing[o] # "never"
    /\ Busy(Ui) /\ kind[cur[Ui]] \in Creations =>
          /\ cur[Ui] \in queued => state[cur[Ui]] = "in_progress"
          /\ phase[Ui] \in {"checking", "sent"} => execCount[cur[Ui]] = 0
          /\ phase[Ui] = "answered" /\ answer[Ui] \in Refusals => execCount[cur[Ui]] = 0

\* The part of CreatedInv about the rows.
LEMMA NextCreatedRows ==
    ASSUME Alone, TypeOK, IdsInv, TodoInv, CreatedInv, [Next]_vars,
           NEW o \in Issued', kind'[o] \in Creations
    PROVE  /\ execCount'[o] <= 1
           /\ o \in queued' /\ state'[o] \notin {"in_progress", "recovery_required"}
                 => execCount'[o] = 0
           /\ o \in queued' /\ state'[o] = "in_progress" => timing'[o] # "never"
<1>0. Ui \in Replayers /\ "complete" \notin Creations /\ Creations \cap Reconcilable = {}
  BY ReplayAssumption DEF Creations, Reconcilable
<1>1. CASE o \in New
  BY <1>1, NewAppends
<1>2. CASE o \in Issued /\ o \notin New
  <2>1. o \in OpIds /\ kind[o] \in Creations /\ (o \in queued' => o \in queued)
    <3>1. Issued \subseteq OpIds
      BY ReplayAssumption DEF Issued, OpIds, TypeOK
    <3> QED BY <1>2, <3>1, OpsKept DEF Kept
  <2>2. Carried(o) => /\ execCount[o] = 0 /\ execCount'[o] = 1
                      /\ phase[Ui] = "sent" /\ cur[Ui] = o
                      /\ o \in queued => state[o] = "in_progress"
    <3> SUFFICES ASSUME Carried(o)
                 PROVE  /\ execCount[o] = 0 /\ execCount'[o] = 1
                        /\ phase[Ui] = "sent" /\ cur[Ui] = o
                        /\ o \in queued => state[o] = "in_progress"
      OBVIOUS
    <3>1. phase[Ui] = "sent" /\ cur[Ui] = o /\ Effect(o)
      BY <2>1, CarriedBySender, AloneUi
    <3>2. execCount[o] = 0 /\ (o \in queued => state[o] = "in_progress")
      BY <2>1, <3>1 DEF CreatedInv, Busy
    <3> QED BY <2>1, <3>1, <3>2 DEF Effect, TypeOK
  <2>3. execCount'[o] <= 1
    BY <1>2, <2>1, <2>2, ExecKept DEF CreatedInv
  <2>4. o \in queued => /\ state[o] \notin {"in_progress", "recovery_required"} => execCount[o] = 0
                        /\ state[o] = "in_progress" => timing[o] # "never"
    BY <1>2, <2>1 DEF CreatedInv
  <2>5. o \in queued /\ state[o] \notin {"in_progress", "recovery_required"} => execCount'[o] = 0
    BY <2>1, <2>2, <2>4, ExecKept
  <2>6. ASSUME o \in queued,
               \/ SameRow(o) \/ AttemptBecomesDue(o) \/ RetryWrite(o)
        PROVE  /\ state'[o] = state[o]
               /\ timing'[o] \in {timing[o], "due"}
    BY <2>1, <2>6 DEF SameRow, AttemptBecomesDue, RetryWrite, TypeOK
  <2>7. ASSUME o \in queued, Acknowledge(cur[Ui]), o \in Unblocked(cur[Ui])
        PROVE  state'[o] = "pending" /\ execCount'[o] = 0
    BY <2>1, <2>4, <2>5, <2>7 DEF Acknowledge, Unblocked
  <2>8. ASSUME o \in queued, cur[Ui] = o, Admit(Ui)
        PROVE  /\ state'[o] \notin {"in_progress", "recovery_required"} => execCount'[o] = 0
               /\ state'[o] = "in_progress" => timing'[o] # "never"
    <3>1. timing[o] = "due"
      BY <2>8 DEF TodoInv
    <3>2. CASE UNCHANGED <<state, timing, attempted>>
      BY <2>4, <2>5, <2>8, <3>2
    <3>3. CASE WriteRow(o, "recovery_required", "never",
                        attempted[o] \/ seen[Ui] = "in_progress")
      BY <2>1, <2>8, <3>3 DEF WriteRow, TypeOK
    <3>4. CASE state' = [state EXCEPT ![o] = "in_progress"] /\ UNCHANGED timing
      BY <2>1, <3>1, <3>4 DEF TypeOK
    <3> QED BY <2>1, <2>8, <3>2, <3>3, <3>4 DEF Admit
  <2>9. ASSUME o \in queued, cur[Ui] = o, Send(Ui)
        PROVE  state'[o] = state[o] /\ timing'[o] = timing[o]
    BY <1>0, <2>1, <2>9 DEF Send
  <2>10. ASSUME o \in queued, cur[Ui] = o,
                BlockUnknownCompletion(Ui) \/ RecordUnknownCreation(Ui)
         PROVE  state'[o] = "recovery_required"
    BY <2>1, <2>10 DEF BlockUnknownCompletion, RecordUnknownCreation, WriteRow, TypeOK
  <2>11. ASSUME o \in queued, cur[Ui] = o, RecordRetry(Ui)
         PROVE  execCount'[o] = 0 /\ timing'[o] = "later"
    <3>1. answer[Ui] \in {"unsent", "throttled"} /\ phase[Ui] = "answered"
      BY <2>1, <2>11 DEF RecordRetry, UnknownOutcome
    <3>2. execCount[o] = 0
      BY <2>1, <2>11, <3>1 DEF CreatedInv, Busy, Refusals
    <3>3. execCount'[o] = 0
      BY <2>11, <3>2 DEF RecordRetry, providerVars
    <3> QED BY <2>1, <2>11, <3>3 DEF RecordRetry, WriteRow, TypeOK
  <2>12. ASSUME o \in queued, cur[Ui] = o, RecordBlock(Ui)
         PROVE  execCount'[o] = 0 /\ state'[o] = "failed"
    <3>1. answer[Ui] \in {"rejected", "conflict", "missing"} /\ phase[Ui] = "answered"
      BY <2>1, <2>12 DEF RecordBlock, UnknownOutcome
    <3>2. execCount[o] = 0
      BY <2>1, <2>12, <3>1 DEF CreatedInv, Busy, Refusals
    <3>3. execCount'[o] = 0
      BY <2>12, <3>2 DEF RecordBlock, providerVars
    <3> QED BY <2>1, <2>12, <3>3 DEF RecordBlock, WriteRow, TypeOK
  <2>13. ASSUME o \in queued
         PROVE  /\ state'[o] \notin {"in_progress", "recovery_required"} => execCount'[o] = 0
                /\ state'[o] = "in_progress" => timing'[o] # "never"
    BY <2>1, <2>4, <2>5, <2>6, <2>7, <2>8, <2>9, <2>10, <2>11, <2>12, <2>13, RowShape, AloneUi
  <2> QED BY <2>1, <2>3, <2>13
<1> QED BY <1>1, <1>2 DEF New

\* The part of CreatedInv about the operation the replayer is at.
LEMMA NextCreatedCur ==
    ASSUME Alone, TypeOK, IdsInv, TodoInv, CreatedInv, [Next]_vars,
           Busy(Ui)', kind'[cur'[Ui]] \in Creations
    PROVE  /\ cur'[Ui] \in queued' => state'[cur'[Ui]] = "in_progress"
           /\ phase'[Ui] \in {"checking", "sent"} => execCount'[cur'[Ui]] = 0
           /\ phase'[Ui] = "answered" /\ answer'[Ui] \in Refusals
                 => execCount'[cur'[Ui]] = 0
<1>0. Ui \in Replayers /\ "complete" \notin Creations /\ Creations \cap Reconcilable = {}
      /\ "patch" \notin Creations
  BY ReplayAssumption DEF Creations, Reconcilable
<1>1. cur'[Ui] = cur[Ui] /\ phase[Ui] \in {"read", "checking", "sent", "answered"}
  BY RunOfUi DEF Busy, Starts, Scans, Takes, Leaves, Advances
<1>2. cur[Ui] \in OpIds /\ cur[Ui] \in Issued /\ cur[Ui] \in Issued'
  BY <1>0, <1>1, CurIssued, OpsKept
<1> DEFINE o == cur[Ui]
<1>3. kind[o] \in Creations /\ (o \in queued' => o \in queued)
  BY <1>1, <1>2, OpsKept DEF Kept, New
<1>4. CASE Replay(Ui) \/ Crash(Ui)
  <2>1. CASE Admits(Ui)
    <3>1. /\ o \in queued /\ state[o] \notin {"in_progress", "recovery_required"}
          /\ state' = [state EXCEPT ![o] = "in_progress"] /\ UNCHANGED execCount
          /\ phase'[Ui] = "checking"
      BY <1>3, <2>1 DEF Admits, Claimable, providerVars
    <3>2. execCount[o] = 0
      BY <1>2, <1>3, <3>1 DEF CreatedInv
    <3> QED BY <1>1, <1>2, <3>1, <3>2 DEF TypeOK
  <2>2. CASE CheckProvider(Ui)
    BY <1>1, <1>3, <2>2 DEF CheckProvider, CreatedInv, Busy, providerVars
  <2>3. CASE FindDone(Ui)
    BY <1>0, <1>3, <2>3 DEF FindDone
  <2>4. CASE Send(Ui)
    BY <1>0, <1>1, <1>3, <2>4 DEF Send, CreatedInv, Busy, providerVars, TypeOK
  <2>5. CASE AnswerOk(Ui) \/ AnswerUnknown(Ui)
    <3>1. PICK a \in UncertainAnswers \cup {"ok"} : AnswerTo(Ui, a)
      BY <2>5 DEF AnswerOk, AnswerUnknown
    <3>2. a \notin Refusals
      BY <3>1, ReplayAssumption DEF Refusals
    <3> QED BY <1>0, <1>1, <1>3, <3>1, <3>2 DEF AnswerTo, CreatedInv, Busy, TypeOK
  <2>6. CASE AnswerRefused(Ui)
    <3>1. PICK a : AnswerTo(Ui, a) /\ UNCHANGED providerVars
      BY <2>6 DEF AnswerRefused
    <3> QED BY <1>0, <1>1, <1>3, <3>1 DEF AnswerTo, CreatedInv, Busy, providerVars, TypeOK
  <2> QED BY <1>0, <1>4, <2>1, <2>2, <2>3, <2>4, <2>5, <2>6, BusyBy
<1>5. CASE /\ UNCHANGED <<phase, cur, answer>> /\ ~(Replay(Ui) \/ Crash(Ui))
  <2>1. /\ Busy(Ui)
        /\ o \in queued => state[o] = "in_progress"
        /\ phase[Ui] \in {"checking", "sent"} => execCount[o] = 0
        /\ phase[Ui] = "answered" /\ answer[Ui] \in Refusals => execCount[o] = 0
    BY <1>3, <1>5 DEF Busy, CreatedInv
  <2>2. state'[o] = state[o]
    <3>1. SameRow(o) \/ AttemptBecomesDue(o) \/ RetryWrite(o)
      BY <1>2, <1>5, RowShape, AloneUi DEF Replay, Record
    <3> QED BY <1>2, <3>1 DEF SameRow, AttemptBecomesDue, RetryWrite
  <2>3. execCount'[o] = execCount[o]
    <3>1. ~Carried(o)
      BY <1>2, <1>5, CarriedBySender, AloneUi DEF Replay
    <3> QED BY <1>2, <3>1, ExecKept
  <2> QED BY <1>1, <1>3, <1>5, <2>1, <2>2, <2>3
<1> QED BY <1>4, <1>5, RunOfUi

LEMMA InitCreatedInv == Init => TodoInv /\ CreatedInv
<1> SUFFICES ASSUME Init PROVE TodoInv /\ CreatedInv
  OBVIOUS
<1>1. Ui \in Replayers
  BY ReplayAssumption
<1>2. TodoInv
  BY <1>1 DEF Init, TodoInv, Busy
<1>3. CreatedInv
  BY <1>1 DEF Init, CreatedInv, Busy, Issued
<1> QED BY <1>2, <1>3

\* With one replayer, a creation is carried out at most once: whatever answers
\* are lost, whenever the app is killed, whatever the user retries.
THEOREM CreationsOnce == ASSUME Replayers = {Ui} PROVE Spec => []CreatedOnce
<1> USE DEF Alone
<1> DEFINE Inv == TypeOK /\ IdsInv /\ TodoInv /\ CreatedInv
<1>1. Init => Inv
  BY InitTypeOK, InitIdsInv, InitCreatedInv
<1>2. Inv /\ [Next]_vars => Inv'
  <2> SUFFICES ASSUME Inv, [Next]_vars PROVE Inv'
    OBVIOUS
  <2>1. TypeOK' /\ IdsInv' /\ TodoInv'
    BY NextTypeOK, NextIdsInv, NextTodoInv
  <2>2. CreatedInv'
    BY NextCreatedRows, NextCreatedCur DEF CreatedInv
  <2> QED BY <2>1, <2>2
<1>3. Inv => CreatedOnce
  <2> SUFFICES ASSUME Inv, NEW o \in OpIds, kind[o] \in Creations PROVE execCount[o] <= 1
    BY DEF CreatedOnce
  <2>1. CASE o \in Issued
    BY <2>1 DEF CreatedInv
  <2>2. CASE o \notin Issued
    BY <2>2 DEF IdsInv
  <2> QED BY <2>1, <2>2
<1> QED BY <1>1, <1>2, <1>3, PTL DEF Spec
------------------------------------------------------------------------------
(* Items come from their creations                                          *)

\* An item that an operation names, or its list, is one the provider knew at
\* the start or was created by an operation issued no later.
MadeBefore(i, p) ==
    i \in KnownItems \/ \E c \in Issued : c <= p /\ kind[c] \in Creations /\ item[c] = i
ItemsInv ==
    /\ \A p \in Issued : MadeBefore(item[p], p) /\ MadeBefore(ListOfOp(p), p)
    /\ \A i \in shown : i \in KnownItems \/ \E c \in Issued : kind[c] \in Creations /\ item[c] = i

\* What a discard removes are queued operations, or those of a discarded move.
LEMMA DiscardedShape ==
    ASSUME NEW o
    PROVE  DiscardedWith(o) \subseteq queued \cup {o}
BY DEF DiscardedWith, CreationClosure, ListCreationClosure, DependentClosure, Closure

\* Rows appear for created items, or are shown again by a discard.
LEMMA ShownShape ==
    ASSUME TypeOK, IdsInv, [Next]_vars, NEW i \in shown'
    PROVE  \/ i \in shown
           \/ \E p \in Issued : item[p] = i
           \/ Appends /\ \E p \in New : kind'[p] \in Creations /\ item'[p] = i
<1>1. CASE UserEdits
  BY <1>1, EditShape DEF Appends, Cancels
<1>2. ASSUME NEW r \in Replayers, Replay(r) \/ Crash(r)
      PROVE  shown' \subseteq shown \cup {item[cur[r]]} /\ (shown' = shown \/ RecordOk(r))
  <2> USE DEF localVars
  <2>1. CASE StartReplay(r) \/ NextOfPass(r) \/ Admit(r) \/ Crash(r)
    BY <2>1 DEF StartReplay, NextOfPass, Admit, Crash
  <2>2. CASE \/ CheckProvider(r) \/ FindDone(r) \/ BlockUnknownCompletion(r)
             \/ BarrierAgain(r) \/ Send(r)
    BY <2>2 DEF CheckProvider, FindDone, BlockUnknownCompletion, BarrierAgain, Send
  <2>3. CASE AnswerOk(r) \/ AnswerUnknown(r) \/ AnswerRefused(r)
    BY <2>3 DEF AnswerOk, AnswerUnknown, AnswerRefused, AnswerTo
  <2>4. CASE RecordOk(r)
    BY <2>4 DEF RecordOk, Acknowledge
  <2>5. CASE \/ RecordMissingDelete(r) \/ RecordUnknownCreation(r) \/ RecordRetry(r)
             \/ RecordBlock(r)
    BY <2>5 DEF RecordMissingDelete, RecordUnknownCreation, RecordRetry, RecordBlock
  <2> QED BY <1>2, <2>1, <2>2, <2>3, <2>4, <2>5 DEF Replay, Record
<1>3. ASSUME NEW r \in Replayers, Replay(r) \/ Crash(r)
      PROVE  i \in shown \/ \E p \in Issued : item[p] = i
  <2>1. CASE RecordOk(r)
    <3>1. cur[r] \in Issued
      BY <2>1, CurIssued DEF RecordOk
    <3> QED BY <1>2, <1>3, <3>1
  <2> QED BY <1>2, <1>3, <2>1
<1>4. CASE DiscardCommit
  <2>1. PICK gone : /\ gone \in {discarding, DiscardedWith(MinOf(discarding))}
                    /\ shown' = ShownAfter(gone) \/ shown' = shown
    BY <1>4 DEF DiscardCommit
  <2>2. gone \subseteq Issued
    <3>1. discarding \in SUBSET OpIds /\ discarding # {}
      BY <1>4 DEF DiscardCommit, TypeOK
    <3>2. MinOf(discarding) \in discarding
      BY <3>1, MinOfSet
    <3>3. queued \subseteq Issued /\ discarding \subseteq Issued
      BY DEF IdsInv
    <3>4. DiscardedWith(MinOf(discarding)) \subseteq queued \cup {MinOf(discarding)}
      BY DiscardedShape
    <3> QED BY <2>1, <3>2, <3>3, <3>4
  <2>3. ShownAfter(gone) \subseteq shown \cup {item[p] : p \in gone}
    BY DEF ShownAfter
  <2> QED BY <2>1, <2>2, <2>3
<1>5. CASE Resolution /\ ~DiscardCommit
  BY <1>5 DEF Resolution, RetryCheck, RetryWrite, DiscardBegin, DiscardFails, localVars
<1>6. CASE \/ \E p \in OpIds : AttemptBecomesDue(p)
           \/ CooldownEnds \/ \E t \in Tasks : RemoteDelete(t)
  BY <1>6 DEF AttemptBecomesDue, CooldownEnds, RemoteDelete, localVars
<1>7. CASE UNCHANGED vars
  BY <1>7 DEF vars, localVars
<1> QED BY <1>1, <1>3, <1>4, <1>5, <1>6, <1>7 DEF Next

LEMMA NextItemsInv ==
    ASSUME TypeOK, IdsInv, ItemsInv, [Next]_vars PROVE ItemsInv'
<1>1. /\ Kept /\ Issued' = Issued \cup New /\ \A o \in New : NewOp(o)
  BY OpsKept DEF New
<1>2. \A o \in Issued : kind'[o] = kind[o] /\ item'[o] = item[o]
  BY <1>1 DEF Kept
<1>3. Issued \subseteq Int
  BY DEF Issued
<1>4. ASSUME NEW i, NEW p \in Int, NEW c \in Issued', c <= p, kind'[c] \in Creations, item'[c] = i
      PROVE  MadeBefore(i, p)'
  BY <1>4 DEF MadeBefore
<1>5. ASSUME NEW i, NEW p \in Int, i \in KnownItems PROVE MadeBefore(i, p)'
  BY <1>5 DEF MadeBefore
<1>6. ASSUME NEW i \in shown, NEW p \in New PROVE MadeBefore(i, p)'
  <2>1. CASE i \in KnownItems
    BY <2>1, <1>5, NewIsLater
  <2>2. ASSUME NEW c \in Issued, kind[c] \in Creations, item[c] = i PROVE MadeBefore(i, p)'
    <3>1. c <= p /\ p \in Int
      BY <1>3, NewIsLater
    <3>2. c \in Issued' /\ kind'[c] \in Creations /\ item'[c] = i
      BY <1>1, <1>2, <2>2
    <3> QED BY <1>4, <3>1, <3>2
  <2> QED BY <2>1, <2>2 DEF ItemsInv
<1>7. ASSUME NEW p \in Issued, NEW i, MadeBefore(i, p) PROVE MadeBefore(i, p)'
  BY <1>1, <1>2, <1>7 DEF MadeBefore
<1>8. ASSUME NEW p \in New PROVE MadeBefore(item[p], p)' /\ MadeBefore(ListOfOp(p), p)'
  <2>0. p \in Int /\ NewOp(p) /\ p \in Issued'
    BY <1>1, NewIsLater
  <2>1. MadeBefore(item[p], p)'
    <3>1. CASE kind'[p] \in Creations
      BY <2>0, <3>1 DEF MadeBefore
    <3>2. CASE item'[p] \in shown
      <4>1. PICK i : i = item'[p]
        OBVIOUS
      <4>2. MadeBefore(i, p)'
        BY <1>6, <3>2, <4>1
      <4> QED BY <4>1, <4>2 DEF MadeBefore
    <3>3. ASSUME NEW n \in New, n < p, kind'[n] \in Creations, item'[n] = item'[p]
          PROVE  MadeBefore(item[p], p)'
      <4>1. n <= p /\ n \in Issued'
        BY <1>1, <2>0, <3>3, NewIsLater
      <4> QED BY <3>3, <4>1 DEF MadeBefore
    <3> QED BY <2>0, <3>1, <3>2, <3>3 DEF NewOp
  <2>2. CASE item'[p] \in Tasks
    <3>1. PICK i : i = ListOf[item'[p]]
      OBVIOUS
    <3>2. MadeBefore(i, p)'
      BY <1>6, <2>0, <2>2, <3>1 DEF NewOp
    <3>3. ListOfOp(p)' = i
      BY <2>2, <3>1 DEF ListOfOp
    <3> QED BY <2>1, <3>2, <3>3 DEF MadeBefore
  <2>3. CASE item'[p] \notin Tasks
    BY <2>1, <2>3 DEF ListOfOp, MadeBefore
  <2> QED BY <2>2, <2>3
<1>9. ASSUME NEW p \in Issued PROVE MadeBefore(item[p], p)' /\ MadeBefore(ListOfOp(p), p)'
  <2>1. PICK i, l : i = item[p] /\ l = ListOfOp(p)
    OBVIOUS
  <2>2. MadeBefore(i, p)' /\ MadeBefore(l, p)'
    BY <1>7, <2>1 DEF ItemsInv
  <2>3. item'[p] = i /\ ListOfOp(p)' = l
    BY <1>2, <2>1 DEF ListOfOp
  <2> QED BY <2>2, <2>3 DEF MadeBefore
<1>10. ASSUME NEW i \in shown'
       PROVE  i \in KnownItems \/ \E c \in Issued' : kind'[c] \in Creations /\ item'[c] = i
  <2>1. i \in shown => i \in KnownItems \/ \E c \in Issued : kind[c] \in Creations /\ item[c] = i
    BY DEF ItemsInv
  <2>2. ASSUME NEW p \in Issued, item[p] = i
        PROVE  i \in KnownItems \/ \E c \in Issued : kind[c] \in Creations /\ item[c] = i
    BY <2>2 DEF ItemsInv, MadeBefore
  <2> QED BY <1>1, <1>2, <2>1, <2>2, ShownShape
<1> QED BY <1>1, <1>8, <1>9, <1>10 DEF ItemsInv

LEMMA InitItemsInv == Init => ItemsInv
BY DEF Init, ItemsInv, Issued
------------------------------------------------------------------------------
(* The operations on one item                                               *)

\* An operation waits for one on the same item, or a creation for the creation
\* of its parent.
DepInv ==
    \A o \in Issued : dep[o] # NoOp =>
        \/ kind[o] = "createTask" /\ kind[dep[o]] = "createTask"
        \/ SameLine(o, dep[o])

\* The queued operations on an item wait for each other one after the other.
ChainInv ==
    \A o, p \in queued : p < o /\ SameLine(o, p) => dep[o] \in queued /\ p <= dep[o]

Ids == TypeOK /\ IdsInv /\ CreationInv /\ DepInv

\* Operations on the same task, or the same list, are on the same line.
LEMMA LineIsEquivalence ==
    ASSUME NEW o, NEW p, NEW q, SameLine(o, p)
    PROVE  SameLine(p, o) /\ (SameLine(p, q) => SameLine(o, q))
BY DEF SameLine, TaskKinds, ListKinds

\* The numbers of the operations that were issued.
LEMMA IssuedIds ==
    ASSUME TypeOK, IdsInv
    PROVE  /\ queued \subseteq Issued /\ Issued \subseteq OpIds /\ Issued \subseteq Int
           /\ NoOp \notin Issued
           /\ \A o \in Issued : dep[o] < o /\ dep[o] \in Int
                                /\ (dep[o] # NoOp => dep[o] \in Issued)
<1>1. Issued \subseteq OpIds /\ Issued \subseteq Int /\ NoOp \notin Issued
  BY ReplayAssumption DEF Issued, OpIds, TypeOK, NoOp
<1>2. ASSUME NEW o \in Issued
      PROVE dep[o] < o /\ dep[o] \in Int /\ (dep[o] # NoOp => dep[o] \in Issued)
  <2>1. dep[o] \in 0..(o - 1) /\ o \in Issued /\ nextOp \in Int
    BY DEF IdsInv, TypeOK
  <2> QED BY <2>1 DEF Issued, NoOp
<1> QED BY <1>1, <1>2 DEF IdsInv

\* An operation with an earlier one on its item waits for one on its line.
LEMMA DepOnLine ==
    ASSUME Ids, NEW o \in Issued, dep[o] # NoOp,
           NEW p \in Issued, p < o, item[p] = item[o]
    PROVE  SameLine(o, dep[o])
<1>1. kind[o] # "createTask"
  <2> SUFFICES ASSUME kind[o] = "createTask" PROVE FALSE
    OBVIOUS
  <2>1. o <= p
    BY DEF Ids, CreationInv, Creations
  <2>2. o \in Int /\ p \in Int
    BY IssuedIds DEF Ids
  <2> QED BY <2>1, <2>2
<1> QED BY <1>1 DEF Ids, DepInv

\* Operations that with one of them contain all that wait for it.
ClosedUnderDep(G) == \A q \in queued : dep[q] \in G => q \in G

\* Such a set contains, with an operation, the later ones on the same line.
LEMMA LineClosed ==
    ASSUME Ids, ChainInv, NEW G \in SUBSET queued, ClosedUnderDep(G),
           NEW d \in G, NEW q \in queued, d < q, SameLine(q, d)
    PROVE  q \in G
<1> SUFFICES ASSUME q \notin G PROVE FALSE
  OBVIOUS
<1>0. /\ queued \subseteq Issued /\ Issued \subseteq OpIds /\ Issued \subseteq Int
      /\ \A o \in Issued : dep[o] < o /\ dep[o] \in Int
  BY IssuedIds DEF Ids
<1> DEFINE B == {x \in queued : d < x /\ SameLine(x, d) /\ x \notin G}
<1>1. B \in SUBSET OpIds /\ q \in B
  BY <1>0
<1>2. PICK m \in B : \A x \in B : m <= x
  <2> HIDE DEF B
  <2> QED BY <1>1, MinOfSet
<1>3. m \in queued /\ d < m /\ SameLine(m, d) /\ m \notin G
  OBVIOUS
<1>4. dep[m] \in queued /\ d <= dep[m]
  BY <1>3 DEF ChainInv
<1>5. SameLine(m, dep[m])
  <2>1. dep[m] # NoOp
    BY <1>0, <1>4, IssuedIds DEF Ids
  <2>2. item[d] = item[m]
    BY <1>3 DEF SameLine
  <2> QED BY <1>0, <1>3, <2>1, <2>2, DepOnLine
<1>6. SameLine(dep[m], d)
  BY <1>3, <1>5, LineIsEquivalence
<1>7. dep[m] \notin G
  BY <1>3 DEF ClosedUnderDep
<1>8. d < dep[m]
  <2>1. dep[m] # d /\ d \in Int /\ dep[m] \in Int
    BY <1>0, <1>4, <1>7
  <2> QED BY <1>4, <2>1
<1>9. dep[m] \in B
  BY <1>4, <1>6, <1>7, <1>8
<1>10. m <= dep[m] /\ dep[m] < m /\ m \in Int /\ dep[m] \in Int
  <2> HIDE DEF B
  <2> QED BY <1>0, <1>2, <1>3, <1>4, <1>9
<1> QED BY <1>10

\* A closure under dependencies contains what waits for its members.
LEMMA ClosureClosedUnderDep ==
    ASSUME NEW base \in SUBSET queued, NEW pulls \in SUBSET (queued \X queued),
           Dependencies \subseteq pulls
    PROVE  ClosedUnderDep(Closure(base, pulls))
<1> SUFFICES ASSUME NEW q \in queued, dep[q] \in Closure(base, pulls)
             PROVE  q \in Closure(base, pulls)
  BY DEF ClosedUnderDep
<1>1. dep[q] \in queued
  BY DEF Closure
<1>2. <<dep[q], q>> \in pulls
  BY <1>1 DEF Dependencies
<1> QED BY <1>2, ClosureIsClosed

\* What a cancellation or a discard takes away contains what waits for it.
LEMMA ClosuresClosed ==
    ASSUME NEW o
    PROVE  /\ ClosedUnderDep(CancelledWith(o)) /\ CancelledWith(o) \subseteq queued
           /\ ClosedUnderDep(CreationClosure(o)) /\ CreationClosure(o) \subseteq queued
           /\ ClosedUnderDep(ListCreationClosure(o)) /\ ListCreationClosure(o) \subseteq queued
           /\ ClosedUnderDep(DependentClosure(o)) /\ DependentClosure(o) \subseteq queued
<1>1. Dependencies \in SUBSET (queued \X queued) /\ Creating \in SUBSET (queued \X queued)
  BY DEF Dependencies, Creating
<1>2. ClosedUnderDep(CancelledWith(o))
  BY <1>1, ClosureClosedUnderDep DEF CancelledWith
<1>3. ClosedUnderDep(CreationClosure(o))
  <2>1. /\ {o} \cap queued \in SUBSET queued
        /\ Dependencies \cup Creating \in SUBSET (queued \X queued)
        /\ Dependencies \subseteq Dependencies \cup Creating
    BY <1>1
  <2> QED BY <2>1, ClosureClosedUnderDep DEF CreationClosure
<1>4. ClosedUnderDep(ListCreationClosure(o))
  BY <1>1, ClosureClosedUnderDep DEF ListCreationClosure
<1>5. ClosedUnderDep(DependentClosure(o))
  BY <1>1, ClosureClosedUnderDep DEF DependentClosure
<1> QED BY <1>2, <1>3, <1>4, <1>5
        DEF CancelledWith, CreationClosure, ListCreationClosure, DependentClosure, Closure

LEMMA NextDepInv ==
    ASSUME TypeOK, IdsInv, DepInv, [Next]_vars PROVE DepInv'
<1>1. /\ Kept /\ Issued \subseteq Issued' /\ Issued' = Issued \cup New
      /\ \A o \in New : NewOp(o)
  BY OpsKept DEF New
<1>2. \A o \in Issued : kind'[o] = kind[o] /\ item'[o] = item[o] /\ dep'[o] = dep[o]
  BY <1>1 DEF Kept
<1>3. queued \subseteq Issued /\ \A o \in Issued : dep[o] # NoOp => dep[o] \in Issued
  BY IssuedIds
<1> SUFFICES ASSUME NEW o \in Issued', dep'[o] # NoOp
             PROVE  \/ kind'[o] = "createTask" /\ kind'[dep'[o]] = "createTask"
                    \/ SameLine(o, dep[o])'
  BY DEF DepInv
<1>4. CASE o \in Issued
  <2>1. \/ kind[o] = "createTask" /\ kind[dep[o]] = "createTask"
        \/ SameLine(o, dep[o])
    BY <1>2, <1>4 DEF DepInv
  <2>2. dep[o] \in Issued /\ dep'[o] = dep[o]
    BY <1>2, <1>3, <1>4
  <2> QED BY <1>2, <1>4, <2>1, <2>2 DEF SameLine
<1>5. CASE o \in New
  <2>1. CASE Before(o) = {}
    BY <1>1, <1>2, <1>3, <1>5, <2>1 DEF NewOp
  <2>2. CASE Before(o) # {}
    <3>1. PICK d \in Before(o) : d = dep'[o]
      BY <1>1, <1>5, <2>2 DEF NewOp
    <3>2. SameLine(d, o)'
      BY DEF Before
    <3> QED BY <3>1, <3>2 DEF SameLine
  <2> QED BY <2>1, <2>2
<1> QED BY <1>1, <1>4, <1>5

\* What goes off the queue leaves no gap in the lines that remain.
LEMMA RemovalKeepsChain ==
    ASSUME Ids, ChainInv, UNCHANGED opVars, NEW gone, queued' = queued \ gone,
           \/ ClosedUnderDep(gone)
           \/ \A d \in gone \cap queued, q \in queued \ gone : SameLine(q, d) => d < q
    PROVE  ChainInv'
<1>0. /\ queued \subseteq Issued /\ Issued \subseteq Int
      /\ \A o \in Issued : dep[o] \in Int
  BY IssuedIds DEF Ids
<1> SUFFICES ASSUME NEW o \in queued \ gone, NEW p \in queued \ gone, p < o, SameLine(o, p)
             PROVE  dep[o] \in queued \ gone /\ p <= dep[o]
  BY DEF ChainInv, SameLine, opVars
<1>1. dep[o] \in queued /\ p <= dep[o]
  BY DEF ChainInv
<1>2. SameLine(o, dep[o])
  <2>1. dep[o] # NoOp
    BY <1>0, <1>1, IssuedIds DEF Ids
  <2>2. item[p] = item[o]
    BY DEF SameLine
  <2> QED BY <1>0, <2>1, <2>2, DepOnLine
<1>3. SameLine(p, dep[o])
  BY <1>2, LineIsEquivalence
<1>4. dep[o] \notin gone
  <2> SUFFICES ASSUME dep[o] \in gone PROVE FALSE
    OBVIOUS
  <2>1. CASE ClosedUnderDep(gone)
    BY <2>1 DEF ClosedUnderDep
  <2>2. CASE \A d \in gone \cap queued, q \in queued \ gone : SameLine(q, d) => d < q
    <3>1. dep[o] < p /\ dep[o] \in Int /\ p \in Int
      BY <1>0, <1>1, <1>3, <2>2
    <3> QED BY <1>1, <3>1
  <2> QED BY <2>1, <2>2
<1> QED BY <1>1, <1>4

\* An operation whose predecessor is off the queue is the first of its line.
LEMMA FirstOfLine ==
    ASSUME Ids, ChainInv, NEW d \in queued, dep[d] \notin queued,
           NEW q \in queued \ {d}, SameLine(q, d)
    PROVE  d < q
<1>1. q \in Int /\ d \in Int
  BY IssuedIds DEF Ids
<1>2. ~(q < d)
  <2>1. SameLine(d, q)
    BY LineIsEquivalence
  <2> QED BY <2>1 DEF ChainInv
<1> QED BY <1>1, <1>2

\* What begins to be discarded with a blocked operation comes after it; for a
\* move it is the rest of the line.
LEMMA DiscardedFromHere ==
    ASSUME Ids, ItemsInv, ChainInv, NEW o \in queued, dep[o] \notin queued
    PROVE  /\ MinOf(DiscardedWith(o)) = o
           /\ kind[o] = "move" =>
                 \A d \in DiscardedWith(o) :
                    /\ SameLine(d, o) /\ kind[d] \notin Creations
                    /\ \A q \in queued \ DiscardedWith(o) : SameLine(q, d) => d < q
<1>0. /\ queued \subseteq Issued /\ Issued \subseteq OpIds /\ Issued \subseteq Int
      /\ \A p \in Issued : dep[p] < p /\ dep[p] \in Int
  BY IssuedIds DEF Ids
<1>1. \A c, p \in Issued : kind[c] \in Creations /\ item[p] = item[c] => c <= p
  BY DEF Ids, CreationInv
<1> DEFINE Later == {q \in queued : o <= q}
           G == DiscardedWith(o)
<1>2. o \in Later /\ Later \in SUBSET queued
  BY <1>0
<1>3. \A e \in Dependencies : e[1] \in Later => e[2] \in Later
  <2> SUFFICES ASSUME NEW a \in queued, NEW b \in queued, dep[b] = a, o <= a PROVE o <= b
    BY DEF Dependencies
  <2>1. a < b /\ a \in Int /\ b \in Int /\ o \in Int
    BY <1>0
  <2> QED BY <2>1
<1>4. \A e \in Creating : e[1] \in Later => e[2] \in Later
  <2> SUFFICES ASSUME NEW a \in queued, NEW b \in queued, kind[a] = "createTask",
                      item[b] = item[a], o <= a
               PROVE  o <= b
    BY DEF Creating, OnTask
  <2>1. a <= b /\ a \in Int /\ b \in Int /\ o \in Int
    BY <1>0, <1>1 DEF Creations
  <2> QED BY <2>1
<1>5. G \subseteq Later /\ o \in G
  <2>1. CASE kind[o] = "createTask"
    <3>1. \A e \in Dependencies \cup Creating : e[1] \in Later => e[2] \in Later
      BY <1>3, <1>4
    <3>2. CreationClosure(o) \subseteq Later
      <4> HIDE DEF Later
      <4> QED BY <1>2, <3>1, ClosureIsSmallest DEF CreationClosure
    <3>3. o \in CreationClosure(o)
      BY DEF CreationClosure, Closure
    <3> QED BY <2>1, <3>2, <3>3 DEF DiscardedWith
  <2>2. CASE kind[o] = "createList"
    <3>1. {p \in queued : p = o \/ ListOfOp(p) = item[o]} \subseteq Later
      <4> SUFFICES ASSUME NEW p \in queued, ListOfOp(p) = item[o] PROVE o <= p
        BY <1>2
      <4>1. item[o] \notin KnownItems
        BY <1>0, <2>2 DEF Ids, CreationInv, Creations
      <4>2. PICK c \in Issued : c <= p /\ kind[c] \in Creations /\ item[c] = item[o]
        BY <1>0, <4>1 DEF ItemsInv, MadeBefore
      <4>3. o <= c /\ c \in Int /\ p \in Int /\ o \in Int
        BY <1>0, <1>1, <2>2, <4>2 DEF Creations
      <4> QED BY <4>2, <4>3
    <3>2. ListCreationClosure(o) \subseteq Later
      <4> HIDE DEF Later
      <4> QED BY <1>2, <1>3, <3>1, ClosureIsSmallest DEF ListCreationClosure
    <3>3. o \in ListCreationClosure(o)
      BY DEF ListCreationClosure, Closure
    <3> QED BY <2>2, <3>2, <3>3 DEF DiscardedWith
  <2>3. CASE kind[o] = "move"
    <3>2. DependentClosure(o) \subseteq Later
      <4> HIDE DEF Later
      <4> QED BY <1>2, <1>3, ClosureIsSmallest DEF DependentClosure
    <3>3. o \in DependentClosure(o)
      BY DEF DependentClosure, Closure
    <3> QED BY <2>3, <3>2, <3>3 DEF DiscardedWith
  <2>4. CASE kind[o] \notin {"createTask", "createList", "move"}
    <3>1. G = {o}
      BY <2>4 DEF DiscardedWith
    <3> HIDE DEF G
    <3> QED BY <1>2, <3>1
  <2> QED BY <2>1, <2>2, <2>3, <2>4
<1>6. MinOf(G) = o
  <2>1. G \in SUBSET OpIds /\ G # {}
    BY <1>0, <1>5
  <2>2. MinOf(G) \in G /\ \A y \in G : MinOf(G) <= y
    <3> HIDE DEF G
    <3> QED BY <2>1, MinOfSet
  <2>3. MinOf(G) <= o /\ o <= MinOf(G) /\ o \in Int /\ MinOf(G) \in Int
    BY <1>0, <1>5, <2>1, <2>2
  <2> QED BY <2>3
<1>7. ASSUME kind[o] = "move", NEW d \in G
      PROVE  /\ SameLine(d, o) /\ kind[d] \notin Creations
             /\ \A q \in queued \ G : SameLine(q, d) => d < q
  <2>1. G = DependentClosure(o)
    BY <1>7 DEF DiscardedWith
  <2> DEFINE S == {q \in queued : SameLine(q, o) /\ kind[q] \notin Creations}
  <2>2. o \in S
    BY <1>7 DEF SameLine, TaskKinds, Creations
  <2>3. \A e \in Dependencies : e[1] \in S => e[2] \in S
    <3> SUFFICES ASSUME NEW a \in S, NEW b \in queued, dep[b] = a PROVE b \in S
      BY DEF Dependencies
    <3>1. a \in Issued /\ b \in Issued /\ a # NoOp
      BY <1>0, IssuedIds DEF Ids
    <3>2. SameLine(b, a)
      BY <3>1 DEF Ids, DepInv, Creations
    <3>3. SameLine(b, o)
      BY <3>2, LineIsEquivalence
    <3>4. kind[b] \notin Creations
      <4> SUFFICES ASSUME kind[b] \in Creations PROVE FALSE
        OBVIOUS
      <4>1. b <= a
        BY <1>1, <3>1, <3>2 DEF SameLine
      <4>2. a < b /\ a \in Int /\ b \in Int
        BY <1>0, <3>1
      <4> QED BY <4>1, <4>2
    <3> QED BY <3>3, <3>4
  <2>4. G \subseteq S
    <3>1. {o} \cap queued \subseteq S /\ S \in SUBSET queued
      BY <2>2
    <3> HIDE DEF S
    <3> QED BY <2>1, <2>3, <3>1, ClosureIsSmallest DEF DependentClosure
  <2>5. ASSUME NEW q \in queued \ G, SameLine(q, d) PROVE FALSE
    <3>1. SameLine(q, o)
      <4>1. SameLine(d, o)
        BY <2>4
      <4> QED BY <2>5, <4>1, LineIsEquivalence
    <3>2. o < q
      BY <1>5, <3>1, FirstOfLine
    <3>3. G \in SUBSET queued /\ ClosedUnderDep(G)
      BY <2>1, ClosuresClosed
    <3> QED BY <1>5, <2>5, <3>1, <3>2, <3>3, LineClosed
  <2> QED BY <2>4, <2>5
<1> QED BY <1>6, <1>7
\* The first operation of an item's line is the one that is sent, waits for
\* its next attempt, or is blocked.
FirstInv ==
    /\ \A o \in queued : timing[o] # "due" => dep[o] \notin queued
    /\ Busy(Ui) => dep[cur[Ui]] \notin queued

\* The operation the replayer is at is queued, unless the user gave it up.
CurInv == cur[Ui] # NoOp => cur[Ui] \in queued \cup abandoned

\* A discard goes on while no replay runs; what it will take away is at the
\* front of its line.
DiscardInv ==
    discarding # {} =>
        LET o == MinOf(discarding) IN
        /\ phase[Ui] = "idle"
        /\ dep[o] \notin queued
        /\ kind[o] = "move" =>
              \A d \in discarding :
                 /\ SameLine(d, o) /\ kind[d] \notin Creations
                 /\ \A q \in queued \ discarding : SameLine(q, d) => d < q

LineInv == ChainInv /\ FirstInv /\ CurInv /\ DiscardInv

MoveGone(gone) == kind[MinOf(discarding)] = "move" /\ gone = discarding
OtherGone(gone) ==
    /\ kind[MinOf(discarding)] # "move" /\ MinOf(discarding) \in queued
    /\ gone = DiscardedWith(MinOf(discarding))

\* The two ways a discard ends.
LEMMA CommitCases ==
    ASSUME DiscardCommit
    PROVE  /\ discarding # {} /\ discarding' = {}
           /\ UNCHANGED <<opVars, state, timing, attempted, acked, providerVars,
                          replayVars, cooldown, retrying, crashes>>
           /\ \/ UNCHANGED <<queued, abandoned, shown>>
              \/ \E gone : /\ MoveGone(gone) \/ OtherGone(gone)
                           /\ queued' = queued \ gone
                           /\ abandoned' = abandoned \cup (gone \cap queued)
                           /\ shown' = ShownAfter(gone)
BY DEF DiscardCommit, MoveGone, OtherGone

\* The operation the user discards is the first of those a discard deletes.
LEMMA MinDiscarding ==
    ASSUME TypeOK, IdsInv, discarding # {}
    PROVE  /\ MinOf(discarding) \in discarding /\ MinOf(discarding) \in Issued
           /\ MinOf(discarding) \in OpIds
<1>1. discarding \in SUBSET OpIds
  BY DEF TypeOK
<1> QED BY <1>1, MinOfSet DEF IdsInv

LEMMA NextChainInv ==
    ASSUME Alone, Ids, LineInv, [Next]_vars PROVE ChainInv'
<1> USE DEF Ids, LineInv
<1>0. queued \subseteq Issued
  BY IssuedIds
<1>1. CASE Appends
  <2>1. /\ Kept /\ queued' = queued \cup New /\ \A o \in New : NewOp(o)
    BY <1>1 DEF Appends
  <2> SUFFICES ASSUME NEW o \in queued', NEW p \in queued', p < o, SameLine(o, p)'
               PROVE  dep'[o] \in queued' /\ p <= dep'[o]
    BY DEF ChainInv
  <2>2. CASE o \in New
    <3>1. p \in Before(o)
      BY LineIsEquivalence DEF Before, SameLine
    <3>2. \A x \in Before(o) : x \in queued'
      BY DEF Before
    <3> QED BY <2>1, <2>2, <3>1, <3>2 DEF NewOp
  <2>3. CASE o \in queued
    <3>1. p \in queued
      <4> SUFFICES ASSUME p \in New PROVE FALSE
        BY <2>1
      <4>1. p \in Int /\ o < p /\ o \in Int
        BY <1>0, <2>3, NewIsLater, IssuedIds
      <4> QED BY <4>1
    <3>2. SameLine(o, p) /\ dep'[o] = dep[o]
      BY <1>0, <2>1, <2>3, <3>1 DEF Kept, SameLine
    <3> QED BY <2>1, <2>3, <3>1, <3>2 DEF ChainInv
  <2> QED BY <2>1, <2>2, <2>3
<1>2. ASSUME NEW t \in Tasks, Cancels(t) PROVE ChainInv'
  <2>1. /\ UNCHANGED opVars /\ queued' = queued \ CancelledWith(PendingCreate(t))
        /\ ClosedUnderDep(CancelledWith(PendingCreate(t)))
    BY <1>2, ClosuresClosed DEF Cancels
  <2> QED BY <2>1, RemovalKeepsChain
<1>3. ASSUME NEW r \in Replayers, Removes(r) PROVE ChainInv'
  <2>1. /\ UNCHANGED opVars /\ queued' = queued \ {cur[Ui]} /\ Busy(Ui)
    BY <1>3, AloneUi DEF Removes, Busy
  <2>2. \A d \in {cur[Ui]} \cap queued, q \in queued \ {cur[Ui]} : SameLine(q, d) => d < q
    BY <2>1, FirstOfLine DEF FirstInv
  <2> QED BY <2>1, <2>2, RemovalKeepsChain
<1>4. CASE DiscardCommit
  <2>0. discarding # {} /\ UNCHANGED opVars
    BY <1>4, CommitCases
  <2> DEFINE o == MinOf(discarding)
  <2>1. CASE UNCHANGED queued
    BY <2>0, <2>1 DEF ChainInv, SameLine, opVars
  <2>2. ASSUME NEW gone, queued' = queued \ gone, MoveGone(gone) PROVE ChainInv'
    <3>1. \A d \in gone \cap queued, q \in queued \ gone : SameLine(q, d) => d < q
      BY <2>0, <2>2 DEF MoveGone, DiscardInv
    <3> QED BY <2>0, <2>2, <3>1, RemovalKeepsChain
  <2>3. ASSUME NEW gone, queued' = queued \ gone, OtherGone(gone) PROVE ChainInv'
    <3>1. CASE kind[o] \in {"createTask", "createList"}
      <4>1. ClosedUnderDep(gone)
        BY <2>3, <3>1, ClosuresClosed DEF OtherGone, DiscardedWith
      <4> QED BY <2>0, <2>3, <4>1, RemovalKeepsChain
    <3>2. CASE kind[o] \notin {"createTask", "createList"}
      <4>1. gone = {o} /\ o \in queued /\ dep[o] \notin queued
        BY <2>0, <2>3, <3>2 DEF OtherGone, DiscardedWith, DiscardInv
      <4>2. \A q \in queued \ {o} : SameLine(q, o) => o < q
        BY <4>1, FirstOfLine
      <4>3. \A d \in gone \cap queued, q \in queued \ gone : SameLine(q, d) => d < q
        BY <4>1, <4>2
      <4> QED BY <2>0, <2>3, <4>3, RemovalKeepsChain
    <3> QED BY <3>1, <3>2
  <2> QED BY <1>4, <2>1, <2>2, <2>3, CommitCases
<1>5. CASE UNCHANGED <<queued, opVars>>
  BY <1>5 DEF ChainInv, SameLine, opVars
<1> QED BY <1>1, <1>2, <1>3, <1>4, <1>5, QueueShape

\* A dependency that left the queue does not come back.
LEMMA StaysOff ==
    ASSUME TypeOK, IdsInv, [Next]_vars, NEW o \in Issued, dep[o] \notin queued
    PROVE  dep'[o] = dep[o] /\ dep[o] \notin queued'
<1>1. dep'[o] = dep[o] /\ queued' \subseteq queued \cup New
  BY OpsKept DEF Kept
<1>2. dep[o] \notin New
  <2> SUFFICES ASSUME dep[o] \in New PROVE FALSE
    OBVIOUS
  <2>1. dep[o] \in Int /\ o < dep[o] /\ dep[o] < o /\ o \in Int
    BY NewIsLater, IssuedIds
  <2> QED BY <2>1
<1> QED BY <1>1, <1>2

LEMMA NextFirstInv ==
    ASSUME Alone, Ids, TodoInv, LineInv, [Next]_vars PROVE FirstInv'
<1> USE DEF Ids, LineInv
<1>0. queued \subseteq Issued /\ Issued \subseteq OpIds /\ queued' \subseteq queued \cup New
  BY IssuedIds, OpsKept
<1>1. ASSUME NEW o \in queued', timing'[o] # "due" PROVE dep'[o] \notin queued'
  <2>1. o \in queued
    BY <1>0, <1>1, NewAppends
  <2>2. dep[o] \notin queued
    <3>1. CASE timing[o] # "due"
      BY <2>1, <3>1 DEF FirstInv
    <3>2. CASE timing[o] = "due"
      BY <1>1, <2>1, <3>2, NoLongerDue DEF FirstInv
    <3> QED BY <3>1, <3>2
  <2> QED BY <1>0, <2>1, <2>2, StaysOff
<1>2. ASSUME Busy(Ui)' PROVE dep'[cur'[Ui]] \notin queued'
  <2>0. Ui \in Replayers
    BY ReplayAssumption
  <2>1. cur'[Ui] = cur[Ui] /\ phase[Ui] \notin {"idle", "scan"}
    BY <1>2, RunOfUi DEF Busy, Starts, Scans, Takes, Leaves, Advances
  <2>2. cur[Ui] \in Issued
    BY <2>0, <2>1, CurIssued
  <2>3. dep[cur[Ui]] \notin queued
    <3>1. CASE Busy(Ui)
      BY <3>1 DEF FirstInv
    <3>2. CASE ~Busy(Ui)
      <4>1. phase'[Ui] # phase[Ui]
        BY <1>2, <3>2 DEF Busy
      <4>2. Replay(Ui) \/ Crash(Ui)
        BY <4>1, RunOfUi
      <4>3. Admits(Ui)
        BY <1>2, <2>0, <3>2, <4>2, BusyBy
           DEF Busy, CheckProvider, FindDone, Send, AnswerOk, AnswerUnknown, AnswerRefused,
               AnswerTo
      <4> QED BY <4>3 DEF Admits
    <3> QED BY <3>1, <3>2
  <2> QED BY <2>1, <2>2, <2>3, StaysOff
<1> QED BY <1>1, <1>2 DEF FirstInv

LEMMA NextCurInv ==
    ASSUME Alone, TypeOK, IdsInv, CurInv, [Next]_vars PROVE CurInv'
<1>0. Ui \in Replayers /\ NoOp \notin OpIds
  BY ReplayAssumption DEF NoOp, OpIds
<1> SUFFICES ASSUME cur'[Ui] # NoOp PROVE cur'[Ui] \in queued' \cup abandoned'
  BY DEF CurInv
<1>1. abandoned \subseteq abandoned'
  BY OpsKept
<1>2. CASE Removes(Ui)
  BY <1>0, <1>2 DEF Removes, Skip, TypeOK
<1>3. CASE ~Removes(Ui)
  <2>1. \A o \in queued : o \in queued' \cup abandoned'
    <3>1. CASE Appends
      BY <3>1 DEF Appends
    <3>2. ASSUME NEW t \in Tasks, Cancels(t) PROVE queued \subseteq queued' \cup abandoned'
      BY <3>2 DEF Cancels
    <3>3. CASE DiscardCommit
      BY <3>3, CommitShape
    <3> QED BY <1>3, <3>1, <3>2, <3>3, QueueShape, AloneUi
  <2>2. cur'[Ui] \in queued \cup abandoned
    BY RunOfUi DEF Starts, Scans, Takes, Leaves, Advances, CurInv
  <2> QED BY <1>1, <2>1, <2>2
<1> QED BY <1>2, <1>3

\* How a discard begins and ends.
LEMMA DiscardingShape ==
    ASSUME [Next]_vars
    PROVE  \/ UNCHANGED discarding
           \/ discarding' = {}
           \/ \E o \in OpIds : DiscardBegin(o)
<1>1. CASE UserEdits
  BY <1>1 DEF UserEdits, UserCreateList, UserClearCompleted, UserRenameList, UserRemoveList,
              UserCreateTask, UserEditTask, UserMoveTask, UserDeleteTask, Enqueue, uiVars
<1>2. ASSUME NEW r \in Replayers, Replay(r) \/ Crash(r) PROVE UNCHANGED discarding
  BY <1>2 DEF Replay, StartReplay, NextOfPass, Admit, CheckProvider, FindDone,
              BlockUnknownCompletion, BarrierAgain, Send, AnswerOk, AnswerUnknown,
              AnswerRefused, AnswerTo, Record, RecordOk, RecordMissingDelete,
              RecordUnknownCreation, RecordRetry, RecordBlock, Crash, uiVars
<1>3. CASE Resolution
  BY <1>3 DEF Resolution, RetryCheck, RetryWrite, DiscardFails, DiscardCommit
<1>4. CASE \/ \E p \in OpIds : AttemptBecomesDue(p)
           \/ CooldownEnds \/ \E t \in Tasks : RemoteDelete(t)
  BY <1>4 DEF AttemptBecomesDue, CooldownEnds, RemoteDelete, uiVars
<1>5. CASE UNCHANGED vars
  BY <1>5 DEF vars, uiVars
<1> QED BY <1>1, <1>2, <1>3, <1>4, <1>5 DEF Next

LEMMA NextDiscardInv ==
    ASSUME Alone, Ids, ItemsInv, LineInv, [Next]_vars PROVE DiscardInv'
<1> USE DEF Ids, LineInv
<1>0. /\ queued \subseteq Issued /\ Issued \subseteq Int /\ queued' \subseteq queued \cup New
      /\ \A o \in Issued : kind'[o] = kind[o] /\ item'[o] = item[o]
  BY IssuedIds, OpsKept DEF Kept
<1> SUFFICES ASSUME discarding' # {} PROVE DiscardInv'
  BY DEF DiscardInv
<1>1. CASE UNCHANGED discarding
  <2>1. PICK o \in Issued : o = MinOf(discarding)
    BY <1>1, MinDiscarding
  <2>2. /\ phase[Ui] = "idle" /\ dep[o] \notin queued
        /\ kind[o] = "move" =>
              \A d \in discarding :
                 /\ SameLine(d, o) /\ kind[d] \notin Creations
                 /\ \A q \in queued \ discarding : SameLine(q, d) => d < q
    BY <1>1, <2>1 DEF DiscardInv
  <2>3. phase'[Ui] = "idle"
    BY <1>1, <2>2, RunOfUi DEF Starts, Scans, Takes, Leaves, Advances
  <2>4. dep'[o] \notin queued'
    BY <2>1, <2>2, StaysOff
  <2>5. ASSUME kind'[o] = "move", NEW d \in discarding
        PROVE  /\ SameLine(d, o)' /\ kind'[d] \notin Creations
               /\ \A q \in queued' \ discarding : SameLine(q, d)' => d < q
    <3>1. d \in Issued /\ kind[o] = "move"
      BY <1>0, <2>1, <2>5 DEF IdsInv
    <3>2. SameLine(d, o)' /\ kind'[d] \notin Creations
      BY <1>0, <2>1, <2>2, <3>1 DEF SameLine
    <3>3. ASSUME NEW q \in queued' \ discarding, SameLine(q, d)' PROVE d < q
      <4>1. CASE q \in New
        BY <3>1, <4>1, NewIsLater
      <4>2. CASE q \in queued
        <5>1. SameLine(q, d)
          BY <1>0, <3>1, <3>3, <4>2 DEF SameLine
        <5> QED BY <2>2, <3>1, <3>3, <4>2, <5>1
      <4> QED BY <1>0, <4>1, <4>2
    <3> QED BY <3>2, <3>3
  <2> QED BY <1>1, <2>1, <2>3, <2>4, <2>5 DEF DiscardInv
<1>2. ASSUME NEW o \in OpIds, DiscardBegin(o) PROVE DiscardInv'
  <2>1. /\ o \in queued /\ timing[o] = "never" /\ phase[Ui] = "idle"
        /\ discarding' = DiscardedWith(o)
        /\ UNCHANGED <<queued, kind, item, dep, phase>>
    BY <1>2 DEF DiscardBegin, opVars, replayVars
  <2>2. dep[o] \notin queued
    BY <2>1 DEF FirstInv
  <2>3. /\ MinOf(DiscardedWith(o)) = o
        /\ kind[o] = "move" =>
              \A d \in DiscardedWith(o) :
                 /\ SameLine(d, o) /\ kind[d] \notin Creations
                 /\ \A q \in queued \ DiscardedWith(o) : SameLine(q, d) => d < q
    BY <2>1, <2>2, DiscardedFromHere
  <2>4. PICK D : D = DiscardedWith(o)
    OBVIOUS
  <2>5. discarding' = D /\ MinOf(discarding') = o
    BY <2>1, <2>3, <2>4
  <2> QED BY <2>1, <2>2, <2>3, <2>4, <2>5 DEF DiscardInv, SameLine
<1> QED BY <1>1, <1>2, DiscardingShape
------------------------------------------------------------------------------
(* What the user gave up                                                    *)

\* A step that changes which items are acknowledged ends the run's operation.
LEMMA AckedWhileAt ==
    ASSUME Alone, TypeOK, [Next]_vars, cur'[Ui] # NoOp
    PROVE  acked' = acked
<1>1. Ui \in Replayers
  BY ReplayAssumption
<1>2. ~RecordOk(Ui)
  BY <1>1 DEF RecordOk, Skip, TypeOK
<1> QED BY <1>2, AckedShape, AloneUi

\* The operation the replayer is at knows the acknowledged items; what is
\* given up meanwhile is a task operation on an item that the provider does
\* not know, and no creation on its way.
GivenUpInv ==
    /\ abandoned \cap queued = {}
    /\ cur[Ui] # NoOp => known[Ui] = acked
    /\ cur[Ui] \in abandoned =>
          /\ kind[cur[Ui]] \in TaskKinds /\ item[cur[Ui]] \notin acked
          /\ kind[cur[Ui]] = "createTask" => phase[Ui] = "read"

\* Cancelling a creation takes only operations on items the provider does not
\* know, and of the creations only those that were not claimed.
LEMMA CancelledUnknown ==
    ASSUME Alone, Ids, CreatedInv, FirstInv, NEW t \in Tasks, Cancels(t),
           NEW q \in CancelledWith(PendingCreate(t))
    PROVE  /\ kind[q] \in TaskKinds /\ item[q] \notin acked
           /\ kind[q] = "createTask" /\ q = cur[Ui] => ~Busy(Ui)
<1> DEFINE c == PendingCreate(t)
           gone == CancelledWith(c)
           U == {x \in queued : kind[x] \in TaskKinds /\ item[x] \notin acked}
           base == {x \in queued : x = c \/ OnTask(x, item[c])}
<1>0. /\ c \in queued /\ kind[c] = "createTask" /\ state[c] = "pending"
      /\ queued \subseteq Issued
      /\ \A x \in queued : kind[x] \in Creations => item[x] \notin acked
      /\ \A x, y \in queued : kind[x] \in Creations /\ kind[y] \in Creations
                                /\ item[x] = item[y] => x <= y /\ y <= x
  BY IssuedIds DEF Cancels, Ids, CreationInv
<1>1. base \subseteq U /\ base \in SUBSET queued
  <2>1. "createTask" \in TaskKinds /\ "createTask" \in Creations
    BY DEF TaskKinds, Creations
  <2> QED BY <1>0, <2>1 DEF OnTask
<1>2. \A e \in Dependencies : e[1] \in U => e[2] \in U
  <2> SUFFICES ASSUME NEW a \in U, NEW b \in queued, dep[b] = a PROVE b \in U
    BY DEF Dependencies
  <2>1. dep[b] # NoOp
    BY <1>0, IssuedIds DEF Ids
  <2>2. CASE kind[b] = "createTask"
    BY <1>0, <2>2 DEF TaskKinds, Creations
  <2>3. CASE SameLine(b, a)
    BY <2>3 DEF SameLine, TaskKinds, ListKinds
  <2> QED BY <1>0, <2>1, <2>2, <2>3 DEF Ids, DepInv
<1>3. gone \subseteq U
  <2>1. U \in SUBSET queued
    OBVIOUS
  <2>2. Closure(base, Dependencies) \subseteq U
    <3> HIDE DEF U, base
    <3> QED BY <1>1, <1>2, <2>1, ClosureIsSmallest
  <2> QED BY <2>2 DEF CancelledWith
<1>4. ASSUME kind[q] = "createTask", q = cur[Ui], Busy(Ui) PROVE FALSE
  <2>1. q \in queued /\ state[q] = "in_progress" /\ dep[q] \notin queued
    BY <1>3, <1>4 DEF CreatedInv, FirstInv, Creations
  <2>2. item[q] # item[c]
    <3>1. item[q] = item[c] => q <= c /\ c <= q
      BY <1>0, <1>4, <2>1 DEF Creations
    <3>2. q \in Int /\ c \in Int
      BY <1>0, <2>1, IssuedIds DEF Ids
    <3> QED BY <1>0, <2>1, <3>1, <3>2
  <2>3. base \subseteq gone \ {q}
    <3>1. base \subseteq gone
      BY DEF CancelledWith, Closure
    <3> QED BY <1>0, <2>1, <2>2, <3>1 DEF OnTask
  <2>4. \A e \in Dependencies : e[1] \in gone \ {q} => e[2] \in gone \ {q}
    <3>1. ClosedUnderDep(gone) /\ gone \subseteq queued
      BY ClosuresClosed
    <3> HIDE DEF gone
    <3> QED BY <2>1, <3>1 DEF Dependencies, ClosedUnderDep
  <2>5. gone \ {q} \in SUBSET queued
    BY ClosuresClosed
  <2>6. Closure(base, Dependencies) \subseteq gone \ {q}
    <3> HIDE DEF gone, base
    <3> QED BY <2>3, <2>4, <2>5, ClosureIsSmallest
  <2> QED BY <2>6 DEF CancelledWith
<1> QED BY <1>3, <1>4

LEMMA NextGivenUpInv ==
    ASSUME Alone, Ids, CreatedInv, LineInv, GivenUpInv, [Next]_vars PROVE GivenUpInv'
<1> USE DEF Ids, LineInv
<1>0. Ui \in Replayers /\ NoOp \notin OpIds
  BY ReplayAssumption DEF NoOp, OpIds
<1>1. abandoned' \cap queued' = {}
  <2>1. CASE Appends
    <3>1. abandoned \cap New = {}
      BY DEF IdsInv, New
    <3> QED BY <2>1, <3>1 DEF Appends, GivenUpInv
  <2>2. ASSUME NEW t \in Tasks, Cancels(t) PROVE abandoned' \cap queued' = {}
    BY <2>2 DEF Cancels, GivenUpInv
  <2>3. ASSUME NEW r \in Replayers, Removes(r) PROVE abandoned' \cap queued' = {}
    BY <2>3 DEF Removes, GivenUpInv
  <2>4. CASE DiscardCommit
    BY <2>4, CommitShape DEF GivenUpInv
  <2> QED BY <2>1, <2>2, <2>3, <2>4, QueueShape DEF GivenUpInv
<1>2. ASSUME cur'[Ui] # NoOp PROVE known'[Ui] = acked'
  <2>1. acked' = acked
    BY <1>2, AckedWhileAt
  <2>2. known'[Ui] = acked
    <3>1. CASE cur[Ui] = NoOp
      BY <1>0, <1>2, <3>1, RunOfUi DEF Starts, Scans, Takes, Leaves, Advances
    <3>2. CASE cur[Ui] # NoOp
      BY <1>0, <1>2, <3>2, RunOfUi
         DEF Starts, Scans, Takes, Leaves, Advances, GivenUpInv, IdsInv
    <3> QED BY <3>1, <3>2
  <2> QED BY <2>1, <2>2
<1>3. ASSUME cur'[Ui] \in abandoned'
      PROVE  /\ kind'[cur'[Ui]] \in TaskKinds /\ item'[cur'[Ui]] \notin acked'
             /\ kind'[cur'[Ui]] = "createTask" => phase'[Ui] = "read"
  <2>0. cur'[Ui] # NoOp /\ acked' = acked
    <3>1. cur'[Ui] # NoOp
      BY <1>0, <1>3, NextTypeOK DEF TypeOK
    <3> QED BY <3>1, AckedWhileAt
  <2>1. CASE cur'[Ui] \in abandoned
    <3>1. cur'[Ui] = cur[Ui]
      BY <1>0, <2>0, <2>1, RunOfUi
         DEF Starts, Scans, Takes, Leaves, Advances, GivenUpInv, IdsInv
    <3>2. cur[Ui] \in Issued /\ cur[Ui] \notin queued
      BY <2>1, <3>1 DEF GivenUpInv, IdsInv
    <3>3. kind'[cur[Ui]] = kind[cur[Ui]] /\ item'[cur[Ui]] = item[cur[Ui]]
      BY <3>2, OpsKept DEF Kept
    <3>4. kind[cur[Ui]] \in TaskKinds /\ item[cur[Ui]] \notin acked
          /\ (kind[cur[Ui]] = "createTask" => phase[Ui] = "read")
      BY <2>1, <3>1 DEF GivenUpInv
    <3>5. ASSUME kind[cur[Ui]] = "createTask" PROVE phase'[Ui] = "read"
      <4>1. phase[Ui] = "read" /\ ~Busy(Ui)
        BY <3>4, <3>5 DEF Busy
      <4>2. ~Busy(Ui)'
        <5> SUFFICES ASSUME Busy(Ui)' PROVE FALSE
          OBVIOUS
        <5>1. phase'[Ui] # phase[Ui]
          BY <4>1 DEF Busy
        <5>2. Replay(Ui) \/ Crash(Ui)
          BY <5>1, RunOfUi
        <5>3. Admits(Ui)
          BY <1>0, <4>1, <5>2, BusyBy
             DEF CheckProvider, FindDone, Send, AnswerOk, AnswerUnknown, AnswerRefused, AnswerTo
        <5> QED BY <3>2, <3>5, <5>3 DEF Admits, Claimable, Creations
      <4>3. phase'[Ui] \notin {"idle", "scan"}
        BY <1>0, <2>0, NextIdsInv DEF IdsInv
      <4> QED BY <1>0, <4>2, <4>3, NextTypeOK DEF TypeOK, Busy
    <3> QED BY <2>0, <3>1, <3>3, <3>4, <3>5
  <2>2. CASE cur'[Ui] \notin abandoned
    <3>1. CASE DiscardCommit
      <4>1. phase[Ui] = "idle" /\ cur' = cur
        BY <3>1, CommitCases DEF DiscardInv, replayVars
      <4> QED BY <1>0, <2>0, <4>1 DEF IdsInv
    <3>2. ASSUME NEW t \in Tasks, Cancels(t)
          PROVE  /\ kind'[cur'[Ui]] \in TaskKinds /\ item'[cur'[Ui]] \notin acked'
                 /\ kind'[cur'[Ui]] = "createTask" => phase'[Ui] = "read"
      <4>1. UNCHANGED <<opVars, replayVars>> /\ cur[Ui] \in CancelledWith(PendingCreate(t))
        BY <1>3, <2>2, <3>2 DEF Cancels, replayVars
      <4>2. /\ kind[cur[Ui]] \in TaskKinds /\ item[cur[Ui]] \notin acked
            /\ kind[cur[Ui]] = "createTask" => ~Busy(Ui)
        BY <3>2, <4>1, CancelledUnknown
      <4>3. ~Busy(Ui) => phase[Ui] = "read"
        BY <1>0, <2>0, <4>1 DEF Busy, TypeOK, IdsInv, replayVars
      <4> QED BY <2>0, <4>1, <4>2, <4>3 DEF opVars, replayVars
    <3>3. abandoned' # abandoned
      BY <1>3, <2>2
    <3>4. ~Appends /\ \A r \in Replayers : ~Removes(r)
      BY <3>3 DEF Appends, Removes
    <3>5. ~UNCHANGED <<queued, opVars, abandoned>>
      BY <3>3
    <3> QED BY <3>1, <3>2, <3>4, <3>5, QueueShape
  <2> QED BY <2>1, <2>2
<1> QED BY <1>1, <1>2, <1>3 DEF GivenUpInv

\* A request whose operation was given up names an item that the provider does
\* not know: it is not carried out.
LEMMA GivenUpRefused ==
    ASSUME Alone, Ids, GivenUpInv, phase[Ui] = "sent", cur[Ui] \in abandoned
    PROVE  ~Acceptable(Ui)
<1>1. Ui \in Replayers /\ cur[Ui] # NoOp
  BY ReplayAssumption DEF Ids, IdsInv
<1>2. /\ known[Ui] = acked /\ kind[cur[Ui]] \in TaskKinds \ {"createTask"}
      /\ item[cur[Ui]] \notin acked
  BY <1>1 DEF GivenUpInv
<1> QED BY <1>2 DEF Acceptable, TaskKinds
\* The inductive invariant of a queue that one replayer works off.
QueueInv == Ids /\ TodoInv /\ CreatedInv /\ ItemsInv /\ LineInv /\ GivenUpInv

LEMMA InitQueueInv == Init => QueueInv
<1> SUFFICES ASSUME Init PROVE QueueInv
  OBVIOUS
<1>1. Ui \in Replayers
  BY ReplayAssumption
<1>2. Ids
  BY InitTypeOK, InitIdsInv, InitCreationInv DEF Init, Ids, DepInv, Issued
<1>3. LineInv
  BY <1>1 DEF Init, LineInv, ChainInv, FirstInv, CurInv, DiscardInv, Busy
<1>4. GivenUpInv
  BY <1>1 DEF Init, GivenUpInv
<1> QED BY <1>2, <1>3, <1>4, InitCreatedInv, InitItemsInv DEF QueueInv

LEMMA NextQueueInv == ASSUME Alone, QueueInv, [Next]_vars PROVE QueueInv'
<1> USE DEF QueueInv
<1>1. TypeOK /\ IdsInv /\ CreationInv /\ DepInv
  BY DEF Ids
<1>2. Ids'
  BY <1>1, NextTypeOK, NextIdsInv, NextCreationInv, NextDepInv DEF Ids
<1>3. TodoInv' /\ CreatedInv'
  <2>1. CreatedInv'
    BY <1>1, NextCreatedRows, NextCreatedCur DEF CreatedInv
  <2> QED BY <1>1, <2>1, NextTodoInv
<1>4. ItemsInv'
  BY <1>1, NextItemsInv
<1>5. LineInv'
  BY <1>1, NextChainInv, NextFirstInv, NextCurInv, NextDiscardInv DEF LineInv
<1>6. GivenUpInv'
  BY NextGivenUpInv
<1> QED BY <1>2, <1>3, <1>4, <1>5, <1>6

\* With one replayer, what the user discarded or cancelled is not carried out
\* afterwards, a request already on its way included.
THEOREM NotCarriedOutLater == ASSUME Replayers = {Ui} PROVE Spec => GivenUpStays
<1> USE DEF Alone
<1>1. Init => QueueInv
  BY InitQueueInv
<1>2. QueueInv /\ [Next]_vars => QueueInv'
  BY NextQueueInv
<1>3. QueueInv /\ [Next]_vars => [\A o \in abandoned : ~Carried(o)]_vars
  <2> SUFFICES ASSUME QueueInv, [Next]_vars, NEW o \in abandoned, Carried(o) PROVE FALSE
    OBVIOUS
  <2>1. TypeOK /\ IdsInv /\ o \in OpIds
    BY DEF QueueInv, Ids, TypeOK
  <2>2. phase[Ui] = "sent" /\ cur[Ui] = o /\ Acceptable(Ui)
    BY <2>1, CarriedBySender, AloneUi
  <2> QED BY <2>2, GivenUpRefused DEF QueueInv
<1> QED BY <1>1, <1>2, <1>3, PTL DEF Spec, GivenUpStays

\* With one replayer, the provider carries out the operations on a task in the
\* order in which the user made them.
THEOREM TasksInOrder == ASSUME Replayers = {Ui} PROVE Spec => TaskOrder
<1> USE DEF Alone
<1>1. Init => QueueInv
  BY InitQueueInv
<1>2. QueueInv /\ [Next]_vars => QueueInv'
  BY NextQueueInv
<1>3. QueueInv /\ [Next]_vars
        => [\A o \in OpIds : Carried(o) /\ kind[o] \in TaskKinds =>
               \A p \in queued : p < o => ~OnTask(p, item[o])]_vars
  <2> SUFFICES ASSUME QueueInv, [Next]_vars, NEW o \in OpIds, Carried(o),
                      kind[o] \in TaskKinds, NEW p \in queued, p < o, OnTask(p, item[o])
               PROVE  FALSE
    OBVIOUS
  <2>1. TypeOK /\ IdsInv
    BY DEF QueueInv, Ids
  <2>2. phase[Ui] = "sent" /\ cur[Ui] = o /\ Acceptable(Ui)
    BY <2>1, CarriedBySender, AloneUi
  <2>3. o \in queued
    <3>1. o # NoOp
      BY DEF OpIds, NoOp
    <3> QED BY <2>2, <3>1, GivenUpRefused DEF QueueInv, LineInv, CurInv
  <2>4. dep[o] \in queued
    BY <2>3 DEF QueueInv, LineInv, ChainInv, SameLine, OnTask
  <2> QED BY <2>2, <2>4 DEF QueueInv, LineInv, FirstInv, Busy
<1> QED BY <1>1, <1>2, <1>3, PTL DEF Spec, TaskOrder
------------------------------------------------------------------------------
(* No row without a creation                                                *)

CreationQueued(i) == \E c \in queued : kind[c] \in Creations /\ item[c] = i

\* What the provider does not know has its creation in the queue: the items of
\* queued operations as well as the rows.
AckedOrQueued ==
    /\ \A o \in queued : item[o] \in acked \/ CreationQueued(item[o])
    /\ \A i \in shown : i \in acked \/ CreationQueued(i)

\* And a move that is being discarded is of a task that the provider knows.
OrphanInv ==
    /\ AckedOrQueued
    /\ discarding # {} /\ kind[MinOf(discarding)] = "move" => item[MinOf(discarding)] \in acked

\* The steps that change the queue or the local rows.
LEMMA LocalShape ==
    ASSUME [Next]_vars
    PROVE  \/ UserEdits \/ DiscardCommit
           \/ \E r \in Replayers : RecordOk(r) \/ RecordMissingDelete(r)
           \/ UNCHANGED <<queued, opVars, shown, acked>>
<1> USE DEF localVars
<1>1. ASSUME NEW r \in Replayers, Replay(r) \/ Crash(r)
      PROVE  \/ RecordOk(r) \/ RecordMissingDelete(r)
             \/ UNCHANGED <<queued, opVars, shown, acked>>
  <2>1. CASE StartReplay(r) \/ NextOfPass(r) \/ Admit(r) \/ Crash(r)
    BY <2>1 DEF StartReplay, NextOfPass, Admit, Crash
  <2>2. CASE \/ CheckProvider(r) \/ FindDone(r) \/ BlockUnknownCompletion(r)
             \/ BarrierAgain(r) \/ Send(r)
    BY <2>2 DEF CheckProvider, FindDone, BlockUnknownCompletion, BarrierAgain, Send
  <2>3. CASE AnswerOk(r) \/ AnswerUnknown(r) \/ AnswerRefused(r)
    BY <2>3 DEF AnswerOk, AnswerUnknown, AnswerRefused, AnswerTo
  <2>4. CASE RecordUnknownCreation(r) \/ RecordRetry(r) \/ RecordBlock(r)
    BY <2>4 DEF RecordUnknownCreation, RecordRetry, RecordBlock
  <2> QED BY <1>1, <2>1, <2>2, <2>3, <2>4 DEF Replay, Record
<1>2. CASE Resolution
  BY <1>2 DEF Resolution, RetryCheck, RetryWrite, DiscardBegin, DiscardFails
<1>3. CASE \/ \E p \in OpIds : AttemptBecomesDue(p)
           \/ CooldownEnds \/ \E t \in Tasks : RemoteDelete(t)
  BY <1>3 DEF AttemptBecomesDue, CooldownEnds, RemoteDelete
<1>4. CASE UNCHANGED vars
  BY <1>4 DEF vars
<1> QED BY <1>1, <1>2, <1>3, <1>4 DEF Next

\* Operations on a created task are on the line of its creation, after it.
LEMMA OnLineOfCreation ==
    ASSUME Ids, NEW d \in queued, kind[d] = "createTask",
           NEW p \in queued, item[p] = item[d]
    PROVE  SameLine(p, d) /\ (p = d \/ d < p)
<1>1. d \in Issued /\ p \in Issued /\ d \in Int /\ p \in Int
  BY IssuedIds DEF Ids
<1>2. item[d] \in Tasks
  BY <1>1 DEF Ids, IdsInv, TaskKinds
<1>3. kind[p] \in TaskKinds
  BY <1>1, <1>2, ReplayAssumption DEF Ids, IdsInv
<1>4. d <= p
  BY <1>1 DEF Ids, CreationInv, Creations
<1> QED BY <1>1, <1>3, <1>4 DEF SameLine, TaskKinds

\* A set of operations that goes off the queue takes, with a creation, all
\* that is done to the created item.
TakesItems(gone) ==
    \A d \in gone, p \in queued :
        d \in queued /\ kind[d] \in Creations /\ item[p] = item[d] => p \in gone

\* A set of rows that takes a creation takes all that is done to its item.
LEMMA ClosedTakesItems ==
    ASSUME Ids, ChainInv, NEW gone \in SUBSET queued, ClosedUnderDep(gone),
           NEW d \in gone, kind[d] = "createTask", NEW p \in queued, item[p] = item[d]
    PROVE  p \in gone
<1>1. SameLine(p, d) /\ (p = d \/ d < p)
  BY OnLineOfCreation
<1> QED BY <1>1, LineClosed

\* So does a discard, but for the discard of a move, which takes no creation.
LEMMA DiscardTakesItems ==
    ASSUME Ids, ChainInv, NEW o \in queued, kind[o] # "move"
    PROVE  TakesItems(DiscardedWith(o)) /\ DiscardedWith(o) \subseteq queued
<1> DEFINE gone == DiscardedWith(o)
<1>0. queued \subseteq Issued /\ Issued \subseteq Int /\ \A x \in Issued : dep[x] < x
  BY IssuedIds DEF Ids
<1>1. CASE kind[o] \in Creations
  <2>1. ClosedUnderDep(gone) /\ gone \subseteq queued
    BY <1>1, ClosuresClosed DEF DiscardedWith, Creations
  <2>2. ASSUME NEW d \in gone, kind[d] = "createList", NEW p \in queued, item[p] = item[d]
        PROVE  p \in gone
    <3>1. ASSUME NEW x \in queued, kind[x] = "createList",
                 NEW y \in queued, item[y] = item[x]
          PROVE  x <= y /\ item[y] \notin Tasks
      <4>1. item[x] \in Lists
        BY <1>0, <3>1 DEF Ids, IdsInv, TaskKinds
      <4> QED BY <1>0, <3>1, <4>1, ReplayAssumption DEF Ids, CreationInv, Creations
    <3>2. CASE kind[o] = "createTask"
      <4> DEFINE U == {x \in queued : kind[x] \in TaskKinds}
      <4>1. \A e \in Dependencies \cup Creating : e[1] \in U => e[2] \in U
        <5>1. ASSUME NEW a \in U, NEW b \in queued, dep[b] = a PROVE b \in U
          <6>1. dep[b] # NoOp
            BY <1>0, <5>1, IssuedIds DEF Ids
          <6> QED BY <1>0, <5>1, <6>1 DEF Ids, DepInv, SameLine, TaskKinds, ListKinds
        <5> QED BY <5>1 DEF Dependencies, Creating, OnTask
      <4>2. {o} \cap queued \subseteq U /\ U \in SUBSET queued
        BY <3>2 DEF TaskKinds
      <4>3. CreationClosure(o) \subseteq U
        <5> HIDE DEF U
        <5> QED BY <4>1, <4>2, ClosureIsSmallest DEF CreationClosure
      <4> QED BY <2>2, <3>2, <4>3 DEF DiscardedWith, TaskKinds
    <3>3. CASE kind[o] = "createList"
      <4> DEFINE U == {x \in queued : kind[x] = "createList" => x = o}
                 base == {x \in queued : x = o \/ ListOfOp(x) = item[o]}
      <4>1. base \subseteq U
        <5> SUFFICES ASSUME NEW x \in queued, kind[x] = "createList", ListOfOp(x) = item[o]
                     PROVE  x = o
          OBVIOUS
        <5>1. item[x] \notin Tasks
          BY <3>1
        <5>2. item[x] = item[o]
          BY <5>1 DEF ListOfOp
        <5>3. x <= o /\ o <= x /\ x \in Int /\ o \in Int
          BY <1>0, <3>1, <3>3, <5>2
        <5> QED BY <5>3
      <4>2. \A e \in Dependencies : e[1] \in U => e[2] \in U
        <5> SUFFICES ASSUME NEW a \in queued, NEW b \in queued, dep[b] = a,
                            kind[b] = "createList"
                     PROVE  FALSE
          BY DEF Dependencies
        <5>1. dep[b] # NoOp
          BY <1>0, IssuedIds DEF Ids
        <5>2. item[a] = item[b]
          BY <1>0, <5>1 DEF Ids, DepInv, SameLine
        <5>3. b <= a /\ a < b /\ a \in Int /\ b \in Int
          BY <1>0, <3>1, <5>2
        <5> QED BY <5>3
      <4>3. U \in SUBSET queued
        OBVIOUS
      <4>4. Closure(base, Dependencies) \subseteq U /\ base \subseteq Closure(base, Dependencies)
        <5>1. base \subseteq Closure(base, Dependencies)
          BY DEF Closure
        <5> HIDE DEF U, base
        <5> QED BY <4>1, <4>2, <4>3, <5>1, ClosureIsSmallest
      <4>5. gone = Closure(base, Dependencies)
        BY <3>3 DEF DiscardedWith, ListCreationClosure
      <4>6. d = o
        BY <2>1, <2>2, <4>4, <4>5
      <4>7. p \in base
        BY <2>2, <3>1, <3>3, <4>6 DEF ListOfOp
      <4> QED BY <4>4, <4>5, <4>7
    <3> QED BY <1>1, <3>2, <3>3 DEF Creations
  <2> QED BY <2>1, <2>2, ClosedTakesItems DEF TakesItems, Creations
<1>2. CASE kind[o] \notin Creations
  BY <1>2 DEF DiscardedWith, TakesItems, Creations
<1> QED BY <1>1, <1>2

\* So does the cancelling of a creation that was not sent.
LEMMA CancelTakesItems ==
    ASSUME Alone, Ids, CreatedInv, LineInv, NEW t \in Tasks, Cancels(t)
    PROVE  TakesItems(CancelledWith(PendingCreate(t)))
<1> DEFINE gone == CancelledWith(PendingCreate(t))
<1>1. ClosedUnderDep(gone) /\ gone \subseteq queued
  BY ClosuresClosed
<1>2. \A d \in gone : kind[d] \in TaskKinds
  BY CancelledUnknown DEF LineInv
<1>3. \A d \in gone : kind[d] \in Creations => kind[d] = "createTask"
  BY <1>2 DEF Creations, TaskKinds
<1> QED BY <1>1, <1>3, ClosedTakesItems DEF TakesItems, LineInv

\* What remains queued when such a set goes keeps its creation.
LEMMA TakenKeepsItems ==
    ASSUME AckedOrQueued, UNCHANGED <<opVars, acked>>, NEW gone, TakesItems(gone),
           queued' = queued \ gone
    PROVE  \A o \in queued' : item'[o] \in acked' \/ CreationQueued(item[o])'
<1> SUFFICES ASSUME NEW o \in queued \ gone, item[o] \notin acked
             PROVE  \E c \in queued \ gone : kind[c] \in Creations /\ item[c] = item[o]
  BY DEF CreationQueued, opVars
<1>1. PICK c \in queued : kind[c] \in Creations /\ item[c] = item[o]
  BY DEF AckedOrQueued, CreationQueued
<1> QED BY <1>1 DEF TakesItems

\* A blocked operation, or one a replayer is busy with, that is no creation is
\* on an item that the provider knows.
LEMMA FirstIsKnown ==
    ASSUME Ids, ChainInv, AckedOrQueued, NEW o \in queued, dep[o] \notin queued,
           kind[o] \in TaskKinds \ {"createTask"}
    PROVE  item[o] \in acked
<1> SUFFICES ASSUME item[o] \notin acked PROVE FALSE
  OBVIOUS
<1>1. PICK c \in queued : kind[c] \in Creations /\ item[c] = item[o]
  BY DEF AckedOrQueued, CreationQueued
<1>2. kind[c] = "createTask"
  <2>1. item[c] \in Tasks
    BY <1>1, IssuedIds DEF Ids, IdsInv
  <2>2. kind[c] = "createList" => item[c] \in Lists
    BY <1>1, IssuedIds DEF Ids, IdsInv, TaskKinds
  <2> QED BY <1>1, <2>1, <2>2, ReplayAssumption DEF Creations
<1>3. SameLine(o, c) /\ c < o
  BY <1>1, <1>2, OnLineOfCreation
<1> QED BY <1>3 DEF ChainInv

LEMMA NextOrphanInv ==
    ASSUME Alone, QueueInv, OrphanInv, [Next]_vars PROVE OrphanInv'
<1> USE DEF QueueInv, Ids, LineInv, OrphanInv
<1>0. /\ Ui \in Replayers /\ queued \subseteq Issued /\ Issued \subseteq Int
      /\ \A o \in Issued : kind'[o] = kind[o] /\ item'[o] = item[o]
  BY ReplayAssumption, IssuedIds, OpsKept DEF Kept
<1>1. ASSUME queued \subseteq queued', acked \subseteq acked',
             NEW i, i \in acked \/ CreationQueued(i)
      PROVE  i \in acked' \/ CreationQueued(i)'
  BY <1>0, <1>1 DEF CreationQueued
<1>2. ASSUME Appends PROVE AckedOrQueued'
  <2>1. /\ queued' = queued \cup New /\ \A o \in New : NewOp(o)
        /\ shown' \subseteq shown \cup {item'[o] : o \in {p \in New : kind'[p] \in Creations}}
        /\ queued \subseteq queued' /\ acked \subseteq acked'
    BY <1>2 DEF Appends
  <2>2. ASSUME NEW i \in shown' PROVE i \in acked' \/ CreationQueued(i)'
    <3>1. CASE i \in shown
      BY <1>1, <2>1, <3>1 DEF AckedOrQueued
    <3>2. ASSUME NEW o \in New, kind'[o] \in Creations, item'[o] = i PROVE CreationQueued(i)'
      BY <2>1, <3>2 DEF CreationQueued
    <3> QED BY <2>1, <2>2, <3>1, <3>2
  <2>3. ASSUME NEW o \in queued' PROVE item'[o] \in acked' \/ CreationQueued(item[o])'
    <3>0. PICK i : i = item'[o]
      OBVIOUS
    <3>1. CASE o \in queued
      <4>1. i = item[o]
        BY <1>0, <3>0, <3>1
      <4>2. i \in acked' \/ CreationQueued(i)'
        BY <1>1, <2>1, <3>1, <4>1 DEF AckedOrQueued
      <4> QED BY <3>0, <4>2 DEF CreationQueued
    <3>2. CASE o \in New
      <4>1. CASE kind'[o] \in Creations
        BY <4>1 DEF CreationQueued
      <4>2. CASE i \in shown
        <5>1. i \in acked' \/ CreationQueued(i)'
          BY <1>1, <2>1, <4>2 DEF AckedOrQueued
        <5> QED BY <3>0, <5>1 DEF CreationQueued
      <4>3. ASSUME NEW n \in New, kind'[n] \in Creations, item'[n] = item'[o]
            PROVE  CreationQueued(item[o])'
        BY <2>1, <4>3 DEF CreationQueued
      <4> QED BY <2>1, <3>0, <3>2, <4>1, <4>2, <4>3 DEF NewOp
    <3> QED BY <2>1, <3>1, <3>2
  <2> QED BY <2>2, <2>3 DEF AckedOrQueued
<1>3. ASSUME NEW t \in Tasks, Cancels(t) PROVE AckedOrQueued'
  <2> DEFINE gone == CancelledWith(PendingCreate(t))
  <2>1. /\ queued' = queued \ gone /\ UNCHANGED <<opVars, acked>>
        /\ shown' = shown \ {item[o] : o \in {p \in gone : kind[p] = "createTask"}}
    BY <1>3 DEF Cancels
  <2>2. TakesItems(gone)
    BY <1>3, CancelTakesItems
  <2>3. \A o \in queued' : item'[o] \in acked' \/ CreationQueued(item[o])'
    <3> HIDE DEF gone
    <3> QED BY <2>1, <2>2, TakenKeepsItems
  <2>4. ASSUME NEW i \in shown', i \notin acked PROVE CreationQueued(i)'
    <3>1. PICK c \in queued : kind[c] \in Creations /\ item[c] = i
      BY <2>1, <2>4 DEF AckedOrQueued, CreationQueued
    <3>2. c \in gone => kind[c] = "createTask"
      <4>1. c \in gone => kind[c] \in TaskKinds
        BY <1>3, CancelledUnknown
      <4> QED BY <3>1, <4>1 DEF TaskKinds, Creations
    <3>3. c \in queued'
      BY <2>1, <2>4, <3>1, <3>2
    <3> QED BY <2>1, <3>1, <3>3 DEF CreationQueued, opVars
  <2> QED BY <2>1, <2>3, <2>4 DEF AckedOrQueued
<1>4. ASSUME RecordOk(Ui) \/ RecordMissingDelete(Ui) PROVE AckedOrQueued'
  <2> DEFINE o == cur[Ui]
  <2>1. /\ UNCHANGED opVars /\ acked \subseteq acked'
        /\ \/ UNCHANGED <<queued, shown>>
           \/ /\ queued' = queued \ {o}
              /\ kind[o] \in Creations => item[o] \in acked'
              /\ shown' \subseteq shown \cup {item[o]}
              /\ shown' = shown \/ kind[o] = "createList"
    <3>1. CASE RecordMissingDelete(Ui)
      BY <3>1 DEF RecordMissingDelete, MissingIsDone, Creations, localVars
    <3>2. CASE RecordOk(Ui) /\ Acknowledge(o)
      BY <3>2 DEF RecordOk, Acknowledge
    <3>3. CASE RecordOk(Ui) /\ UNCHANGED <<queued, state, timing, localVars, fresh>>
      BY <3>3 DEF RecordOk, localVars
    <3> QED BY <1>4, <3>1, <3>2, <3>3 DEF RecordOk
  <2>2. CASE UNCHANGED <<queued, shown>>
    BY <2>1, <2>2, <1>1 DEF AckedOrQueued, CreationQueued, opVars
  <2>3. CASE /\ queued' = queued \ {o}
             /\ kind[o] \in Creations => item[o] \in acked'
             /\ shown' \subseteq shown \cup {item[o]}
             /\ shown' = shown \/ kind[o] = "createList"
    <3>1. ASSUME NEW i, i \in acked \/ CreationQueued(i), i \notin acked'
          PROVE  \E c \in queued' : kind'[c] \in Creations /\ item'[c] = i
      <4>1. PICK c \in queued : kind[c] \in Creations /\ item[c] = i
        BY <2>1, <3>1 DEF CreationQueued
      <4>2. c # o
        BY <2>3, <3>1, <4>1
      <4> QED BY <2>1, <2>3, <4>1, <4>2 DEF opVars
    <3>2. ASSUME NEW i \in shown' PROVE i \in acked' \/ i \in acked \/ CreationQueued(i)
      BY <2>3, <3>2 DEF AckedOrQueued, Creations
    <3>3. ASSUME NEW q \in queued' PROVE item'[q] \in acked \/ CreationQueued(item'[q])
      BY <2>1, <2>3 DEF AckedOrQueued, opVars
    <3> QED BY <3>1, <3>2, <3>3 DEF AckedOrQueued, CreationQueued
  <2> QED BY <2>1, <2>2, <2>3
<1>5. ASSUME DiscardCommit PROVE AckedOrQueued'
  <2>0. UNCHANGED <<opVars, acked>> /\ discarding # {}
    BY <1>5, CommitCases
  <2>1. CASE UNCHANGED <<queued, abandoned, shown>>
    BY <2>0, <2>1, <1>1 DEF AckedOrQueued, CreationQueued, opVars
  <2>2. ASSUME NEW gone, MoveGone(gone) \/ OtherGone(gone), queued' = queued \ gone,
               shown' = ShownAfter(gone)
        PROVE  AckedOrQueued'
    <3>1. TakesItems(gone)
      <4>1. CASE MoveGone(gone)
        BY <2>0, <4>1 DEF MoveGone, DiscardInv, TakesItems
      <4>2. CASE OtherGone(gone)
        BY <4>2, DiscardTakesItems DEF OtherGone
      <4> QED BY <2>2, <4>1, <4>2
    <3>2. ASSUME NEW p \in gone PROVE item[p] \in acked \/ CreationQueued(item[p])
      <4>1. CASE MoveGone(gone)
        BY <2>0, <3>2, <4>1 DEF MoveGone, DiscardInv, SameLine
      <4>2. CASE OtherGone(gone)
        <5>1. p \in queued
          BY <3>2, <4>2, DiscardTakesItems DEF OtherGone
        <5> QED BY <5>1 DEF AckedOrQueued
      <4> QED BY <2>2, <4>1, <4>2
    <3>3. ASSUME NEW i \in shown'
          PROVE  /\ i \notin {item[p] : p \in {p \in gone : kind[p] \in Creations}}
                 /\ i \in shown \/ \E p \in gone : item[p] = i
      BY <2>2, <3>3 DEF ShownAfter
    <3>4. ASSUME NEW i \in shown' PROVE i \in acked' \/ CreationQueued(i)'
      <4>1. i \in acked \/ CreationQueued(i)
        BY <3>2, <3>3 DEF AckedOrQueued
      <4>2. ASSUME NEW c \in queued, kind[c] \in Creations, item[c] = i PROVE c \notin gone
        BY <3>3, <4>2
      <4> QED BY <2>0, <2>2, <4>1, <4>2 DEF CreationQueued, opVars
    <3>5. \A o \in queued' : item'[o] \in acked' \/ CreationQueued(item[o])'
      BY <2>0, <2>2, <3>1, TakenKeepsItems
    <3> QED BY <3>4, <3>5 DEF AckedOrQueued
  <2> QED BY <1>5, <2>1, <2>2, CommitCases
<1>6. AckedOrQueued'
  <2>1. CASE UNCHANGED <<queued, opVars, shown, acked>>
    BY <2>1 DEF AckedOrQueued, CreationQueued, opVars
  <2> QED BY <1>2, <1>3, <1>4, <1>5, <2>1, EditShape, LocalShape, AloneUi
<1>7. ASSUME discarding' # {}, kind'[MinOf(discarding')] = "move"
      PROVE  item'[MinOf(discarding')] \in acked'
  <2>0. acked \subseteq acked'
    BY AckedShape
  <2>1. CASE UNCHANGED discarding
    <3>1. PICK o \in Issued : o = MinOf(discarding)
      BY <1>7, <2>1, MinDiscarding
    <3>2. o = MinOf(discarding')
      BY <2>1, <3>1
    <3> QED BY <1>0, <1>7, <2>0, <2>1, <3>1, <3>2
  <2>2. ASSUME NEW o \in OpIds, DiscardBegin(o) PROVE item'[MinOf(discarding')] \in acked'
    <3>1. /\ o \in queued /\ timing[o] = "never" /\ discarding' = DiscardedWith(o)
          /\ UNCHANGED <<kind, item, acked>>
      BY <2>2 DEF DiscardBegin, opVars, localVars
    <3>2. dep[o] \notin queued
      BY <3>1 DEF FirstInv
    <3>3. MinOf(discarding') = o
      <4>1. MinOf(DiscardedWith(o)) = o
        BY <3>1, <3>2, DiscardedFromHere
      <4>2. PICK D : D = DiscardedWith(o)
        OBVIOUS
      <4>3. discarding' = D
        BY <3>1, <4>2
      <4> QED BY <4>1, <4>2, <4>3
    <3>4. kind[o] = "move"
      BY <1>7, <3>1, <3>3
    <3>5. item[o] \in acked
      BY <3>1, <3>2, <3>4, FirstIsKnown DEF TaskKinds
    <3> QED BY <3>1, <3>3, <3>5
  <2> QED BY <1>7, <2>1, <2>2, DiscardingShape
<1> QED BY <1>6, <1>7 DEF OrphanInv

\* With one replayer, a row that the provider does not know has its creation
\* in the queue, whatever the user cancels or discards.
THEOREM RowsHaveCreations == ASSUME Replayers = {Ui} PROVE Spec => []NoOrphanRow
<1> USE DEF Alone
<1>1. Init => QueueInv /\ OrphanInv
  BY InitQueueInv DEF Init, OrphanInv, AckedOrQueued
<1>2. QueueInv /\ OrphanInv /\ [Next]_vars => (QueueInv /\ OrphanInv)'
  BY NextQueueInv, NextOrphanInv
<1>3. OrphanInv => NoOrphanRow
  BY DEF OrphanInv, AckedOrQueued, CreationQueued, NoOrphanRow
<1> QED BY <1>1, <1>2, <1>3, PTL DEF Spec
------------------------------------------------------------------------------
(* No silent loss                                                           *)

\* A removal of something that the provider knew and that is gone.
Lost(o) == kind[o] \in {"delete", "removeList"} /\ item[o] \in acked \ live

\* A task is known, or exists, only with its list.
ListsFirst ==
    \A t \in Tasks : /\ t \in acked => ListOf[t] \in acked
                     /\ t \in live => ListOf[t] \in live

\* What an answer says of the operation that it answers.
AnswersInv ==
    phase[Ui] = "answered" =>
        /\ answer[Ui] = "ok" =>
              /\ execCount[cur[Ui]] > 0
              /\ kind[cur[Ui]] = "createTask" => ListOf[item[cur[Ui]]] \in acked
        /\ answer[Ui] = "missing" => ~Acceptable(Ui)

LossInv ==
    /\ ListsFirst /\ AnswersInv
    /\ \A o \in Issued : o \in queued \cup abandoned \/ execCount[o] > 0 \/ Lost(o)

\* A creation on its way is of an item that the provider does not know.
LEMMA SentCreation ==
    ASSUME Alone, QueueInv, phase[Ui] = "sent", kind[cur[Ui]] \in Creations
    PROVE  item[cur[Ui]] \notin acked
<1> USE DEF QueueInv, Ids, LineInv
<1>1. cur[Ui] \in Issued /\ cur[Ui] # NoOp
  BY CurIssued, ReplayAssumption DEF NoOp, OpIds
<1>2. cur[Ui] \in queued
  BY <1>1 DEF CurInv, GivenUpInv, Creations, TaskKinds
<1> QED BY <1>1, <1>2 DEF CreationInv

\* How the provider's items change.
LEMMA LiveShape ==
    ASSUME Alone, QueueInv, [Next]_vars
    PROVE  /\ phase[Ui] # "sent" => live' \subseteq live
           /\ live' \cap acked \subseteq live
<1> USE DEF QueueInv, Ids
<1>1. CASE UNCHANGED providerVars
  BY <1>1 DEF providerVars
<1>2. ASSUME NEW t \in Tasks, RemoteDelete(t) PROVE live' \subseteq live
  BY <1>2 DEF RemoteDelete
<1>3. ASSUME phase[Ui] = "sent", CarryOut(Ui) PROVE live' \cap acked \subseteq live
  BY <1>3, SentCreation DEF CarryOut, Effect
<1> QED BY <1>1, <1>2, <1>3, ProviderShape, AloneUi

\* The provider, and the local rows, know the list of every task they know.
LEMMA NextListsFirst ==
    ASSUME Alone, QueueInv, ListsFirst, AnswersInv, [Next]_vars PROVE ListsFirst'
<1> USE DEF QueueInv, Ids
<1>0. /\ Ui \in Replayers /\ Tasks \cap Lists = {} /\ \A t \in Tasks : ListOf[t] \in Lists
  BY ReplayAssumption
<1>1. ASSUME NEW t \in Tasks, t \in acked' PROVE ListOf[t] \in acked'
  <2>1. CASE acked' = acked
    BY <1>1, <2>1 DEF ListsFirst
  <2>2. CASE /\ RecordOk(Ui) /\ kind[cur[Ui]] \in Creations
             /\ acked' = acked \cup {item[cur[Ui]]}
    <3>1. CASE t \in acked
      BY <2>2, <3>1 DEF ListsFirst
    <3>2. CASE t = item[cur[Ui]]
      <4>1. cur[Ui] \in Issued
        BY <1>0, <2>2, CurIssued DEF RecordOk
      <4>2. kind[cur[Ui]] = "createTask"
        BY <1>0, <2>2, <3>2, <4>1 DEF IdsInv, Creations, TaskKinds
      <4> QED BY <2>2, <3>2, <4>2 DEF AnswersInv, RecordOk
    <3> QED BY <1>1, <2>2, <3>1, <3>2
  <2> QED BY <2>1, <2>2, AckedShape, AloneUi
<1>2. ASSUME NEW t \in Tasks, t \in live' PROVE ListOf[t] \in live'
  <2>1. CASE UNCHANGED providerVars
    BY <1>2, <2>1 DEF providerVars, ListsFirst
  <2>2. ASSUME NEW u \in Tasks, RemoteDelete(u) PROVE ListOf[t] \in live'
    BY <1>0, <1>2, <2>2 DEF RemoteDelete, ListsFirst
  <2>3. CASE phase[Ui] = "sent" /\ CarryOut(Ui)
    <3> DEFINE o == cur[Ui]
    <3>0. o \in Issued /\ Effect(o) /\ Acceptable(Ui)
      BY <1>0, <2>3, CurIssued DEF CarryOut
    <3>1. CASE t \in live
      <4>1. ListOf[t] \in live
        BY <3>1 DEF ListsFirst
      <4>2. kind[o] = "delete" => item[o] \in Tasks
        BY <3>0 DEF IdsInv, TaskKinds
      <4>3. kind[o] = "removeList" => item[o] # ListOf[t]
        BY <1>2, <3>0 DEF Effect, Creations
      <4> QED BY <1>0, <3>0, <4>1, <4>2, <4>3 DEF Effect, Creations
    <3>2. CASE t \notin live
      <4>1. kind[o] \in Creations /\ t = item[o] /\ live' = live \cup {t}
        BY <1>2, <3>0, <3>2 DEF Effect
      <4>2. kind[o] = "createTask"
        BY <1>0, <3>0, <4>1 DEF IdsInv, Creations, TaskKinds
      <4>3. ListOf[t] # NoItem
        BY <1>0, ReplayAssumption DEF Items
      <4>4. ListOf[t] \in live
        BY <3>0, <4>1, <4>2, <4>3 DEF Acceptable
      <4> QED BY <4>1, <4>4
    <3> QED BY <3>1, <3>2
  <2> QED BY <2>1, <2>2, <2>3, ProviderShape, AloneUi
<1> QED BY <1>1, <1>2 DEF ListsFirst

\* What was carried out stays carried out.
LEMMA ExecGrows ==
    ASSUME TypeOK, IdsInv, [Next]_vars, NEW o \in OpIds, execCount[o] > 0
    PROVE  execCount'[o] > 0
<1>1. execCount[o] \in Int /\ execCount'[o] \in Int
  BY NextTypeOK DEF TypeOK
<1>2. CASE Carried(o)
  BY <1>1, <1>2 DEF Carried
<1>3. CASE ~Carried(o)
  BY <1>3, ExecKept
<1> QED BY <1>2, <1>3

\* What an answer says of the provider is true when it is recorded.
LEMMA NextAnswersInv ==
    ASSUME Alone, QueueInv, AnswersInv, [Next]_vars PROVE AnswersInv'
<1> USE DEF QueueInv, Ids
<1> SUFFICES ASSUME phase'[Ui] = "answered"
             PROVE  /\ answer'[Ui] = "ok" =>
                          /\ execCount'[cur'[Ui]] > 0
                          /\ kind'[cur'[Ui]] = "createTask" => ListOf[item'[cur'[Ui]]] \in acked'
                    /\ answer'[Ui] = "missing" => ~Acceptable(Ui)'
  BY DEF AnswersInv
<1>0. Ui \in Replayers
  BY ReplayAssumption
<1>1. cur'[Ui] = cur[Ui] /\ phase[Ui] \notin {"idle", "scan"} /\ known'[Ui] = known[Ui]
  BY RunOfUi DEF Starts, Scans, Takes, Leaves, Advances
<1>2. cur[Ui] \in OpIds /\ cur[Ui] \in Issued /\ item[cur[Ui]] \in Items /\ cur[Ui] # NoOp
  BY <1>0, <1>1, CurIssued DEF OpIds, NoOp
<1>3. kind'[cur[Ui]] = kind[cur[Ui]] /\ item'[cur[Ui]] = item[cur[Ui]] /\ acked' = acked
  BY <1>1, <1>2, OpsKept, AckedWhileAt DEF Kept
<1>4. CASE phase[Ui] = "answered"
  <2>1. answer'[Ui] = answer[Ui]
    BY <1>4, RunOfUi DEF Starts, Scans, Takes, Leaves, Advances
  <2>2. live' \subseteq live
    BY <1>4, LiveShape
  <2>3. Acceptable(Ui)' => Acceptable(Ui)
    BY <1>1, <1>3, <2>2 DEF Acceptable
  <2>4. execCount[cur[Ui]] > 0 => execCount'[cur[Ui]] > 0
    BY <1>2, ExecGrows
  <2> QED BY <1>1, <1>3, <1>4, <2>1, <2>3, <2>4 DEF AnswersInv
<1>5. CASE phase[Ui] # "answered"
  <2>1. Replay(Ui) \/ Crash(Ui)
    BY <1>5, RunOfUi
  <2>2. CASE CheckProvider(Ui)
    <3>1. PICK a \in Answers \ {"ok"} : /\ a = "missing" => ~Acceptable(Ui)
                                        /\ answer' = [answer EXCEPT ![Ui] = a]
      BY <2>2 DEF CheckProvider
    <3>2. answer'[Ui] = a
      BY <1>0, <3>1 DEF TypeOK
    <3>3. live' = live
      BY <2>2 DEF CheckProvider, providerVars
    <3>4. Acceptable(Ui)' => Acceptable(Ui)
      BY <1>1, <1>3, <3>3 DEF Acceptable
    <3> QED BY <3>1, <3>2, <3>4
  <2>3. CASE FindDone(Ui)
    <3>1. answer'[Ui] = "ok"
      BY <1>0, <2>3 DEF FindDone, TypeOK
    <3> QED BY <1>1, <1>3, <2>3, <3>1 DEF FindDone, providerVars
  <2>4. CASE AnswerOk(Ui)
    <3>1. answer'[Ui] = "ok"
      BY <1>0, <2>4 DEF AnswerOk, AnswerTo, TypeOK
    <3>2. execCount'[cur[Ui]] > 0
      <4>1. execCount[cur[Ui]] \in 0..2
        BY <1>2 DEF TypeOK
      <4>2. execCount'[cur[Ui]] = IF execCount[cur[Ui]] = 2 THEN 2 ELSE execCount[cur[Ui]] + 1
        BY <1>2, <2>4 DEF AnswerOk, CarryOut, Effect, TypeOK
      <4> QED BY <4>1, <4>2
    <3>3. ASSUME kind[cur[Ui]] = "createTask" PROVE ListOf[item[cur[Ui]]] \in acked
      <4>1. Acceptable(Ui)
        BY <2>4 DEF AnswerOk, CarryOut
      <4>2. item[cur[Ui]] \in Tasks
        BY <1>2, <3>3 DEF IdsInv, TaskKinds
      <4>3. ListOf[item[cur[Ui]]] # NoItem
        BY <4>2, ReplayAssumption DEF Items
      <4>4. ListOf[item[cur[Ui]]] \in known[Ui]
        BY <3>3, <4>1, <4>3 DEF Acceptable
      <4> QED BY <1>2, <4>4 DEF GivenUpInv
    <3> QED BY <1>1, <1>3, <3>1, <3>2, <3>3
  <2>5. CASE AnswerUnknown(Ui)
    <3>1. answer'[Ui] \notin {"ok", "missing"}
      BY <1>0, <2>5, ReplayAssumption DEF AnswerUnknown, AnswerTo, TypeOK
    <3> QED BY <3>1
  <2>6. CASE AnswerRefused(Ui)
    <3>1. PICK a \in {"unsent", "throttled", "rejected", "missing"} :
             /\ AnswerTo(Ui, a) /\ (a = "missing" => ~Acceptable(Ui)) /\ UNCHANGED providerVars
      BY <2>6 DEF AnswerRefused
    <3>2. answer'[Ui] = a
      BY <1>0, <3>1 DEF AnswerTo, TypeOK
    <3>3. Acceptable(Ui)' => Acceptable(Ui)
      BY <1>1, <1>3, <3>1 DEF Acceptable, providerVars
    <3> QED BY <3>1, <3>2, <3>3
  <2>7. ~Admits(Ui)
    BY DEF Admits
  <2>8. ~Send(Ui)
    BY <1>0 DEF Send, TypeOK
  <2> QED BY <1>0, <2>1, <2>2, <2>3, <2>4, <2>5, <2>6, <2>7, <2>8, BusyBy DEF Busy
<1> QED BY <1>4, <1>5

\* The same of the lists.
LEMMA FirstListIsKnown ==
    ASSUME Ids, ChainInv, AckedOrQueued, NEW o \in queued, dep[o] \notin queued,
           kind[o] \in ListKinds \ {"createList"}
    PROVE  item[o] \in acked
<1> SUFFICES ASSUME item[o] \notin acked PROVE FALSE
  OBVIOUS
<1>0. queued \subseteq Issued /\ Issued \subseteq Int
  BY IssuedIds DEF Ids
<1>1. PICK c \in queued : kind[c] \in Creations /\ item[c] = item[o]
  BY DEF AckedOrQueued, CreationQueued
<1>2. kind[c] = "createList"
  <2>1. item[o] \in Lists
    BY <1>0 DEF Ids, IdsInv, TaskKinds, ListKinds
  <2>2. kind[c] = "createTask" => item[c] \in Tasks
    BY <1>0, <1>1 DEF Ids, IdsInv, TaskKinds
  <2> QED BY <1>1, <2>1, <2>2, ReplayAssumption DEF Creations
<1>3. SameLine(o, c)
  BY <1>1, <1>2 DEF SameLine, ListKinds
<1>4. c < o
  <2>1. c <= o /\ c # o /\ c \in Int /\ o \in Int
    BY <1>0, <1>1, <1>2 DEF Ids, CreationInv
  <2> QED BY <2>1
<1> QED BY <1>3, <1>4 DEF ChainInv

LEMMA NextLossInv ==
    ASSUME Alone, QueueInv, OrphanInv, LossInv, [Next]_vars PROVE LossInv'
<1> USE DEF QueueInv, Ids, LineInv, OrphanInv
<1>0. Ui \in Replayers /\ queued \subseteq Issued /\ Issued \subseteq OpIds
  BY ReplayAssumption, IssuedIds
<1>1. ListsFirst' /\ AnswersInv'
  BY NextListsFirst, NextAnswersInv DEF LossInv
<1>2. /\ Issued' = Issued \cup New /\ abandoned \subseteq abandoned' /\ acked \subseteq acked'
      /\ \A o \in Issued : kind'[o] = kind[o] /\ item'[o] = item[o]
      /\ \A o \in New : o \in queued'
  <2>1. UNCHANGED opVars => New = {}
    BY DEF opVars, New, Issued
  <2>2. Appends => \A o \in New : o \in queued'
    BY DEF Appends
  <2> QED BY <2>1, <2>2, OpsKept, AckedShape DEF Kept, New
<1>3. ASSUME NEW o \in Issued, Lost(o) PROVE Lost(o)'
  BY <1>2, <1>3, LiveShape DEF Lost
<1>4. ASSUME NEW o \in queued, Removes(Ui), o = cur[Ui]
      PROVE  execCount'[o] > 0 \/ Lost(o)
  <2>1. CASE answer[Ui] = "ok"
    <3>1. execCount[o] > 0
      BY <1>4, <2>1 DEF Removes, LossInv, AnswersInv
    <3> QED BY <1>0, <3>1, ExecGrows
  <2>2. CASE answer[Ui] = "missing" /\ kind[o] \in {"delete", "removeList"}
    <3>1. /\ ~Acceptable(Ui) /\ dep[o] \notin queued /\ o # NoOp
          /\ known[Ui] = acked
      BY <1>0, <1>4, <2>2 DEF Removes, LossInv, AnswersInv, FirstInv, Busy, GivenUpInv, OpIds, NoOp
    <3>2. CASE kind[o] = "delete"
      <4>1. item[o] \in acked
        BY <3>1, <3>2, FirstIsKnown DEF TaskKinds
      <4>2. item[o] \in Tasks
        BY <1>0, <3>2 DEF IdsInv, TaskKinds
      <4>3. {item[o], ListOf[item[o]]} \subseteq acked
        BY <4>1, <4>2 DEF LossInv, ListsFirst
      <4>4. ~({item[o], ListOf[item[o]]} \subseteq known[Ui] \cap live)
        BY <1>4, <3>1, <3>2 DEF Acceptable, TaskKinds
      <4>5. item[o] \notin live
        BY <3>1, <4>2, <4>3, <4>4 DEF LossInv, ListsFirst
      <4> QED BY <3>2, <4>1, <4>5 DEF Lost
    <3>3. CASE kind[o] = "removeList"
      <4>1. item[o] \in acked
        BY <3>1, <3>3, FirstListIsKnown DEF ListKinds
      <4>2. item[o] \notin known[Ui] \cap live
        BY <1>4, <3>1, <3>3 DEF Acceptable, TaskKinds
      <4> QED BY <3>1, <3>3, <4>1, <4>2 DEF Lost
    <3> QED BY <2>2, <3>2, <3>3
  <2> QED BY <1>4, <2>1, <2>2 DEF Removes
<1>5. ASSUME NEW o \in queued
      PROVE  o \in queued' \cup abandoned' \/ execCount'[o] > 0 \/ Lost(o)'
  <2>1. CASE Appends
    BY <2>1 DEF Appends
  <2>2. ASSUME NEW t \in Tasks, Cancels(t) PROVE o \in queued' \cup abandoned'
    BY <2>2 DEF Cancels
  <2>3. CASE Removes(Ui)
    BY <1>0, <1>3, <1>4, <2>3 DEF Removes
  <2>4. CASE DiscardCommit
    BY <2>4, CommitShape
  <2> QED BY <2>1, <2>2, <2>3, <2>4, QueueShape, AloneUi
<1>6. ASSUME NEW o \in Issued
      PROVE  o \in queued' \cup abandoned' \/ execCount'[o] > 0 \/ Lost(o)'
  <2>1. o \in queued \cup abandoned \/ execCount[o] > 0 \/ Lost(o)
    BY DEF LossInv
  <2> QED BY <1>0, <1>2, <1>3, <1>5, <2>1, ExecGrows
<1> QED BY <1>1, <1>2, <1>6 DEF LossInv

\* With one replayer, no edit is lost: it is queued, or was carried out, or the
\* user gave it up, or it removed something that is gone.
THEOREM NothingLost == ASSUME Replayers = {Ui} PROVE Spec => []NoSilentLoss
<1> USE DEF Alone
<1> DEFINE Inv == QueueInv /\ OrphanInv /\ LossInv
<1>1. Init => Inv
  <2> SUFFICES ASSUME Init PROVE Inv
    OBVIOUS
  <2>1. OrphanInv
    BY DEF Init, OrphanInv, AckedOrQueued
  <2>2. ListsFirst
    BY ReplayAssumption DEF Init, ListsFirst
  <2>3. AnswersInv
    BY ReplayAssumption DEF Init, AnswersInv
  <2>4. Issued = {}
    BY DEF Init, Issued
  <2> QED BY <2>1, <2>2, <2>3, <2>4, InitQueueInv DEF LossInv
<1>2. Inv /\ [Next]_vars => Inv'
  BY NextQueueInv, NextOrphanInv, NextLossInv
<1>3. Inv => NoSilentLoss
  BY DEF LossInv, Lost, NoSilentLoss, Issued
<1> QED BY <1>1, <1>2, <1>3, PTL DEF Spec
------------------------------------------------------------------------------
(* Completions are carried out once                                         *)

\* A request was sent for the operation only once it was sent.
SentInv == sent[Ui] => phase[Ui] \in {"sent", "answered"}

LEMMA NextSentInv ==
    ASSUME Alone, TypeOK, SentInv, [Next]_vars PROVE SentInv'
<1>0. Ui \in Replayers
  BY ReplayAssumption
<1>1. CASE RunEnds(Ui) \/ Skip(Ui)
  BY <1>0, <1>1 DEF RunEnds, Skip, TypeOK, SentInv
<1>2. CASE StartReplay(Ui)
  BY <1>2 DEF StartReplay, SentInv
<1>3. CASE NextOfPass(Ui)
  BY <1>1, <1>3 DEF NextOfPass, SentInv
<1>4. CASE Admit(Ui)
  BY <1>1, <1>4 DEF Admit, SentInv
<1>5. CASE CheckProvider(Ui) \/ FindDone(Ui) \/ Send(Ui)
  BY <1>0, <1>5 DEF CheckProvider, FindDone, Send, TypeOK, SentInv
<1>6. CASE AnswerOk(Ui) \/ AnswerUnknown(Ui) \/ AnswerRefused(Ui)
  <2>1. PICK a : AnswerTo(Ui, a)
    BY <1>6 DEF AnswerOk, AnswerUnknown, AnswerRefused
  <2> QED BY <1>0, <2>1 DEF AnswerTo, TypeOK, SentInv
<1>7. CASE BlockUnknownCompletion(Ui) \/ BarrierAgain(Ui) \/ Record(Ui) \/ Crash(Ui)
  BY <1>1, <1>7 DEF BlockUnknownCompletion, BarrierAgain, Record, RecordOk,
     RecordMissingDelete, RecordUnknownCreation, RecordRetry, RecordBlock, Crash
<1>8. CASE UNCHANGED <<phase, todo, pos, progress, cur, seen, known, answer, sent>>
  BY <1>8 DEF SentInv
<1> QED BY <1>2, <1>3, <1>4, <1>5, <1>6, <1>7, <1>8, RunOfUi DEF Replay

\* Only the retry of a blocked operation that may be sent again adds one.
LEMMA RetryingShape ==
    ASSUME [Next]_vars
    PROVE  retrying' \subseteq retrying \/ \E o \in OpIds : RetryCheck(o)
<1>1. CASE UserEdits
  BY <1>1 DEF UserEdits, UserCreateList, UserClearCompleted, UserRenameList, UserRemoveList,
              UserCreateTask, UserEditTask, UserMoveTask, UserDeleteTask, Enqueue, uiVars
<1>2. ASSUME NEW r \in Replayers, Replay(r) \/ Crash(r) PROVE retrying' \subseteq retrying
  BY <1>2 DEF Replay, StartReplay, NextOfPass, Admit, CheckProvider, FindDone,
              BlockUnknownCompletion, BarrierAgain, Send, AnswerOk, AnswerUnknown,
              AnswerRefused, AnswerTo, Record, RecordOk, RecordMissingDelete,
              RecordUnknownCreation, RecordRetry, RecordBlock, Crash, uiVars
<1>3. CASE Resolution
  BY <1>3 DEF Resolution, RetryWrite, DiscardBegin, DiscardFails, DiscardCommit
<1>4. CASE \/ \E p \in OpIds : AttemptBecomesDue(p)
           \/ CooldownEnds \/ \E t \in Tasks : RemoteDelete(t)
  BY <1>4 DEF AttemptBecomesDue, CooldownEnds, RemoteDelete, uiVars
<1>5. CASE UNCHANGED vars
  BY <1>5 DEF vars, uiVars
<1> QED BY <1>1, <1>2, <1>3, <1>4, <1>5 DEF Next

\* A completion was not carried out unless its row says that it may have been;
\* one set aside is blocked and not retried.
CompletionRow(o) ==
    /\ execCount[o] <= 1
    /\ o \in queued =>
          /\ state[o] \notin {"in_progress", "recovery_required"} => execCount[o] = 0
          /\ state[o] = "recovery_required" => timing[o] = "never" /\ o \notin retrying
          /\ o \in retrying => timing[o] = "never"

\* The completion the replayer is at was not carried out by an earlier run
\* unless it was read in progress, nor by this one unless its answer is open.
CompletionRun(o) ==
    /\ phase[Ui] \in {"read", "checking"} /\ seen[Ui] # "in_progress" => execCount[o] = 0
    /\ phase[Ui] = "sent" =>
          /\ execCount[o] = 0 /\ sent[Ui] /\ seen[Ui] # "in_progress"
          /\ o \in queued => state[o] = "in_progress"
    /\ phase[Ui] = "answered" /\ execCount[o] > 0 =>
          IF sent[Ui] THEN answer[Ui] \in {"ok", "lost", "error5xx"}
                      ELSE seen[Ui] = "in_progress"

CompletedInv ==
    /\ SentInv
    /\ \A o \in Issued : kind[o] = "complete" => CompletionRow(o)
    /\ cur[Ui] # NoOp /\ kind[cur[Ui]] = "complete" => CompletionRun(cur[Ui])

\* The acknowledgement of a creation makes no completion due: a completion is
\* blocked only when its task, and so its list, is known.
LEMMA CompletionsNotUnblocked ==
    ASSUME Alone, QueueInv, OrphanInv, ListsFirst, RecordOk(Ui), Acknowledge(cur[Ui]),
           ~(kind[cur[Ui]] = "createTask" /\ cur[Ui] \notin queued),
           NEW o \in Unblocked(cur[Ui])
    PROVE  kind[o] # "complete"
<1> USE DEF QueueInv, Ids, LineInv, OrphanInv
<1> SUFFICES ASSUME kind[o] = "complete" PROVE FALSE
  OBVIOUS
<1> DEFINE c == cur[Ui]
<1>0. Ui \in Replayers /\ c \in Issued /\ c # NoOp
  BY CurIssued, ReplayAssumption DEF RecordOk, OpIds, NoOp
<1>1. /\ o \in queued /\ timing[o] = "never" /\ dep[o] \notin queued
      /\ o \in Issued /\ item[o] \in Tasks
  BY IssuedIds DEF Unblocked, Referring, FirstInv, IdsInv, TaskKinds
<1>2. item[o] \in acked /\ ListOf[item[o]] \in acked
  <2>1. item[o] \in acked
    BY <1>1, FirstIsKnown DEF TaskKinds
  <2> QED BY <1>1, <2>1 DEF ListsFirst
<1>3. kind[c] \in Creations /\ item[c] \in acked
  BY <1>1, <1>2 DEF Unblocked, Referring, OnTask, ListOfOp, Creations
<1>4. c \in queued
  BY <1>0, <1>3 DEF CurInv, GivenUpInv, Creations, TaskKinds
<1> QED BY <1>0, <1>3, <1>4 DEF CreationInv

\* The part of CompletedInv about the rows.
LEMMA NextCompletionRow ==
    ASSUME Alone, QueueInv, OrphanInv, LossInv, CompletedInv, [Next]_vars,
           NEW o \in Issued', kind'[o] = "complete"
    PROVE  CompletionRow(o)'
<1> USE DEF QueueInv, Ids, LineInv, OrphanInv
<1>0. /\ Ui \in Replayers /\ "complete" \notin Creations /\ "complete" \in Reconcilable
      /\ Issued \subseteq OpIds /\ NoOp \notin OpIds
  BY ReplayAssumption, IssuedIds DEF Creations, Reconcilable, OpIds, NoOp
<1>1. CASE o \in New
  <2>1. state'[o] = "pending" /\ timing'[o] = "due" /\ execCount'[o] = 0
        /\ retrying' = retrying /\ o \notin retrying
    BY <1>1, NewAppends DEF Appends, IdsInv, uiVars, New
  <2> QED BY <2>1 DEF CompletionRow
<1>2. CASE o \in Issued /\ o \notin New
  <2>1. o \in OpIds /\ kind[o] = "complete" /\ (o \in queued' => o \in queued)
    BY <1>0, <1>2, OpsKept DEF Kept
  <2>2. CompletionRow(o)
    BY <1>2, <2>1 DEF CompletedInv
  <2>3. Carried(o) => /\ execCount[o] = 0 /\ execCount'[o] = 1
                      /\ o \in queued => state[o] = "in_progress"
    <3> SUFFICES ASSUME Carried(o)
                 PROVE  /\ execCount[o] = 0 /\ execCount'[o] = 1
                        /\ o \in queued => state[o] = "in_progress"
      OBVIOUS
    <3>1. phase[Ui] = "sent" /\ cur[Ui] = o /\ Effect(o)
      BY <2>1, CarriedBySender, AloneUi
    <3>2. execCount[o] = 0 /\ (o \in queued => state[o] = "in_progress")
      BY <1>0, <2>1, <3>1 DEF CompletedInv, CompletionRun
    <3> QED BY <2>1, <3>1, <3>2 DEF Effect, TypeOK
  <2>4. execCount'[o] <= 1
    BY <2>1, <2>2, <2>3, ExecKept DEF CompletionRow
  <2>5. o \in queued /\ state[o] \notin {"in_progress", "recovery_required"} => execCount'[o] = 0
    BY <2>1, <2>2, <2>3, ExecKept DEF CompletionRow
  <2> DEFINE Row == /\ state'[o] \notin {"in_progress", "recovery_required"} => execCount'[o] = 0
                    /\ state'[o] = "recovery_required" => timing'[o] = "never" /\ o \notin retrying'
                    /\ o \in retrying' => timing'[o] = "never"
  <2>6. ASSUME o \in queued PROVE o \in retrying' =>
                                     \/ o \in retrying
                                     \/ timing[o] = "never" /\ state[o] # "recovery_required"
                                        /\ timing'[o] = timing[o]
    BY <1>0, <2>1, <2>6, RetryingShape DEF RetryCheck
  <2>7. ASSUME o \in queued, SameRow(o) PROVE Row
    BY <2>2, <2>5, <2>6, <2>7 DEF CompletionRow, SameRow
  <2>8. ASSUME o \in queued, AttemptBecomesDue(o) PROVE Row
    BY <2>1, <2>2, <2>5, <2>8 DEF CompletionRow, AttemptBecomesDue, uiVars, TypeOK
  <2>9. ASSUME o \in queued, RetryWrite(o) PROVE Row
    BY <2>1, <2>2, <2>5, <2>9 DEF CompletionRow, RetryWrite
  <2>10. ASSUME RecordOk(Ui), Acknowledge(cur[Ui]), o \in Unblocked(cur[Ui]) PROVE Row
    <3>1. CASE kind[cur[Ui]] = "createTask" /\ cur[Ui] \notin queued
      <4>1. UNCHANGED <<state, timing>>
        BY <2>10, <3>1 DEF RecordOk
      <4>2. retrying' = retrying
        BY <2>10 DEF RecordOk, uiVars
      <4>3. o \in queued
        BY <2>10 DEF Unblocked, Referring
      <4> QED BY <2>2, <2>5, <4>1, <4>2, <4>3 DEF CompletionRow
    <3>2. CASE ~(kind[cur[Ui]] = "createTask" /\ cur[Ui] \notin queued)
      BY <2>1, <2>10, <3>2, CompletionsNotUnblocked DEF LossInv
    <3> QED BY <3>1, <3>2
  <2>11. ASSUME o \in queued, cur[Ui] = o
         PROVE  /\ timing[o] = "due" /\ o \notin retrying /\ state[o] # "recovery_required"
    BY <2>2, <2>11 DEF TodoInv, CompletionRow
  <2>12. ASSUME o \in queued, cur[Ui] = o, Admit(Ui) \/ Send(Ui) PROVE Row
    <3>1. state'[o] \in {state[o], "in_progress"} /\ retrying' = retrying
      BY <1>0, <2>1, <2>12 DEF Admit, Send, uiVars, TypeOK
    <3> QED BY <2>5, <2>11, <2>12, <3>1
  <2>13. ASSUME o \in queued, cur[Ui] = o, BlockUnknownCompletion(Ui) PROVE Row
    <3>1. state'[o] = "recovery_required" /\ timing'[o] = "never" /\ retrying' = retrying
      BY <2>1, <2>13 DEF BlockUnknownCompletion, WriteRow, TypeOK, uiVars
    <3> QED BY <2>11, <2>13, <3>1
  <2>14. ASSUME o \in queued, cur[Ui] = o, RecordRetry(Ui) \/ RecordBlock(Ui) PROVE Row
    <3>1. phase[Ui] = "answered" /\ retrying' = retrying /\ execCount'[o] = execCount[o]
      BY <2>14 DEF RecordRetry, RecordBlock, uiVars, providerVars
    <3>2. \/ state'[o] = state[o]
          \/ /\ state'[o] = "retry"
             /\ \/ answer[Ui] = "unsent" /\ seen[Ui] # "in_progress"
                \/ answer[Ui] = "throttled" /\ sent[Ui]
          \/ /\ state'[o] = "failed" /\ seen[Ui] # "in_progress"
             /\ answer[Ui] \in {"rejected", "conflict", "error408", "missing"}
      <4>1. CASE RecordRetry(Ui)
        BY <1>0, <2>1, <2>14, <4>1 DEF RecordRetry, WriteRow, TypeOK
      <4>2. CASE RecordBlock(Ui)
        BY <1>0, <2>1, <2>14, <4>2 DEF RecordBlock, WriteRow, TypeOK
      <4> QED BY <2>14, <4>1, <4>2
    <3>3. execCount[o] > 0 => IF sent[Ui] THEN answer[Ui] \in {"ok", "lost", "error5xx"}
                                          ELSE seen[Ui] = "in_progress"
      BY <1>0, <2>1, <2>14, <3>1 DEF CompletedInv, CompletionRun
    <3>4. execCount[o] > 0 => state'[o] = state[o]
      BY <3>2, <3>3
    <3>5. execCount[o] \in 0..2
      BY <2>1 DEF TypeOK
    <3>6. state'[o] \notin {"in_progress", "recovery_required"} => execCount'[o] = 0
      BY <2>2, <2>14, <3>1, <3>4, <3>5 DEF CompletionRow
    <3> QED BY <2>11, <2>14, <3>1, <3>2, <3>6
  <2>15. ~(cur[Ui] = o /\ RecordUnknownCreation(Ui))
    BY <1>0, <2>1 DEF RecordUnknownCreation, UnknownOutcome
  <2>16. ASSUME o \in queued PROVE Row
    BY <2>1, <2>7, <2>8, <2>9, <2>10, <2>12, <2>13, <2>14, <2>15, <2>16, RowShape, AloneUi
  <2> QED BY <2>1, <2>4, <2>16 DEF CompletionRow
<1> QED BY <1>1, <1>2 DEF New

\* The part of CompletedInv about the operation the replayer is at.  An answer
\* 408 is the exception: RecordBlock makes a failed row of it, and a failed row
\* can be retried.
LEMMA NextCompletionRun ==
    ASSUME Alone, QueueInv, OrphanInv, LossInv, CompletedInv, "error408" \notin UncertainAnswers,
           [Next]_vars, cur'[Ui] # NoOp, kind'[cur'[Ui]] = "complete"
    PROVE  CompletionRun(cur[Ui])'
<1> USE DEF QueueInv, Ids, LineInv, OrphanInv
<1>0. /\ Ui \in Replayers /\ "complete" \notin Creations /\ "complete" \in Reconcilable
      /\ Issued \subseteq OpIds /\ NoOp \notin OpIds /\ TypeOK' /\ IdsInv'
  BY ReplayAssumption, IssuedIds, NextTypeOK, NextIdsInv DEF Creations, Reconcilable, OpIds, NoOp
<1>1. PICK o \in OpIds : o = cur'[Ui]
  BY <1>0 DEF TypeOK
<1> DEFINE Run ==
       /\ phase'[Ui] \in {"read", "checking"} /\ seen'[Ui] # "in_progress" => execCount'[o] = 0
       /\ phase'[Ui] = "sent" =>
             /\ execCount'[o] = 0 /\ sent'[Ui] /\ seen'[Ui] # "in_progress"
             /\ o \in queued' => state'[o] = "in_progress"
       /\ phase'[Ui] = "answered" /\ execCount'[o] > 0 =>
             IF sent'[Ui] THEN answer'[Ui] \in {"ok", "lost", "error5xx"}
                          ELSE seen'[Ui] = "in_progress"
<1> SUFFICES Run
  BY <1>1 DEF CompletionRun
<1>2. CASE Takes(Ui)
  <2>1. /\ o \in todo[Ui] \cap queued /\ phase[Ui] = "scan" /\ phase'[Ui] = "read"
        /\ seen'[Ui] = state[o]
    BY <1>1, <1>2 DEF Takes
  <2>2. kind[o] = "complete" /\ o \in Issued
    BY <1>0, <1>1, <2>1, IssuedIds, OpsKept DEF Kept
  <2>3. timing[o] = "due"
    BY <2>1 DEF TodoInv
  <2>4. state[o] # "in_progress" => execCount[o] = 0
    BY <2>1, <2>2, <2>3 DEF CompletedInv, CompletionRow
  <2>5. execCount'[o] = execCount[o]
    BY <2>1, CarriedBySender, AloneUi, ExecKept
  <2> QED BY <2>1, <2>4, <2>5
<1>3. CASE ~Takes(Ui)
  <2>0. kind'[o] = "complete" /\ o # NoOp /\ o \in Issued'
    BY <1>0, <1>1 DEF IdsInv
  <2>1. cur[Ui] = o
    BY <1>0, <1>1, <1>3, <2>0, RunOfUi DEF Starts, Scans, Leaves, Advances
  <2>2. phase[Ui] \notin {"idle", "scan"} /\ o \in Issued
    BY <1>0, <2>0, <2>1, CurIssued DEF IdsInv
  <2>3. kind[o] = "complete" /\ (o \in queued' => o \in queued)
    BY <1>0, <2>0, <2>2, OpsKept DEF Kept, New
  <2>4. CompletionRun(o)
    BY <1>0, <2>1, <2>2, <2>3 DEF CompletedInv
  <2>5. CASE Replay(Ui) \/ Crash(Ui)
    <3>0. Advances(Ui)
      BY <1>0, <1>1, <1>3, <2>0, <2>2, <2>5, RunShape DEF Starts, Scans, Leaves
    <3>1. CASE Admits(Ui)
      <4>1. phase'[Ui] = "checking" /\ phase[Ui] = "read" /\ seen'[Ui] = seen[Ui]
            /\ execCount' = execCount
        BY <3>1 DEF Admits, providerVars
      <4> QED BY <2>4, <4>1 DEF CompletionRun
    <3>2. CASE CheckProvider(Ui)
      <4>1. phase[Ui] = "checking" /\ phase'[Ui] = "answered" /\ UNCHANGED <<seen, sent, execCount>>
        BY <1>0, <3>2 DEF CheckProvider, providerVars, TypeOK
      <4>2. ~sent[Ui]
        BY <4>1 DEF CompletedInv, SentInv
      <4> QED BY <2>4, <4>1, <4>2 DEF CompletionRun
    <3>3. CASE FindDone(Ui)
      BY <2>1, <2>3, <3>3 DEF FindDone
    <3>4. CASE Send(Ui)
      <4>1. /\ phase[Ui] = "checking" /\ phase'[Ui] = "sent" /\ sent'[Ui]
            /\ UNCHANGED <<seen, execCount, queued>>
            /\ o \in queued => state'[o] = "in_progress"
        BY <1>0, <2>1, <2>3, <3>4 DEF Send, providerVars, TypeOK
      <4>2. seen[Ui] # "in_progress"
        BY <2>1, <2>3, <3>4 DEF Send, UncertainCompletion
      <4> QED BY <2>4, <4>1, <4>2 DEF CompletionRun
    <3>5. CASE AnswerOk(Ui) \/ AnswerUnknown(Ui)
      <4>1. PICK a \in UncertainAnswers \cup {"ok"} : AnswerTo(Ui, a)
        BY <3>5 DEF AnswerOk, AnswerUnknown
      <4>2. a \in {"ok", "lost", "error5xx"}
        BY <4>1, ReplayAssumption
      <4>3. /\ phase[Ui] = "sent" /\ phase'[Ui] = "answered" /\ answer'[Ui] = a
            /\ UNCHANGED sent
        BY <1>0, <4>1 DEF AnswerTo, TypeOK
      <4> QED BY <2>4, <4>2, <4>3 DEF CompletionRun
    <3>6. CASE AnswerRefused(Ui)
      <4>1. PICK a : AnswerTo(Ui, a) /\ UNCHANGED providerVars
        BY <3>6 DEF AnswerRefused
      <4>2. phase[Ui] = "sent" /\ phase'[Ui] = "answered" /\ execCount' = execCount
        BY <1>0, <4>1 DEF AnswerTo, providerVars, TypeOK
      <4>3. execCount'[o] = 0
        BY <2>4, <4>2 DEF CompletionRun
      <4> QED BY <4>2, <4>3
    <3> QED BY <1>0, <2>5, <3>0, <3>1, <3>2, <3>3, <3>4, <3>5, <3>6, BusyBy DEF Advances, Busy
  <2>6. CASE ~(Replay(Ui) \/ Crash(Ui))
    <3>1. UNCHANGED <<phase, seen, answer, sent>>
      BY <2>6, RunOfUi
    <3>2. execCount'[o] = execCount[o]
      BY <2>6, CarriedBySender, AloneUi, ExecKept DEF Replay
    <3>3. state'[o] = state[o]
      <4>1. SameRow(o) \/ AttemptBecomesDue(o) \/ RetryWrite(o)
        BY <2>6, RowShape, AloneUi DEF Replay, Record
      <4> QED BY <4>1 DEF SameRow, AttemptBecomesDue, RetryWrite
    <3> QED BY <2>3, <2>4, <3>1, <3>2, <3>3 DEF CompletionRun
  <2> QED BY <2>5, <2>6
<1> QED BY <1>2, <1>3

\* With one replayer, and when a timed-out request is reported as lost and not
\* as an answer 408, the provider carries out the completion of an occurrence of
\* a recurring task at most once.
THEOREM CompletionsOnce ==
    ASSUME Replayers = {Ui}, "error408" \notin UncertainAnswers
    PROVE  Spec => []CompletedOnce
<1> USE DEF Alone
<1> DEFINE Inv == QueueInv /\ OrphanInv /\ LossInv /\ CompletedInv
<1>1. Init => Inv
  <2> SUFFICES ASSUME Init PROVE Inv
    OBVIOUS
  <2>1. OrphanInv
    BY DEF Init, OrphanInv, AckedOrQueued
  <2>2. ListsFirst /\ AnswersInv
    BY ReplayAssumption DEF Init, ListsFirst, AnswersInv
  <2>3. Issued = {}
    BY DEF Init, Issued
  <2>4. SentInv /\ cur[Ui] = NoOp
    BY ReplayAssumption DEF Init, SentInv
  <2> QED BY <2>1, <2>2, <2>3, <2>4, InitQueueInv DEF LossInv, CompletedInv
<1>2. Inv /\ [Next]_vars => Inv'
  <2> SUFFICES ASSUME Inv, [Next]_vars PROVE Inv'
    OBVIOUS
  <2>1. QueueInv' /\ OrphanInv' /\ LossInv'
    BY NextQueueInv, NextOrphanInv, NextLossInv
  <2>2. SentInv'
    BY NextSentInv DEF QueueInv, Ids, CompletedInv
  <2>3. \A o \in Issued' : kind'[o] = "complete" => CompletionRow(o)'
    BY NextCompletionRow
  <2>4. cur'[Ui] # NoOp /\ kind'[cur'[Ui]] = "complete" => CompletionRun(cur[Ui])'
    BY NextCompletionRun
  <2> QED BY <2>1, <2>2, <2>3, <2>4 DEF CompletedInv
<1>3. Inv => CompletedOnce
  <2> SUFFICES ASSUME Inv, NEW o \in OpIds, kind[o] = "complete" PROVE execCount[o] <= 1
    BY DEF CompletedOnce
  <2>1. CASE o \in Issued
    BY <2>1 DEF CompletedInv, CompletionRow
  <2>2. CASE o \notin Issued
    BY <2>2 DEF QueueInv, Ids, IdsInv
  <2> QED BY <2>1, <2>2
<1> QED BY <1>1, <1>2, <1>3, PTL DEF Spec
==============================================================================
