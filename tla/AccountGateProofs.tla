-------------------------- MODULE AccountGateProofs --------------------------
(***************************************************************************)
(* Proofs about AccountGate, for any number of accounts and calls.         *)
(*                                                                         *)
(* Mutual exclusion is not inductive: it rests on the shape of the chain   *)
(* of completers.  GateInv states that shape by the submission order       *)
(* (ticket): a waiting call awaits exactly the call before it, the calls   *)
(* that have left were submitted before those still inside, a running call *)
(* has only departed calls before it, and the tail is the last call.       *)
(***************************************************************************)
EXTENDS AccountGate, FiniteSetTheorems, TLAPS

Submitted(o) == pc[o] # "idle"

TicketsOrdered ==
    /\ \A o \in Ops : Submitted(o) => ticket[o] \in 1..issued[AccountOf[o]]
    /\ \A o, p \in Ops :
          (Submitted(o) /\ Submitted(p) /\ AccountOf[o] = AccountOf[p] /\ o # p)
          => ticket[o] # ticket[p]

CompletedAreDone == completed = {o \in Ops : pc[o] = "done"}

DepartedFirst ==
    \A o, p \in Ops :
        (AccountOf[o] = AccountOf[p] /\ pc[o] = "done" /\ pc[p] \in {"waiting", "running"})
        => ticket[o] < ticket[p]

AwaitsThePrevious ==
    \A o \in Ops : pc[o] = "waiting" =>
        /\ previous[o] \in Ops
        /\ AccountOf[previous[o]] = AccountOf[o]
        /\ Submitted(previous[o])
        /\ ticket[previous[o]] = ticket[o] - 1

RunningIsFirst ==
    \A o, p \in Ops :
        (/\ AccountOf[o] = AccountOf[p] /\ pc[o] = "running"
         /\ Submitted(p) /\ ticket[p] < ticket[o])
        => pc[p] = "done"

TailIsLast ==
    \A a \in Accounts :
        IF accountTails[a] = NoOp
        THEN \A o \in Ops : AccountOf[o] = a => pc[o] \notin {"waiting", "running"}
        ELSE /\ accountTails[a] \in Ops
             /\ AccountOf[accountTails[a]] = a
             /\ pc[accountTails[a]] \in {"waiting", "running"}
             /\ ticket[accountTails[a]] = issued[a]

\* The type of the chain; that activeCounts stays natural follows from counting
\* (GateRunningWhileActive).
ChainTypeOK ==
    /\ accountTails \in [Accounts -> Ops \cup {NoOp}]
    /\ previous \in [Ops -> Ops \cup {NoOp}]
    /\ completed \in SUBSET Ops
    /\ pc \in [Ops -> {"idle", "waiting", "running", "done"}]
    /\ ticket \in [Ops -> Nat]
    /\ issued \in [Accounts -> Nat]

GateInv ==
    /\ ChainTypeOK
    /\ TicketsOrdered
    /\ CompletedAreDone
    /\ DepartedFirst
    /\ AwaitsThePrevious
    /\ RunningIsFirst
    /\ TailIsLast

\* The initial state has an empty chain.
LEMMA InitGateInv == Init => GateInv
BY GateAssumption DEF Init, GateInv, ChainTypeOK, TicketsOrdered, CompletedAreDone,
   DepartedFirst, AwaitsThePrevious, RunningIsFirst, TailIsLast, Submitted

\* The types of the chain are kept by every step.
LEMMA StepChainType == ChainTypeOK /\ [Next]_vars => ChainTypeOK'
<1> SUFFICES ASSUME ChainTypeOK, [Next]_vars PROVE ChainTypeOK'
  OBVIOUS
<1> USE GateAssumption DEF ChainTypeOK
<1>1. ASSUME NEW o \in Ops, Submit(o) PROVE ChainTypeOK'
  BY <1>1 DEF Submit
<1>2. ASSUME NEW o \in Ops, Enter(o) PROVE ChainTypeOK'
  BY <1>2 DEF Enter
<1>3. ASSUME NEW o \in Ops, Finish(o) PROVE ChainTypeOK'
  BY <1>3 DEF Finish
<1>4. CASE UNCHANGED vars
  BY <1>4 DEF vars
<1> QED BY <1>1, <1>2, <1>3, <1>4 DEF Next

\* A new call goes to the end of the chain.
LEMMA SubmitGateInv == \A o \in Ops : GateInv /\ Submit(o) => GateInv'
<1> SUFFICES ASSUME NEW o \in Ops, GateInv, Submit(o) PROVE GateInv'
  OBVIOUS
<1> DEFINE a == AccountOf[o]
<1>0. ChainTypeOK /\ ChainTypeOK' /\ a \in Accounts /\ issued[a] \in Nat
  BY StepChainType, GateAssumption DEF GateInv, Next, ChainTypeOK
<1>1. /\ pc[o] = "idle"
      /\ pc' = [pc EXCEPT ![o] = IF accountTails[a] = NoOp THEN "running" ELSE "waiting"]
      /\ ticket' = [ticket EXCEPT ![o] = issued[a] + 1]
      /\ issued' = [issued EXCEPT ![a] = issued[a] + 1]
      /\ accountTails' = [accountTails EXCEPT ![a] = o]
      /\ previous' = [previous EXCEPT ![o] = accountTails[a]]
      /\ completed' = completed
  BY <1>0 DEF Submit, ChainTypeOK
<1>2. TicketsOrdered'
  BY <1>0, <1>1, GateAssumption DEF GateInv, ChainTypeOK, TicketsOrdered, Submitted
<1>3. CompletedAreDone'
  BY <1>0, <1>1 DEF GateInv, ChainTypeOK, CompletedAreDone
<1>4. DepartedFirst'
  BY <1>0, <1>1, GateAssumption DEF GateInv, ChainTypeOK, DepartedFirst, TicketsOrdered, Submitted
<1>5. AwaitsThePrevious'
  BY <1>0, <1>1, GateAssumption
     DEF GateInv, ChainTypeOK, AwaitsThePrevious, TailIsLast, Submitted
<1>6. RunningIsFirst'
  <2> SUFFICES ASSUME NEW p \in Ops, NEW q \in Ops,
                      AccountOf[p] = AccountOf[q], pc'[p] = "running",
                      pc'[q] # "idle", ticket'[q] < ticket'[p]
               PROVE  pc'[q] = "done"
    BY DEF RunningIsFirst, Submitted
  <2>1. CASE p = o
    BY <2>1, <1>0, <1>1, GateAssumption
       DEF GateInv, ChainTypeOK, TailIsLast
  <2>2. CASE q = o
    BY <2>2, <1>0, <1>1, GateAssumption
       DEF GateInv, ChainTypeOK, TicketsOrdered, Submitted
  <2>3. CASE p # o /\ q # o
    BY <2>3, <1>0, <1>1 DEF GateInv, ChainTypeOK, RunningIsFirst, Submitted
  <2> QED BY <2>1, <2>2, <2>3
<1>7. TailIsLast'
  BY <1>0, <1>1, GateAssumption DEF GateInv, ChainTypeOK, TailIsLast
<1> QED BY <1>0, <1>2, <1>3, <1>4, <1>5, <1>6, <1>7 DEF GateInv

\* A call let in by the completer it awaited has only departed calls before it.
LEMMA EnteringIsFirst ==
    ASSUME GateInv, NEW o \in Ops, NEW p \in Ops, Enter(o),
           AccountOf[p] = AccountOf[o], Submitted(p), ticket[p] < ticket[o]
    PROVE  pc[p] = "done"
<1> DEFINE q == previous[o]
<1>1. /\ q \in Ops /\ pc[q] = "done" /\ AccountOf[q] = AccountOf[o]
      /\ ticket[q] = ticket[o] - 1
  BY DEF Enter, GateInv, CompletedAreDone, AwaitsThePrevious
<1>2. ticket[p] \in Nat /\ ticket[o] \in Nat
  BY DEF GateInv, ChainTypeOK
<1>3. ~(ticket[q] < ticket[p])
  BY <1>1, <1>2
<1>4. pc[p] \notin {"waiting", "running"}
  BY <1>1, <1>3 DEF GateInv, DepartedFirst
<1> QED BY <1>4 DEF GateInv, ChainTypeOK, Submitted

\* Letting a call in keeps the chain.
LEMMA EnterGateInv == \A o \in Ops : GateInv /\ Enter(o) => GateInv'
<1> SUFFICES ASSUME NEW o \in Ops, GateInv, Enter(o) PROVE GateInv'
  OBVIOUS
<1>0. ChainTypeOK /\ ChainTypeOK'
  BY StepChainType DEF GateInv, Next
<1>1. /\ pc[o] = "waiting" /\ pc' = [pc EXCEPT ![o] = "running"]
      /\ UNCHANGED <<accountTails, previous, completed, ticket, issued>>
  BY DEF Enter
<1>2. TicketsOrdered'
  BY <1>0, <1>1 DEF GateInv, ChainTypeOK, TicketsOrdered, Submitted
<1>3. CompletedAreDone'
  BY <1>0, <1>1 DEF GateInv, ChainTypeOK, CompletedAreDone
<1>4. DepartedFirst'
  BY <1>0, <1>1 DEF GateInv, ChainTypeOK, DepartedFirst
<1>5. AwaitsThePrevious'
  BY <1>0, <1>1 DEF GateInv, ChainTypeOK, AwaitsThePrevious, Submitted
<1>6. RunningIsFirst'
  BY <1>0, <1>1, EnteringIsFirst DEF GateInv, ChainTypeOK, RunningIsFirst, Submitted
<1>7. TailIsLast'
  BY <1>0, <1>1 DEF GateInv, ChainTypeOK, TailIsLast
<1> QED BY <1>0, <1>2, <1>3, <1>4, <1>5, <1>6, <1>7 DEF GateInv

\* A call that leaves is the first of the calls still inside.
LEMMA FinishGateInv == \A o \in Ops : GateInv /\ Finish(o) => GateInv'
<1> SUFFICES ASSUME NEW o \in Ops, GateInv, Finish(o) PROVE GateInv'
  OBVIOUS
<1> DEFINE a == AccountOf[o]
<1>0. ChainTypeOK /\ ChainTypeOK' /\ a \in Accounts
  BY StepChainType, GateAssumption DEF GateInv, Next
<1>1. /\ pc[o] = "running" /\ pc' = [pc EXCEPT ![o] = "done"]
      /\ completed' = completed \cup {o}
      /\ accountTails' = IF accountTails[a] = o
                         THEN [accountTails EXCEPT ![a] = NoOp] ELSE accountTails
      /\ UNCHANGED <<previous, ticket, issued>>
  BY DEF Finish
<1>2. TicketsOrdered'
  BY <1>0, <1>1 DEF GateInv, ChainTypeOK, TicketsOrdered, Submitted
<1>3. CompletedAreDone'
  BY <1>0, <1>1 DEF GateInv, ChainTypeOK, CompletedAreDone
<1>4. DepartedFirst'
  <2> SUFFICES ASSUME NEW p \in Ops, NEW q \in Ops, AccountOf[p] = AccountOf[q],
                      pc'[p] = "done", pc'[q] \in {"waiting", "running"}
               PROVE  ticket[p] < ticket[q]
    BY <1>1 DEF DepartedFirst
  <2>1. CASE p = o
    BY <2>1, <1>0, <1>1 DEF GateInv, ChainTypeOK, RunningIsFirst, TicketsOrdered, Submitted
  <2>2. CASE p # o
    BY <2>2, <1>0, <1>1 DEF GateInv, ChainTypeOK, DepartedFirst
  <2> QED BY <2>1, <2>2
<1>5. AwaitsThePrevious'
  BY <1>0, <1>1 DEF GateInv, ChainTypeOK, AwaitsThePrevious, Submitted
<1>6. RunningIsFirst'
  BY <1>0, <1>1 DEF GateInv, ChainTypeOK, RunningIsFirst, Submitted
<1>7. TailIsLast'
  <2> SUFFICES ASSUME NEW b \in Accounts PROVE TailIsLast!(b)'
    BY DEF TailIsLast
  <2>1. CASE b = a /\ accountTails[a] = o
    <3>1. \A p \in Ops : AccountOf[p] = a /\ p # o => pc[p] \notin {"waiting", "running"}
      BY <2>1, <1>0, <1>1, GateAssumption
         DEF GateInv, ChainTypeOK, TailIsLast, RunningIsFirst, TicketsOrdered, Submitted
    <3>2. accountTails'[b] = NoOp
      BY <2>1, <1>0, <1>1 DEF ChainTypeOK
    <3> QED BY <2>1, <3>1, <3>2, <1>0, <1>1 DEF ChainTypeOK
  <2>2. CASE ~(b = a /\ accountTails[a] = o)
    <3>1. accountTails'[b] = accountTails[b] /\ accountTails[b] # o
      BY <2>2, <1>0, <1>1, GateAssumption DEF GateInv, ChainTypeOK, TailIsLast
    <3> QED BY <3>1, <1>0, <1>1 DEF GateInv, ChainTypeOK, TailIsLast
  <2> QED BY <2>1, <2>2
<1> QED BY <1>0, <1>2, <1>3, <1>4, <1>5, <1>6, <1>7 DEF GateInv

\* The shape of the chain is an invariant.
THEOREM GateInvariant == Spec => []GateInv
<1>1. GateInv /\ UNCHANGED vars => GateInv'
  BY DEF vars, GateInv, ChainTypeOK, TicketsOrdered, CompletedAreDone, DepartedFirst,
         AwaitsThePrevious, RunningIsFirst, TailIsLast, Submitted
<1>2. GateInv /\ [Next]_vars => GateInv'
  BY <1>1, SubmitGateInv, EnterGateInv, FinishGateInv DEF Next
<1> QED BY <1>2, InitGateInv, PTL DEF Spec

\* No two calls of one account are inside the gate together, whatever the
\* number of accounts and calls.
THEOREM GateMutualExclusion == Spec => []MutualExclusion
<1>1. GateInv => MutualExclusion
  <2> SUFFICES ASSUME GateInv, NEW o \in Ops, NEW p \in Ops, o # p,
                      AccountOf[o] = AccountOf[p], pc[o] = "running", pc[p] = "running"
               PROVE  FALSE
    BY DEF MutualExclusion
  <2>1. ticket[o] \in Nat /\ ticket[p] \in Nat /\ ticket[o] # ticket[p]
    BY DEF GateInv, ChainTypeOK, TicketsOrdered, Submitted
  <2> QED BY <2>1 DEF GateInv, RunningIsFirst, Submitted
<1> QED BY <1>1, GateInvariant, PTL

\* Calls of one account are served in the order they were submitted.
THEOREM GateFirstComeFirstServed == Spec => FirstComeFirstServed
<1> DEFINE Fcfs == \A o, p \in Ops :
          (/\ pc[o] = "waiting" /\ pc'[o] = "running"
           /\ AccountOf[p] = AccountOf[o] /\ pc[p] # "idle" /\ ticket[p] < ticket[o])
          => pc[p] = "done"
<1>1. GateInv /\ [Next]_vars => [Fcfs]_vars
  <2> SUFFICES ASSUME GateInv, [Next]_vars, NEW o \in Ops, NEW p \in Ops,
                      pc[o] = "waiting", pc'[o] = "running", AccountOf[p] = AccountOf[o],
                      pc[p] # "idle", ticket[p] < ticket[o]
               PROVE  pc[p] = "done"
    OBVIOUS
  <2>1. PICK r \in Ops : Submit(r) \/ Enter(r) \/ Finish(r)
    BY DEF Next, vars
  <2>2. Enter(o)
    BY <2>1 DEF Submit, Enter, Finish, GateInv, ChainTypeOK
  <2> QED BY <2>2, EnteringIsFirst DEF Submitted
<1> QED BY <1>1, GateInvariant, PTL DEF Spec, FirstComeFirstServed

\* A call adds itself to the calls inside when it is submitted, and removes
\* itself when its operation ends; letting it in changes nothing.
LEMMA ActiveChanges ==
    ASSUME ChainTypeOK, NEW o \in Ops, NEW a \in Accounts
    PROVE  /\ Submit(o) => Active(a)' = IF AccountOf[o] = a THEN Active(a) \cup {o} ELSE Active(a)
           /\ Submit(o) => o \notin Active(a)
           /\ Enter(o) => Active(a)' = Active(a)
           /\ Finish(o) => Active(a)' = IF AccountOf[o] = a THEN Active(a) \ {o} ELSE Active(a)
           /\ Finish(o) /\ AccountOf[o] = a => o \in Active(a)
BY GateAssumption DEF ChainTypeOK, Submit, Enter, Finish, Active, OpsOf

CountInv == activeCounts \in [Accounts -> Nat] /\ RunningWhileActive

\* One call entering or leaving changes the count of its account by one.
LEMMA StepCountInv == ChainTypeOK /\ CountInv /\ [Next]_vars => CountInv'
<1> SUFFICES ASSUME ChainTypeOK, CountInv, [Next]_vars PROVE CountInv'
  OBVIOUS
<1>1. ASSUME NEW a \in Accounts
      PROVE  IsFiniteSet(Active(a)) /\ Cardinality(Active(a)) \in Nat
  <2>1. Active(a) \subseteq Ops
    BY DEF Active, OpsOf
  <2> QED BY <2>1, GateAssumption, FS_Subset, FS_CardinalityType
<1>2. ASSUME NEW o \in Ops, Submit(o) PROVE CountInv'
  <2>1. ASSUME NEW a \in Accounts
        PROVE  activeCounts'[a] = Cardinality(Active(a)') /\ activeCounts'[a] \in Nat
    <3>1. CASE AccountOf[o] = a
      <4>1. Active(a)' = Active(a) \cup {o} /\ o \notin Active(a)
        BY <1>2, <3>1, ActiveChanges
      <4>2. Cardinality(Active(a)') = Cardinality(Active(a)) + 1
        BY <1>1, <4>1, FS_AddElement
      <4> QED BY <1>1, <1>2, <3>1, <4>2 DEF CountInv, RunningWhileActive, Submit
    <3>2. CASE AccountOf[o] # a
      BY <1>1, <1>2, <3>2, ActiveChanges DEF CountInv, RunningWhileActive, Submit
    <3> QED BY <3>1, <3>2
  <2> QED BY <1>2, <2>1 DEF CountInv, RunningWhileActive, Submit
<1>3. ASSUME NEW o \in Ops, Enter(o) PROVE CountInv'
  BY <1>3, ActiveChanges DEF CountInv, RunningWhileActive, Enter
<1>4. ASSUME NEW o \in Ops, Finish(o) PROVE CountInv'
  <2>1. ASSUME NEW a \in Accounts
        PROVE  activeCounts'[a] = Cardinality(Active(a)') /\ activeCounts'[a] \in Nat
    <3>1. CASE AccountOf[o] = a
      <4>1. Active(a)' = Active(a) \ {o} /\ o \in Active(a)
        BY <1>4, <3>1, ActiveChanges
      <4>2. /\ Cardinality(Active(a)') = Cardinality(Active(a)) - 1
            /\ IsFiniteSet(Active(a)')
        BY <1>1, <4>1, FS_RemoveElement
      <4>3. Cardinality(Active(a)') \in Nat
        BY <4>2, FS_CardinalityType
      <4> QED BY <1>1, <1>4, <3>1, <4>2, <4>3 DEF CountInv, RunningWhileActive, Finish
    <3>2. CASE AccountOf[o] # a
      BY <1>1, <1>4, <3>2, ActiveChanges DEF CountInv, RunningWhileActive, Finish
    <3> QED BY <3>1, <3>2
  <2> QED BY <1>4, <2>1 DEF CountInv, RunningWhileActive, Finish
<1>5. CASE UNCHANGED vars
  BY <1>5 DEF vars, CountInv, RunningWhileActive, Active, OpsOf
<1> QED BY <1>2, <1>3, <1>4, <1>5 DEF Next

\* isRunning is exact: an account counts as running exactly while some call of
\* it is inside run().
THEOREM GateRunningWhileActive == Spec => []RunningWhileActive
<1>1. Init => CountInv
  <2> SUFFICES ASSUME Init PROVE CountInv
    OBVIOUS
  <2>1. \A a \in Accounts : Active(a) = {}
    BY DEF Init, Active, OpsOf
  <2> QED BY <2>1, FS_EmptySet DEF Init, CountInv, RunningWhileActive
<1>2. GateInv => ChainTypeOK
  BY DEF GateInv
<1>3. CountInv => RunningWhileActive
  BY DEF CountInv
<1> QED BY <1>1, <1>2, <1>3, StepCountInv, GateInvariant, PTL DEF Spec

\* Type correctness of the gate.
THEOREM GateTypeOK == Spec => []TypeOK
<1>1. Init => CountInv
  <2> SUFFICES ASSUME Init PROVE CountInv
    OBVIOUS
  <2>1. \A a \in Accounts : Active(a) = {}
    BY DEF Init, Active, OpsOf
  <2> QED BY <2>1, FS_EmptySet DEF Init, CountInv, RunningWhileActive
<1>2. GateInv => ChainTypeOK
  BY DEF GateInv
<1>3. GateInv /\ CountInv => TypeOK
  BY DEF GateInv, ChainTypeOK, CountInv, TypeOK
<1> QED BY <1>1, <1>2, <1>3, StepCountInv, GateInvariant, PTL DEF Spec

\* Every step of the chain of completers is a step of the lock it promises,
\* or changes nothing the lock can see.
THEOREM GateImplementsFifoLock == Spec => ImplementsFifoLock
<1>1. Init => Lock!Init
  BY DEF Init, Lock!Init, PhaseOf, Ahead, Active, OpsOf
<1>2. ASSUME GateInv, [Next]_vars PROVE [Lock!Next]_(Lock!vars)
  <2> USE <1>2
  <2>0. ChainTypeOK /\ ChainTypeOK'
    BY StepChainType DEF GateInv
  <2>0a. \A a \in Accounts : Lock!Present(a) = Active(a)
    BY <2>0 DEF Lock!Present, Active, OpsOf, PhaseOf, ChainTypeOK
  <2>1. ASSUME NEW o \in Ops, Submit(o) PROVE Lock!Arrive(o)
    <3> DEFINE a == AccountOf[o]
    <3>0. a \in Accounts
      BY GateAssumption
    <3>1. pc[o] = "idle" /\ pc' = [pc EXCEPT ![o] = IF Active(a) = {} THEN "running" ELSE "waiting"]
      BY <2>0, <2>1, <3>0 DEF Submit, GateInv, TailIsLast, Active, OpsOf
    <3>2. PhaseOf(o) = "outside"
      BY <3>1 DEF PhaseOf
    <3>3. \A p \in Ops : PhaseOf(p)' = IF p = o
              THEN (IF Active(a) = {} THEN "inside" ELSE "queued") ELSE PhaseOf(p)
      BY <2>0, <3>1 DEF PhaseOf, ChainTypeOK
    <3>4. \A p \in Active(a) : ticket'[p] < ticket'[o] /\ p # o /\ pc'[p] = pc[p]
      BY <2>0, <2>1, <3>0 DEF Submit, GateInv, TicketsOrdered, Submitted, Active, OpsOf, ChainTypeOK
    <3>5. Ahead(o)' = Active(a)
      <4>1. Active(a)' = Active(a) \cup {o}
        BY <2>0, <2>1, <3>0, ActiveChanges
      <4>2. ~(ticket'[o] < ticket'[o])
        BY <2>0 DEF ChainTypeOK
      <4>3. CASE Active(a) = {}
        BY <2>0, <3>1, <4>1, <4>2, <4>3 DEF Ahead, ChainTypeOK
      <4>4. CASE Active(a) # {}
        BY <2>0, <3>1, <3>4, <4>1, <4>2, <4>4 DEF Ahead, ChainTypeOK
      <4> QED BY <4>3, <4>4
    <3>6. ASSUME NEW p \in Ops, p # o PROVE Ahead(p)' = Ahead(p)
      <4>0. AccountOf[p] \in Accounts
        BY GateAssumption
      <4>1. Active(AccountOf[p])' = IF AccountOf[o] = AccountOf[p]
               THEN Active(AccountOf[p]) \cup {o} ELSE Active(AccountOf[p])
        BY <2>0, <2>1, <4>0, ActiveChanges
      <4>2. pc'[p] = pc[p] /\ \A q \in Ops : q # o => ticket'[q] = ticket[q]
        BY <2>0, <2>1, <3>6 DEF Submit, ChainTypeOK
      <4>3. pc[p] = "waiting" /\ AccountOf[o] = AccountOf[p] => ~(ticket'[o] < ticket'[p])
        BY <2>0, <2>1, <3>0, <3>6, <4>2
           DEF Submit, GateInv, TicketsOrdered, Submitted, ChainTypeOK
      <4>4. o \notin Active(AccountOf[p])
        BY <3>1 DEF Active
      <4> QED BY <3>6, <4>1, <4>2, <4>3, <4>4 DEF Ahead, Active, OpsOf
    <3> QED BY <2>0a, <3>0, <3>1, <3>2, <3>3, <3>5, <3>6 DEF Lock!Arrive
  <2>2. ASSUME NEW o \in Ops, Enter(o) PROVE Lock!Admit(o)
    <3>0. \A p \in Ops : Active(AccountOf[p])' = Active(AccountOf[p])
      BY <2>0, <2>2, ActiveChanges, GateAssumption
    <3>1. pc[o] = "waiting" /\ pc' = [pc EXCEPT ![o] = "running"] /\ ticket' = ticket
      BY <2>2 DEF Enter
    <3>2. Ahead(o) = {}
      BY <2>2, EnteringIsFirst DEF Ahead, Active, OpsOf, Submitted
    <3>3. \A p \in Ops : Ahead(p)' = Ahead(p)
      BY <2>0, <3>0, <3>1, <3>2 DEF Ahead, ChainTypeOK
    <3>4. \A p \in Ops : PhaseOf(p)' = IF p = o THEN "inside" ELSE PhaseOf(p)
      BY <2>0, <3>1 DEF PhaseOf, ChainTypeOK
    <3>5. PhaseOf(o) = "queued"
      BY <3>1 DEF PhaseOf
    <3> QED BY <3>2, <3>3, <3>4, <3>5 DEF Lock!Admit
  <2>3. ASSUME NEW o \in Ops, Finish(o) PROVE Lock!Leave(o)
    <3>1. pc[o] = "running" /\ pc' = [pc EXCEPT ![o] = "done"] /\ ticket' = ticket
      BY <2>3 DEF Finish
    <3>2. \A p \in Ops : Active(AccountOf[p])' = Active(AccountOf[p]) \ {o}
      BY <2>0, <2>3, ActiveChanges, GateAssumption DEF Active, OpsOf
    <3>3. \A p \in Ops : Ahead(p)' = Ahead(p) \ {o}
      BY <2>0, <3>1, <3>2 DEF Ahead, ChainTypeOK
    <3>4. \A p \in Ops : PhaseOf(p)' = IF p = o THEN "left" ELSE PhaseOf(p)
      BY <2>0, <3>1 DEF PhaseOf, ChainTypeOK
    <3>5. PhaseOf(o) = "inside"
      BY <3>1 DEF PhaseOf
    <3> QED BY <3>3, <3>4, <3>5 DEF Lock!Leave
  <2>4. CASE UNCHANGED vars
    BY <2>4 DEF vars, Lock!vars, PhaseOf, Ahead, Active, OpsOf
  <2> QED BY <2>1, <2>2, <2>3, <2>4 DEF Next, Lock!Next
<1> QED BY <1>1, <1>2, GateInvariant, PTL DEF Spec, ImplementsFifoLock, Lock!Spec
==============================================================================
