------------------------- MODULE WindowsRunnerProofs ------------------------
(***************************************************************************)
(* Proofs about the Windows runner, for any number of launches and icons.  *)
(*                                                                         *)
(* Two processes of a user never have the data open. Only the election     *)
(* makes a primary, of a process that finds the mutex free; HeldInv says   *)
(* that a primary holds the mutex for as long as it is one, so that no     *)
(* other election can find it free. It matters that JoinListener keeps the *)
(* handle, which is closed with the process.                               *)
(*                                                                         *)
(* Accepted activations are kept, in order. There is one listener, the     *)
(* primary's, and the pipe is its (PipeInv); a client is accepted once,    *)
(* after it wrote, and is told so only then (OnceInv). What Dart has and   *)
(* what is still to reach it form a line that follows the order of the     *)
(* acknowledgments (LineInv): every step appends to it, moves something    *)
(* inside it, or cuts its end off with the window.                         *)
(*                                                                         *)
(* Handles of icons are owned. What is live is the retained handle and     *)
(* what Windows refused to take back; each of the latter cost a trouble,   *)
(* so that there is a handle to load (HandleLeft), and an icon is retained *)
(* only while Dart wants one, so that the Explorer's restart does not pass *)
(* over it (OwnedInv).                                                     *)
(***************************************************************************)
EXTENDS WindowsRunner, SequenceTheorems, FiniteSetTheorems, TLAPS

RoleTypeInv ==
    /\ role \in [Processes -> {"none", "primary", "secondary", "fatal"}]
    /\ mutex \in SUBSET Processes

HeldInv == \A p \in Processes : role[p] = "primary" => p \in mutex

OnePrimaryInv ==
    \A p, q \in Processes : role[p] = "primary" /\ role[q] = "primary" => p = q

GuardInv == RoleTypeInv /\ HeldInv /\ OnePrimaryInv
------------------------------------------------------------------------------

LEMMA InitGuardInv == Init => GuardInv
BY DEF Init, GuardInv, RoleTypeInv, HeldInv, OnePrimaryInv

\* Every step but these leaves the roles and the mutex alone.
Elects(p) == ElectFails(p) \/ ElectPrimary(p) \/ ElectSecondary(p)
GivesUp(p) == StartFails(p) \/ JoinListener(p)

LEMMA OtherSteps ==
    ASSUME NEW p \in Processes,
           \/ ForwardStep(p) \/ ForwarderActivated(p) \/ ForwarderTimesOut(p)
           \/ StartSucceeds(p) \/ StartTimesOut(p) \/ StopListener(p)
           \/ CancelListener(p) \/ CreateWindow(p) \/ CreateWindowFails(p)
           \/ TakeInitialActivations(p) \/ ActivationReady(p)
           \/ HandleActivationMessage(p) \/ CloseWindow(p) \/ LoopEnds(p)
           \/ DismissReport(p) \/ DestroyWindowObject(p) \/ ListenerStep(p)
    PROVE  UNCHANGED <<role, mutex>>
<1>1. CASE ForwardStep(p) \/ ForwarderActivated(p) \/ ForwarderTimesOut(p)
  BY <1>1 DEF ForwardStep, Connect, Write, ReadAcknowledgment, PipeBroken,
     DeadlinePasses, Forwarded, ForwarderActivated, ForwarderTimesOut
<1>2. CASE \/ StartSucceeds(p) \/ StartTimesOut(p) \/ StopListener(p)
           \/ CancelListener(p)
  BY <1>2 DEF StartSucceeds, StartTimesOut, StopListener, CancelListener
<1>3. CASE \/ CreateWindow(p) \/ CreateWindowFails(p) \/ TakeInitialActivations(p)
           \/ ActivationReady(p) \/ HandleActivationMessage(p)
  BY <1>3 DEF CreateWindow, CreateWindowFails, TakeInitialActivations,
     ActivationReady, HandleActivationMessage, mainVars
<1>4. CASE CloseWindow(p) \/ LoopEnds(p) \/ DismissReport(p) \/ DestroyWindowObject(p)
  BY <1>4 DEF CloseWindow, LoopEnds, DismissReport, DestroyWindowObject, mainVars
<1>5. CASE ListenerStep(p)
  BY <1>5 DEF ListenerStep, OpenFirstPipe, CheckStopping, AcceptClient,
     ReadActivation, ReadFails, AppendPending, PostActivation,
     FlushAcknowledgment, ReopenPipe, ListenerFails, mainVars
<1> QED BY <1>1, <1>2, <1>3, <1>4, <1>5

LEMMA ElectionKeepsGuardInv ==
    ASSUME GuardInv, NEW p \in Processes, Elects(p) PROVE GuardInv'
<1>1. CASE ElectFails(p)
  BY <1>1 DEF GuardInv, RoleTypeInv, HeldInv, OnePrimaryInv, ElectFails
<1>2. CASE ElectPrimary(p)
  <2>1. mutex = {} /\ mutex' = {p} /\ role' = [role EXCEPT ![p] = "primary"]
    BY <1>2 DEF ElectPrimary
  <2>2. \A q \in Processes : role[q] # "primary"
    BY <2>1 DEF GuardInv, HeldInv
  <2> QED BY <2>1, <2>2 DEF GuardInv, RoleTypeInv, HeldInv, OnePrimaryInv
<1>3. CASE ElectSecondary(p)
  BY <1>3 DEF GuardInv, RoleTypeInv, HeldInv, OnePrimaryInv, ElectSecondary
<1> QED BY <1>1, <1>2, <1>3 DEF Elects

LEMMA GivingUpKeepsGuardInv ==
    ASSUME GuardInv, NEW p \in Processes, GivesUp(p) PROVE GuardInv'
<1>1. mutex' = mutex /\ (role' = role \/ role' = [role EXCEPT ![p] = "fatal"])
  BY DEF GivesUp, StartFails, JoinListener
<1> QED BY <1>1 DEF GuardInv, RoleTypeInv, HeldInv, OnePrimaryInv

\* A process that ends is no primary any more, and takes its handle with it.
LEMMA EndKeepsGuardInv ==
    ASSUME GuardInv, NEW p \in Processes, CloseMutex(p) \/ Kill(p) PROVE GuardInv'
<1>1. mutex' = mutex \ {p} /\ role' = [role EXCEPT ![p] = "none"]
  BY DEF CloseMutex, Kill, Forget
<1> QED BY <1>1 DEF GuardInv, RoleTypeInv, HeldInv, OnePrimaryInv

LEMMA StepKeepsGuardInv == GuardInv /\ [Next]_vars => GuardInv'
<1> SUFFICES ASSUME GuardInv, [Next]_vars PROVE GuardInv'
  OBVIOUS
<1>1. ASSUME NEW p \in Processes, Elects(p) PROVE GuardInv'
  BY <1>1, ElectionKeepsGuardInv
<1>2. ASSUME NEW p \in Processes, GivesUp(p) PROVE GuardInv'
  BY <1>2, GivingUpKeepsGuardInv
<1>3. ASSUME NEW p \in Processes, CloseMutex(p) \/ Kill(p) PROVE GuardInv'
  BY <1>3, EndKeepsGuardInv
<1>4. ASSUME UNCHANGED <<role, mutex>> PROVE GuardInv'
  BY <1>4 DEF GuardInv, RoleTypeInv, HeldInv, OnePrimaryInv
<1>5. CASE UNCHANGED vars
  BY <1>4, <1>5 DEF vars, mainVars
<1> QED BY <1>1, <1>2, <1>3, <1>4, <1>5, OtherSteps DEF Next, Elects, GivesUp, MainStep

\* One process at a time opens the data of a user, however many are launched,
\* killed, or fail half-way.  (wWinMain, BusyMaxSingleInstance)
THEOREM OneProcessOpensData == Spec => []OneDatabase
<1>1. GuardInv => OneDatabase
  BY DEF GuardInv, OnePrimaryInv, OneDatabase, OpensData
<1> QED BY InitGuardInv, StepKeepsGuardInv, <1>1, PTL DEF Spec
------------------------------------------------------------------------------
(* Accepted activations: what a process can be, where its thread is.      *)

Quiet == {"none", "ended"}
Serving == {"check", "accept", "read", "append", "post", "flush"}
Handling == {"read", "append", "post"}

\* The thread stands here once the activation was written.
Written == {"await", "report", "leave", "unlock", "gone"}

Unique(s) == \A i, j \in DOMAIN s : s[i] = s[j] => i = j

StageInv ==
    \A p \in Processes :
        /\ listener[p] \notin Quiet => role[p] = "primary"
        /\ main[p] \in {"loop", "start"} \cup Stopping => role[p] = "primary"
        /\ role[p] = "primary" =>
               main[p] \notin Forwarding \cup {"dart", "off", "gone"}
        /\ main[p] \in {"report", "leave", "unlock"} => listener[p] \in Quiet
        /\ main[p] = "off" => role[p] = "none" /\ outcome[p] = "none"
        /\ main[p] \in {"off", "start", "create"} => ~handle[p]

\* The pipe is the listener's; the client of it is a process that does not
\* listen, or the primary that wakes itself up.
PipeInv ==
    /\ \A p \in Processes : pipe.server = p <=> listener[p] \in Serving
    /\ ~PipeOpen => pipe = NoPipe
    /\ \A q \in Processes : pipe.client = q =>
           \/ pipe.server = q /\ pipe.left /\ ~pipe.wrote
           \/ pipe.server # q /\ main[q] \in Written \cup {"write"}
    /\ pipe.wrote =>
           /\ pipe.client \in Processes \ {pipe.server}
           /\ main[pipe.client] \in Written
    /\ \A p \in Processes :
           /\ listener[p] \in Handling \cup {"flush"} =>
                  pipe.client \in Processes \ {p}
           /\ listener[p] \in {"append", "post"} => pipe.wrote

\* An activation is accepted once, from its client, after it was written.
OnceInv ==
    /\ \A p \in Processes : Unique(accepted[p])
    /\ \A p, q \in Processes : q \in Elements(accepted[p]) =>
           /\ q # p /\ main[q] \in Written
           /\ pipe.client = q => listener[pipe.server] = "flush"
    /\ pipe.said = "yes" => \E p \in Processes : pipe.client \in Elements(accepted[p])
    /\ \A q \in Processes : role[q] = "secondary" /\ outcome[q] = "ok" =>
           \E p \in Processes : q \in Elements(accepted[p])

Order(p) == <<p>> \o accepted[p]

\* What Dart has and what is still to reach it, in the order of arrival.  What
\* is put into pending_activations_ once Dart is ready stays there.
Line(p) == delivered[p] \o (IF ready[p] THEN posted[p] ELSE pending[p] \o posted[p])

Ordered(s, order) ==
    \A i, j \in DOMAIN s : i < j => Position(order, s[i]) < Position(order, s[j])

Opening(p) ==
    \/ main[p] \in {"off", "start", "create"}
    \/ main[p] = "loop" /\ handle[p]

LineOf(p) ==
    /\ ~handle[p] \/ listener[p] = "append" => posted[p] = <<>>
    /\ Elements(Line(p)) \subseteq Elements(Order(p))
    /\ Ordered(Line(p), Order(p))
    /\ Opening(p) => Elements(accepted[p]) \subseteq
           Elements(delivered[p]) \cup Elements(pending[p])
           \cup Elements(posted[p]) \cup lost

LineInv == \A p \in Processes : LineOf(p)

Pipes == [server : Processes \cup {NoProcess}, client : Processes \cup {NoProcess},
          wrote : BOOLEAN, said : {"nothing", "yes", "no"}, left : BOOLEAN]

ShapeInv ==
    /\ DOMAIN main = Processes /\ DOMAIN listener = Processes
    /\ DOMAIN handle = Processes /\ DOMAIN ready = Processes
    /\ DOMAIN outcome = Processes /\ DOMAIN stopping = Processes
    /\ pipe \in Pipes

QueuesInv ==
    /\ pending \in [Processes -> Seq(Processes)]
    /\ posted \in [Processes -> Seq(Processes)]
    /\ delivered \in [Processes -> Seq(Processes)]
    /\ accepted \in [Processes -> Seq(Processes)]

KeptInv == ShapeInv /\ QueuesInv /\ StageInv /\ PipeInv /\ OnceInv /\ LineInv

LEMMA InitKeptInv == Init => KeptInv
<1> SUFFICES ASSUME Init PROVE KeptInv
  OBVIOUS
<1> USE InstanceAssumption DEF Init
<1>1. ShapeInv /\ QueuesInv
  BY DEF ShapeInv, QueuesInv, NoPipe, Pipes
<1>2. StageInv
  BY DEF StageInv, Quiet, Forwarding, Stopping
<1>3. PipeInv
  BY DEF PipeInv, NoPipe, PipeOpen, Serving, Handling, Written
<1>4. OnceInv
  BY DEF OnceInv, Unique, Elements, NoPipe
<1>5. LineInv
  <2> SUFFICES ASSUME NEW p \in Processes
               PROVE  /\ posted[p] = <<>>
                      /\ Elements(Line(p)) \subseteq Elements(Order(p))
                      /\ Ordered(Line(p), Order(p))
                      /\ Elements(accepted[p]) = {}
    BY DEF LineInv, LineOf
  <2>1. Line(p) = <<p>> /\ Order(p) = <<p>>
    BY DEF Line, Order
  <2> QED BY <2>1 DEF Elements, Ordered
<1> QED BY <1>1, <1>2, <1>3, <1>4, <1>5 DEF KeptInv

\* The values of the pipe.
LEMMA PipeShapes ==
    /\ NoPipe \in Pipes /\ NoPipe.server = NoProcess /\ NoPipe.client = NoProcess
    /\ ~NoPipe.wrote /\ NoPipe.said = "nothing" /\ ~NoPipe.left
    /\ \A p \in Processes :
           /\ Listening(p) \in Pipes /\ Listening(p).server = p
           /\ Listening(p).client = NoProcess /\ ~Listening(p).wrote
           /\ Listening(p).said = "nothing" /\ ~Listening(p).left
BY DEF Pipes, NoPipe, Listening

\* What is done to the pipe: a client comes, writes or leaves, the listener answers.
LEMMA PipeWrites ==
    ASSUME NEW q \in Processes, pipe \in Pipes
    PROVE  /\ [pipe EXCEPT !.client = q] \in Pipes
           /\ [pipe EXCEPT !.client = q, !.left = TRUE] \in Pipes
           /\ [pipe EXCEPT !.wrote = TRUE] \in Pipes
           /\ [pipe EXCEPT !.left = TRUE] \in Pipes
           /\ \A said \in {"yes", "no"} : [pipe EXCEPT !.said = said] \in Pipes
BY DEF Pipes

LEMMA ShapeHolds == ASSUME ShapeInv, Next PROVE ShapeInv'
<1> USE PipeShapes, PipeWrites DEF ShapeInv, GoTo, Listen, mainVars, pipeVars, windowVars
<1>1. ASSUME NEW p \in Processes, ElectFails(p) \/ ElectPrimary(p) \/ ElectSecondary(p)
      PROVE  ShapeInv'
  BY <1>1 DEF ElectFails, ElectPrimary, ElectSecondary
<1>2. ASSUME NEW p \in Processes,
             \/ ForwardStep(p) \/ ForwarderActivated(p) \/ ForwarderTimesOut(p)
      PROVE  ShapeInv'
  <2>1. CASE Connect(p) \/ Write(p)
    BY <2>1 DEF Connect, Write
  <2>2. ASSUME NEW said, Forwarded(p, said) PROVE ShapeInv'
    BY <2>2 DEF Forwarded
  <2>3. CASE ForwarderActivated(p) \/ ForwarderTimesOut(p)
    BY <2>3 DEF ForwarderActivated, ForwarderTimesOut
  <2> QED BY <1>2, <2>1, <2>2, <2>3 DEF ForwardStep, ReadAcknowledgment, PipeBroken,
          DeadlinePasses
<1>3. ASSUME NEW p \in Processes, MainStep(p) PROVE ShapeInv'
  <2>1. CASE StartSucceeds(p) \/ StartFails(p) \/ StartTimesOut(p) \/ JoinListener(p)
    BY <2>1 DEF StartSucceeds, StartFails, StartTimesOut, JoinListener
  <2>2. CASE StopListener(p)
    BY <2>2 DEF StopListener
  <2>3. CASE CancelListener(p)
    BY <2>3 DEF CancelListener, ClosePipe, Acknowledge
  <2> QED BY <1>3, <2>1, <2>2, <2>3 DEF MainStep
<1>5. ASSUME NEW p \in Processes, CreateWindow(p) \/ CreateWindowFails(p)
      PROVE  ShapeInv'
  BY <1>5 DEF CreateWindow, CreateWindowFails
<1>6. ASSUME NEW p \in Processes, TakeInitialActivations(p) \/ ActivationReady(p)
      PROVE  ShapeInv'
  BY <1>6 DEF TakeInitialActivations, ActivationReady
<1>7. ASSUME NEW p \in Processes, HandleActivationMessage(p) PROVE ShapeInv'
  BY <1>7 DEF HandleActivationMessage
<1>8. ASSUME NEW p \in Processes,
             \/ CloseWindow(p) \/ LoopEnds(p) \/ DismissReport(p)
             \/ DestroyWindowObject(p)
      PROVE  ShapeInv'
  BY <1>8 DEF CloseWindow, LoopEnds, DismissReport, DestroyWindowObject
<1>9. ASSUME NEW p \in Processes, CloseMutex(p) \/ Kill(p) PROVE ShapeInv'
  <2>1. CASE CloseMutex(p)
    BY <2>1 DEF CloseMutex, Forget
  <2>2. CASE Kill(p)
    <3>1. pipe' \in Pipes
      BY <2>2 DEF Kill
    <3> QED BY <2>2, <3>1 DEF Kill, Forget
  <2> QED BY <1>9, <2>1, <2>2
<1>10. ASSUME NEW p \in Processes, ListenerStep(p) PROVE ShapeInv'
  <2>1. CASE OpenFirstPipe(p) \/ CheckStopping(p) \/ AcceptClient(p)
    BY <2>1 DEF OpenFirstPipe, CheckStopping, AcceptClient, ClosePipe
  <2>2. CASE \/ ReadActivation(p) \/ ReadFails(p) \/ AppendPending(p)
             \/ PostActivation(p)
    BY <2>2 DEF ReadActivation, ReadFails, AppendPending, PostActivation, Accept,
       Acknowledge
  <2>3. CASE FlushAcknowledgment(p) \/ ReopenPipe(p) \/ ListenerFails(p)
    BY <2>3 DEF FlushAcknowledgment, ReopenPipe, ListenerFails, ClosePipe
  <2> QED BY <1>10, <2>1, <2>2, <2>3 DEF ListenerStep
<1> QED BY <1>1, <1>2, <1>3, <1>5, <1>6, <1>7, <1>8, <1>9, <1>10 DEF Next
LEMMA StagesHold ==
    ASSUME ShapeInv, StageInv, RoleTypeInv, Next PROVE StageInv'
<1> USE DEF ShapeInv, StageInv, RoleTypeInv, Quiet, Forwarding, Stopping, GoTo, Listen,
        mainVars, pipeVars, windowVars
<1>1. ASSUME NEW p \in Processes, ElectFails(p) \/ ElectPrimary(p) \/ ElectSecondary(p)
      PROVE  StageInv'
  BY <1>1 DEF ElectFails, ElectPrimary, ElectSecondary, Launch
<1>2. ASSUME NEW p \in Processes,
             \/ ForwardStep(p) \/ ForwarderActivated(p) \/ ForwarderTimesOut(p)
      PROVE  StageInv'
  <2>1. CASE Connect(p) \/ Write(p)
    BY <2>1 DEF Connect, Write
  <2>2. ASSUME NEW said, Forwarded(p, said), main[p] \in Forwarding PROVE StageInv'
    BY <2>2 DEF Forwarded
  <2>3. CASE ForwarderActivated(p) \/ ForwarderTimesOut(p)
    BY <2>3 DEF ForwarderActivated, ForwarderTimesOut
  <2> QED BY <1>2, <2>1, <2>2, <2>3 DEF ForwardStep, ReadAcknowledgment, PipeBroken,
          DeadlinePasses
<1>3. ASSUME NEW p \in Processes, MainStep(p) PROVE StageInv'
  <2>1. CASE StartSucceeds(p) \/ StartFails(p) \/ StartTimesOut(p) \/ JoinListener(p)
    BY <2>1 DEF StartSucceeds, StartFails, StartTimesOut, JoinListener
  <2>2. CASE StopListener(p)
    BY <2>2 DEF StopListener
  <2>3. CASE CancelListener(p)
    BY <2>3 DEF CancelListener, ClosePipe
  <2> QED BY <1>3, <2>1, <2>2, <2>3 DEF MainStep
<1>5. ASSUME NEW p \in Processes, CreateWindow(p) \/ CreateWindowFails(p)
      PROVE  StageInv'
  BY <1>5 DEF CreateWindow, CreateWindowFails
<1>6. ASSUME NEW p \in Processes,
             \/ TakeInitialActivations(p) \/ ActivationReady(p)
             \/ HandleActivationMessage(p)
      PROVE  StageInv'
  BY <1>6 DEF TakeInitialActivations, ActivationReady, HandleActivationMessage
<1>8. ASSUME NEW p \in Processes,
             \/ CloseWindow(p) \/ LoopEnds(p) \/ DismissReport(p)
             \/ DestroyWindowObject(p)
      PROVE  StageInv'
  BY <1>8 DEF CloseWindow, LoopEnds, DismissReport, DestroyWindowObject
<1>9. ASSUME NEW p \in Processes, CloseMutex(p) \/ Kill(p) PROVE StageInv'
  BY <1>9 DEF CloseMutex, Kill, Forget
<1>10. ASSUME NEW p \in Processes, ListenerStep(p) PROVE StageInv'
  <2>1. CASE OpenFirstPipe(p) \/ CheckStopping(p) \/ AcceptClient(p)
    BY <2>1 DEF OpenFirstPipe, CheckStopping, AcceptClient, ClosePipe
  <2>2. CASE \/ ReadActivation(p) \/ ReadFails(p) \/ AppendPending(p)
             \/ PostActivation(p)
    BY <2>2 DEF ReadActivation, ReadFails, AppendPending, PostActivation, Accept
  <2>3. CASE FlushAcknowledgment(p) \/ ReopenPipe(p) \/ ListenerFails(p)
    BY <2>3 DEF FlushAcknowledgment, ReopenPipe, ListenerFails, ClosePipe
  <2> QED BY <1>10, <2>1, <2>2, <2>3 DEF ListenerStep
<1> QED BY <1>1, <1>2, <1>3, <1>5, <1>6, <1>8, <1>9, <1>10 DEF Next

\* The steps that neither use the pipe nor accept an activation.
NoPipeStep(p) ==
    \/ ElectFails(p) \/ ElectPrimary(p) \/ ElectSecondary(p)
    \/ ForwarderActivated(p) \/ ForwarderTimesOut(p)
    \/ StartSucceeds(p) \/ StartFails(p) \/ StartTimesOut(p) \/ JoinListener(p)
    \/ CreateWindow(p) \/ CreateWindowFails(p)
    \/ TakeInitialActivations(p) \/ ActivationReady(p)
    \/ HandleActivationMessage(p) \/ CloseWindow(p) \/ LoopEnds(p)
    \/ DismissReport(p) \/ DestroyWindowObject(p) \/ CloseMutex(p)
    \/ ReadActivation(p) \/ ListenerFails(p)

PipeAlone ==
    /\ UNCHANGED <<pipe, accepted>>
    /\ \A q \in Processes :
           /\ main[q] \in Written => main'[q] \in Written
           /\ main[q] = "write" => main'[q] \in Written \cup {"write"}
           /\ listener'[q] \in Serving <=> listener[q] \in Serving
           /\ listener'[q] \in Handling <=> listener[q] \in Handling
           /\ listener'[q] \in {"append", "post"} =>
                  listener[q] \in {"append", "post"} \/ pipe.wrote
           /\ listener'[q] = "flush" <=> listener[q] = "flush"
           /\ role'[q] = "secondary" /\ outcome'[q] = "ok" =>
                  role[q] = "secondary" /\ outcome[q] = "ok"

LEMMA NoPipeStepIsAlone ==
    ASSUME ShapeInv, StageInv, RoleTypeInv, NEW p \in Processes, NoPipeStep(p)
    PROVE  PipeAlone
<1> USE DEF PipeAlone, ShapeInv, StageInv, RoleTypeInv, Quiet, Serving, Handling, Written,
        Forwarding, Stopping, GoTo, Listen, mainVars, pipeVars, windowVars, queueVars
<1>1. CASE ElectFails(p) \/ ElectPrimary(p) \/ ElectSecondary(p)
  BY <1>1 DEF ElectFails, ElectPrimary, ElectSecondary, Launch
<1>2. CASE ForwarderActivated(p) \/ ForwarderTimesOut(p)
  BY <1>2 DEF ForwarderActivated, ForwarderTimesOut
<1>3. CASE StartSucceeds(p) \/ StartFails(p) \/ StartTimesOut(p) \/ JoinListener(p)
  BY <1>3 DEF StartSucceeds, StartFails, StartTimesOut, JoinListener
<1>4. CASE CreateWindow(p) \/ CreateWindowFails(p)
  BY <1>4 DEF CreateWindow, CreateWindowFails
<1>5. CASE \/ TakeInitialActivations(p) \/ ActivationReady(p)
           \/ HandleActivationMessage(p) \/ CloseWindow(p)
  BY <1>5 DEF TakeInitialActivations, ActivationReady, HandleActivationMessage,
     CloseWindow
<1>6. CASE LoopEnds(p) \/ DismissReport(p) \/ DestroyWindowObject(p)
  BY <1>6 DEF LoopEnds, DismissReport, DestroyWindowObject
<1>7. CASE CloseMutex(p)
  BY <1>7 DEF CloseMutex, Forget
<1>8. CASE ReadActivation(p) \/ ListenerFails(p)
  BY <1>8 DEF ReadActivation, ListenerFails
<1> QED BY <1>1, <1>2, <1>3, <1>4, <1>5, <1>6, <1>7, <1>8 DEF NoPipeStep

LEMMA AloneKeepsPipe ==
    ASSUME ShapeInv, PipeInv, PipeAlone PROVE PipeInv'
<1> USE DEF PipeAlone
<1>1. (\A p \in Processes : pipe.server = p <=> listener[p] \in Serving)'
  BY DEF PipeInv
<1>2. (~PipeOpen => pipe = NoPipe)'
  BY DEF PipeInv, PipeOpen
<1>3. (\A q \in Processes : pipe.client = q =>
           \/ pipe.server = q /\ pipe.left /\ ~pipe.wrote
           \/ pipe.server # q /\ main[q] \in Written \cup {"write"})'
  BY DEF PipeInv
<1>4. (pipe.wrote =>
           /\ pipe.client \in Processes \ {pipe.server}
           /\ main[pipe.client] \in Written)'
  BY DEF PipeInv
<1>5. (\A p \in Processes :
           /\ listener[p] \in Handling \cup {"flush"} =>
                  pipe.client \in Processes \ {p}
           /\ listener[p] \in {"append", "post"} => pipe.wrote)'
  BY DEF PipeInv
<1> QED BY <1>1, <1>2, <1>3, <1>4, <1>5 DEF PipeInv

LEMMA AloneKeepsOnce ==
    ASSUME ShapeInv, PipeInv, OnceInv, PipeAlone PROVE OnceInv'
<1> USE DEF PipeAlone
<1>1. (\A p, q \in Processes : q \in Elements(accepted[p]) =>
           /\ q # p /\ main[q] \in Written
           /\ pipe.client = q => listener[pipe.server] = "flush")'
  <2> SUFFICES ASSUME NEW p \in Processes, NEW q \in Processes, q \in Elements(accepted[p])
               PROVE  /\ q # p /\ main'[q] \in Written
                      /\ pipe.client = q => listener'[pipe.server] = "flush"
    BY DEF Elements
  <2>1. q # p /\ main[q] \in Written /\ (pipe.client = q => listener[pipe.server] = "flush")
    BY DEF OnceInv
  <2>2. pipe.client = q => pipe.server \in Processes
    BY PipeShapes DEF PipeInv, PipeOpen, Pipes, ShapeInv, InstanceAssumption
  <2> QED BY <2>1, <2>2
<1> QED BY <1>1 DEF OnceInv, Unique, Elements
\* A listener that runs is the primary's, so that there is one.
LEMMA OneListener ==
    ASSUME StageInv, OnePrimaryInv, NEW p \in Processes, NEW q \in Processes,
           listener[p] \notin Quiet, listener[q] \notin Quiet
    PROVE  p = q
BY DEF StageInv, OnePrimaryInv

\* Whoever has the pipe is a process, and has a client, or not yet.
LEMMA Ends ==
    ASSUME ShapeInv
    PROVE  pipe.server \in Processes \cup {NoProcess} /\ pipe.client \in Processes \cup {NoProcess}
BY DEF ShapeInv, Pipes

LEMMA OnlyProcesses ==
    ASSUME NEW s \in Seq(Processes) PROVE Elements(s) \subseteq Processes
BY DEF Elements

\* With no client nothing was written, and nothing was accepted.
LEMMA NoClient ==
    ASSUME QueuesInv, PipeInv, OnceInv, pipe.client = NoProcess
    PROVE  ~pipe.wrote /\ pipe.said # "yes"
<1>1. \A p \in Processes : NoProcess \notin Elements(accepted[p])
  BY OnlyProcesses, InstanceAssumption DEF QueuesInv
<1> QED BY <1>1, InstanceAssumption DEF PipeInv, OnceInv

LEMMA ClientKeepsPipe ==
    ASSUME ShapeInv, QueuesInv, StageInv, PipeInv, OnceInv, NEW q \in Processes,
           \/ Connect(q) \/ Write(q)
           \/ \E said \in {"yes", "no"} :
                  /\ main[q] \in Forwarding /\ Forwarded(q, said)
                  /\ said = "yes" => Connected(q) /\ pipe.said = "yes"
    PROVE  PipeInv' /\ OnceInv'
<1> USE InstanceAssumption DEF ShapeInv, Pipes, GoTo, Forwarding
<1>1. CASE Connect(q)
  <2>1. /\ pipe.client = NoProcess /\ pipe.server \in Processes
        /\ pipe' = [pipe EXCEPT !.client = q]
        /\ main' = [main EXCEPT ![q] = "write"] /\ main[q] = "connect"
        /\ UNCHANGED <<listener, accepted, role, outcome>>
    BY <1>1, Ends DEF Connect, PipeOpen, queueVars
  <2>2. pipe.server # q /\ ~pipe.wrote /\ pipe.said # "yes"
    <3>1. listener[pipe.server] \in Serving
      BY <2>1 DEF PipeInv
    <3>2. role[pipe.server] = "primary" /\ role[q] # "primary"
      BY <2>1, <3>1 DEF StageInv, Quiet, Serving
    <3> QED BY <2>1, <3>2, NoClient
  <2>3. PipeInv'
    BY <2>1, <2>2 DEF PipeInv, PipeOpen, Written, Handling
  <2>4. OnceInv'
    BY <2>1, <2>2 DEF OnceInv, Written, Elements, Unique
  <2> QED BY <2>3, <2>4
<1>2. CASE Write(q)
  <2>1. /\ pipe.client = q /\ pipe.server \in Processes
        /\ pipe' = [pipe EXCEPT !.wrote = TRUE]
        /\ main' = [main EXCEPT ![q] = "await"] /\ main[q] = "write"
        /\ UNCHANGED <<listener, accepted, role, outcome>>
    BY <1>2, Ends DEF Write, Connected, PipeOpen, queueVars
  <2>2. pipe.server # q
    <3>1. listener[pipe.server] \in Serving
      BY <2>1 DEF PipeInv
    <3> QED BY <2>1, <3>1 DEF StageInv, Quiet, Serving
  <2>3. PipeInv'
    BY <2>1, <2>2 DEF PipeInv, PipeOpen, Written, Handling
  <2>4. OnceInv'
    BY <2>1, <2>2 DEF OnceInv, Written, Elements, Unique
  <2> QED BY <2>3, <2>4
<1>3. ASSUME NEW said \in {"yes", "no"}, main[q] \in Forwarding, Forwarded(q, said),
             said = "yes" => Connected(q) /\ pipe.said = "yes"
      PROVE  PipeInv' /\ OnceInv'
  <2>1. /\ pipe' = pipe \/ pipe' = [pipe EXCEPT !.left = TRUE]
        /\ main' = [main EXCEPT ![q] = main'[q]]
        /\ main'[q] \in {"leave", "unlock", "report"}
        /\ UNCHANGED <<listener, accepted, role>>
        /\ outcome' = [outcome EXCEPT ![q] = IF said = "yes" THEN "ok" ELSE "failed"]
    BY <1>3 DEF Forwarded, queueVars
  <2>2. PipeInv'
    <3>1. /\ pipe'.server = pipe.server /\ pipe'.client = pipe.client
          /\ pipe'.wrote = pipe.wrote
          /\ pipe.left => pipe'.left
          /\ ~PipeOpen => pipe' = pipe
      BY <1>3, <2>1 DEF Forwarded, Connected
    <3>2. \A r \in Processes :
              /\ main[r] \in Written \cup {"write"} => main'[r] \in Written \cup {"write"}
              /\ main[r] \in Written => main'[r] \in Written
      BY <2>1 DEF Written
    <3>3. (\A r \in Processes : pipe.client = r =>
           \/ pipe.server = r /\ pipe.left /\ ~pipe.wrote
           \/ pipe.server # r /\ main[r] \in Written \cup {"write"})'
      BY <3>1, <3>2 DEF PipeInv
    <3>4. (pipe.wrote =>
           /\ pipe.client \in Processes \ {pipe.server}
           /\ main[pipe.client] \in Written)'
      BY <3>1, <3>2 DEF PipeInv
    <3> QED BY <2>1, <3>1, <3>3, <3>4 DEF PipeInv, PipeOpen
  <2>3. (\A p, r \in Processes : r \in Elements(accepted[p]) =>
           /\ r # p /\ main[r] \in Written
           /\ pipe.client = r => listener[pipe.server] = "flush")'
    BY <2>1 DEF OnceInv, Written, Elements
  <2>4. said = "yes" => \E p \in Processes : q \in Elements(accepted[p])
    BY <1>3 DEF OnceInv, Connected
  <2> QED BY <2>1, <2>2, <2>3, <2>4 DEF OnceInv, Unique, Elements
<1> QED BY <1>1, <1>2, <1>3

LEMMA StopKeepsPipe ==
    ASSUME ShapeInv, QueuesInv, StageInv, OnePrimaryInv, PipeInv, OnceInv,
           NEW p \in Processes, StopListener(p)
    PROVE  PipeInv' /\ OnceInv'
<1> USE InstanceAssumption DEF ShapeInv, Pipes
<1>1. /\ main' = [main EXCEPT ![p] = "cancel"] /\ main[p] = "stop"
      /\ UNCHANGED <<listener, accepted, role, outcome>>
  BY DEF StopListener, GoTo, queueVars
<1>2. CASE PipeOpen /\ pipe.client = NoProcess
  <2>1. pipe' = [pipe EXCEPT !.client = p, !.left = TRUE] /\ pipe.server \in Processes
    BY <1>2, Ends DEF StopListener, PipeOpen
  <2>2. pipe.server = p
    <3>1. listener[pipe.server] \in Serving
      BY <2>1 DEF PipeInv
    <3>2. main[p] = "stop" /\ role[p] = "primary" /\ role[pipe.server] = "primary"
      BY <1>1, <2>1, <3>1 DEF StageInv, Stopping, Quiet, Serving
    <3> QED BY <2>1, <3>2 DEF OnePrimaryInv
  <2>3. ~pipe.wrote /\ pipe.said # "yes" /\ p \notin UNION {Elements(accepted[q]) : q \in Processes}
    BY <1>1, <1>2, NoClient DEF OnceInv, Written
  <2>4. PipeInv'
    BY <1>1, <1>2, <2>1, <2>2, <2>3 DEF PipeInv, PipeOpen, Written, Handling
  <2>5. OnceInv'
    BY <1>1, <1>2, <2>1, <2>2, <2>3 DEF OnceInv, Written, Elements, Unique
  <2> QED BY <2>4, <2>5
<1>3. CASE ~(PipeOpen /\ pipe.client = NoProcess)
  <2>1. pipe' = pipe
    BY <1>3 DEF StopListener
  <2> QED BY <1>1, <2>1 DEF PipeInv, PipeOpen, Written, OnceInv, Unique, Elements
<1> QED BY <1>2, <1>3
\* Nothing here takes a process back to before it wrote, or ends it well.
MainKeeps ==
    \A q \in Processes :
        /\ main[q] \in Written => main'[q] \in Written
        /\ main[q] = "write" => main'[q] \in Written \cup {"write"}
        /\ role'[q] = "secondary" /\ outcome'[q] = "ok" =>
               role[q] = "secondary" /\ outcome[q] = "ok"

\* The pipe becomes one without a client: closed, or opened by p.
LEMMA FreshPipe ==
    ASSUME ShapeInv, QueuesInv, StageInv, OnePrimaryInv, PipeInv, OnceInv, MainKeeps,
           NEW p \in Processes, NEW step \in ListenerSteps,
           listener[p] \notin Quiet, Listen(p, step),
           \/ pipe' = NoPipe /\ step \notin Serving
           \/ pipe' = Listening(p) /\ step \in {"check"},
           UNCHANGED accepted
    PROVE  PipeInv' /\ OnceInv'
<1> USE PipeShapes, InstanceAssumption DEF ShapeInv, Listen
<1>1. pipe'.client = NoProcess /\ ~pipe'.wrote /\ pipe'.said = "nothing"
  OBVIOUS
<1>2. \A q \in Processes : q # p => listener'[q] \notin Serving
  BY OneListener DEF Quiet, Serving
<1>3. listener'[p] = step
  OBVIOUS
<1>4. (\A q \in Processes : pipe.server = q <=> listener[q] \in Serving)'
  BY <1>2, <1>3 DEF Serving
<1>5. PipeInv'
  BY <1>1, <1>2, <1>3, <1>4 DEF PipeInv, PipeOpen, Serving, Handling
<1>6. OnceInv'
  BY <1>1 DEF OnceInv, MainKeeps, Unique, Elements
<1> QED BY <1>5, <1>6

LEMMA AcknowledgedPipe ==
    ASSUME NEW said \in {"yes", "no"}, pipe \in Pipes, Acknowledge(said)
    PROVE  /\ pipe'.server = pipe.server /\ pipe'.client = pipe.client
           /\ pipe'.left = pipe.left /\ pipe'.wrote = pipe.wrote
           /\ pipe'.said = pipe.said \/ pipe'.said = said
           /\ ~PipeOpen => pipe'.server = NoProcess
BY DEF Acknowledge, Pipes, PipeOpen

LEMMA AppendUnique ==
    ASSUME NEW s \in Seq(Processes), NEW e \in Processes
    PROVE  /\ Elements(Append(s, e)) = Elements(s) \cup {e}
           /\ Unique(s) /\ e \notin Elements(s) => Unique(Append(s, e))
<1> DEFINE t == Append(s, e)
<1>1. /\ t \in Seq(Processes) /\ Len(t) = Len(s) + 1 /\ t[Len(s) + 1] = e
      /\ \A i \in 1..Len(s) : t[i] = s[i]
  BY AppendProperties
<1>2. DOMAIN s = 1..Len(s) /\ DOMAIN t = 1..Len(s) + 1 /\ Len(s) \in Nat
  BY <1>1, LenProperties
<1> HIDE DEF t
<1>3. Elements(t) = Elements(s) \cup {e}
  BY <1>1, <1>2 DEF Elements
<1>4. ASSUME Unique(s), e \notin Elements(s) PROVE Unique(t)
  BY <1>1, <1>2, <1>4 DEF Elements, Unique
<1> QED BY <1>3, <1>4 DEF t

\* The listener answers: no, or yes to its client, whose activation it accepts.
LEMMA AnswerKeepsPipe ==
    ASSUME ShapeInv, QueuesInv, StageInv, PipeInv, OnceInv, MainKeeps,
           NEW p \in Processes, listener[p] \in Handling, Listen(p, "flush"),
           \/ Acknowledge("no") /\ UNCHANGED accepted
           \/ /\ listener[p] \in {"append", "post"} /\ Acknowledge("yes")
              /\ accepted' = [accepted EXCEPT ![p] = Append(@, pipe.client)]
    PROVE  PipeInv' /\ OnceInv'
<1> USE InstanceAssumption DEF ShapeInv, Listen
<1>1. /\ pipe.server = p /\ pipe.client \in Processes \ {p}
      /\ listener[p] \in {"append", "post"} => pipe.wrote
  BY DEF PipeInv, Serving, Handling
<1>2. /\ pipe'.server = p /\ pipe'.client = pipe.client
      /\ pipe'.left = pipe.left /\ pipe'.wrote = pipe.wrote
      /\ listener'[p] = "flush" /\ \A q \in Processes : q # p => listener'[q] = listener[q]
  BY <1>1, AcknowledgedPipe
<1>3. PipeInv'
  <2>1. (\A q \in Processes : pipe.server = q <=> listener[q] \in Serving)'
    BY <1>1, <1>2 DEF PipeInv, Serving
  <2>2. (\A q \in Processes : pipe.client = q =>
           \/ pipe.server = q /\ pipe.left /\ ~pipe.wrote
           \/ pipe.server # q /\ main[q] \in Written \cup {"write"})'
    BY <1>1, <1>2 DEF PipeInv, MainKeeps
  <2>3. (pipe.wrote =>
           /\ pipe.client \in Processes \ {pipe.server}
           /\ main[pipe.client] \in Written)'
    BY <1>1, <1>2 DEF PipeInv, MainKeeps
  <2>4. (\A q \in Processes :
           /\ listener[q] \in Handling \cup {"flush"} =>
                  pipe.client \in Processes \ {q}
           /\ listener[q] \in {"append", "post"} => pipe.wrote)'
    BY <1>1, <1>2 DEF PipeInv, Handling
  <2>5. (~PipeOpen => pipe = NoPipe)'
    BY <1>2 DEF PipeOpen
  <2> QED BY <2>1, <2>2, <2>3, <2>4, <2>5 DEF PipeInv
<1>4. CASE Acknowledge("no") /\ UNCHANGED accepted
  <2>1. pipe'.said = "yes" => pipe.said = "yes"
    BY <1>4, AcknowledgedPipe
  <2> QED BY <1>1, <1>2, <1>3, <1>4, <2>1 DEF OnceInv, MainKeeps, Unique, Elements
<1>5. CASE /\ listener[p] \in {"append", "post"} /\ Acknowledge("yes")
           /\ accepted' = [accepted EXCEPT ![p] = Append(@, pipe.client)]
  <2> DEFINE c == pipe.client
  <2>1. c \in Processes \ {p} /\ main[c] \in Written /\ listener[pipe.server] # "flush"
    BY <1>1, <1>5 DEF PipeInv
  <2>2. \A q \in Processes : c \notin Elements(accepted[q])
    BY <2>1 DEF OnceInv
  <2>3. /\ \A q \in Processes : q # p => accepted'[q] = accepted[q]
        /\ accepted'[p] = Append(accepted[p], c) /\ accepted[p] \in Seq(Processes)
    BY <1>5 DEF QueuesInv
  <2>4. Elements(accepted[p])' = Elements(accepted[p]) \cup {c} /\ Unique(accepted[p])'
    <3>1. Unique(accepted[p])
      BY DEF OnceInv
    <3> HIDE DEF c
    <3> QED BY <2>1, <2>2, <2>3, <3>1, AppendUnique
  <2>5. \A q \in Processes : q # p =>
            Elements(accepted[q])' = Elements(accepted[q]) /\ Unique(accepted[q])'
    BY <2>3 DEF OnceInv, Elements, Unique
  <2>6. (\A r \in Processes : Unique(accepted[r]))'
    BY <2>4, <2>5
  <2>7. (\A r, q \in Processes : q \in Elements(accepted[r]) =>
           /\ q # r /\ main[q] \in Written
           /\ pipe.client = q => listener[pipe.server] = "flush")'
    BY <1>2, <2>1, <2>4, <2>5 DEF OnceInv, MainKeeps
  <2>8. (pipe.said = "yes" => \E r \in Processes : pipe.client \in Elements(accepted[r]))'
    BY <1>2, <2>4
  <2>9. (\A q \in Processes : role[q] = "secondary" /\ outcome[q] = "ok" =>
            \E r \in Processes : q \in Elements(accepted[r]))'
    BY <2>4, <2>5 DEF OnceInv, MainKeeps
  <2>10. OnceInv'
    BY <2>6, <2>7, <2>8, <2>9 DEF OnceInv
  <2> QED BY <1>3, <2>10
<1> QED BY <1>4, <1>5
\* The two actions that do not fit these: a process is killed...
LEMMA KillKeepsPipe ==
    ASSUME ShapeInv, RoleTypeInv, QueuesInv, StageInv, PipeInv, OnceInv,
           NEW p \in Processes, Kill(p)
    PROVE  PipeInv' /\ OnceInv'
<1> USE InstanceAssumption, PipeShapes DEF ShapeInv
<1>1. /\ main' = [main EXCEPT ![p] = "gone"] /\ role' = [role EXCEPT ![p] = "none"]
      /\ outcome' = [outcome EXCEPT ![p] = "none"]
      /\ listener' = [listener EXCEPT ![p] = "none"] /\ UNCHANGED accepted
  BY DEF Kill, Forget, GoTo, Listen
<1>2. MainKeeps
  BY <1>1 DEF MainKeeps, Written, RoleTypeInv
<1>3. CASE pipe.server = p
  <2>1. pipe' = NoPipe
    BY <1>3 DEF Kill
  <2>2. \A q \in Processes : listener'[q] \notin Serving
    BY <1>1, <1>3 DEF PipeInv, Serving
  <2>3. PipeInv'
    BY <2>1, <2>2 DEF PipeInv, PipeOpen, Serving, Handling
  <2>4. OnceInv'
    BY <1>1, <1>2, <2>1 DEF OnceInv, MainKeeps, Unique, Elements
  <2> QED BY <2>3, <2>4
<1>4. CASE pipe.server # p
  <2>1. /\ pipe'.server = pipe.server /\ pipe'.client = pipe.client
        /\ pipe'.wrote = pipe.wrote /\ pipe'.said = pipe.said
        /\ pipe.left => pipe'.left
    BY <1>4 DEF Kill, Pipes
  <2>2. ~PipeOpen => pipe' = pipe
    BY <1>4 DEF Kill, PipeOpen, PipeInv
  <2>3. listener[p] \notin Serving
    BY <1>4 DEF PipeInv
  <2>4. (\A q \in Processes : pipe.server = q <=> listener[q] \in Serving)'
    BY <1>1, <2>1, <2>3 DEF PipeInv, Serving
  <2>5. (\A q \in Processes : pipe.client = q =>
           \/ pipe.server = q /\ pipe.left /\ ~pipe.wrote
           \/ pipe.server # q /\ main[q] \in Written \cup {"write"})'
    BY <1>2, <2>1 DEF PipeInv, MainKeeps
  <2>6. (pipe.wrote =>
           /\ pipe.client \in Processes \ {pipe.server}
           /\ main[pipe.client] \in Written)'
    BY <1>2, <2>1 DEF PipeInv, MainKeeps
  <2>7. (\A q \in Processes :
           /\ listener[q] \in Handling \cup {"flush"} =>
                  pipe.client \in Processes \ {q}
           /\ listener[q] \in {"append", "post"} => pipe.wrote)'
    BY <1>1, <2>1 DEF PipeInv, Handling
  <2>8. PipeInv'
    BY <2>1, <2>2, <2>4, <2>5, <2>6, <2>7 DEF PipeInv, PipeOpen
  <2>9. (\A r, q \in Processes : q \in Elements(accepted[r]) =>
           /\ q # r /\ main[q] \in Written
           /\ pipe.client = q => listener[pipe.server] = "flush")'
    <3> SUFFICES ASSUME NEW r \in Processes, NEW q \in Processes,
                        q \in Elements(accepted[r])
                 PROVE  /\ q # r /\ main'[q] \in Written
                        /\ pipe'.client = q => listener'[pipe'.server] = "flush"
      BY <1>1
    <3>1. q # r /\ main[q] \in Written /\ (pipe.client = q => listener[pipe.server] = "flush")
      BY DEF OnceInv
    <3>2. pipe.client = q => pipe.server \in Processes
      BY Ends DEF PipeInv, PipeOpen
    <3> QED BY <1>1, <1>2, <1>4, <2>1, <3>1, <3>2 DEF MainKeeps
  <2> QED BY <1>1, <1>2, <2>1, <2>8, <2>9 DEF OnceInv, MainKeeps, Unique, Elements
<1> QED BY <1>3, <1>4

\* ... and a listener is cancelled while it is blocked.
LEMMA CancelKeepsPipe ==
    ASSUME ShapeInv, QueuesInv, StageInv, OnePrimaryInv, PipeInv, OnceInv,
           NEW p \in Processes, CancelListener(p)
    PROVE  PipeInv' /\ OnceInv'
<1>1. MainKeeps /\ UNCHANGED accepted
  BY DEF CancelListener, MainKeeps, GoTo, Written, ShapeInv, queueVars
<1>2. CASE listener[p] = "accept" /\ ClosePipe(p)
  <2>1. PICK step \in {"ended", "reopen"} : Listen(p, step)
    BY <1>2 DEF ClosePipe, Listen
  <2>2. step \in ListenerSteps \ Serving /\ listener[p] \notin Quiet /\ pipe' = NoPipe
    BY <1>2 DEF ListenerSteps, Serving, Quiet, ClosePipe
  <2> QED BY <1>1, <2>1, <2>2, FreshPipe
<1>3. CASE listener[p] = "read" /\ Acknowledge("no") /\ Listen(p, "flush")
  BY <1>1, <1>3, AnswerKeepsPipe DEF Handling
<1>4. CASE UNCHANGED <<listener, pipe>>
  <2>1. PipeAlone
    BY <1>1, <1>4 DEF PipeAlone, MainKeeps
  <2> QED BY <2>1, AloneKeepsPipe, AloneKeepsOnce
<1> QED BY <1>2, <1>3, <1>4 DEF CancelListener

LEMMA ListenerKeepsPipe ==
    ASSUME ShapeInv, QueuesInv, StageInv, OnePrimaryInv, PipeInv, OnceInv,
           NEW p \in Processes, ListenerStep(p), ~ReadActivation(p), ~ListenerFails(p)
    PROVE  PipeInv' /\ OnceInv'
<1>1. MainKeeps
  BY DEF ListenerStep, OpenFirstPipe, CheckStopping, AcceptClient, ReadFails,
     AppendPending, PostActivation, FlushAcknowledgment, ReopenPipe, MainKeeps, mainVars
<1>2. ASSUME NEW step \in ListenerSteps, listener[p] \notin Quiet, Listen(p, step),
             \/ pipe' = NoPipe /\ step \notin Serving
             \/ pipe' = Listening(p) /\ step \in {"check"},
             UNCHANGED accepted
      PROVE  PipeInv' /\ OnceInv'
  BY <1>1, <1>2, FreshPipe
<1>3. ASSUME listener[p] \in Serving, ClosePipe(p), UNCHANGED accepted
      PROVE  PipeInv' /\ OnceInv'
  <2>1. PICK step \in {"ended", "reopen"} : Listen(p, step)
    BY <1>3 DEF ClosePipe, Listen
  <2>2. step \in ListenerSteps \ Serving /\ listener[p] \notin Quiet /\ pipe' = NoPipe
    BY <1>3 DEF ListenerSteps, Serving, Quiet, ClosePipe
  <2> QED BY <1>2, <1>3, <2>1, <2>2
<1>4. CASE OpenFirstPipe(p)
  <2>1. CASE pipe' = Listening(p) /\ Listen(p, "check")
    BY <1>2, <1>4, <2>1 DEF OpenFirstPipe, ListenerSteps, Quiet, queueVars
  <2>2. CASE UNCHANGED pipe /\ Listen(p, "ended")
    <3>1. PipeAlone
      BY <1>1, <1>4, <2>2 DEF OpenFirstPipe, PipeAlone, MainKeeps, Listen, ShapeInv,
         Serving, Handling, queueVars
    <3> QED BY <3>1, AloneKeepsPipe, AloneKeepsOnce
  <2> QED BY <1>4, <2>1, <2>2 DEF OpenFirstPipe
<1>5. CASE CheckStopping(p)
  <2>1. pipe.server = p /\ listener[p] = "check" /\ UNCHANGED accepted
    BY <1>5 DEF CheckStopping, PipeInv, Serving, queueVars
  <2>2. CASE stopping[p]
    BY <1>2, <1>5, <2>1, <2>2 DEF CheckStopping, ListenerSteps, Quiet, Serving
  <2>3. CASE ~stopping[p]
    <3>1. PipeAlone
      BY <1>1, <1>5, <2>1, <2>3 DEF CheckStopping, PipeAlone, MainKeeps, Listen, ShapeInv,
         Serving, Handling
    <3> QED BY <3>1, AloneKeepsPipe, AloneKeepsOnce
  <2> QED BY <2>2, <2>3
<1>6. CASE AcceptClient(p)
  <2>1. /\ listener[p] = "accept" /\ UNCHANGED accepted
        /\ pipe.client # NoProcess
    BY <1>6 DEF AcceptClient, queueVars
  <2>2. CASE ClosePipe(p)
    BY <1>3, <2>1, <2>2 DEF Serving
  <2>3. CASE ~pipe.left /\ Listen(p, "read") /\ UNCHANGED pipe
    <3>1. pipe.server = p /\ pipe.client \in Processes \ {p}
      BY <2>1, <2>3, Ends DEF PipeInv, Serving
    <3>2. listener'[p] = "read" /\ \A q \in Processes : q # p => listener'[q] = listener[q]
      BY <2>3 DEF Listen, ShapeInv
    <3>3. PipeInv'
      BY <1>1, <2>1, <2>3, <3>1, <3>2 DEF PipeInv, MainKeeps, PipeOpen, Serving, Handling
    <3>4. OnceInv'
      BY <1>1, <2>1, <2>3, <3>1, <3>2 DEF OnceInv, MainKeeps, Unique, Elements
    <3> QED BY <3>3, <3>4
  <2> QED BY <1>6, <2>2, <2>3 DEF AcceptClient
<1>7. CASE ReadFails(p)
  BY <1>1, <1>7, AnswerKeepsPipe DEF ReadFails, Handling, queueVars
<1>8. CASE AppendPending(p) \/ PostActivation(p)
  BY <1>1, <1>8, AnswerKeepsPipe DEF AppendPending, PostActivation, Accept, Handling
<1>9. CASE FlushAcknowledgment(p)
  BY <1>3, <1>9 DEF FlushAcknowledgment, Serving, queueVars
<1>10. CASE ReopenPipe(p)
  <2>1. CASE pipe' = Listening(p) /\ Listen(p, "check")
    BY <1>2, <1>10, <2>1 DEF ReopenPipe, ListenerSteps, Quiet, queueVars
  <2>2. CASE UNCHANGED pipe /\ Listen(p, "warn")
    <3>1. PipeAlone
      BY <1>1, <1>10, <2>2 DEF ReopenPipe, PipeAlone, MainKeeps, Listen, ShapeInv,
         Serving, Handling, queueVars
    <3> QED BY <3>1, AloneKeepsPipe, AloneKeepsOnce
  <2> QED BY <1>10, <2>1, <2>2 DEF ReopenPipe
<1> QED BY <1>4, <1>5, <1>6, <1>7, <1>8, <1>9, <1>10 DEF ListenerStep

LEMMA PipeHolds ==
    ASSUME ShapeInv, RoleTypeInv, QueuesInv, StageInv, OnePrimaryInv, PipeInv, OnceInv, Next
    PROVE  PipeInv' /\ OnceInv'
<1>1. ASSUME NEW p \in Processes, NoPipeStep(p) PROVE PipeInv' /\ OnceInv'
  BY <1>1, NoPipeStepIsAlone, AloneKeepsPipe, AloneKeepsOnce
<1>2. ASSUME NEW p \in Processes, ForwardStep(p) PROVE PipeInv' /\ OnceInv'
  <2>1. CASE Connect(p) \/ Write(p)
    BY <2>1, ClientKeepsPipe
  <2>2. CASE ReadAcknowledgment(p)
    <3>1. PICK said \in {"yes", "no"} :
              said = pipe.said /\ Forwarded(p, said) /\ Connected(p)
      BY <2>2 DEF ReadAcknowledgment, ShapeInv, Pipes
    <3> QED BY <2>2, <3>1, ClientKeepsPipe DEF ReadAcknowledgment, Forwarding
  <2>3. CASE PipeBroken(p) \/ DeadlinePasses(p)
    <3>1. main[p] \in Forwarding /\ Forwarded(p, "no")
      BY <2>3 DEF PipeBroken, DeadlinePasses, Forwarding
    <3> QED BY <3>1, ClientKeepsPipe
  <2> QED BY <1>2, <2>1, <2>2, <2>3 DEF ForwardStep
<1>3. ASSUME NEW p \in Processes, ListenerStep(p) PROVE PipeInv' /\ OnceInv'
  BY <1>1, <1>3, ListenerKeepsPipe DEF NoPipeStep
<1> QED BY <1>1, <1>2, <1>3, StopKeepsPipe, CancelKeepsPipe, KillKeepsPipe
    DEF Next, MainStep, NoPipeStep
------------------------------------------------------------------------------
(* Sequences without repetition, and lines that follow one.                *)

LEMMA PositionIs ==
    ASSUME NEW s, Unique(s), NEW i \in DOMAIN s PROVE Position(s, s[i]) = i
BY DEF Position, Unique

LEMMA ElementsOfConcat ==
    ASSUME NEW s \in Seq(Processes), NEW u \in Seq(Processes)
    PROVE  Elements(s \o u) = Elements(s) \cup Elements(u)
<1> DEFINE t == s \o u
<1>1. /\ t \in Seq(Processes) /\ Len(t) = Len(s) + Len(u)
      /\ \A i \in 1..Len(s) + Len(u) :
             t[i] = IF i <= Len(s) THEN s[i] ELSE u[i - Len(s)]
  BY ConcatProperties
<1>2. /\ DOMAIN s = 1..Len(s) /\ DOMAIN u = 1..Len(u) /\ DOMAIN t = 1..Len(s) + Len(u)
      /\ Len(s) \in Nat /\ Len(u) \in Nat
  BY <1>1, LenProperties
<1> HIDE DEF t
<1>3. ASSUME NEW i \in DOMAIN t PROVE t[i] \in Elements(s) \cup Elements(u)
  <2>1. CASE i <= Len(s)
    BY <1>1, <1>2, <2>1 DEF Elements
  <2>2. CASE i > Len(s)
    <3>1. i - Len(s) \in DOMAIN u /\ t[i] = u[i - Len(s)]
      BY <1>1, <1>2, <2>2
    <3> QED BY <3>1 DEF Elements
  <2> QED BY <1>2, <2>1, <2>2
<1>4. ASSUME NEW i \in DOMAIN s PROVE s[i] \in Elements(t)
  <2>1. i \in DOMAIN t /\ t[i] = s[i]
    BY <1>1, <1>2
  <2> QED BY <2>1 DEF Elements
<1>5. ASSUME NEW i \in DOMAIN u PROVE u[i] \in Elements(t)
  <2>1. i + Len(s) \in DOMAIN t /\ t[i + Len(s)] = u[i]
    BY <1>1, <1>2
  <2> QED BY <2>1 DEF Elements
<1> QED BY <1>3, <1>4, <1>5 DEF Elements, t

LEMMA OrderedStart ==
    ASSUME NEW s \in Seq(Processes), NEW u \in Seq(Processes), NEW order,
           Ordered(s \o u, order)
    PROVE  Ordered(s, order)
<1> DEFINE t == s \o u
<1>1. /\ t \in Seq(Processes) /\ Len(t) = Len(s) + Len(u)
      /\ \A i \in 1..Len(s) + Len(u) :
             t[i] = IF i <= Len(s) THEN s[i] ELSE u[i - Len(s)]
  BY ConcatProperties
<1>2. /\ DOMAIN s = 1..Len(s) /\ DOMAIN t = 1..Len(s) + Len(u)
      /\ Len(s) \in Nat /\ Len(u) \in Nat
  BY <1>1, LenProperties
<1>3. Ordered(t, order)
  OBVIOUS
<1> HIDE DEF t
<1>4. \A i \in DOMAIN s : i \in DOMAIN t /\ t[i] = s[i]
  BY <1>1, <1>2
<1> QED BY <1>3, <1>4 DEF Ordered

\* A line follows an order that grows, and may grow with it.
LEMMA OrderGrows ==
    ASSUME NEW s \in Seq(Processes), NEW order \in Seq(Processes), NEW c \in Processes,
           Unique(order), c \notin Elements(order),
           Elements(s) \subseteq Elements(order), Ordered(s, order)
    PROVE  Ordered(s, Append(order, c)) /\ Ordered(Append(s, c), Append(order, c))
<1> DEFINE longer == Append(order, c)
           line == Append(s, c)
<1>1. /\ longer \in Seq(Processes) /\ Len(longer) = Len(order) + 1
      /\ longer[Len(order) + 1] = c
      /\ \A i \in 1..Len(order) : longer[i] = order[i]
  BY AppendProperties
<1>2. /\ line \in Seq(Processes) /\ Len(line) = Len(s) + 1 /\ line[Len(s) + 1] = c
      /\ \A i \in 1..Len(s) : line[i] = s[i]
  BY AppendProperties
<1>3. Unique(longer)
  BY AppendUnique
<1>4. /\ DOMAIN s = 1..Len(s) /\ DOMAIN line = 1..Len(s) + 1 /\ Len(s) \in Nat
      /\ DOMAIN order = 1..Len(order) /\ DOMAIN longer = 1..Len(order) + 1
      /\ Len(order) \in Nat
  BY <1>1, <1>2, LenProperties
<1> HIDE DEF longer, line
<1>5. ASSUME NEW x \in Elements(order)
      PROVE  /\ Position(longer, x) = Position(order, x)
             /\ Position(order, x) \in 1..Len(order)
  <2>1. PICK i \in DOMAIN order : order[i] = x
    BY DEF Elements
  <2>2. Position(order, x) = i
    BY <2>1, PositionIs
  <2>3. i \in DOMAIN longer /\ longer[i] = x
    BY <1>1, <1>4, <2>1
  <2>4. Position(longer, x) = i
    BY <1>3, <2>3, PositionIs
  <2> QED BY <1>4, <2>2, <2>4
<1>6. Position(longer, c) = Len(order) + 1
  <2>1. Len(order) + 1 \in DOMAIN longer
    BY <1>4
  <2> QED BY <1>1, <1>3, <2>1, PositionIs
<1>7. \A i \in DOMAIN s : s[i] \in Elements(order)
  BY DEF Elements
<1>8. Ordered(s, longer)
  BY <1>5, <1>7 DEF Ordered
<1>9. Ordered(line, longer)
  <2> SUFFICES ASSUME NEW i \in DOMAIN line, NEW j \in DOMAIN line, i < j
               PROVE  Position(longer, line[i]) < Position(longer, line[j])
    BY DEF Ordered
  <2>1. i \in DOMAIN s /\ line[i] = s[i]
    BY <1>2, <1>4
  <2>2. CASE j \in DOMAIN s
    BY <1>2, <1>4, <1>8, <2>1, <2>2 DEF Ordered
  <2>3. CASE j \notin DOMAIN s
    <3>1. line[j] = c
      BY <1>2, <1>4, <2>3
    <3>2. Position(longer, s[i]) \in 1..Len(order)
      BY <1>5, <1>7, <2>1
    <3> QED BY <1>4, <1>6, <2>1, <3>1, <3>2
  <2> QED BY <2>2, <2>3
<1> QED BY <1>8, <1>9 DEF longer, line
------------------------------------------------------------------------------
(* Activations in the queues of their primary.                             *)

LEMMA QueuesHold ==
    ASSUME ShapeInv, QueuesInv, PipeInv, Next PROVE QueuesInv'
<1> USE DEF QueuesInv, queueVars
<1>1. ASSUME NEW p \in Processes, NoPipeStep(p) PROVE QueuesInv'
  <2>1. CASE TakeInitialActivations(p)
    BY <2>1 DEF TakeInitialActivations
  <2>2. CASE ActivationReady(p)
    <3>1. delivered[p] \o pending[p] \in Seq(Processes)
      OBVIOUS
    <3> QED BY <2>2, <3>1 DEF ActivationReady
  <2>3. CASE HandleActivationMessage(p)
    <3>1. posted[p] \in Seq(Processes) /\ posted[p] # <<>>
      BY <2>3 DEF HandleActivationMessage
    <3>2. Head(posted[p]) \in Processes /\ Tail(posted[p]) \in Seq(Processes)
      BY <3>1, HeadTailProperties
    <3>3. /\ posted' = [posted EXCEPT ![p] = Tail(@)] /\ UNCHANGED accepted
          /\ \/ /\ delivered' = [delivered EXCEPT ![p] = Append(@, Head(posted[p]))]
                /\ UNCHANGED pending
             \/ /\ pending' = [pending EXCEPT ![p] = Append(@, Head(posted[p]))]
                /\ UNCHANGED delivered
      BY <2>3 DEF HandleActivationMessage
    <3>4. /\ Append(delivered[p], Head(posted[p])) \in Seq(Processes)
          /\ Append(pending[p], Head(posted[p])) \in Seq(Processes)
      BY <3>2, AppendProperties
    <3> QED BY <3>2, <3>3, <3>4
  <2>4. CASE CloseWindow(p) \/ DestroyWindowObject(p) \/ CloseMutex(p)
    <3>1. <<>> \in Seq(Processes)
      OBVIOUS
    <3> QED BY <2>4, <3>1 DEF CloseWindow, DestroyWindowObject, CloseMutex, Forget
  <2> QED BY <1>1, <2>1, <2>2, <2>3, <2>4 DEF NoPipeStep, ElectFails, ElectPrimary,
          ElectSecondary, ForwarderActivated, ForwarderTimesOut, StartSucceeds,
          StartFails, StartTimesOut, JoinListener, CreateWindow, CreateWindowFails,
          LoopEnds, DismissReport, ReadActivation, ListenerFails
<1>2. ASSUME NEW p \in Processes, ForwardStep(p) PROVE QueuesInv'
  BY <1>2 DEF ForwardStep, Connect, Write, ReadAcknowledgment, PipeBroken,
     DeadlinePasses, Forwarded
<1>3. ASSUME NEW p \in Processes, StopListener(p) \/ CancelListener(p) PROVE QueuesInv'
  BY <1>3 DEF StopListener, CancelListener
<1>4. ASSUME NEW p \in Processes, Kill(p) PROVE QueuesInv'
  BY <1>4 DEF Kill, Forget
<1>5. ASSUME NEW p \in Processes, ListenerStep(p) PROVE QueuesInv'
  <2>1. CASE AppendPending(p) \/ PostActivation(p)
    <3>1. pipe.client \in Processes
      BY <2>1 DEF AppendPending, PostActivation, PipeInv, Handling
    <3>2. /\ Append(pending[p], pipe.client) \in Seq(Processes)
          /\ Append(posted[p], pipe.client) \in Seq(Processes)
          /\ Append(accepted[p], pipe.client) \in Seq(Processes)
      BY <3>1, AppendProperties
    <3>3. /\ accepted' = [accepted EXCEPT ![p] = Append(@, pipe.client)]
          /\ UNCHANGED delivered
          /\ pending' = pending \/ pending' = [pending EXCEPT ![p] = Append(@, pipe.client)]
          /\ posted' = posted \/ posted' = [posted EXCEPT ![p] = Append(@, pipe.client)]
      BY <2>1 DEF AppendPending, PostActivation, Accept
    <3> QED BY <3>2, <3>3
  <2> QED BY <1>5, <2>1 DEF ListenerStep, OpenFirstPipe, CheckStopping, AcceptClient,
          ReadActivation, ReadFails, FlushAcknowledgment, ReopenPipe, ListenerFails
<1> QED BY <1>1, <1>2, <1>3, <1>4, <1>5 DEF Next, MainStep, NoPipeStep

LEMMA OrderIs ==
    ASSUME QueuesInv, OnceInv, NEW p \in Processes
    PROVE  /\ Order(p) \in Seq(Processes) /\ Unique(Order(p))
           /\ Elements(Order(p)) = {p} \cup Elements(accepted[p])
<1>1. accepted[p] \in Seq(Processes) /\ <<p>> \in Seq(Processes)
  BY DEF QueuesInv
<1>2. Elements(Order(p)) = {p} \cup Elements(accepted[p])
  <2>1. Elements(<<p>>) = {p}
    BY DEF Elements
  <2> QED BY <1>1, <2>1, ElementsOfConcat DEF Order
<1>3. Unique(Order(p))
  <2>1. /\ Len(Order(p)) = 1 + Len(accepted[p]) /\ Order(p) \in Seq(Processes)
        /\ \A i \in 1..1 + Len(accepted[p]) :
               Order(p)[i] = IF i <= 1 THEN p ELSE accepted[p][i - 1]
    BY <1>1, ConcatProperties DEF Order
  <2>2. /\ DOMAIN Order(p) = 1..1 + Len(accepted[p])
        /\ DOMAIN accepted[p] = 1..Len(accepted[p]) /\ Len(accepted[p]) \in Nat
    BY <1>1, <2>1, LenProperties
  <2>3. Unique(accepted[p]) /\ \A i \in DOMAIN accepted[p] : accepted[p][i] # p
    BY <1>1, OnlyProcesses DEF OnceInv, Elements
  <2>4. \A i \in DOMAIN Order(p) :
            \/ i = 1 /\ Order(p)[i] = p
            \/ /\ i - 1 \in DOMAIN accepted[p]
               /\ Order(p)[i] = accepted[p][i - 1]
    BY <2>1, <2>2
  <2> QED BY <2>2, <2>3, <2>4 DEF Unique
<1> QED BY <1>1, <1>2, <1>3 DEF Order

LineAlone(q) ==
    /\ ready'[q] = ready[q] /\ pending'[q] = pending[q] /\ posted'[q] = posted[q]
    /\ delivered'[q] = delivered[q] /\ accepted'[q] = accepted[q]
    /\ lost \subseteq lost'
    /\ ~handle'[q] \/ listener'[q] = "append" => ~handle[q] \/ listener[q] = "append"
    /\ main'[q] \in {"off", "start", "create"} => Opening(q)
    /\ main'[q] = "loop" /\ handle'[q] => Opening(q)

LEMMA AloneKeepsLine == ASSUME NEW q, LineOf(q), LineAlone(q) PROVE LineOf(q)'
<1>1. Line(q)' = Line(q) /\ Order(q)' = Order(q)
  BY DEF LineAlone, Line, Order
<1>2. Opening(q)' => Opening(q)
  BY DEF LineAlone, Opening
<1>3. (~handle[q] \/ listener[q] = "append" => posted[q] = <<>>)'
  BY DEF LineAlone, LineOf
<1>4. Elements(Line(q))' \subseteq Elements(Order(q))' /\ Ordered(Line(q), Order(q))'
  BY <1>1 DEF LineOf, Elements, Ordered, Position
<1>5. (Opening(q) => Elements(accepted[q]) \subseteq
           Elements(delivered[q]) \cup Elements(pending[q])
           \cup Elements(posted[q]) \cup lost)'
  BY <1>2 DEF LineAlone, LineOf
<1> QED BY <1>3, <1>4, <1>5 DEF LineOf
\* The steps that move no activation.
MovesNone(p) ==
    \/ ElectFails(p) \/ ElectPrimary(p) \/ ElectSecondary(p)
    \/ ForwardStep(p) \/ ForwarderActivated(p) \/ ForwarderTimesOut(p)
    \/ MainStep(p) \/ CreateWindow(p) \/ CreateWindowFails(p)
    \/ LoopEnds(p) \/ DismissReport(p)
    \/ OpenFirstPipe(p) \/ CheckStopping(p) \/ AcceptClient(p)
    \/ ReadActivation(p) \/ ReadFails(p)
    \/ FlushAcknowledgment(p) \/ ReopenPipe(p) \/ ListenerFails(p)

LEMMA MovesNoneIsAlone ==
    ASSUME ShapeInv, StageInv, NEW p \in Processes, MovesNone(p), NEW q \in Processes
    PROVE  LineAlone(q)
<1> USE DEF LineAlone, Opening, GoTo, Listen, ShapeInv, queueVars, windowVars, pipeVars,
        mainVars
<1>1. CASE ElectFails(p) \/ ElectPrimary(p) \/ ElectSecondary(p)
  BY <1>1 DEF ElectFails, ElectPrimary, ElectSecondary, Launch
<1>2. CASE ForwardStep(p) \/ ForwarderActivated(p) \/ ForwarderTimesOut(p)
  BY <1>2 DEF ForwardStep, Connect, Write, ReadAcknowledgment, PipeBroken,
     DeadlinePasses, Forwarded, ForwarderActivated, ForwarderTimesOut
<1>3. CASE MainStep(p)
  BY <1>3 DEF MainStep, StartSucceeds, StartFails, StartTimesOut, StopListener,
     CancelListener, JoinListener, ClosePipe
<1>4. CASE CreateWindow(p) \/ CreateWindowFails(p)
  BY <1>4 DEF CreateWindow, CreateWindowFails, StageInv
<1>5. CASE LoopEnds(p) \/ DismissReport(p)
  BY <1>5 DEF LoopEnds, DismissReport
<1>6. CASE OpenFirstPipe(p) \/ CheckStopping(p) \/ AcceptClient(p)
  BY <1>6 DEF OpenFirstPipe, CheckStopping, AcceptClient, ClosePipe
<1>7. CASE ReadActivation(p) \/ ReadFails(p)
  BY <1>7 DEF ReadActivation, ReadFails
<1>8. CASE FlushAcknowledgment(p) \/ ReopenPipe(p) \/ ListenerFails(p)
  BY <1>8 DEF FlushAcknowledgment, ReopenPipe, ListenerFails, ClosePipe
<1> QED BY <1>1, <1>2, <1>3, <1>4, <1>5, <1>6, <1>7, <1>8 DEF MovesNone

\* The steps of a process leave the queues of the others alone.
LEMMA OthersAlone ==
    ASSUME ShapeInv, QueuesInv, NEW p \in Processes, NEW q \in Processes, q # p,
           \/ TakeInitialActivations(p) \/ ActivationReady(p)
           \/ HandleActivationMessage(p) \/ CloseWindow(p) \/ DestroyWindowObject(p)
           \/ CloseMutex(p) \/ Kill(p) \/ AppendPending(p) \/ PostActivation(p)
    PROVE  LineAlone(q)
<1> USE DEF LineAlone, Opening, GoTo, Listen, ShapeInv, QueuesInv, queueVars, windowVars,
        pipeVars, mainVars
<1>1. CASE TakeInitialActivations(p) \/ ActivationReady(p)
  BY <1>1 DEF TakeInitialActivations, ActivationReady
<1>2. CASE HandleActivationMessage(p)
  BY <1>2 DEF HandleActivationMessage
<1>3. CASE CloseWindow(p) \/ DestroyWindowObject(p)
  BY <1>3 DEF CloseWindow, DestroyWindowObject
<1>4. CASE CloseMutex(p) \/ Kill(p)
  BY <1>4 DEF CloseMutex, Kill, Forget
<1>5. CASE AppendPending(p) \/ PostActivation(p)
  BY <1>5 DEF AppendPending, PostActivation, Accept
<1> QED BY <1>1, <1>2, <1>3, <1>4, <1>5

\* Activations go from queue to queue, and keep their places.
LEMMA MoveKeepsLine ==
    ASSUME ShapeInv, QueuesInv, NEW p \in Processes, LineOf(p),
           \/ TakeInitialActivations(p) \/ ActivationReady(p) \/ HandleActivationMessage(p)
    PROVE  LineOf(p)'
<1> DEFINE d == delivered[p]
           w == pending[p]
           m == posted[p]
<1>1. d \in Seq(Processes) /\ w \in Seq(Processes) /\ m \in Seq(Processes)
  BY DEF QueuesInv
<1>2. UNCHANGED <<main, listener, accepted, handle, lost>>
  BY DEF TakeInitialActivations, ActivationReady, HandleActivationMessage, mainVars,
     pipeVars, windowVars
<1>3. ASSUME Line(p)' = Line(p), posted'[p] = <<>> \/ posted[p] # <<>>,
             Elements(d) \cup Elements(w) \cup Elements(m) \subseteq
                 Elements(delivered'[p]) \cup Elements(pending'[p]) \cup Elements(posted'[p])
      PROVE  LineOf(p)'
  <2>1. Order(p)' = Order(p) /\ (Opening(p)' <=> Opening(p))
    BY <1>2 DEF Order, Opening
  <2>2. Elements(Line(p))' \subseteq Elements(Order(p))' /\ Ordered(Line(p), Order(p))'
    BY <1>3, <2>1 DEF LineOf, Elements, Ordered, Position
  <2>3. (Opening(p) => Elements(accepted[p]) \subseteq
           Elements(delivered[p]) \cup Elements(pending[p])
           \cup Elements(posted[p]) \cup lost)'
    BY <1>2, <1>3, <2>1 DEF LineOf
  <2> QED BY <1>2, <1>3, <2>2, <2>3 DEF LineOf
<1>4. CASE TakeInitialActivations(p)
  <2>1. /\ d = <<>> /\ ~ready[p] /\ ready' = ready /\ posted' = posted
        /\ delivered'[p] = w /\ pending'[p] = <<>>
    BY <1>4 DEF TakeInitialActivations, windowVars, QueuesInv
  <2>2. Line(p)' = Line(p)
    <3>1. Line(p) = <<>> \o (w \o m) /\ Line(p)' = w \o (<<>> \o m)
      BY <2>1 DEF Line
    <3>2. w \o m \in Seq(Processes)
      BY <1>1, ConcatProperties
    <3> QED BY <1>1, <3>1, <3>2, ConcatEmptySeq
  <2>3. Elements(d) = {}
    BY <2>1 DEF Elements
  <2> QED BY <1>3, <2>1, <2>2, <2>3
<1>5. CASE ActivationReady(p)
  <2>1. /\ ~ready[p] /\ ready'[p] /\ posted' = posted
        /\ delivered'[p] = d \o w /\ pending'[p] = <<>>
    BY <1>5 DEF ActivationReady, QueuesInv, ShapeInv
  <2>2. Line(p)' = Line(p)
    <3>1. Line(p) = d \o (w \o m) /\ Line(p)' = (d \o w) \o m
      BY <2>1 DEF Line
    <3> HIDE DEF d, w, m
    <3> QED BY <1>1, <3>1, ConcatAssociative
  <2>3. Elements(d \o w) = Elements(d) \cup Elements(w)
    BY <1>1, ElementsOfConcat
  <2> QED BY <1>3, <2>1, <2>2, <2>3
<1>6. CASE HandleActivationMessage(p)
  <2> DEFINE h == Head(m)
             r == Tail(m)
  <2>1. m # <<>> /\ posted'[p] = r /\ ready' = ready
    BY <1>6 DEF HandleActivationMessage, windowVars, QueuesInv
  <2>2. h \in Processes /\ r \in Seq(Processes) /\ <<h>> \in Seq(Processes)
    BY <1>1, <2>1, HeadTailProperties
  <2>3. m = <<h>> \o r
    BY <1>1, <2>1, <2>2
  <2>4. Elements(m) = {h} \cup Elements(r)
    <3>1. Elements(<<h>>) = {h}
      BY DEF Elements
    <3> QED BY <2>2, <2>3, <3>1, ElementsOfConcat
  <2>5. CASE ready[p]
    <3>1. delivered'[p] = Append(d, h) /\ pending'[p] = w
      BY <1>6, <2>5 DEF HandleActivationMessage, QueuesInv
    <3>2. Line(p) = d \o m /\ Line(p)' = Append(d, h) \o r
      BY <2>1, <2>5, <3>1 DEF Line
    <3> HIDE DEF d, w, m, h, r
    <3>3. Append(d, h) = d \o <<h>>
      BY <1>1, <2>2, AppendIsConcat
    <3>4. Line(p)' = Line(p)
      BY <1>1, <2>2, <2>3, <3>2, <3>3, ConcatAssociative
    <3>5. Elements(Append(d, h)) = Elements(d) \cup {h}
      BY <1>1, <2>2, AppendUnique
    <3> QED BY <1>3, <2>1, <2>4, <3>1, <3>4, <3>5 DEF m
  <2>6. CASE ~ready[p]
    <3>1. pending'[p] = Append(w, h) /\ delivered'[p] = d
      BY <1>6, <2>6 DEF HandleActivationMessage, QueuesInv
    <3>2. Line(p) = d \o (w \o m) /\ Line(p)' = d \o (Append(w, h) \o r)
      BY <2>1, <2>6, <3>1 DEF Line
    <3> HIDE DEF d, w, m, h, r
    <3>3. Append(w, h) = w \o <<h>>
      BY <1>1, <2>2, AppendIsConcat
    <3>4. Line(p)' = Line(p)
      BY <1>1, <2>2, <2>3, <3>2, <3>3, ConcatAssociative
    <3>5. Elements(Append(w, h)) = Elements(w) \cup {h}
      BY <1>1, <2>2, AppendUnique
    <3> QED BY <1>3, <2>1, <2>4, <3>1, <3>4, <3>5 DEF m
  <2> QED BY <2>5, <2>6
<1> QED BY <1>4, <1>5, <1>6
\* A window that goes takes its messages with it, a process all it has.
LEMMA EndKeepsLine ==
    ASSUME ShapeInv, QueuesInv, OnceInv, NEW p \in Processes, LineOf(p),
           CloseWindow(p) \/ DestroyWindowObject(p) \/ CloseMutex(p) \/ Kill(p)
    PROVE  LineOf(p)'
<1>1. /\ posted'[p] = <<>> /\ UNCHANGED accepted
      /\ main'[p] \in {"loop", "unlock", "gone"} /\ ~handle'[p]
  BY DEF CloseWindow, DestroyWindowObject, CloseMutex, Kill, Forget, GoTo, mainVars,
     QueuesInv, ShapeInv
<1>2. ~Opening(p)'
  BY <1>1 DEF Opening
<1>3. Elements(Line(p))' \subseteq Elements(Order(p))' /\ Ordered(Line(p), Order(p))'
  <2> DEFINE d == delivered[p]
             w == pending[p]
             m == posted[p]
  <2>1. d \in Seq(Processes) /\ w \in Seq(Processes) /\ m \in Seq(Processes)
    BY DEF QueuesInv
  <2>2. Order(p)' = Order(p)
    BY <1>1 DEF Order
  <2>3. ASSUME NEW s \in Seq(Processes), NEW u \in Seq(Processes),
               Line(p) = s \o u, Line(p)' = s
        PROVE  Elements(Line(p))' \subseteq Elements(Order(p))' /\ Ordered(Line(p), Order(p))'
    <3>1. Elements(s) \subseteq Elements(Order(p))
      BY <2>3, ElementsOfConcat DEF LineOf
    <3>2. Ordered(s, Order(p))
      BY <2>3, OrderedStart DEF LineOf
    <3> QED BY <2>2, <2>3, <3>1, <3>2
  <2>4. CASE CloseWindow(p) \/ DestroyWindowObject(p)
    <3>1. ready' = ready /\ pending'[p] = w /\ delivered'[p] = d
      BY <2>4 DEF CloseWindow, DestroyWindowObject
    <3>2. CASE ready[p]
      <4>1. Line(p) = d \o m /\ Line(p)' = d \o <<>>
        BY <1>1, <3>1, <3>2 DEF Line
      <4> HIDE DEF d, w, m
      <4> QED BY <2>1, <2>3, <4>1, ConcatEmptySeq
    <3>3. CASE ~ready[p]
      <4>1. Line(p) = d \o (w \o m) /\ Line(p)' = d \o (w \o <<>>)
        BY <1>1, <3>1, <3>3 DEF Line
      <4> HIDE DEF d, w, m
      <4>2. Line(p) = (d \o w) \o m /\ Line(p)' = d \o w /\ d \o w \in Seq(Processes)
        BY <2>1, <4>1, ConcatEmptySeq, ConcatAssociative, ConcatProperties
      <4> QED BY <2>1, <2>3, <4>2
    <3> QED BY <3>2, <3>3
  <2>5. CASE CloseMutex(p) \/ Kill(p)
    <3>1. pending'[p] = <<>> /\ delivered'[p] = <<>>
      BY <2>5 DEF CloseMutex, Kill, Forget, QueuesInv
    <3>2. Line(p)' = <<>>
      BY <1>1, <3>1 DEF Line
    <3> QED BY <3>2 DEF Elements, Ordered
  <2> QED BY <2>4, <2>5
<1> QED BY <1>1, <1>2, <1>3 DEF LineOf

\* What is accepted joins the line, or is refused by the system.
LEMMA AcceptKeepsLine ==
    ASSUME ShapeInv, QueuesInv, PipeInv, OnceInv, NEW p \in Processes, LineOf(p),
           AppendPending(p) \/ PostActivation(p)
    PROVE  LineOf(p)'
<1> DEFINE c == pipe.client
           d == delivered[p]
           w == pending[p]
           m == posted[p]
           a == accepted[p]
<1>1. /\ d \in Seq(Processes) /\ w \in Seq(Processes) /\ m \in Seq(Processes)
      /\ a \in Seq(Processes)
  BY DEF QueuesInv
<1>2. /\ accepted'[p] = Append(a, c) /\ listener'[p] = "flush"
      /\ UNCHANGED <<main, handle, ready, delivered>>
  BY DEF AppendPending, PostActivation, Accept, Listen, mainVars, windowVars, ShapeInv,
     QueuesInv
<1>3. c \in Processes /\ c # p /\ c \notin Elements(a)
  <2>1. listener[p] \in {"append", "post"} /\ pipe.server = p /\ c \in Processes \ {p}
    BY DEF AppendPending, PostActivation, PipeInv, Serving, Handling
  <2> QED BY <2>1 DEF OnceInv
<1>4. /\ Order(p) \in Seq(Processes) /\ Unique(Order(p))
      /\ Elements(Order(p)) = {p} \cup Elements(a)
  BY OrderIs
<1>5. Order(p)' = Append(Order(p), c)
  <2>1. Order(p)' = <<p>> \o Append(a, c) /\ Order(p) = <<p>> \o a
    BY <1>2 DEF Order
  <2>2. <<p>> \in Seq(Processes) /\ <<c>> \in Seq(Processes)
    BY <1>3
  <2> HIDE DEF a, c
  <2>3. Append(a, c) = a \o <<c>> /\ Append(Order(p), c) = Order(p) \o <<c>>
    BY <1>1, <1>3, <1>4, AppendIsConcat
  <2> QED BY <1>1, <2>1, <2>2, <2>3, ConcatAssociative
<1>6. Line(p) \in Seq(Processes)
  BY <1>1, ConcatProperties DEF Line
<1>7. Line(p)' = Line(p) \/ Line(p)' = Append(Line(p), c)
  <2>1. CASE AppendPending(p)
    <3>1. pending'[p] = Append(w, c) /\ posted' = posted /\ m = <<>>
      BY <2>1 DEF AppendPending, QueuesInv, LineOf
    <3>2. CASE ready[p]
      BY <1>2, <3>1, <3>2 DEF Line
    <3>3. CASE ~ready[p]
      <4>1. Line(p) = d \o (w \o <<>>) /\ Line(p)' = d \o (Append(w, c) \o <<>>)
        BY <1>2, <3>1, <3>3 DEF Line
      <4> HIDE DEF d, w, m, c
      <4>2. Append(w, c) \in Seq(Processes) /\ Append(w, c) = w \o <<c>>
        BY <1>1, <1>3, AppendProperties, AppendIsConcat
      <4>3. Line(p) = d \o w /\ Line(p)' = d \o (w \o <<c>>)
        BY <1>1, <4>1, <4>2, ConcatEmptySeq
      <4>4. <<c>> \in Seq(Processes)
        BY <1>3
      <4>5. Line(p)' = Line(p) \o <<c>>
        BY <1>1, <4>3, <4>4, ConcatAssociative
      <4> QED BY <1>3, <1>6, <4>5, AppendIsConcat
    <3> QED BY <3>2, <3>3
  <2>2. CASE PostActivation(p)
    <3>1. /\ posted'[p] = m \/ posted'[p] = Append(m, c)
          /\ pending' = pending
      BY <2>2 DEF PostActivation, QueuesInv
    <3>2. CASE posted'[p] = m
      BY <1>2, <3>1, <3>2 DEF Line
    <3>3. CASE posted'[p] = Append(m, c)
      <4>1. \/ Line(p) = d \o m /\ Line(p)' = d \o Append(m, c)
            \/ Line(p) = d \o (w \o m) /\ Line(p)' = d \o (w \o Append(m, c))
        BY <1>2, <3>1, <3>3 DEF Line
      <4> HIDE DEF d, w, m, c
      <4>2. Append(m, c) = m \o <<c>> /\ <<c>> \in Seq(Processes)
        BY <1>1, <1>3, AppendIsConcat
      <4>3. w \o m \in Seq(Processes)
        BY <1>1, ConcatProperties
      <4>4. Line(p)' = Line(p) \o <<c>>
        <5>1. CASE Line(p) = d \o m /\ Line(p)' = d \o Append(m, c)
          BY <1>1, <4>2, <5>1, ConcatAssociative
        <5>2. CASE Line(p) = d \o (w \o m) /\ Line(p)' = d \o (w \o Append(m, c))
          <6>1. w \o Append(m, c) = (w \o m) \o <<c>>
            BY <1>1, <4>2, ConcatAssociative
          <6> QED BY <1>1, <4>2, <4>3, <5>2, <6>1, ConcatAssociative
        <5> QED BY <4>1, <5>1, <5>2
      <4> QED BY <1>3, <1>6, <4>4, AppendIsConcat
    <3> QED BY <3>1, <3>2, <3>3
  <2> QED BY <2>1, <2>2
<1>8. Elements(Line(p))' \subseteq Elements(Order(p))' /\ Ordered(Line(p), Order(p))'
  <2> DEFINE line == Line(p)
             order == Order(p)
  <2>1. /\ line \in Seq(Processes) /\ order \in Seq(Processes) /\ Unique(order)
        /\ Elements(line) \subseteq Elements(order) /\ Ordered(line, order)
        /\ c \in Processes /\ c \notin Elements(order)
    BY <1>3, <1>4, <1>6 DEF LineOf
  <2> HIDE DEF c, line, order
  <2>2. Ordered(line, Append(order, c)) /\ Ordered(Append(line, c), Append(order, c))
    BY <2>1, OrderGrows
  <2>3. /\ Elements(Append(order, c)) = Elements(order) \cup {c}
        /\ Elements(Append(line, c)) = Elements(line) \cup {c}
    BY <2>1, AppendUnique
  <2>4. \/ Line(p)' = line
        \/ Line(p)' = Append(line, c)
    BY <1>7 DEF line
  <2>5. Order(p)' = Append(order, c)
    BY <1>5 DEF order
  <2> QED BY <2>1, <2>2, <2>3, <2>4, <2>5
<1>9. (Opening(p) => Elements(accepted[p]) \subseteq
           Elements(delivered[p]) \cup Elements(pending[p])
           \cup Elements(posted[p]) \cup lost)'
  <2>1. Opening(p)' => Opening(p)
    BY <1>2 DEF Opening
  <2>2. Elements(Append(a, c)) = Elements(a) \cup {c}
    BY <1>1, <1>3, AppendUnique
  <2>3. \/ pending'[p] = Append(w, c) /\ posted'[p] = m /\ lost' = lost
        \/ pending'[p] = w /\ posted'[p] = Append(m, c) /\ lost' = lost
        \/ pending'[p] = w /\ posted'[p] = m /\ lost' = lost \cup {c}
    BY DEF AppendPending, PostActivation, QueuesInv
  <2>4. /\ Elements(Append(w, c)) = Elements(w) \cup {c}
        /\ Elements(Append(m, c)) = Elements(m) \cup {c}
    BY <1>1, <1>3, AppendUnique
  <2>5. Opening(p) => Elements(a) \subseteq
            Elements(d) \cup Elements(w) \cup Elements(m) \cup lost
    BY DEF LineOf
  <2>6. accepted'[p] = Append(a, c) /\ delivered'[p] = d
    BY <1>2
  <2> HIDE DEF a, c, d, w, m
  <2> QED BY <2>1, <2>2, <2>3, <2>4, <2>5, <2>6
<1>10. (~handle[p] \/ listener[p] = "append" => posted[p] = <<>>)'
  <2>1. CASE ~handle[p]
    BY <1>2, <2>1 DEF AppendPending, PostActivation, LineOf
  <2>2. CASE handle[p]
    BY <1>2, <2>2
  <2> QED BY <2>1, <2>2
<1> QED BY <1>8, <1>9, <1>10 DEF LineOf

LEMMA LinesHold ==
    ASSUME ShapeInv, QueuesInv, StageInv, PipeInv, OnceInv, LineInv, Next PROVE LineInv'
<1> SUFFICES ASSUME NEW q \in Processes PROVE LineOf(q)'
  BY DEF LineInv
<1>1. LineOf(q)
  BY DEF LineInv
<1>2. ASSUME NEW p \in Processes, MovesNone(p) PROVE LineOf(q)'
  BY <1>1, <1>2, MovesNoneIsAlone, AloneKeepsLine
<1>3. ASSUME NEW p \in Processes,
             \/ TakeInitialActivations(p) \/ ActivationReady(p)
             \/ HandleActivationMessage(p) \/ CloseWindow(p) \/ DestroyWindowObject(p)
             \/ CloseMutex(p) \/ Kill(p) \/ AppendPending(p) \/ PostActivation(p)
      PROVE  LineOf(q)'
  <2>1. CASE q # p
    BY <1>1, <1>3, <2>1, OthersAlone, AloneKeepsLine
  <2>2. CASE q = p
    BY <1>1, <1>3, <2>2, MoveKeepsLine, EndKeepsLine, AcceptKeepsLine
  <2> QED BY <2>1, <2>2
<1> QED BY <1>2, <1>3 DEF Next, MovesNone, ListenerStep

LEMMA StepKeepsKeptInv == GuardInv /\ KeptInv /\ [Next]_vars => KeptInv'
<1>1. ASSUME GuardInv, KeptInv, Next PROVE KeptInv'
  BY <1>1, ShapeHolds, QueuesHold, StagesHold, PipeHolds, LinesHold DEF KeptInv, GuardInv
<1>2. ASSUME KeptInv, UNCHANGED vars PROVE KeptInv'
  <2>1. UNCHANGED <<main, role, outcome, pipe, listener, stopping, handle, ready>>
    BY <1>2 DEF vars, mainVars, pipeVars, windowVars
  <2>2. UNCHANGED <<pending, posted, delivered, accepted, lost>>
    BY <1>2 DEF vars, queueVars
  <2>3. ShapeInv' /\ QueuesInv' /\ StageInv'
    BY <1>2, <2>1, <2>2 DEF KeptInv, ShapeInv, QueuesInv, StageInv
  <2>4. PipeInv' /\ OnceInv'
    <3>1. PipeAlone
      BY <2>1, <2>2 DEF PipeAlone
    <3> QED BY <1>2, <3>1, AloneKeepsPipe, AloneKeepsOnce DEF KeptInv
  <2>5. ASSUME NEW q \in Processes PROVE LineOf(q)'
    <3>1. LineAlone(q)
      BY <2>1, <2>2 DEF LineAlone, Opening
    <3> QED BY <1>2, <3>1, AloneKeepsLine DEF KeptInv, LineInv
  <2> QED BY <2>3, <2>4, <2>5 DEF KeptInv, LineInv
<1> QED BY <1>1, <1>2

LEMMA KeptInvKeeps == ASSUME KeptInv PROVE AcceptedKept
<1>1. ASSUME NEW p \in Processes, main[p] = "loop", handle[p]
      PROVE  /\ Elements(accepted[p]) \subseteq
                    Elements(delivered[p]) \cup Elements(pending[p])
                    \cup Elements(posted[p]) \cup lost
             /\ Ordered(delivered[p], Order(p))
  <2>1. LineOf(p)
    BY DEF KeptInv, LineInv
  <2>2. /\ delivered[p] \in Seq(Processes) /\ posted[p] \in Seq(Processes)
        /\ pending[p] \o posted[p] \in Seq(Processes)
    BY ConcatProperties DEF KeptInv, QueuesInv
  <2>3. Ordered(delivered[p], Order(p))
    BY <2>1, <2>2, OrderedStart DEF LineOf, Line
  <2> QED BY <1>1, <2>1, <2>3 DEF LineOf, Opening
<1> QED BY <1>1 DEF AcceptedKept, KeptInv, OnceInv, Ordered, Order

\* No acknowledged activation is lost on the way to Dart but by the system, and
\* Dart gets them in the order of the acknowledgments, whatever is launched,
\* closed or killed meanwhile.  (QueueActivation, ActivationReady, ListenLoop)
THEOREM AcceptedReachDart == Spec => []AcceptedKept
<1> DEFINE Inv == GuardInv /\ KeptInv
<1>1. Init => Inv
  BY InitGuardInv, InitKeptInv
<1>2. Inv /\ [Next]_vars => Inv'
  BY StepKeepsGuardInv, StepKeepsKeptInv
<1>3. Inv => AcceptedKept
  BY KeptInvKeeps
<1> QED BY <1>1, <1>2, <1>3, PTL DEF Spec
------------------------------------------------------------------------------
(* The notification icon.                                                  *)

\* An icon is retained only while Dart wants one, and every handle that was
\* leaked cost a trouble, so that there is a handle to load.
OwnedInv ==
    /\ IconsOwned
    /\ icon # NoIcon => active
    /\ Tray!Owned \subseteq Icons /\ leaked \subseteq Icons
    /\ IsFiniteSet(leaked) /\ Cardinality(leaked) <= troubles
    /\ troubles \in 0..MaxTroubles

LEMMA InitOwnedInv == Tray!Init => OwnedInv
<1> SUFFICES ASSUME Tray!Init PROVE OwnedInv
  OBVIOUS
<1>1. leaked = {} /\ live = {} /\ icon = NoIcon /\ ~available /\ troubles = 0
  BY DEF Tray!Init
<1>2. IsFiniteSet(leaked) /\ Cardinality(leaked) = 0
  BY <1>1, FS_EmptySet
<1> QED BY <1>1, <1>2, IconsAssumption DEF OwnedInv, IconsOwned, Tray!IconsOwned,
        Tray!Owned

LEMMA HandleLeft ==
    ASSUME OwnedInv PROVE \E new \in Icons : new \notin live
<1>1. SUFFICES ASSUME Icons \subseteq live PROVE FALSE
  OBVIOUS
<1>2. Icons \subseteq leaked \cup {icon}
  BY <1>1 DEF OwnedInv, IconsOwned, Tray!IconsOwned, Tray!Owned
<1>3. IsFiniteSet(leaked \cup {icon}) /\ Cardinality(leaked \cup {icon}) <= Cardinality(leaked) + 1
  BY FS_AddElement, FS_CardinalityType DEF OwnedInv
<1>4. Cardinality(Icons) <= Cardinality(leaked \cup {icon})
  BY <1>2, <1>3, FS_Subset
<1>5. Cardinality(leaked) \in Nat /\ Cardinality(leaked \cup {icon}) \in Nat
      /\ Cardinality(Icons) \in Nat
  BY <1>3, FS_CardinalityType, IconsAssumption DEF OwnedInv
<1> QED BY <1>3, <1>4, <1>5, IconsAssumption DEF OwnedInv

\* What becomes of the handles when old ones are destroyed, or refused.
LEMMA ReleaseCounts ==
    ASSUME OwnedInv, NEW old, NEW loaded, Tray!Release(old, loaded),
           old = {} \/ \E i \in Icons : old = {i}
    PROVE  /\ IsFiniteSet(leaked') /\ Cardinality(leaked') <= troubles'
           /\ troubles' \in 0..MaxTroubles
           /\ leaked' \subseteq leaked \cup old
           /\ \/ live' = (live \cup loaded) \ old /\ leaked' = leaked
              \/ old # {} /\ live' = live \cup loaded /\ leaked' = leaked \cup old
<1>1. CASE live' = (live \cup loaded) \ old /\ UNCHANGED <<leaked, troubles>>
  BY <1>1 DEF OwnedInv
<1>2. CASE /\ old # {} /\ troubles < MaxTroubles /\ troubles' = troubles + 1
           /\ live' = live \cup loaded /\ leaked' = leaked \cup old
  <2>1. PICK i \in Icons : old = {i}
    BY <1>2
  <2>2. /\ IsFiniteSet(leaked \cup {i})
        /\ Cardinality(leaked \cup {i}) <= Cardinality(leaked) + 1
    BY FS_AddElement, FS_CardinalityType DEF OwnedInv
  <2>3. Cardinality(leaked) \in Nat /\ Cardinality(leaked \cup {i}) \in Nat
    BY <2>2, FS_CardinalityType DEF OwnedInv
  <2> QED BY <1>2, <2>1, <2>2, <2>3, IconsAssumption DEF OwnedInv
<1> QED BY <1>1, <1>2 DEF Tray!Release, Tray!Trouble, Tray!NoTrouble

\* The handles after an operation: the icon and what was leaked, apart.
Kept ==
    /\ live' = (({icon'} \ {NoIcon}) \cup leaked') /\ ({icon'} \ {NoIcon}) \cap leaked' = {}
    /\ {icon'} \ {NoIcon} \subseteq Icons /\ leaked' \subseteq Icons
    /\ IsFiniteSet(leaked') /\ Cardinality(leaked') <= troubles'
    /\ troubles' \in 0..MaxTroubles
    /\ available' => icon' # NoIcon
    /\ available' /\ ~shown' => available /\ ~shown

LEMMA InstallKeeps ==
    ASSUME OwnedInv, NEW new \in Icons, NEW owned \in BOOLEAN, NEW done \in BOOLEAN,
           Tray!Install(new, owned, done),
           IF owned THEN new \notin live ELSE new = icon
    PROVE  /\ Kept
           /\ icon' = icon \/ icon' = new
           /\ owned /\ icon' # icon /\ icon = NoIcon => done
           /\ available' => shown'
<1> USE DEF OwnedInv, IconsOwned, Tray!IconsOwned, Tray!Owned
<1>1. CASE /\ Tray!CanAdd /\ shown' = TRUE /\ available' = TRUE /\ icon' = new
           /\ Tray!Release(IF owned THEN Tray!Owned \ {new} ELSE {}, {new})
           /\ done = (leaked' = leaked)
  <2> DEFINE old == IF owned THEN Tray!Owned \ {new} ELSE {}
  <2>1. old = {} \/ \E i \in Icons : old = {i}
    OBVIOUS
  <2>2. /\ IsFiniteSet(leaked') /\ Cardinality(leaked') <= troubles'
        /\ troubles' \in 0..MaxTroubles /\ leaked' \subseteq leaked \cup old
        /\ \/ live' = (live \cup {new}) \ old /\ leaked' = leaked
           \/ old # {} /\ live' = live \cup {new} /\ leaked' = leaked \cup old
    <3> HIDE DEF old, OwnedInv
    <3>1. Tray!Release(old, {new})
      BY <1>1 DEF old
    <3> QED BY <2>1, <3>1, ReleaseCounts
  <2>3. CASE owned
    BY <1>1, <2>2, <2>3, IconsAssumption DEF Kept
  <2>4. CASE ~owned
    BY <1>1, <2>2, <2>4, IconsAssumption DEF Kept
  <2> QED BY <2>3, <2>4
<1>2. CASE /\ ~Tray!CanAdd /\ available' = FALSE /\ UNCHANGED <<shown, icon>>
           /\ Tray!Release(IF owned THEN {new} ELSE {}, {new})
  <2> DEFINE old == IF owned THEN {new} ELSE {}
  <2>1. old = {} \/ \E i \in Icons : old = {i}
    OBVIOUS
  <2>2. /\ IsFiniteSet(leaked') /\ Cardinality(leaked') <= troubles'
        /\ troubles' \in 0..MaxTroubles /\ leaked' \subseteq leaked \cup old
        /\ \/ live' = (live \cup {new}) \ old /\ leaked' = leaked
           \/ old # {} /\ live' = live \cup {new} /\ leaked' = leaked \cup old
    <3> HIDE DEF old, OwnedInv
    <3>1. Tray!Release(old, {new})
      BY <1>2 DEF old
    <3> QED BY <2>1, <3>1, ReleaseCounts
  <2> QED BY <1>2, <2>2, IconsAssumption DEF Kept
<1>3. CASE /\ Tray!Trouble /\ available' = FALSE /\ UNCHANGED <<icon, leaked>>
           /\ live' = IF owned THEN live ELSE live \cup {new}
  <2>1. Cardinality(leaked) \in Nat
    BY FS_CardinalityType
  <2> QED BY <1>3, <2>1, IconsAssumption DEF Kept, Tray!Trouble
<1> QED BY <1>1, <1>2, <1>3 DEF Tray!Install

LEMMA ReplaceKeeps ==
    ASSUME OwnedInv, NEW new \in Icons, NEW done \in BOOLEAN, Tray!Replace(new, done),
           new \notin live, available
    PROVE  Kept /\ icon # NoIcon
<1> USE DEF OwnedInv, IconsOwned, Tray!IconsOwned, Tray!Owned
<1>1. /\ Tray!Owned = {} \/ \E i \in Icons : Tray!Owned = {i}
      /\ {new} = {} \/ \E i \in Icons : {new} = {i}
  OBVIOUS
<1>2. ASSUME NEW old, old = Tray!Owned \/ old = {new}, Tray!Release(old, {new})
      PROVE  /\ IsFiniteSet(leaked') /\ Cardinality(leaked') <= troubles'
             /\ troubles' \in 0..MaxTroubles /\ leaked' \subseteq leaked \cup old
             /\ \/ live' = (live \cup {new}) \ old /\ leaked' = leaked
                \/ old # {} /\ live' = live \cup {new} /\ leaked' = leaked \cup old
  <2>1. old = {} \/ \E i \in Icons : old = {i}
    BY <1>1, <1>2
  <2> HIDE DEF OwnedInv
  <2> QED BY <1>2, <2>1, ReleaseCounts
<1>3. CASE /\ Tray!CanModify /\ icon' = new /\ UNCHANGED <<shown, available>>
           /\ Tray!Release(Tray!Owned, {new})
  BY <1>2, <1>3, IconsAssumption DEF Kept
<1>4. CASE UNCHANGED <<icon, shown, available>> /\ Tray!Release({new}, {new})
  BY <1>2, <1>4, IconsAssumption DEF Kept
<1> QED BY <1>3, <1>4 DEF Tray!Replace
LEMMA KeptIsOwned ==
    ASSUME Kept, icon' # NoIcon => active',
           available' /\ explorer' /\ ~taskbar' => shown'
    PROVE  OwnedInv'
BY DEF Kept, OwnedInv, IconsOwned, Tray!IconsOwned, Tray!Owned

\* A step that leaves the handles alone may cost a trouble.
LEMMA UntouchedKept ==
    ASSUME OwnedInv, UNCHANGED <<icon, live, leaked, available>>,
           UNCHANGED troubles \/ Tray!Trouble,
           shown' = shown \/ shown' = TRUE \/ ~available
    PROVE  Kept
<1>1. Cardinality(leaked) \in Nat
  BY FS_CardinalityType DEF OwnedInv
<1>2. Cardinality(leaked) <= troubles' /\ troubles' \in 0..MaxTroubles
  BY <1>1, IconsAssumption DEF OwnedInv, Tray!Trouble
<1> QED BY <1>2 DEF Kept, OwnedInv, IconsOwned, Tray!IconsOwned, Tray!Owned

LEMMA SetIconKeeps ==
    ASSUME OwnedInv, NEW done \in BOOLEAN, Tray!SetIcon(done),
           UNCHANGED <<explorer, taskbar>>
    PROVE  OwnedInv'
<1>1. CASE Tray!Trouble /\ UNCHANGED <<icon, live, leaked, available, shown>>
  <2>1. Kept
    BY <1>1, UntouchedKept
  <2> QED BY <1>1, <2>1, KeptIsOwned DEF Tray!SetIcon, OwnedInv, IconsOwned,
          Tray!IconsOwned
<1>2. ASSUME NEW new, new = (CHOOSE i \in Icons \ live : TRUE),
             IF available THEN Tray!Replace(new, done) ELSE Tray!Install(new, TRUE, done)
      PROVE  OwnedInv'
  <2>1. new \in Icons /\ new \notin live
    <3>1. \E i : i \in Icons \ live
      BY HandleLeft
    <3> QED BY <1>2, <3>1
  <2>2. active' = (active \/ done)
    BY DEF Tray!SetIcon
  <2>3. CASE available
    <3>1. Kept /\ icon # NoIcon
      BY <1>2, <2>1, <2>3, ReplaceKeeps
    <3> QED BY <2>2, <3>1, KeptIsOwned DEF Kept, OwnedInv, IconsOwned, Tray!IconsOwned
  <2>4. CASE ~available
    <3>1. /\ Kept /\ (icon' = icon \/ icon' = new)
          /\ icon' # icon /\ icon = NoIcon => done
          /\ available' => shown'
      BY <1>2, <2>1, <2>4, InstallKeeps
    <3> QED BY <2>2, <3>1, KeptIsOwned DEF OwnedInv
  <2> QED BY <2>3, <2>4
<1> QED BY <1>1, <1>2 DEF Tray!SetIcon

LEMMA DestroyKeeps ==
    ASSUME OwnedInv, NEW done, Tray!Destroy(done)
    PROVE  OwnedInv'
<1>1. Tray!Owned = {} \/ \E i \in Icons : Tray!Owned = {i}
  BY DEF OwnedInv, Tray!Owned
<1>2. Tray!Release(Tray!Owned, {})
  BY DEF Tray!Destroy
<1>3. /\ IsFiniteSet(leaked') /\ Cardinality(leaked') <= troubles'
      /\ troubles' \in 0..MaxTroubles /\ leaked' \subseteq leaked \cup Tray!Owned
      /\ \/ live' = (live \cup {}) \ Tray!Owned /\ leaked' = leaked
         \/ live' = live \cup {} /\ leaked' = leaked \cup Tray!Owned
  BY <1>1, <1>2, ReleaseCounts
<1>4. available' = FALSE /\ icon' = NoIcon
  BY DEF Tray!Destroy
<1>5. Kept
  BY <1>3, <1>4 DEF Kept, OwnedInv, IconsOwned, Tray!IconsOwned, Tray!Owned
<1> QED BY <1>4, <1>5, KeptIsOwned

LEMMA TaskbarCreatedKeeps ==
    ASSUME OwnedInv, Tray!TaskbarCreated PROVE OwnedInv'
<1>1. /\ explorer' = explorer /\ taskbar' = FALSE
      /\ \E done \in BOOLEAN :
           IF active THEN Tray!Recover(done) /\ UNCHANGED active
           ELSE UNCHANGED <<icon, live, leaked, available, active, shown, troubles>>
  BY DEF Tray!TaskbarCreated, Tray!iconVars
<1>2. PICK done \in BOOLEAN :
           IF active THEN Tray!Recover(done) /\ UNCHANGED active
           ELSE UNCHANGED <<icon, live, leaked, available, active, shown, troubles>>
  BY <1>1
<1>3. CASE active /\ icon = NoIcon
  <2>1. /\ UNCHANGED <<icon, live, leaked, shown, troubles>> /\ available' = FALSE
        /\ ~available
    BY <1>2, <1>3 DEF Tray!Recover, Tray!NoTrouble, OwnedInv, IconsOwned,
       Tray!IconsOwned
  <2>2. Kept
    BY <2>1 DEF Kept, OwnedInv, IconsOwned, Tray!IconsOwned, Tray!Owned
  <2> QED BY <1>3, <2>1, <2>2, KeptIsOwned
<1>4. CASE active /\ icon # NoIcon
  <2>1. Tray!Install(icon, FALSE, done) /\ icon \in Icons
    BY <1>2, <1>4 DEF Tray!Recover, OwnedInv, Tray!Owned
  <2>2. Kept /\ icon' = icon /\ (available' => shown')
    BY <2>1, InstallKeeps
  <2> QED BY <1>2, <1>4, <2>2, KeptIsOwned
<1>5. CASE ~active
  <2>1. UNCHANGED <<icon, live, leaked, available, active, shown, troubles>>
    BY <1>2, <1>5
  <2>2. Kept
    BY <2>1, UntouchedKept
  <2> QED BY <1>5, <2>1, <2>2, KeptIsOwned DEF OwnedInv, IconsOwned, Tray!IconsOwned
<1> QED BY <1>3, <1>4, <1>5
LEMMA ProcessEndsKeeps ==
    ASSUME OwnedInv, Tray!ProcessEnds PROVE OwnedInv'
<1>1. /\ icon' = NoIcon /\ live' = {} /\ leaked' = {} /\ available' = FALSE
      /\ troubles' = troubles
  BY DEF Tray!ProcessEnds
<1>2. IsFiniteSet({}) /\ Cardinality({}) = 0
  BY FS_EmptySet
<1>3. Kept
  BY <1>1, <1>2, IconsAssumption DEF Kept, OwnedInv
<1> QED BY <1>1, <1>3, KeptIsOwned

LEMMA HandleCallKeeps ==
    ASSUME OwnedInv, Tray!HandleCall PROVE OwnedInv'
<1>1. UNCHANGED <<explorer, taskbar>>
  BY DEF Tray!HandleCall
<1> DEFINE call == Head(toNative).call
<1>2. PICK done \in BOOLEAN :
           IF call \in {"setIcon", "setMenu", "setToolTip", "destroy"}
           THEN Tray!TrayCall(call, done) ELSE Tray!WindowCall(call, done)
  BY DEF Tray!HandleCall
<1> HIDE DEF call
<1>3. CASE Tray!SetIcon(done)
  BY <1>1, <1>3, SetIconKeeps
<1>4. CASE Tray!Destroy(done)
  BY <1>4, DestroyKeeps
<1>5. CASE Tray!SetMenu(done) \/ Tray!SetTooltip(done) \/ Tray!WindowCall(call, done)
  <2>1. /\ UNCHANGED <<icon, live, leaked, available, active, shown>>
        /\ UNCHANGED troubles \/ Tray!Trouble
    BY <1>5 DEF Tray!SetMenu, Tray!SetTooltip, Tray!WindowCall, Tray!iconVars,
       Tray!NoTrouble
  <2>2. Kept
    BY <2>1, UntouchedKept
  <2> QED BY <1>1, <2>1, <2>2, KeptIsOwned DEF OwnedInv, IconsOwned, Tray!IconsOwned
<1> QED BY <1>2, <1>3, <1>4, <1>5 DEF Tray!TrayCall

\* Dart, the user and the Explorer leave the handles alone.
LEMMA FrameKeeps ==
    ASSUME OwnedInv,
           UNCHANGED <<icon, live, leaked, available, active>>,
           UNCHANGED troubles \/ Tray!Trouble,
           \/ UNCHANGED <<explorer, taskbar, shown>>
           \/ explorer' = FALSE /\ shown' = FALSE
           \/ taskbar' = TRUE /\ UNCHANGED shown
    PROVE  OwnedInv'
<1>1. Cardinality(leaked) \in Nat
  BY FS_CardinalityType DEF OwnedInv
<1>2. Cardinality(leaked) <= troubles' /\ troubles' \in 0..MaxTroubles
  BY <1>1, IconsAssumption DEF OwnedInv, Tray!Trouble
<1> QED BY <1>2 DEF OwnedInv, IconsOwned, Tray!IconsOwned, Tray!Owned

LEMMA FlowTroubles ==
    ASSUME Tray!DartReceives \/ Tray!Configure \/ Tray!Synchronized
    PROVE  UNCHANGED troubles \/ Tray!Trouble
<1>1. ASSUME NEW f, Tray!Refresh(f)
      PROVE  UNCHANGED troubles \/ Tray!Trouble
  BY <1>1 DEF Tray!Refresh, Tray!NoTrouble
<1>2. CASE Tray!Configure
  BY <1>1, <1>2 DEF Tray!Configure
<1>3. CASE Tray!DartReceives
  <2>1. ASSUME NEW f, Tray!Refreshed(f)
        PROVE  UNCHANGED troubles \/ Tray!Trouble
    BY <1>1, <2>1 DEF Tray!Refreshed
  <2>2. ASSUME NEW f, NEW done, Tray!Answered(f, done)
        PROVE  UNCHANGED troubles \/ Tray!Trouble
    BY <2>1, <2>2 DEF Tray!Answered, Tray!Settle, Tray!NoTrouble
  <2>3. ASSUME NEW by, NEW call, Tray!OtherAnswer(by, call)
        PROVE  UNCHANGED troubles
    BY <2>3 DEF Tray!OtherAnswer
  <2>4. ASSUME NEW n, Tray!Reported(n)
        PROVE  UNCHANGED troubles \/ Tray!Trouble
    BY <1>1, <2>4 DEF Tray!Reported
  <2>5. PICK n : CASE n.kind # "answer" /\ attached -> Tray!Reported(n)
         [] n.kind # "answer" /\ ~attached ->
                UNCHANGED <<Tray!flowVars, toNative, troubles>>
         [] OTHER -> IF n.by \in Tray!Refreshers THEN Tray!Answered(n.by, n.done)
                     ELSE Tray!OtherAnswer(n.by, n.call)
    BY <1>3 DEF Tray!DartReceives
  <2> QED BY <2>2, <2>3, <2>4, <2>5
<1>4. CASE Tray!Synchronized
  BY <1>1, <1>4 DEF Tray!Synchronized
<1> QED BY <1>2, <1>3, <1>4

LEMMA StepKeepsOwnedInv ==
    OwnedInv /\ (Tray!Next \/ UNCHANGED trayVars) => OwnedInv'
<1> SUFFICES ASSUME OwnedInv, Tray!Next \/ UNCHANGED trayVars PROVE OwnedInv'
  OBVIOUS
<1>1. CASE Tray!ExplorerEnds \/ Tray!ExplorerStarts
  <2>1. /\ UNCHANGED <<icon, live, leaked, available, active>>
        /\ UNCHANGED troubles \/ Tray!Trouble
        /\ \/ explorer' = FALSE /\ shown' = FALSE
           \/ taskbar' = TRUE /\ UNCHANGED shown
    BY <1>1 DEF Tray!ExplorerEnds, Tray!ExplorerStarts, Tray!iconVars
  <2> QED BY <2>1, FrameKeeps
<1>2. CASE Tray!TaskbarCreated
  BY <1>2, TaskbarCreatedKeeps
<1>3. CASE Tray!CloseClicked /\ hides
  <2>1. UNCHANGED <<icon, live, leaked, available, active, explorer, taskbar,
                    shown, troubles>>
    BY <1>3 DEF Tray!CloseClicked, Tray!iconVars, Tray!areaVars
  <2> QED BY <2>1, FrameKeeps
<1>4. CASE (Tray!CloseClicked /\ ~hides) \/ Tray!HandleQuit
  BY <1>4, ProcessEndsKeeps DEF Tray!CloseClicked, Tray!HandleQuit
<1>5. CASE Tray!ChangeSettings \/ Tray!Minute
  <2>1. UNCHANGED <<icon, live, leaked, available, active, explorer, taskbar,
                    shown, troubles>>
    BY <1>5 DEF Tray!ChangeSettings, Tray!Minute, Tray!iconVars, Tray!areaVars
  <2> QED BY <2>1, FrameKeeps
<1>6. CASE (\E what \in {"open", "synchronize", "quit"} : Tray!SelectCommand(what))
           \/ Tray!ShowMenu
  <2>1. /\ UNCHANGED <<icon, live, leaked, available, active, explorer, taskbar, shown>>
        /\ UNCHANGED troubles \/ Tray!Trouble
    BY <1>6 DEF Tray!SelectCommand, Tray!ShowMenu, Tray!AtIcon, Tray!iconVars,
       Tray!areaVars, Tray!NoTrouble
  <2> QED BY <2>1, FrameKeeps
<1>7. CASE Tray!HandleCall
  BY <1>7, HandleCallKeeps
<1>8. CASE Tray!Configure \/ Tray!DartReceives \/ Tray!Synchronized
  <2>1. /\ UNCHANGED <<icon, live, leaked, available, active, explorer, taskbar, shown>>
        /\ UNCHANGED troubles \/ Tray!Trouble
    BY <1>8, FlowTroubles DEF Tray!Configure, Tray!DartReceives, Tray!Synchronized,
       Tray!iconVars, Tray!areaVars
  <2> QED BY <2>1, FrameKeeps
<1>9. CASE UNCHANGED trayVars
  <2>1. UNCHANGED <<icon, live, leaked, available, active, explorer, taskbar,
                    shown, troubles>>
    BY <1>9 DEF trayVars
  <2> QED BY <2>1, FrameKeeps
<1> QED BY <1>1, <1>2, <1>3, <1>4, <1>5, <1>6, <1>7, <1>8, <1>9 DEF Tray!Next

\* Every handle of an icon that was loaded is the retained one or was given
\* back once, the icon is said to be available only while one is retained, and
\* it is shown then unless the Explorer's restart is still to be handled.
\* (Install, SetIcon, Recover, Destroy, ReleaseIcon)
THEOREM HandlesAreOwned == RunnerSpec => []IconsOwned
<1>1. RunnerInit => OwnedInv
  BY InitOwnedInv DEF RunnerInit
<1>2. OwnedInv /\ [RunnerNext]_<<vars, trayVars>> => OwnedInv'
  <2> SUFFICES ASSUME OwnedInv, [RunnerNext]_<<vars, trayVars>> PROVE OwnedInv'
    OBVIOUS
  <2>1. Tray!Next \/ UNCHANGED trayVars
    BY DEF RunnerNext
  <2> QED BY <2>1, StepKeepsOwnedInv
<1>3. OwnedInv => IconsOwned
  BY DEF OwnedInv
<1> QED BY <1>1, <1>2, <1>3, PTL DEF RunnerSpec
=============================================================================
