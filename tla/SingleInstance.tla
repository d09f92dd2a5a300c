--------------------------- MODULE SingleInstance ----------------------------
(***************************************************************************)
(* The single-instance guard of the Windows runner: the named mutex that    *)
(* elects the primary process of a user, the named pipe over which a later  *)
(* process hands it its activation, the thread that listens on the pipe,    *)
(* and the window that keeps an accepted activation until Dart takes it     *)
(* (windows/runner/single_instance.cpp, main.cpp, flutter_window.cpp,       *)
(* win32_window.cpp).                                                       *)
(*                                                                         *)
(* The processes are those of one logon session: the name of the mutex is    *)
(* local to the session, and another session of the same user elects its    *)
(* own primary.                                                             *)
(* A process is launched once and its activation is named by the process.  *)
(* The pipe has one instance at most, as the code asks for.                 *)
(***************************************************************************)
EXTENDS Naturals, Sequences, FiniteSets

CONSTANTS
    Processes,    \* launches of BusyMax in one logon session
    Toasts,       \* those Windows starts for the click on a notification
    NoProcess,    \* nobody
    MaxFaults,    \* bound: calls of the system that fail, processes killed
    MaxCrowd      \* bound: launches in a behavior in which one of them fails

ASSUME InstanceAssumption ==
    /\ Toasts \subseteq Processes
    /\ NoProcess \notin Processes
    /\ MaxFaults \in Nat /\ MaxCrowd \in Nat

VARIABLES
    main,        \* where the main thread of a process is
    role,        \* state_: what the guard found the process to be
    outcome,     \* what the process has come to
    mutex,       \* the processes that hold a handle of the named mutex
    pipe,        \* the instance of the named pipe, or NoPipe
    listener,    \* where the listener thread is
    stopping,    \* stopping_
    started,     \* listener_start_complete_ and listener_start_succeeded_
    handle,      \* window_handle_ is set
    engine,      \* the Flutter engine of the window runs
    quit,        \* WM_QUIT is in the message queue of the main thread
    ready,       \* activation_ready_
    pending,     \* pending_activations_
    posted,      \* kActivationMessage messages in the window's queue
    delivered,   \* activations Dart received, in order
    accepted,    \* the processes whose activation was acknowledged, in order
    lost,        \* acknowledged activations that no queue took
    faults

mainVars == <<main, role, outcome, mutex>>
pipeVars == <<pipe, listener, stopping, started>>
windowVars == <<handle, engine, quit, ready>>
queueVars == <<pending, posted, delivered, accepted, lost>>
vars == <<mainVars, pipeVars, windowVars, queueVars, faults>>

NoPipe == [server |-> NoProcess, client |-> NoProcess,
           wrote |-> FALSE, said |-> "nothing", left |-> FALSE]

Listening(p) == [NoPipe EXCEPT !.server = p]
PipeOpen == pipe.server # NoProcess

\* The client end that q holds is still connected to the server.
Connected(q) == PipeOpen /\ pipe.client = q /\ ~pipe.left

Forwarding == {"connect", "write", "await"}
Stopping == {"stop", "cancel", "join"}
MainSteps == {"off", "start", "create", "loop", "dart", "report", "leave",
              "unlock", "gone"} \cup Forwarding \cup Stopping
ListenerSteps == {"none", "create", "check", "accept", "read", "append", "post",
                  "flush", "reopen", "warn", "ended"}

(* Only the primary runs providers and opens the database, in the engine   *)
(* of its window; the forwarder of a notification runs an engine without.  *)
OpensData(p) == engine[p] /\ role[p] = "primary"

TypeOK ==
    /\ main \in [Processes -> MainSteps]
    /\ role \in [Processes -> {"none", "primary", "secondary", "fatal"}]
    /\ outcome \in [Processes -> {"none", "ok", "failed", "unstarted"}]
    /\ mutex \in SUBSET Processes
    /\ pipe \in [server : Processes \cup {NoProcess},
                 client : Processes \cup {NoProcess},
                 wrote : BOOLEAN, said : {"nothing", "yes", "no"},
                 left : BOOLEAN]
    /\ listener \in [Processes -> ListenerSteps]
    /\ stopping \in [Processes -> BOOLEAN]
    /\ started \in [Processes -> {"no", "yes", "failed"}]
    /\ handle \in [Processes -> BOOLEAN]
    /\ engine \in [Processes -> BOOLEAN]
    /\ quit \in [Processes -> BOOLEAN]
    /\ ready \in [Processes -> BOOLEAN]
    /\ pending \in [Processes -> Seq(Processes)]
    /\ posted \in [Processes -> Seq(Processes)]
    /\ delivered \in [Processes -> Seq(Processes)]
    /\ accepted \in [Processes -> Seq(Processes)]
    /\ lost \in SUBSET Processes
    /\ faults \in 0..MaxFaults

Init ==
    /\ main = [p \in Processes |-> "off"]
    /\ role = [p \in Processes |-> "none"]
    /\ outcome = [p \in Processes |-> "none"]
    /\ mutex = {}
    /\ pipe = NoPipe
    /\ listener = [p \in Processes |-> "none"]
    /\ stopping = [p \in Processes |-> FALSE]
    /\ started = [p \in Processes |-> "no"]
    /\ handle = [p \in Processes |-> FALSE]
    /\ engine = [p \in Processes |-> FALSE]
    /\ quit = [p \in Processes |-> FALSE]
    /\ ready = [p \in Processes |-> FALSE]
    /\ pending = [p \in Processes |-> <<p>>]
    /\ posted = [p \in Processes |-> <<>>]
    /\ delivered = [p \in Processes |-> <<>>]
    /\ accepted = [p \in Processes |-> <<>>]
    /\ lost = {}
    /\ faults = 0

\* The byte the listener writes before it flushes and closes the pipe.
Acknowledge(said) ==
    pipe' = IF pipe.left THEN pipe ELSE [pipe EXCEPT !.said = said]

Launched == {p \in Processes : main[p] # "off"}

(* A call of the system fails, or a process is killed.                     *)
Fault ==
    /\ faults < MaxFaults /\ Cardinality(Launched) <= MaxCrowd
    /\ faults' = faults + 1
NoFault == UNCHANGED faults

Launch(p) ==
    /\ main[p] = "off"
    /\ faults > 0 => Cardinality(Launched) < MaxCrowd

\* The listener closes its end, whoever is connected to it.
ClosePipe(p) ==
    /\ pipe' = NoPipe
    /\ listener' = [listener EXCEPT ![p] = IF stopping[p] THEN "ended" ELSE "reopen"]

GoTo(p, step) == main' = [main EXCEPT ![p] = step]
Listen(p, step) == listener' = [listener EXCEPT ![p] = step]

-----------------------------------------------------------------------------
(* Election                                                                *)

\* No SID or no mutex: a message box, and nothing is opened.
ElectFails(p) ==
    /\ Launch(p)
    /\ role' = [role EXCEPT ![p] = "fatal"]
    /\ outcome' = [outcome EXCEPT ![p] = "failed"]
    /\ GoTo(p, "report") /\ Fault
    /\ UNCHANGED <<mutex, pipeVars, windowVars, queueVars>>

\* Mutant: the pipe is asked for instead of the mutex, which a primary closes
\* between two clients.
ElectByPipe(p) ==
    /\ Launch(p) /\ ~PipeOpen
    /\ mutex' = mutex \cup {p}
    /\ role' = [role EXCEPT ![p] = "primary"]
    /\ GoTo(p, "start") /\ Listen(p, "create") /\ NoFault
    /\ UNCHANGED <<outcome, pipe, stopping, started, windowVars, queueVars>>

\* The mutex exists as long as any process holds a handle of it, be it the
\* primary or a process that found it taken.
ElectPrimary(p) ==
    /\ Launch(p) /\ mutex = {}
    /\ mutex' = mutex \cup {p}
    /\ role' = [role EXCEPT ![p] = "primary"]
    /\ \/ GoTo(p, "start") /\ Listen(p, "create") /\ NoFault /\ UNCHANGED outcome
       \* CoInitializeEx or the creation of the thread fails
       \/ /\ GoTo(p, "report") /\ Fault
          /\ outcome' = [outcome EXCEPT ![p] = "failed"]
          /\ UNCHANGED listener
    /\ UNCHANGED <<pipe, stopping, started, windowVars, queueVars>>

ElectSecondary(p) ==
    /\ Launch(p) /\ mutex # {}
    /\ mutex' = mutex \cup {p}
    /\ role' = [role EXCEPT ![p] = "secondary"]
    /\ GoTo(p, IF p \in Toasts THEN "create" ELSE "connect")
    /\ UNCHANGED <<outcome, pipeVars, windowVars, queueVars, faults>>

-----------------------------------------------------------------------------
(* ForwardActivation: a secondary process hands its activation over        *)

Connect(q) ==
    /\ main[q] = "connect"
    /\ PipeOpen /\ pipe.client = NoProcess
    /\ pipe' = [pipe EXCEPT !.client = q]
    /\ GoTo(q, "write")
    /\ UNCHANGED <<role, outcome, mutex, listener, stopping, started,
                   windowVars, queueVars, faults>>

Write(q) ==
    /\ main[q] = "write" /\ Connected(q)
    /\ pipe' = [pipe EXCEPT !.wrote = TRUE]
    /\ GoTo(q, "await")
    /\ UNCHANGED <<role, outcome, mutex, listener, stopping, started,
                   windowVars, queueVars, faults>>

\* A forwarder quits its engine; another process shows a message box when it
\* could not reach the primary, and exits.
Forwarded(q, said) ==
    /\ outcome' = [outcome EXCEPT ![q] = IF said = "yes" THEN "ok" ELSE "failed"]
    /\ GoTo(q, IF q \in Toasts THEN "leave"
               ELSE IF said = "yes" THEN "unlock" ELSE "report")
    /\ pipe' = IF Connected(q) THEN [pipe EXCEPT !.left = TRUE] ELSE pipe
    /\ UNCHANGED <<role, mutex, listener, stopping, started,
                   windowVars, queueVars, faults>>

ReadAcknowledgment(q) ==
    /\ main[q] = "await" /\ Connected(q) /\ pipe.said # "nothing"
    /\ Forwarded(q, pipe.said)

\* The five seconds for the connection, or for the acknowledgment, are over.
DeadlinePasses(q) ==
    /\ main[q] \in {"connect", "await"}
    /\ Forwarded(q, "no")

\* The server closed its end.
PipeBroken(q) ==
    /\ main[q] \in {"write", "await"} /\ ~Connected(q)
    /\ Forwarded(q, "no")

\* The forwarder waits for the callback of the notification, fifteen seconds
\* at most, and forwards what it says.
ForwarderActivated(q) ==
    /\ main[q] = "dart"
    /\ GoTo(q, "connect")
    /\ UNCHANGED <<role, outcome, mutex, pipeVars, windowVars, queueVars, faults>>

ForwarderTimesOut(q) ==
    /\ main[q] = "dart"
    /\ outcome' = [outcome EXCEPT ![q] = "failed"]
    /\ GoTo(q, "leave")
    /\ UNCHANGED <<role, mutex, pipeVars, windowVars, queueVars, faults>>

-----------------------------------------------------------------------------
(* Start and the window of the main thread                                 *)

StartSucceeds(p) ==
    /\ main[p] = "start" /\ started[p] = "yes"
    /\ GoTo(p, "create")
    /\ UNCHANGED <<role, outcome, mutex, pipeVars, windowVars, queueVars, faults>>

StartFails(p) ==
    /\ main[p] = "start" /\ started[p] = "failed" /\ listener[p] = "ended"
    /\ role' = [role EXCEPT ![p] = "fatal"]
    /\ outcome' = [outcome EXCEPT ![p] = "failed"]
    /\ GoTo(p, "report")
    /\ UNCHANGED <<mutex, pipeVars, windowVars, queueVars, faults>>

StartTimesOut(p) ==
    /\ main[p] = "start" /\ started[p] = "no"
    /\ outcome' = [outcome EXCEPT ![p] = "unstarted"]
    /\ GoTo(p, "stop")
    /\ UNCHANGED <<role, mutex, pipeVars, windowVars, queueVars, faults>>

CreateWindow(p) ==
    /\ main[p] = "create"
    /\ handle' = [handle EXCEPT ![p] = TRUE]
    /\ engine' = [engine EXCEPT ![p] = TRUE]
    /\ GoTo(p, IF role[p] = "primary" THEN "loop" ELSE "dart")
    /\ UNCHANGED <<role, outcome, mutex, pipeVars, quit, ready, queueVars, faults>>

\* CreateWindow fails, or OnCreate does once the handle is set.
CreateWindowFails(p) ==
    /\ main[p] = "create"
    /\ \E shown \in BOOLEAN : handle' = [handle EXCEPT ![p] = shown]
    /\ outcome' = [outcome EXCEPT ![p] = "failed"]
    /\ GoTo(p, IF role[p] = "primary" THEN "stop" ELSE "leave") /\ Fault
    /\ UNCHANGED <<role, mutex, pipeVars, engine, quit, ready, queueVars>>

\* takeInitialActivations of Dart, before activationReady.
TakeInitialActivations(p) ==
    /\ main[p] = "loop" /\ engine[p] /\ ~ready[p]
    /\ delivered[p] = <<>>
    /\ delivered' = [delivered EXCEPT ![p] = pending[p]]
    /\ pending' = [pending EXCEPT ![p] = <<>>]
    /\ UNCHANGED <<mainVars, pipeVars, windowVars, posted, accepted, lost, faults>>

ActivationReady(p) ==
    /\ main[p] = "loop" /\ engine[p] /\ ~ready[p]
    /\ delivered[p] # <<>>
    /\ ready' = [ready EXCEPT ![p] = TRUE]
    /\ delivered' = [delivered EXCEPT ![p] = @ \o pending[p]]
    /\ pending' = [pending EXCEPT ![p] = <<>>]
    /\ UNCHANGED <<mainVars, pipeVars, handle, engine, quit, posted, accepted,
                   lost, faults>>

\* Mutant: an activation goes to Dart although Dart is not ready.
DeliverAtOnce(p) ==
    /\ main[p] = "loop" /\ handle[p] /\ posted[p] # <<>>
    /\ posted' = [posted EXCEPT ![p] = Tail(@)]
    /\ delivered' = [delivered EXCEPT ![p] = Append(@, Head(posted[p]))]
    /\ UNCHANGED <<mainVars, pipeVars, windowVars, pending, accepted, lost, faults>>

\* kActivationMessage reaches the window procedure.
HandleActivationMessage(p) ==
    /\ main[p] = "loop" /\ handle[p] /\ posted[p] # <<>>
    /\ posted' = [posted EXCEPT ![p] = Tail(@)]
    /\ IF ready[p]
       THEN /\ delivered' = [delivered EXCEPT ![p] = Append(@, Head(posted[p]))]
            /\ UNCHANGED pending
       ELSE /\ pending' = [pending EXCEPT ![p] = Append(@, Head(posted[p]))]
            /\ UNCHANGED delivered
    /\ UNCHANGED <<mainVars, pipeVars, windowVars, accepted, lost, faults>>

\* WM_CLOSE that is not turned into hiding: WM_DESTROY clears the handle,
\* ends the engine and posts WM_QUIT; the window's messages go with it.
CloseWindow(p) ==
    /\ main[p] = "loop" /\ handle[p]
    /\ handle' = [handle EXCEPT ![p] = FALSE]
    /\ engine' = [engine EXCEPT ![p] = FALSE]
    /\ quit' = [quit EXCEPT ![p] = TRUE]
    /\ posted' = [posted EXCEPT ![p] = <<>>]
    /\ UNCHANGED <<mainVars, pipeVars, ready, pending, delivered, accepted,
                   lost, faults>>

LoopEnds(p) ==
    /\ main[p] = "loop" /\ quit[p]
    /\ outcome' = [outcome EXCEPT ![p] = IF handle[p] THEN "failed" ELSE "ok"]
    /\ GoTo(p, "stop")
    /\ UNCHANGED <<role, mutex, pipeVars, windowVars, queueVars, faults>>

-----------------------------------------------------------------------------
(* Stop and the end of the process                                         *)

\* Mutant: the listener is cancelled, and nobody wakes it up.
StopQuietly(p) ==
    /\ main[p] = "stop"
    /\ stopping' = [stopping EXCEPT ![p] = TRUE]
    /\ GoTo(p, "cancel")
    /\ UNCHANGED <<role, outcome, mutex, listener, pipe, started,
                   windowVars, queueVars, faults>>

\* The process connects to its own pipe, so that the listener wakes up; the
\* attempt fails when a client has the instance, or when there is none.
StopListener(p) ==
    /\ main[p] = "stop"
    /\ stopping' = [stopping EXCEPT ![p] = TRUE]
    /\ pipe' = IF PipeOpen /\ pipe.client = NoProcess
               THEN [pipe EXCEPT !.client = p, !.left = TRUE] ELSE pipe
    /\ GoTo(p, "cancel")
    /\ UNCHANGED <<role, outcome, mutex, listener, started,
                   windowVars, queueVars, faults>>

\* CancelSynchronousIo ends the call the listener is blocked in, if it is in
\* one: between two calls it cancels nothing.
CancelListener(p) ==
    /\ main[p] = "cancel"
    /\ \/ listener[p] = "accept" /\ ClosePipe(p)
       \/ listener[p] = "read" /\ Acknowledge("no") /\ Listen(p, "flush")
       \/ UNCHANGED <<listener, pipe>>
    /\ GoTo(p, "join")
    /\ UNCHANGED <<role, outcome, mutex, stopping, started, windowVars,
                   queueVars, faults>>

JoinListener(p) ==
    /\ main[p] = "join" /\ listener[p] = "ended"
    /\ IF outcome[p] = "unstarted"
       THEN GoTo(p, "report") /\ role' = [role EXCEPT ![p] = "fatal"]
       ELSE GoTo(p, "leave") /\ UNCHANGED role
    /\ UNCHANGED <<outcome, mutex, pipeVars, windowVars, queueVars, faults>>

\* The user closes the message box of a process that gives up.
DismissReport(p) ==
    /\ main[p] = "report"
    /\ GoTo(p, "unlock")
    /\ UNCHANGED <<role, outcome, mutex, pipeVars, windowVars, queueVars, faults>>

\* wWinMain returns: the window is destroyed first, the guard after it.
DestroyWindowObject(p) ==
    /\ main[p] = "leave"
    /\ handle' = [handle EXCEPT ![p] = FALSE]
    /\ engine' = [engine EXCEPT ![p] = FALSE]
    /\ posted' = [posted EXCEPT ![p] = <<>>]
    /\ GoTo(p, "unlock")
    /\ UNCHANGED <<role, outcome, mutex, pipeVars, quit, ready, pending,
                   delivered, accepted, lost, faults>>

\* What the process kept in memory is gone with it.
Forget(p) ==
    /\ handle' = [handle EXCEPT ![p] = FALSE]
    /\ engine' = [engine EXCEPT ![p] = FALSE]
    /\ quit' = [quit EXCEPT ![p] = FALSE]
    /\ ready' = [ready EXCEPT ![p] = FALSE]
    /\ stopping' = [stopping EXCEPT ![p] = FALSE]
    /\ started' = [started EXCEPT ![p] = "no"]
    /\ pending' = [pending EXCEPT ![p] = <<>>]
    /\ posted' = [posted EXCEPT ![p] = <<>>]
    /\ delivered' = [delivered EXCEPT ![p] = <<>>]
    /\ role' = [role EXCEPT ![p] = "none"]
    /\ outcome' = [outcome EXCEPT ![p] = "none"]
    /\ Listen(p, "none")
    /\ GoTo(p, "gone")
    /\ mutex' = mutex \ {p}

CloseMutex(p) ==
    /\ main[p] = "unlock"
    /\ Forget(p)
    /\ UNCHANGED <<pipe, accepted, lost, faults>>

\* The system closes every handle of a process that is killed.
Kill(p) ==
    /\ main[p] \notin {"off", "gone"} /\ Fault
    /\ Forget(p)
    /\ pipe' = IF pipe.server = p THEN NoPipe
               ELSE IF pipe.client = p THEN [pipe EXCEPT !.left = TRUE]
               ELSE pipe
    /\ UNCHANGED <<accepted, lost>>

-----------------------------------------------------------------------------
(* Listen: the listener thread of the primary                              *)

OpenFirstPipe(p) ==
    /\ listener[p] = "create"
    /\ \/ /\ ~PipeOpen
          /\ pipe' = Listening(p)
          /\ started' = [started EXCEPT ![p] = "yes"]
          /\ Listen(p, "check") /\ NoFault
       \/ /\ started' = [started EXCEPT ![p] = "failed"]
          /\ Listen(p, "ended") /\ Fault
          /\ UNCHANGED pipe
    /\ UNCHANGED <<mainVars, stopping, windowVars, queueVars>>

CheckStopping(p) ==
    /\ listener[p] = "check"
    /\ IF stopping[p]
       THEN /\ Listen(p, "ended")
            /\ pipe' = IF pipe.server = p THEN NoPipe ELSE pipe
       ELSE Listen(p, "accept") /\ UNCHANGED pipe
    /\ UNCHANGED <<mainVars, stopping, started, windowVars, queueVars, faults>>

\* ConnectNamedPipe returns; a client that has already left is no client.
AcceptClient(p) ==
    /\ listener[p] = "accept" /\ pipe.client # NoProcess
    /\ IF pipe.left \/ stopping[p]
       THEN ClosePipe(p)
       ELSE Listen(p, "read") /\ UNCHANGED pipe
    /\ UNCHANGED <<mainVars, stopping, started, windowVars, queueVars, faults>>

\* ReadExact blocks until the client has written its activation or has left.
\* QueueActivation then reads the handle of the window to choose a queue...
ReadActivation(p) ==
    /\ listener[p] = "read" /\ pipe.wrote
    /\ Listen(p, IF handle[p] THEN "post" ELSE "append")
    /\ UNCHANGED <<mainVars, pipe, stopping, started, windowVars, queueVars, faults>>

ReadFails(p) ==
    /\ listener[p] = "read" /\ pipe.left /\ ~pipe.wrote
    /\ Acknowledge("no")
    /\ Listen(p, "flush")
    /\ UNCHANGED <<mainVars, stopping, started, windowVars, queueVars, faults>>

Accept(p) ==
    /\ accepted' = [accepted EXCEPT ![p] = Append(@, pipe.client)]
    /\ Acknowledge("yes")
    /\ Listen(p, "flush")

AppendPending(p) ==
    /\ listener[p] = "append"
    /\ Accept(p)
    /\ pending' = [pending EXCEPT ![p] = Append(@, pipe.client)]
    /\ UNCHANGED <<mainVars, stopping, started, windowVars, posted,
                   delivered, lost, faults>>

\* ... and again to post the message: the message is dropped when the system
\* refuses it, and goes to no window when the handle is null by now.
PostActivation(p) ==
    /\ listener[p] = "post"
    /\ Accept(p)
    /\ \/ /\ handle[p]
          /\ posted' = [posted EXCEPT ![p] = Append(@, pipe.client)]
          /\ UNCHANGED lost /\ NoFault
       \/ /\ IF handle[p] THEN Fault ELSE NoFault
          /\ lost' = lost \cup {pipe.client}
          /\ UNCHANGED posted
    /\ UNCHANGED <<mainVars, stopping, started, windowVars, pending, delivered>>

\* FlushFileBuffers returns when the client has read the byte or has left.
FlushAcknowledgment(p) ==
    /\ listener[p] = "flush" /\ pipe.left
    /\ ClosePipe(p)
    /\ UNCHANGED <<mainVars, stopping, started, windowVars, queueVars, faults>>

ReopenPipe(p) ==
    /\ listener[p] = "reopen"
    /\ \/ pipe' = Listening(p) /\ Listen(p, "check") /\ NoFault
       \/ Listen(p, "warn") /\ Fault /\ UNCHANGED pipe
    /\ UNCHANGED <<mainVars, stopping, started, windowVars, queueVars>>

\* The pipe could not be opened again: a message box, then WM_QUIT.
ListenerFails(p) ==
    /\ listener[p] = "warn"
    /\ Listen(p, "ended")
    /\ quit' = [quit EXCEPT ![p] = TRUE]
    /\ UNCHANGED <<mainVars, pipe, stopping, started, handle, engine,
                   ready, queueVars, faults>>

-----------------------------------------------------------------------------

ForwardStep(p) ==
    \/ Connect(p) \/ Write(p) \/ ReadAcknowledgment(p) \/ PipeBroken(p)
    \/ DeadlinePasses(p)

MainStep(p) ==
    \/ StartSucceeds(p) \/ StartFails(p) \/ StartTimesOut(p)
    \/ StopListener(p) \/ CancelListener(p) \/ JoinListener(p)

ListenerStep(p) ==
    \/ OpenFirstPipe(p) \/ CheckStopping(p) \/ AcceptClient(p)
    \/ ReadActivation(p) \/ ReadFails(p) \/ AppendPending(p) \/ PostActivation(p)
    \/ FlushAcknowledgment(p) \/ ReopenPipe(p) \/ ListenerFails(p)

Next ==
    \E p \in Processes :
        \/ ElectFails(p) \/ ElectPrimary(p) \/ ElectSecondary(p)
        \/ ForwardStep(p) \/ ForwarderActivated(p) \/ ForwarderTimesOut(p)
        \/ MainStep(p) \/ CreateWindow(p) \/ CreateWindowFails(p)
        \/ TakeInitialActivations(p) \/ ActivationReady(p)
        \/ HandleActivationMessage(p) \/ CloseWindow(p) \/ LoopEnds(p)
        \/ DismissReport(p) \/ DestroyWindowObject(p) \/ CloseMutex(p) \/ Kill(p)
        \/ ListenerStep(p)

Spec == Init /\ [][Next]_vars

(* Threads that can run do run, and deadlines pass; the message box of the *)
(* listener is closed some day. Users and Dart owe nothing.                *)
Fairness ==
    \A p \in Processes :
        /\ WF_vars(ForwardStep(p) \/ MainStep(p))
        /\ WF_vars(ListenerStep(p))

FairSpec == Spec /\ Fairness

-----------------------------------------------------------------------------
(* Two processes of a session never have the user's data open: not while   *)
(* the first starts, ends, loses its listener or is killed, nor while one  *)
(* that only forwards outlives it (main.cpp, BusyMaxSingleInstance).        *)
OneDatabase == \A p, q \in Processes : OpensData(p) /\ OpensData(q) => p = q

Elements(s) == {s[i] : i \in DOMAIN s}
Position(s, x) == CHOOSE i \in DOMAIN s : s[i] = x

(* A launch that ends well was accepted by a primary. While the window of  *)
(* the primary is there, each activation it acknowledged is in a queue or  *)
(* in Dart's hands, unless the system refused the message; Dart gets each  *)
(* once, its own first and then in the order of the acknowledgments        *)
(* (QueueActivation, takeInitialActivations, activationReady).              *)
AcceptedKept ==
    /\ \A q \in Processes : role[q] = "secondary" /\ outcome[q] = "ok" =>
           \E p \in Processes : q \in Elements(accepted[p])
    /\ \A p \in Processes : main[p] = "loop" /\ handle[p] =>
           LET order == <<p>> \o accepted[p] IN
           /\ Elements(accepted[p]) \subseteq
                  Elements(delivered[p]) \cup Elements(pending[p])
                  \cup Elements(posted[p]) \cup lost
           /\ \A i, j \in DOMAIN delivered[p] : i < j =>
                  Position(order, delivered[p][i]) < Position(order, delivered[p][j])

(* Every call of the guard returns: the forwarding of an activation, the   *)
(* start of the listener, and its end, whatever the listener is blocked in *)
(* when the primary wants to leave (ForwardActivation, Start, Stop).        *)
GuardCallsReturn ==
    \A p \in Processes :
        []<>(main[p] \notin Forwarding \cup Stopping \cup {"start"})
==============================================================================
