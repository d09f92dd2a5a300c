----------------------------- MODULE LinuxWindow -----------------------------
(***************************************************************************)
(* The one window of the Linux runner and the calendar files and links that *)
(* launches of BusyMax bring to it (linux/runner/my_application.cc,          *)
(* external_calendar_open_service.dart, busymax_app.dart). The first launch  *)
(* is the application; the others hand over what they were given and end.    *)
(* The runner keeps it until Dart is ready, Dart until its first listener.   *)
(***************************************************************************)
EXTENDS Naturals, Sequences

CONSTANTS
    Items,        \* calendar files and webcal links that Dart will accept, opened
                  \* once each
    MaxLaunches,  \* bound: launches
    MaxMoves      \* bound: times Dart or the user hides or shows the window

VARIABLES
    app,          \* the application runs
    requests,     \* what other launches handed over and was not handled
    minimized,    \* start_minimized
    window,       \* main_window: "none", "hidden" or "visible"
    framed,       \* the first frame was drawn
    hideOnClose,  \* hide_on_close
    ready,        \* external_calendar_open_ready
    kept,         \* pending_external_opens
    sent,         \* openItem calls on their way to Dart
    dart,         \* how far Dart is
    pendingDart,  \* _pending of the service
    tail,         \* opens behind _externalOpenTail
    busy,         \* an open is being handled
    handled,      \* opens that were handled, in order
    arrived,      \* all that open was called with, in order
    wanted,       \* the last that was asked for is a visible window
    launches, moves

nativeVars == <<app, requests, minimized, window, framed, hideOnClose, ready, kept>>
dartSide == <<dart, pendingDart, tail, busy, handled>>
windowVars == <<nativeVars, sent, dartSide, arrived, wanted, launches, moves>>

Elements(s) == {s[i] : i \in DOMAIN s}

TypeOK ==
    /\ {app, minimized, framed, hideOnClose, ready, busy, wanted} \subseteq BOOLEAN
    /\ window \in {"none", "hidden", "visible"}
    /\ dart \in {"off", "asked", "answered", "listening"}
    /\ UNION {Elements(s) : s \in {kept, sent, pendingDart, tail, handled, arrived}}
           \subseteq Items
    /\ launches \in 0..MaxLaunches /\ moves \in 0..MaxMoves

Init ==
    /\ app = FALSE /\ requests = <<>> /\ minimized = FALSE /\ window = "none"
    /\ framed = FALSE /\ hideOnClose = FALSE /\ ready = FALSE /\ kept = <<>>
    /\ sent = <<>> /\ dart = "off" /\ pendingDart = <<>> /\ tail = <<>>
    /\ busy = FALSE /\ handled = <<>> /\ arrived = <<>> /\ wanted = FALSE
    /\ launches = 0 /\ moves = 0

Used == Elements(arrived) \cup UNION {Elements(requests[i].files) : i \in DOMAIN requests}

\* What a launch is given.  The runner has accepted some of it, or none; what
\* Dart will refuse (isValid: an address without a host, say) is not among the
\* files, since all that comes of it is that the window is shown.
Files == {<<>>} \cup {<<i>> : i \in Items \ Used}
                \cup {<<i, j>> : i \in Items \ Used, j \in Items \ Used}
Requests == {r \in [open : BOOLEAN, accepted : BOOLEAN, files : Files] :
                /\ r.accepted => r.open
                /\ r.files # <<>> => r.accepted
                /\ Len(r.files) = 2 => r.files[1] # r.files[2]}

-----------------------------------------------------------------------------
(* Launches                                                                *)

\* my_application_activate: the window is made and waits for its first frame,
\* or is brought back.
Activate ==
    IF window = "none" THEN window' = "hidden" ELSE window' = "visible"

\* Mutant: what is opened goes to Dart whether it is ready or not.
SendAtOnce(files) ==
    /\ arrived' = arrived \o files
    /\ sent' = sent \o files
    /\ UNCHANGED kept

\* queue_external_calendar_open, with flush_external_calendar_opens.
Queue(files) ==
    /\ arrived' = arrived \o files
    /\ IF ready THEN sent' = sent \o kept \o files /\ kept' = <<>>
       ELSE kept' = kept \o files /\ UNCHANGED sent

(* my_application_open and my_application_activate, of a launch that says    *)
(* whether to start minimized: only the first launch is asked.              *)
Handle(r, asked) ==
    /\ Queue(r.files)
    /\ IF r.accepted
       THEN Activate /\ minimized' = FALSE /\ wanted' = TRUE
       ELSE /\ minimized' = asked
            /\ IF r.open /\ window # "none" THEN UNCHANGED <<window, wanted>>
               ELSE Activate /\ wanted' = (window # "none" \/ ~asked)

\* my_application_local_command_line, when no other process is registered.
LaunchFirst(r) ==
    /\ ~app /\ launches < MaxLaunches
    /\ launches' = launches + 1
    /\ app' = TRUE
    /\ \E asked \in BOOLEAN : Handle(r, asked)
    /\ UNCHANGED <<requests, framed, hideOnClose, ready, dartSide, moves>>

\* ... and when one is: the request goes over the bus.
LaunchAnother(r) ==
    /\ app /\ launches < MaxLaunches
    /\ launches' = launches + 1
    /\ requests' = Append(requests, r)
    /\ UNCHANGED <<app, minimized, window, framed, hideOnClose, ready, kept, sent,
                   dartSide, arrived, wanted, moves>>

HandleRequest ==
    /\ app /\ requests # <<>>
    /\ requests' = Tail(requests)
    /\ Handle(Head(requests), minimized)
    /\ UNCHANGED <<app, framed, hideOnClose, ready, dartSide, launches, moves>>

-----------------------------------------------------------------------------
(* Dart                                                                    *)

\* initialize: the handler is set, then ready is called.
Initialize ==
    /\ app /\ dart = "off"
    /\ dart' = "asked"
    /\ UNCHANGED <<nativeVars, sent, pendingDart, tail, busy, handled, arrived,
                   wanted, launches, moves>>

\* external_calendar_open_method_call_cb
HandleReady ==
    /\ app /\ dart = "asked"
    /\ dart' = "answered"
    /\ ready' = TRUE
    /\ sent' = sent \o kept /\ kept' = <<>>
    /\ UNCHANGED <<app, requests, minimized, window, framed, hideOnClose,
                   pendingDart, tail, busy, handled, arrived, wanted, launches, moves>>

\* openItem reaches Dart: _emit adds what is valid to the stream or to _pending.
\* A call that comes before the handler is set reaches nothing.
ReceiveItem ==
    /\ app /\ sent # <<>>
    /\ sent' = Tail(sent)
    /\ CASE dart = "listening" -> tail' = Append(tail, Head(sent)) /\ UNCHANGED pendingDart
         [] dart \in {"asked", "answered"} ->
                pendingDart' = Append(pendingDart, Head(sent)) /\ UNCHANGED tail
         [] OTHER -> UNCHANGED <<tail, pendingDart>>
    /\ UNCHANGED <<nativeVars, dart, busy, handled, arrived, wanted, launches, moves>>

\* The application listens when it is built, and _flushPending empties the list.
ListenForOpens ==
    /\ app /\ dart = "answered"
    /\ dart' = "listening"
    /\ tail' = tail \o pendingDart /\ pendingDart' = <<>>
    /\ UNCHANGED <<nativeVars, sent, busy, handled, arrived, wanted, launches, moves>>

\* _externalOpenTail: an open waits until the one before it is over.
StartOpen ==
    /\ app /\ tail # <<>> /\ ~busy
    /\ busy' = TRUE
    /\ handled' = Append(handled, Head(tail)) /\ tail' = Tail(tail)
    /\ UNCHANGED <<nativeVars, sent, dart, pendingDart, arrived, wanted, launches, moves>>

FinishOpen ==
    /\ app /\ busy
    /\ busy' = FALSE
    /\ UNCHANGED <<nativeVars, sent, dart, pendingDart, tail, handled, arrived, wanted,
                   launches, moves>>

-----------------------------------------------------------------------------
(* The window                                                              *)

\* first_frame_cb
FirstFrame ==
    /\ app /\ dart = "listening" /\ ~framed
    /\ framed' = TRUE
    /\ window' = IF minimized THEN window ELSE "visible"
    /\ UNCHANGED <<app, requests, minimized, hideOnClose, ready, kept, sent, dartSide,
                   arrived, wanted, launches, moves>>

\* window_method_call_cb: hideWindow and showWindow of Dart.
PresentWindow(how) ==
    /\ app /\ dart = "listening" /\ moves < MaxMoves
    /\ moves' = moves + 1
    /\ window' = how /\ wanted' = (how = "visible")
    /\ UNCHANGED <<app, requests, minimized, framed, hideOnClose, ready, kept, sent,
                   dartSide, arrived, launches>>

SetHideOnClose(hide) ==
    /\ app /\ dart = "listening" /\ hideOnClose # hide
    /\ hideOnClose' = hide
    /\ UNCHANGED <<app, requests, minimized, window, framed, ready, kept, sent, dartSide,
                   arrived, wanted, launches, moves>>

\* The process ends, and with it what no one has handled.
End ==
    /\ app' = FALSE /\ requests' = <<>> /\ minimized' = FALSE /\ window' = "none"
    /\ framed' = FALSE /\ hideOnClose' = FALSE /\ ready' = FALSE /\ kept' = <<>>
    /\ sent' = <<>> /\ dart' = "off" /\ pendingDart' = <<>> /\ tail' = <<>>
    /\ busy' = FALSE /\ handled' = <<>> /\ arrived' = <<>> /\ wanted' = FALSE
    /\ UNCHANGED <<launches, moves>>

\* window_delete_event_cb: the last window that is destroyed ends the run loop.
CloseWindow ==
    /\ app /\ window = "visible"
    /\ IF hideOnClose
       THEN /\ moves < MaxMoves /\ moves' = moves + 1
            /\ window' = "hidden" /\ wanted' = FALSE
            /\ UNCHANGED <<app, requests, minimized, framed, hideOnClose, ready, kept,
                           sent, dartSide, arrived, launches>>
       ELSE End

\* quitApp
Quit == app /\ dart = "listening" /\ End

Next ==
    \/ \E r \in Requests : LaunchFirst(r) \/ LaunchAnother(r)
    \/ HandleRequest \/ Initialize \/ HandleReady \/ ReceiveItem \/ ListenForOpens
    \/ StartOpen \/ FinishOpen \/ FirstFrame
    \/ \E how \in {"hidden", "visible"} : PresentWindow(how)
    \/ \E hide \in BOOLEAN : SetHideOnClose(hide)
    \/ CloseWindow \/ Quit

Spec == Init /\ [][Next]_windowVars

-----------------------------------------------------------------------------
(* Whatever was opened, before Dart was ready, while it started, or while   *)
(* another open was handled, is handled once and in order, or is on its way; *)
(* and once the first frame is drawn a window that a launch asked for is     *)
(* visible unless Dart or the user hid it since (queue_external_calendar_open, *)
(* flush_external_calendar_opens, my_application_open, first_frame_cb).      *)
OpensDelivered ==
    /\ arrived = handled \o tail \o pendingDart \o sent \o kept
    /\ ready => kept = <<>>
    /\ framed /\ wanted => window = "visible"
==============================================================================
