----------------------------- MODULE HeaderIcons -----------------------------
(***************************************************************************)
(* The icons of the header of the Linux window: the runner draws them from  *)
(* the icon theme of the screen at the scale of the view and tells Dart     *)
(* when that changes (linux/runner/gtk_header_icons.cc, my_application.cc);  *)
(* Dart keeps one catalog and loads a new one for each change it hears of   *)
(* (gtk_header_icon_service.dart).                                          *)
(*                                                                         *)
(* The calls of Dart reach the runner in order, and so do its answers and   *)
(* events on their way back. A catalog is one value: what it was drawn from. *)
(***************************************************************************)
EXTENDS Naturals, Sequences

CONSTANTS
    Screens,
    Scales,       \* scale factors of the view
    MaxChanges    \* bound: changes of a theme, of the scale and of the screen

VARIABLES
    screen,       \* the screen the view is on
    theme,        \* how often the icon theme of each screen changed
    scale,        \* scale factor of the view
    bound,        \* the screen whose theme is icon_theme_
    started,      \* callback_ is set
    revision,     \* gtk_header_icons_revision
    listening,    \* gtk_header_icons_listening
    toRunner,     \* calls of Dart on their way
    toDart,       \* answers and events on their way
    run,          \* what Dart runs: "off", "initial", "reload" or "idle"
    loads,        \* _reloadCount
    awaited,      \* the load Dart awaits, or 0
    target,       \* targetRevision
    queued,       \* _queuedRevision, 0 for none
    highest,      \* _highestSeenRevision
    catalog,      \* _catalog
    failed,       \* the last load failed
    disposed,     \* _disposed
    changes

gtkVars == <<screen, theme, scale, bound, changes>>
runnerVars == <<started, revision, listening>>
dartVars == <<run, loads, awaited, target, queued, highest, catalog, failed, disposed>>
iconVars == <<gtkVars, runnerVars, toRunner, toDart, dartVars>>

\* What a screen and the view look like now, and what Load draws.
Look(s) == [screen |-> s, theme |-> theme[s], scale |-> scale]
Load == [look |-> Look(bound), made |-> revision]

\* What Dart makes of the icons of a load for a revision.
Catalog(n, icons) == [revision |-> n, look |-> icons.look, made |-> icons.made]
NoCatalog == [revision |-> 0, made |-> 0]

Init ==
    /\ screen \in Screens /\ theme = [s \in Screens |-> 0] /\ scale \in Scales
    /\ bound = screen /\ started = TRUE /\ revision = 0 /\ listening = FALSE
    /\ toRunner = <<>> /\ toDart = <<>>
    /\ run = "off" /\ loads = 0 /\ awaited = 0 /\ target = 0 /\ queued = 0
    /\ highest = 0 /\ catalog = NoCatalog /\ failed = FALSE /\ disposed = FALSE
    /\ changes = 0

-----------------------------------------------------------------------------
(* The runner                                                              *)

Event(n) == [kind |-> "event", revision |-> n]

\* Invalidate and the callback it was started with.
Invalidate ==
    /\ revision' = revision + 1
    /\ toDart' = IF listening THEN Append(toDart, Event(revision + 1)) ELSE toDart

\* Mutant: the theme of the screen before is kept.
KeepTheme == UNCHANGED bound

RebindTheme == bound' = screen'

OnThemeChanged(s) ==
    /\ changes < MaxChanges /\ changes' = changes + 1
    /\ theme' = [theme EXCEPT ![s] = @ + 1]
    /\ IF started /\ s = bound THEN Invalidate ELSE UNCHANGED <<revision, toDart>>
    /\ UNCHANGED <<screen, scale, bound, started, listening, toRunner, dartVars>>

OnScaleChanged ==
    /\ changes < MaxChanges /\ changes' = changes + 1
    /\ scale' \in Scales \ {scale}
    /\ IF started THEN Invalidate ELSE UNCHANGED <<revision, toDart>>
    /\ UNCHANGED <<screen, theme, bound, started, listening, toRunner, dartVars>>

OnScreenChanged ==
    /\ changes < MaxChanges /\ changes' = changes + 1
    /\ screen' \in Screens \ {screen}
    /\ IF started THEN RebindTheme /\ Invalidate
       ELSE UNCHANGED <<bound, revision, toDart>>
    /\ UNCHANGED <<theme, scale, started, listening, toRunner, dartVars>>

\* gtk_header_icons_listen_cb: a change nobody heard of is told now.
HandleListen ==
    /\ started /\ toRunner # <<>> /\ Head(toRunner).kind = "listen"
    /\ toRunner' = Tail(toRunner)
    /\ listening' = TRUE
    /\ toDart' = IF revision > 0 THEN Append(toDart, Event(revision)) ELSE toDart
    /\ UNCHANGED <<gtkVars, started, revision, dartVars>>

HandleCancel ==
    /\ started /\ toRunner # <<>> /\ Head(toRunner).kind = "cancel"
    /\ toRunner' = Tail(toRunner)
    /\ listening' = FALSE
    /\ UNCHANGED <<gtkVars, started, revision, toDart, dartVars>>

\* loadIcons: the whole batch is drawn in one callback. It may give no icon at
\* all, which Dart takes for a failure.
LoadIcons ==
    /\ started /\ toRunner # <<>> /\ Head(toRunner).kind = "load"
    /\ toRunner' = Tail(toRunner)
    /\ \E ok \in BOOLEAN :
           toDart' = Append(toDart, [kind |-> "icons", load |-> Head(toRunner).load,
                                     ok |-> ok, icons |-> Load])
    /\ UNCHANGED <<gtkVars, runnerVars, dartVars>>

\* Stop, with the application.
Stop ==
    /\ started
    /\ started' = FALSE
    /\ UNCHANGED <<gtkVars, revision, listening, toRunner, toDart, dartVars>>

-----------------------------------------------------------------------------
(* Dart                                                                    *)

\* _loadCatalog of a revision, after what is sent before.
Ask(sent, n) ==
    /\ loads' = loads + 1 /\ awaited' = loads + 1
    /\ target' = n
    /\ toRunner' = toRunner \o sent \o <<[kind |-> "load", load |-> loads + 1]>>

Initialize ==
    /\ run = "off"
    /\ run' = "initial"
    /\ Ask(<<[kind |-> "listen"]>>, 0)
    /\ UNCHANGED <<gtkVars, runnerVars, toDart, queued, highest, catalog, failed,
                   disposed>>

\* _handleInvalidation
HandleInvalidation ==
    /\ toDart # <<>> /\ Head(toDart).kind = "event"
    /\ toDart' = Tail(toDart)
    /\ LET n == Head(toDart).revision IN
       IF disposed \/ n <= highest
       THEN UNCHANGED <<run, highest, queued, loads, awaited, target, toRunner>>
       ELSE /\ highest' = n
            /\ IF run \in {"initial", "reload"}
               THEN /\ queued' = n
                    /\ UNCHANGED <<run, loads, awaited, target, toRunner>>
               ELSE /\ run' = "reload"
                    /\ Ask(<<>>, n)
                    /\ UNCHANGED queued
    /\ UNCHANGED <<gtkVars, runnerVars, catalog, failed, disposed>>

Finish == run' = "idle" /\ awaited' = 0 /\ UNCHANGED <<loads, target, toRunner>>

\* Mutant: what came while a load was running is forgotten.
ForgetQueued == queued' = 0 /\ Finish

\* The end of a turn of the loop: a revision that came meanwhile is loaded next.
Continue ==
    /\ queued' = 0
    /\ IF queued > target THEN Ask(<<>>, queued) /\ UNCHANGED run ELSE Finish

\* The load Dart awaits is over: only the first loop ends with a failure.
ReceiveIcons ==
    /\ toDart # <<>> /\ Head(toDart).kind = "icons"
    /\ Head(toDart).load = awaited
    /\ toDart' = Tail(toDart)
    /\ IF disposed
       THEN Finish /\ UNCHANGED <<queued, catalog, failed>>
       ELSE /\ failed' = ~Head(toDart).ok
            /\ catalog' = IF Head(toDart).ok THEN Catalog(target, Head(toDart).icons)
                          ELSE catalog
            /\ IF run = "initial" /\ ~Head(toDart).ok THEN Finish /\ UNCHANGED queued
               ELSE Continue
    /\ UNCHANGED <<gtkVars, runnerVars, highest, disposed>>

\* The first loop gives a load five seconds; what comes later is not awaited.
InitialTimesOut ==
    /\ run = "initial"
    /\ Finish
    /\ failed' = TRUE
    /\ UNCHANGED <<gtkVars, runnerVars, toDart, queued, highest, catalog, disposed>>

ReceiveLate ==
    /\ toDart # <<>> /\ Head(toDart).kind = "icons"
    /\ Head(toDart).load # awaited
    /\ toDart' = Tail(toDart)
    /\ UNCHANGED <<gtkVars, runnerVars, toRunner, dartVars>>

Dispose ==
    /\ run # "off" /\ ~disposed
    /\ disposed' = TRUE
    /\ toRunner' = Append(toRunner, [kind |-> "cancel"])
    /\ UNCHANGED <<gtkVars, runnerVars, toDart, run, loads, awaited, target, queued,
                   highest, catalog, failed>>

Next ==
    \/ \E s \in Screens : OnThemeChanged(s)
    \/ OnScaleChanged \/ OnScreenChanged
    \/ HandleListen \/ HandleCancel \/ LoadIcons \/ Stop
    \/ Initialize \/ HandleInvalidation \/ ReceiveIcons \/ InitialTimesOut
    \/ ReceiveLate \/ Dispose

Spec == Init /\ [][Next]_iconVars

-----------------------------------------------------------------------------
(* Once nothing is under way and the last load did not fail, the catalog    *)
(* shows the icons of the screen, the theme and the scale of now, whenever  *)
(* they changed; and a catalog is never older than the revision it claims   *)
(* (BusyMaxGtkHeaderIcons, "A replacement catalog is published only after   *)
(* its full batch loads").                                                  *)
IconsCurrent ==
    /\ catalog.revision <= catalog.made
    /\ started /\ run = "idle" /\ ~failed /\ ~disposed /\ toDart = <<>>
       => catalog.look = Look(screen)
==============================================================================
