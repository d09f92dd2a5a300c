----------------------------- MODULE WindowsTray -----------------------------
(***************************************************************************)
(* The notification icon of the Windows runner and the two sides that keep *)
(* it: the native controllers of the icon and of its menu, with the window *)
(* that may hide instead of closing (windows/runner/tray_native_api.cpp,    *)
(* windows_tray_channel.cpp, flutter_window.cpp), and the Dart service that *)
(* starts, refreshes and gives up the icon and decides whether closing      *)
(* hides (windows_tray_service.dart, windows_desktop_runtime.dart).         *)
(*                                                                         *)
(* Calls of Dart and answers and events of the runner travel in two queues; *)
(* a call is handled in one step of the thread that owns the window.        *)
(***************************************************************************)
EXTENDS Naturals, Sequences

CONSTANTS
    Icons,        \* handles of icons
    NoIcon,
    MaxTroubles,  \* bound: calls of Windows that fail, ends of the Explorer
    MaxCommands   \* bound: clicks on the icon, changes of the settings

VARIABLES
    explorer,   \* the notification area is there
    taskbar,    \* a TaskbarCreated message waits in the window's queue
    shown,      \* the notification area shows the icon of the window
    icon,       \* icon_
    live,       \* handles that were loaded and not destroyed
    leaked,     \* handles that Windows refused to destroy
    available,  \* available_
    active,     \* active_
    visible,    \* the window is visible
    hides,      \* hide_on_close_
    running,    \* the window exists
    toNative,   \* calls of Dart, in order
    toDart,     \* answers and events of the runner, in order
    believes,   \* _available of the Dart service
    attached,   \* _healthHandlerAttached of the Dart service
    pc,         \* the call each flow of Dart waits for
    round,      \* how far start() is: its own calls, its refresh, the next one
    believed,   \* what the configuration read of the service, a local
    settings,   \* what the user asks for
    seen,       \* _previousTrayPreferences
    override,   \* _launchTrayOverride, or settings.startMinimizedToTray
    minimizing, \* startMinimized of the configuration, a local
    wanted,     \* a configuration is asked for
    timer,      \* the timer of one minute runs
    troubles, commands

areaVars == <<explorer, taskbar, shown>>
iconVars == <<icon, live, leaked, available, active>>
windowVars == <<visible, hides, running>>
channelVars == <<toNative, toDart>>
flowVars == <<believes, attached, pc, round, believed, minimizing, wanted, timer, override, seen>>
boundVars == <<settings, commands>>
trayVars == <<areaVars, iconVars, windowVars, channelVars, flowVars, boundVars, troubles>>

Settings == {"plain", "tray", "background"}
Refreshers == {"configure", "synchronize"}

TypeOK ==
    /\ explorer \in BOOLEAN /\ taskbar \in BOOLEAN /\ shown \in BOOLEAN
    /\ icon \in Icons \cup {NoIcon}
    /\ live \subseteq Icons /\ leaked \subseteq live
    /\ available \in BOOLEAN /\ active \in BOOLEAN
    /\ visible \in BOOLEAN /\ hides \in BOOLEAN /\ running \in BOOLEAN
    /\ believes \in BOOLEAN /\ attached \in BOOLEAN /\ believed \in BOOLEAN
    /\ DOMAIN pc = Refreshers
    /\ round \in 0..2
    /\ settings \in Settings /\ seen \in Settings \cup {"unseen"}
    /\ {override, minimizing, wanted, timer} \subseteq BOOLEAN
    /\ troubles \in 0..MaxTroubles /\ commands \in 0..MaxCommands

\* The window is hidden at the launch of a user's session and shown otherwise.
\* The setting startMinimizedToTray asks for the icon too (AppSettings.fromJson)
\* and stands as the wish of a launch whose window is shown.
Init ==
    /\ settings \in Settings
    /\ explorer = TRUE /\ taskbar = FALSE /\ shown = FALSE
    /\ icon = NoIcon /\ live = {} /\ leaked = {}
    /\ available = FALSE /\ active = FALSE
    /\ override \in BOOLEAN /\ visible \in BOOLEAN
    /\ visible = ~override \/ (visible /\ settings # "plain")
    /\ hides = FALSE /\ running = TRUE
    /\ toNative = <<>> /\ toDart = <<>>
    /\ believes = FALSE /\ attached = FALSE /\ believed = FALSE
    /\ pc = [f \in Refreshers |-> "idle"] /\ round = 0
    /\ seen = "unseen"
    /\ minimizing = FALSE /\ wanted = TRUE /\ timer = FALSE
    /\ troubles = 0 /\ commands = 0

Trouble == troubles < MaxTroubles /\ troubles' = troubles + 1
NoTrouble == UNCHANGED troubles

-----------------------------------------------------------------------------
(* The notification area                                                   *)

ExplorerEnds ==
    /\ explorer /\ Trouble
    /\ explorer' = FALSE /\ shown' = FALSE /\ taskbar' = FALSE
    /\ UNCHANGED <<iconVars, windowVars, channelVars, flowVars, boundVars>>

ExplorerStarts ==
    /\ ~explorer
    /\ explorer' = TRUE /\ taskbar' = TRUE
    /\ UNCHANGED <<shown, iconVars, windowVars, channelVars, flowVars, boundVars,
                   troubles>>

\* Shell_NotifyIcon: NIM_ADD wants no icon of the window there, NIM_MODIFY and
\* NIM_DELETE want one.
CanAdd == explorer /\ ~shown
CanModify == explorer /\ shown

-----------------------------------------------------------------------------
(* TrayIconController: each operation says whether it succeeded            *)

\* DestroyIcon of the handles in old; "loaded" are the handles new to live.
Release(old, loaded) ==
    \/ /\ live' = (live \cup loaded) \ old
       /\ UNCHANGED leaked /\ NoTrouble
    \/ /\ old # {} /\ Trouble
       /\ live' = live \cup loaded /\ leaked' = leaked \cup old

Owned == {icon} \ {NoIcon}

\* Install: the icon is added, or given back with the message refused.
Install(new, owned, done) ==
    \/ /\ CanAdd
       /\ shown' = TRUE /\ available' = TRUE /\ icon' = new
       /\ Release(IF owned THEN Owned \ {new} ELSE {}, {new})
       /\ done = (leaked' = leaked)
    \/ /\ ~CanAdd
       /\ available' = FALSE /\ UNCHANGED <<shown, icon>>
       /\ Release(IF owned THEN {new} ELSE {}, {new})
       /\ ~done
    \/ /\ CanAdd /\ Trouble
       /\ shown' \in BOOLEAN      \* NIM_SETVERSION is refused, NIM_DELETE may be
       /\ available' = FALSE /\ UNCHANGED <<icon, leaked>>
       /\ live' = IF owned THEN live ELSE live \cup {new}
       /\ ~done

\* Mutant: the icon that is replaced is not destroyed.
KeepReplaced(new, done) ==
    /\ UNCHANGED available
    /\ \/ /\ CanModify /\ done
          /\ icon' = new /\ UNCHANGED shown
          /\ Release({}, {new})
       \/ /\ ~CanModify /\ ~done
          /\ UNCHANGED <<icon, shown>>
          /\ Release({new}, {new})

Replace(new, done) ==
    /\ UNCHANGED available
    /\ \/ /\ CanModify
          /\ icon' = new /\ UNCHANGED shown
          /\ Release(Owned, {new})
          /\ done = (leaked' = leaked)
       \/ /\ ~CanModify
          /\ UNCHANGED <<icon, shown>>
          /\ Release({new}, {new})
          /\ ~done

SetIcon(done) ==
    /\ \/ /\ Trouble /\ ~done
          /\ UNCHANGED <<icon, live, leaked, available, shown>>
       \/ LET new == CHOOSE i \in Icons \ live : TRUE
          IN IF available THEN Replace(new, done) ELSE Install(new, TRUE, done)
    /\ active' = (active \/ done)

\* SetTooltip, and SetItems of the menu, which touches no icon.
SetTooltip(done) ==
    /\ done = (available => CanModify)
    /\ NoTrouble
    /\ UNCHANGED <<iconVars, shown>>

SetMenu(done) ==
    /\ IF done THEN NoTrouble ELSE Trouble
    /\ UNCHANGED <<iconVars, shown>>

Destroy(done) ==
    /\ done = (available => CanModify)
    /\ shown' = (shown /\ ~(available /\ CanModify))
    /\ available' = FALSE /\ active' = FALSE /\ icon' = NoIcon
    /\ Release(Owned, {})

\* Recover: the retained icon is added again, if there is one.
Recover(done) ==
    IF icon = NoIcon
    THEN /\ available' = FALSE /\ NoTrouble
         /\ UNCHANGED <<icon, live, leaked, shown>>
    ELSE Install(icon, FALSE, done)

ReportAvailability == toDart' = Append(toDart, [kind |-> "tray", now |-> available'])

\* The message TaskbarCreated of a new Explorer.
TaskbarCreated ==
    /\ running /\ taskbar
    /\ taskbar' = FALSE
    /\ \E done \in BOOLEAN :
           IF active THEN Recover(done) /\ ReportAvailability /\ UNCHANGED active
           ELSE UNCHANGED <<iconVars, shown, toDart, troubles>>
    /\ UNCHANGED <<explorer, windowVars, toNative, flowVars, boundVars>>

-----------------------------------------------------------------------------
(* The window                                                              *)

\* Nothing of the process is left; the settings are on the disk.
ProcessEnds ==
    /\ running' = FALSE /\ visible' = FALSE /\ hides' = FALSE
    /\ icon' = NoIcon /\ live' = {} /\ leaked' = {}
    /\ available' = FALSE /\ active' = FALSE
    /\ shown' = FALSE /\ taskbar' = FALSE
    /\ toNative' = <<>> /\ toDart' = <<>>
    /\ pc' = [f \in Refreshers |-> "idle"] /\ round' = 0
    /\ believes' = FALSE /\ attached' = FALSE /\ believed' = FALSE
    /\ minimizing' = FALSE /\ wanted' = FALSE /\ timer' = FALSE
    /\ override' = FALSE
    /\ seen' = "unseen"
    /\ UNCHANGED <<explorer, boundVars, troubles>>

\* WM_CLOSE: the window hides, or is destroyed and ends the process.
CloseClicked ==
    /\ running /\ visible
    /\ IF hides
       THEN /\ visible' = FALSE
            /\ UNCHANGED <<areaVars, iconVars, hides, running, channelVars,
                           flowVars, boundVars, troubles>>
       ELSE ProcessEnds

\* The user is at the icon, which only an icon that is shown allows.
AtIcon(what) ==
    /\ running /\ shown /\ commands < MaxCommands
    /\ commands' = commands + 1
    /\ toDart' = Append(toDart, [kind |-> what])
    /\ UNCHANGED <<areaVars, iconVars, windowVars, toNative, flowVars, settings>>

\* HandleMessage: the icon is selected, or a command of its menu is.
SelectCommand(what) == AtIcon(what) /\ NoTrouble

\* ShowMenu tells Dart that Windows does not show the menu.
ShowMenu == AtIcon("menuFailure") /\ Trouble

PresentWindow(call, done) ==
    /\ visible' = (call = "showAndFocus" \/ (visible /\ call # "hide"))
    /\ done = (call = "isVisible" => visible)
    /\ UNCHANGED hides

SetHideOnClose(call, done) ==
    /\ hides' = (call = "hideOnClose") /\ done
    /\ UNCHANGED visible

\* A call of Dart: what the runner does with it, and whether it succeeds.
TrayCall(call, done) ==
    /\ CASE call = "setIcon" -> SetIcon(done)
         [] call = "setMenu" -> SetMenu(done)
         [] call = "setToolTip" -> SetTooltip(done)
         [] call = "destroy" -> Destroy(done)
    /\ UNCHANGED windowVars

WindowCall(call, done) ==
    /\ IF call \in {"hideOnClose", "closeOnClose"} THEN SetHideOnClose(call, done)
       ELSE PresentWindow(call, done)
    /\ NoTrouble
    /\ UNCHANGED <<iconVars, shown, running>>

\* quit: WM_CLOSE is posted, and no longer hides.
HandleQuit ==
    /\ running /\ toNative # <<>> /\ Head(toNative).call = "quit"
    /\ ProcessEnds

HandleCall ==
    /\ running /\ toNative # <<>> /\ Head(toNative).call # "quit"
    /\ LET m == Head(toNative) IN
       \E done \in BOOLEAN :
           /\ IF m.call \in {"setIcon", "setMenu", "setToolTip", "destroy"}
              THEN TrayCall(m.call, done) ELSE WindowCall(m.call, done)
           /\ toDart' = Append(toDart, [kind |-> "answer", by |-> m.by,
                                        call |-> m.call, done |-> done])
    /\ toNative' = Tail(toNative)
    /\ UNCHANGED <<explorer, taskbar, flowVars, boundVars>>

-----------------------------------------------------------------------------
(* The flows of Dart                                                       *)

Send(by, call) == toNative' = Append(toNative, [by |-> by, call |-> call])
Await(f, step, call) == pc' = [pc EXCEPT ![f] = step] /\ Send(f, call)
Return(f) == pc' = [pc EXCEPT ![f] = "idle"] /\ UNCHANGED toNative

NeedsTray == settings # "plain" \/ override'

\* needsTray forgets the wish of the launch when the preferences changed.
LookAtSettings ==
    /\ override' = (override /\ seen \in {"unseen", settings})
    /\ seen' = settings

configurationVars == <<round, believed, minimizing, wanted, timer, override, seen>>

\* The refresh starts: the presentation may fail to load.
Refresh(f) ==
    \/ Await(f, "menu", "setMenu") /\ NoTrouble /\ UNCHANGED believes
    \/ Await(f, "drop", "destroy") /\ Trouble /\ believes' = FALSE

\* _configure, at the first frame, on a change of the settings, each minute.
Configure ==
    /\ running /\ pc["configure"] = "idle" /\ wanted
    /\ wanted' = FALSE
    /\ LookAtSettings
    /\ minimizing' = (seen = "unseen" /\ override)
    /\ \/ /\ ~NeedsTray
          /\ Await("configure", "plainHide", "closeOnClose")
          /\ UNCHANGED <<round, believes, attached, troubles>>
       \/ /\ NeedsTray /\ believes
          /\ round' = 0 /\ Refresh("configure")
          /\ UNCHANGED attached
       \/ /\ NeedsTray /\ ~believes
          /\ attached' = TRUE
          /\ round' = 2 /\ Await("configure", "startIcon", "setIcon")
          /\ UNCHANGED <<believes, troubles>>
    /\ UNCHANGED <<areaVars, iconVars, windowVars, toDart, believed, timer, boundVars>>

\* The service is started and refreshed: does closing the window hide it now?
Decide(usable) ==
    /\ LookAtSettings
    /\ believed' = usable
    /\ IF NeedsTray
       THEN Await("configure", "setHide",
                  IF settings = "background" /\ usable THEN "hideOnClose"
                  ELSE "closeOnClose")
       ELSE Await("configure", "lateHide", "closeOnClose")
    /\ UNCHANGED <<minimizing, wanted, timer>>

\* A refresh is over, or start() has given the icon up.
Refreshed(f) ==
    IF f = "synchronize"
    THEN Return(f) /\ UNCHANGED <<believes, configurationVars, troubles>>
    ELSE CASE round = 2 -> /\ Decide(FALSE)
                           /\ round' = 0 /\ UNCHANGED <<believes, troubles>>
           [] round = 1 /\ believes ->
                /\ round' = 0 /\ Refresh(f)
                /\ UNCHANGED <<believed, minimizing, wanted, timer, override, seen>>
           [] OTHER -> /\ Decide(believes)
                       /\ round' = 0 /\ UNCHANGED <<believes, troubles>>

\* Mutant: the timer of one minute is not started.
SettleForGood ==
    /\ UNCHANGED timer
    /\ IF minimizing
       THEN Await("configure", "minimize", IF believed THEN "hide" ELSE "showAndFocus")
       ELSE Return("configure")
    /\ believed' = FALSE /\ minimizing' = FALSE
    /\ UNCHANGED <<believes, attached, round, wanted, override, seen, troubles>>

\* The end of a configuration that keeps the icon.
Settle ==
    /\ timer' = TRUE
    /\ IF minimizing
       THEN Await("configure", "minimize", IF believed THEN "hide" ELSE "showAndFocus")
       ELSE Return("configure")
    /\ believed' = FALSE /\ minimizing' = FALSE
    /\ UNCHANGED <<believes, attached, round, wanted, override, seen, troubles>>

\* The calls that follow one another whatever the answer of the first is, or
\* when it is a success.
Following(step) ==
    CASE step = "startIcon" -> <<"startTip", "setToolTip">>
      [] step = "menu" -> <<"tip", "setToolTip">>
      [] step = "tip" -> <<"icon", "setIcon">>
      [] step = "drop" -> <<"unhide", "closeOnClose">>
      [] step = "unhide" -> <<"reveal", "showAndFocus">>
      [] step = "lateHide" -> <<"lateShow", "showAndFocus">>
      [] step = "lateShow" -> <<"lateStop", "destroy">>
      [] step = "plainHide" -> <<"plainVisible", "isVisible">>
      [] step = "plainVisible" -> <<"plainStop", "destroy">>
      [] step = "plainShow" -> <<"plainStop", "destroy">>

Setting == {"startIcon", "startTip", "menu", "tip", "icon"}

Answered(f, done) ==
    LET step == pc[f] IN
    \/ /\ step \in Setting /\ ~done
       /\ believes' = FALSE
       /\ Await(f, "drop", "destroy")
       /\ UNCHANGED <<attached, configurationVars, troubles>>
    \/ /\ step = "startTip" /\ done
       /\ round' = 1
       /\ \/ believes' = TRUE /\ Await(f, "menu", "setMenu") /\ NoTrouble
          \/ believes' = FALSE /\ Await(f, "drop", "destroy") /\ Trouble
       /\ UNCHANGED <<attached, believed, minimizing, wanted, timer, override, seen>>
    \/ /\ step = "reveal" \/ (step = "icon" /\ done)
       /\ Refreshed(f)
       /\ UNCHANGED attached
    \/ /\ step = "show" \/ (step = "setHide" /\ believed)
       /\ Settle
    \/ /\ step = "setHide" /\ ~believed
       /\ Await(f, "show", "showAndFocus")
       /\ UNCHANGED <<believes, attached, configurationVars, troubles>>
    \/ /\ step = "plainVisible" /\ ~done
       /\ Await(f, "plainShow", "showAndFocus")
       /\ UNCHANGED <<believes, attached, configurationVars, troubles>>
    \/ /\ step \in {"plainStop", "lateStop"}
       /\ believes' = FALSE /\ attached' = FALSE
       /\ timer' = (timer /\ step = "lateStop")
       /\ wanted' = (wanted \/ step = "lateStop")
       /\ Return(f)
       /\ believed' = FALSE /\ minimizing' = FALSE
       /\ UNCHANGED <<round, override, seen, troubles>>
    \/ /\ step = "minimize"
       /\ Return(f)
       /\ UNCHANGED <<believes, attached, configurationVars, troubles>>
    \/ /\ \/ step \in {"drop", "unhide", "lateHide", "lateShow", "plainHide", "plainShow"}
          \/ done /\ step \in {"startIcon", "menu", "tip", "plainVisible"}
       /\ Await(f, Following(step)[1], Following(step)[2])
       /\ UNCHANGED <<believes, attached, configurationVars, troubles>>

\* onUnavailable, for a report of the runner, goes on beside the other flows;
\* so does Quit, which stops the service first.
OtherAnswer(by, call) ==
    /\ CASE by = "health" /\ call = "closeOnClose" -> Send(by, "showAndFocus")
         [] by = "quit" /\ call = "destroy" -> Send(by, "quit")
         [] OTHER -> UNCHANGED toNative
    /\ believes' = (believes /\ ~(by = "quit"))
    /\ attached' = (attached /\ ~(by = "quit"))
    /\ UNCHANGED <<pc, configurationVars, troubles>>

\* _handleHealthEvent and the commands of the user.
Reported(m) ==
    /\ CASE m.kind = "tray" ->
                /\ believes' = m.now
                /\ IF m.now THEN UNCHANGED toNative ELSE Send("health", "closeOnClose")
                /\ UNCHANGED <<pc, troubles>>
         [] m.kind = "synchronize" /\ pc["synchronize"] = "idle" ->
                /\ pc' = [pc EXCEPT !["synchronize"] = "syncing"]
                /\ UNCHANGED <<believes, toNative, troubles>>
         [] m.kind \in {"menuFailure", "open", "quit"} ->
                /\ CASE m.kind = "menuFailure" -> Send("health", "closeOnClose")
                     [] m.kind = "open" -> Send("user", "showAndFocus")
                     [] m.kind = "quit" -> Send("quit", "destroy")
                /\ UNCHANGED <<believes, pc, troubles>>
         [] OTHER -> UNCHANGED <<believes, pc, toNative, troubles>>
    /\ UNCHANGED <<attached, configurationVars>>

\* runNow returns, and the icon is refreshed if there still is one.
Synchronized ==
    /\ running /\ pc["synchronize"] = "syncing"
    /\ IF believes THEN Refresh("synchronize")
       ELSE Return("synchronize") /\ UNCHANGED <<believes, troubles>>
    /\ UNCHANGED <<areaVars, iconVars, windowVars, toDart, attached, configurationVars,
                   boundVars>>

DartReceives ==
    /\ running /\ toDart # <<>>
    /\ toDart' = Tail(toDart)
    /\ LET m == Head(toDart) IN
       CASE m.kind # "answer" /\ attached -> Reported(m)
         [] m.kind # "answer" /\ ~attached -> UNCHANGED <<flowVars, toNative, troubles>>
         [] OTHER -> IF m.by \in Refreshers THEN Answered(m.by, m.done)
                     ELSE OtherAnswer(m.by, m.call)
    /\ UNCHANGED <<areaVars, iconVars, windowVars, boundVars>>

Minute ==
    /\ running /\ timer /\ ~wanted
    /\ wanted' = TRUE
    /\ UNCHANGED <<areaVars, iconVars, windowVars, channelVars, believes, attached,
                   pc, round, believed, minimizing, timer, override, seen,
                   boundVars, troubles>>

ChangeSettings ==
    /\ running /\ commands < MaxCommands
    /\ settings' \in Settings \ {settings}
    /\ wanted' = TRUE /\ commands' = commands + 1
    /\ UNCHANGED <<areaVars, iconVars, windowVars, channelVars, believes, attached,
                   pc, round, believed, minimizing, timer, override, seen, troubles>>

Next ==
    \/ ExplorerEnds \/ ExplorerStarts \/ TaskbarCreated
    \/ CloseClicked \/ ChangeSettings \/ Minute
    \/ \E what \in {"open", "synchronize", "quit"} : SelectCommand(what)
    \/ ShowMenu
    \/ HandleCall \/ HandleQuit \/ Configure \/ Synchronized \/ DartReceives

Spec == Init /\ [][Next]_trayVars

(* The two threads go on and the timer ticks; users and the Explorer owe   *)
(* nothing.                                                                *)
FairSpec ==
    /\ Spec
    /\ WF_trayVars(TaskbarCreated) /\ WF_trayVars(HandleCall \/ HandleQuit)
    /\ WF_trayVars(Configure) /\ WF_trayVars(DartReceives)
    /\ WF_trayVars(Minute)

-----------------------------------------------------------------------------
(* A process that runs without a visible window and without an icon gets   *)
(* one of them back, or ends (onUnavailable and _configure of               *)
(* windows_desktop_runtime.dart, "must never strand an otherwise healthy    *)
(* process with no reachable window").                                      *)
NeverStranded == []<>(~running \/ visible \/ shown)

(* Each handle of an icon is the retained one, or was given back to Windows *)
(* once; the controller says the icon is available only while it retains a  *)
(* handle, and once the Explorer's restart is handled the icon is there     *)
(* (Install, SetIcon, Recover, Destroy and ReleaseIcon).                    *)
IconsOwned ==
    /\ live = Owned \cup leaked /\ Owned \cap leaked = {}
    /\ available => icon # NoIcon
    /\ available /\ explorer /\ ~taskbar => shown
==============================================================================
