----------------------------- MODULE LinuxRunner -----------------------------
(***************************************************************************)
(* The Linux runner: its menus (NativeMenus), its modal dialogs, the first  *)
(* weekday of the desktop, the window and the icons of the header, which    *)
(* share no variable.                                                      *)
(***************************************************************************)
EXTENDS NativeMenus, Integers, FiniteSets

CONSTANTS ZoneCalls, TimeCalls, Zones, Region, Searches, ResultLimit, Hours,
          MaxReads, Days, LocaleDay, Nothing, MaxSettings,
          Items, MaxLaunches, MaxMoves,
          Screens, Scales, MaxIconChanges

ASSUME RunnerAssumption ==
    /\ ZoneCalls \cap TimeCalls = {}
    /\ Hours \subseteq 0..23
    /\ IsFiniteSet(Zones) /\ Zones \subseteq Int /\ Region \in [Zones -> Int]
    /\ Searches \subseteq [Zones -> Int] /\ ResultLimit \in Nat
    /\ MaxReads \in Nat

VARIABLES stack, parent, styled, replies, confirmed, crashed,
          setting, schema, connection, subscribed, direct, watching, awaited,
          timers, waiting, wire, noticed, given, fromWeekday, disposed, latest,
          refreshing, day, origin, changes,
          app, requests, minimized, window, framed, hideOnClose, ready, kept,
          sent, dart, pendingDart, tail, busy, handled, arrived, wanted,
          launches, moves,
          screen, theme, scale, bound, started, revision, listening, toRunner,
          iconsToDart, run, loads, iconsAwaited, target, queued, highest, catalog,
          failed, iconsDisposed, iconChanges

dialogVars == <<stack, parent, styled, replies, confirmed, crashed>>
weekdayVars == <<setting, schema, connection, subscribed, direct, watching,
                 awaited, timers, waiting, wire, noticed, given, fromWeekday,
                 disposed, latest, refreshing, day, origin, changes>>
windowVars == <<app, requests, minimized, window, framed, hideOnClose, ready,
                kept, sent, dart, pendingDart, tail, busy, handled, arrived,
                wanted, launches, moves>>
iconVars == <<screen, theme, scale, bound, started, revision, listening, toRunner,
              iconsToDart, run, loads, iconsAwaited, target, queued, highest,
              catalog, failed, iconsDisposed, iconChanges>>
runnerVars == <<menuVars, dialogVars, weekdayVars, windowVars, iconVars>>

Dialogs == INSTANCE NativeDialogs
Weekday == INSTANCE FirstWeekday WITH MaxChanges <- MaxSettings, toDart <- fromWeekday
Window == INSTANCE LinuxWindow
Icons == INSTANCE HeaderIcons WITH
    MaxChanges <- MaxIconChanges, toDart <- iconsToDart, awaited <- iconsAwaited,
    disposed <- iconsDisposed, changes <- iconChanges

RunnerInit == Init /\ Dialogs!Init /\ Weekday!Init /\ Window!Init /\ Icons!Init

MenusStep == Next /\ UNCHANGED <<dialogVars, weekdayVars, windowVars, iconVars>>
DialogsStep == Dialogs!Next /\ UNCHANGED <<menuVars, weekdayVars, windowVars, iconVars>>
WeekdayStep == Weekday!Next /\ UNCHANGED <<menuVars, dialogVars, windowVars, iconVars>>
WindowStep == Window!Next /\ UNCHANGED <<menuVars, dialogVars, weekdayVars, iconVars>>
IconsStep == Icons!Next /\ UNCHANGED <<menuVars, dialogVars, weekdayVars, windowVars>>

RunnerNext == MenusStep \/ DialogsStep \/ WeekdayStep \/ WindowStep \/ IconsStep

RunnerSpec == RunnerInit /\ [][RunnerNext]_runnerVars

DialogsAnswered == Dialogs!DialogsAnswered
RowsGrouped == Dialogs!RowsGrouped
WeekdayAnswered == Weekday!WeekdayAnswered
WeekdayCurrent == Weekday!WeekdayCurrent
OpensDelivered == Window!OpensDelivered
IconsCurrent == Icons!IconsCurrent
=============================================================================
