---------------------------- MODULE WindowsRunner ----------------------------
(***************************************************************************)
(* The Windows runner: the guard of its processes (SingleInstance) and the  *)
(* notification icon (WindowsTray), which share no variable.               *)
(***************************************************************************)
EXTENDS SingleInstance

CONSTANTS Icons, NoIcon, MaxTroubles, MaxCommands

\* There is a handle left when one is loaded: the icon keeps one, and a handle
\* that Windows refuses to destroy costs a trouble.
ASSUME IconsAssumption ==
    /\ MaxTroubles \in Nat /\ NoIcon \notin Icons
    /\ IsFiniteSet(Icons) /\ Cardinality(Icons) > MaxTroubles + 1

VARIABLES explorer, taskbar, shown, icon, live, leaked, available, active,
          visible, hides, running, toNative, toDart, believes, attached, pc,
          round, believed, settings, seen, override, minimizing, wanted, timer,
          troubles, commands

Tray == INSTANCE WindowsTray

trayVars ==
    <<explorer, taskbar, shown, icon, live, leaked, available, active, visible,
      hides, running, toNative, toDart, believes, attached, pc, round, believed,
      settings, seen, override, minimizing, wanted, timer, troubles, commands>>

RunnerInit == Init /\ Tray!Init

RunnerNext ==
    \/ Next /\ UNCHANGED trayVars
    \/ Tray!Next /\ UNCHANGED vars

RunnerSpec == RunnerInit /\ [][RunnerNext]_<<vars, trayVars>>

NeverStranded == Tray!NeverStranded
IconsOwned == Tray!IconsOwned
==============================================================================
