----------------------------- MODULE NativeMenus -----------------------------
(***************************************************************************)
(* The GTK menus of the Linux runner (linux/runner/my_application.cc): Dart *)
(* asks for a menu with a call that is answered when the menu is retired.   *)
(* One session is active; a newer call, the user, a dismissal by Dart and   *)
(* the end of the channel all retire it.                                   *)
(*                                                                         *)
(* Everything runs on the main loop of GTK: a step is one callback of it,   *)
(* but for the choice of a row, whose deactivation and action are two       *)
(* callbacks GTK makes in a row, with nothing in between.                   *)
(***************************************************************************)
EXTENDS Naturals, Sequences

CONSTANTS
    Menus,    \* sessions Dart asks for, each once
    NoMenu,
    Rows,     \* indexes of the entries of a menu
    NoRow,    \* no entry was chosen: the answer is null
    Error     \* the call is answered with an error

ASSUME MenusAssumption ==
    /\ NoMenu \notin Menus
    /\ NoRow \notin Rows /\ Error \notin Rows /\ NoRow # Error

VARIABLES
    sessions,   \* the sessions that were made and not freed
    current,    \* owner->active
    open,       \* menus on the screen
    cleanup,    \* sessions with an idle source that disposes of them
    picked,     \* pending_selected_index
    activating, \* the row whose action GTK runs next, or NoRow
    answers,    \* the answers of each call, in order
    chosen,     \* the row the user chose in a menu
    channel     \* the channel has its handler

menuVars == <<sessions, current, open, cleanup, picked, activating, answers,
              chosen, channel>>

TypeOK ==
    /\ sessions \in SUBSET Menus /\ open \in SUBSET Menus
    /\ cleanup \in SUBSET Menus
    /\ current \in Menus \cup {NoMenu}
    /\ picked \in [Menus -> Rows \cup {NoRow}]
    /\ activating \in Rows \cup {NoRow}
    /\ answers \in [Menus -> Seq(Rows \cup {NoRow, Error})]
    /\ chosen \in [Menus -> Rows \cup {NoRow}]
    /\ channel \in BOOLEAN

Init ==
    /\ sessions = {} /\ open = {} /\ cleanup = {}
    /\ current = NoMenu
    /\ picked = [m \in Menus |-> NoRow]
    /\ activating = NoRow
    /\ answers = [m \in Menus |-> <<>>]
    /\ chosen = [m \in Menus |-> NoRow]
    /\ channel = TRUE

\* Calls of Dart, idle sources and events: nothing runs before the action of
\* a row that was just chosen.
MainLoop == activating = NoRow
Unasked(m) == channel /\ m \notin sessions /\ answers[m] = <<>>

Answer(given, m, answer) == [given EXCEPT ![m] = Append(@, answer)]

(* native_menu_session_dispose of a set of sessions, one at most: the      *)
(* source, the menu and the action group go, and the call is answered last.*)
Dispose(gone) ==
    /\ cleanup' = cleanup \ gone
    /\ open' = open \ gone
    /\ answers' = [m \in Menus |-> IF m \in gone THEN Append(answers[m], picked[m])
                                   ELSE answers[m]]

Active == {current} \ {NoMenu}

\* The host is not realized, the anchor cannot be translated, or an argument
\* is wrong: the call is answered before the active session is looked at.
ShowRefused(m) ==
    /\ MainLoop /\ Unasked(m)
    /\ answers' = Answer(answers, m, Error)
    /\ UNCHANGED <<sessions, current, open, cleanup, picked, activating, chosen,
                   channel>>

(* show_native_menu: the active session is retired, whatever its state, and *)
(* the new one takes its place. GTK may refuse to map the menu, and nothing *)
(* tells the runner.                                                       *)
Show(m) ==
    /\ MainLoop /\ Unasked(m)
    /\ cleanup' = cleanup \ Active
    /\ answers' = [n \in Menus |-> IF n \in Active THEN Append(answers[n], picked[n])
                                   ELSE answers[n]]
    /\ sessions' = (sessions \ Active) \cup {m}
    /\ current' = m
    /\ \/ open' = (open \ Active) \cup {m}
       \/ open' = open \ Active
    /\ UNCHANGED <<picked, activating, chosen, channel>>

\* gtk_menu_new_from_model gives no menu: the call is answered with an error
\* and cleared, so that disposing of the session answers nothing.
ShowFails(m) ==
    /\ MainLoop /\ Unasked(m)
    /\ cleanup' = cleanup \ Active
    /\ open' = open \ Active
    /\ answers' = [n \in Menus |->
                      IF n = m THEN Append(answers[n], Error)
                      ELSE IF n \in Active THEN Append(answers[n], picked[n])
                      ELSE answers[n]]
    /\ sessions' = sessions \ Active
    /\ current' = NoMenu
    /\ UNCHANGED <<picked, activating, chosen, channel>>

\* Mutant: the session is disposed of at once, before its action runs.
DisposeAtOnce(m) ==
    /\ Dispose({m})
    /\ sessions' = sessions \ {m}
    /\ current' = IF current = m THEN NoMenu ELSE current

\* native_menu_deactivate_cb: the session is disposed of later, on idle.
Deactivate(m) ==
    /\ open' = open \ {m}
    /\ cleanup' = cleanup \cup {m}
    /\ UNCHANGED <<sessions, current, answers>>

\* GTK deactivates the menu before it runs the action of the chosen row.
ChooseRow(m, row) ==
    /\ MainLoop /\ m \in open
    /\ Deactivate(m)
    /\ activating' = row
    /\ chosen' = [chosen EXCEPT ![m] = row]
    /\ UNCHANGED <<picked, channel>>

\* native_menu_action_activated_cb and native_menu_selection_activated_cb.
ActivateAction ==
    /\ activating # NoRow
    /\ activating' = NoRow
    /\ picked' = IF current \in sessions THEN [picked EXCEPT ![current] = activating]
                 ELSE picked
    /\ UNCHANGED <<sessions, current, open, cleanup, answers, chosen, channel>>

\* The user closes the menu, or another grab does.
CloseMenu(m) ==
    /\ MainLoop /\ m \in open
    /\ Deactivate(m)
    /\ UNCHANGED <<picked, activating, chosen, channel>>

CleanupIdle(m) ==
    /\ MainLoop /\ m \in cleanup
    /\ Dispose({m})
    /\ sessions' = sessions \ {m}
    /\ current' = IF current = m THEN NoMenu ELSE current
    /\ UNCHANGED <<picked, activating, chosen, channel>>

\* native_menu_dismiss_active: another session than the active one is left
\* alone; a menu on the screen is deactivated, any other is disposed of here.
Dismiss(m) ==
    /\ MainLoop /\ channel /\ current = m
    /\ \/ m \in open /\ Deactivate(m)
       \/ /\ m \notin open
          /\ Dispose({m})
          /\ sessions' = sessions \ {m}
          /\ current' = NoMenu
    /\ UNCHANGED <<picked, activating, chosen, channel>>

\* native_menu_handler_data_free, at the end of the window.
FreeHandler ==
    /\ MainLoop /\ channel
    /\ channel' = FALSE
    /\ Dispose(Active)
    /\ sessions' = sessions \ Active
    /\ current' = NoMenu
    /\ UNCHANGED <<picked, activating, chosen>>

Next ==
    \/ \E m \in Menus :
           \/ ShowRefused(m) \/ Show(m) \/ ShowFails(m) \/ CloseMenu(m)
           \/ CleanupIdle(m) \/ Dismiss(m)
           \/ \E row \in Rows : ChooseRow(m, row)
    \/ ActivateAction \/ FreeHandler

Spec == Init /\ [][Next]_menuVars

-----------------------------------------------------------------------------
(* A call for a menu is answered once, with the row the user chose in that  *)
(* menu and in no other, or stays open for as long as its session is the    *)
(* active one; no menu and no idle source outlives its session, however     *)
(* newer menus, dismissals and the user interleave                          *)
(* (native_menu_session_dispose).                                           *)
MenusAnswered ==
    /\ sessions = Active
    /\ open \cup cleanup \subseteq sessions
    /\ \A m \in Menus :
           /\ m \in sessions => answers[m] = <<>>
           /\ answers[m] \in {<<>>, <<Error>>, <<chosen[m]>>}
==============================================================================
