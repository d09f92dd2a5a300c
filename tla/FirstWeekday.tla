---------------------------- MODULE FirstWeekday -----------------------------
(***************************************************************************)
(* The first day of the week of the desktop, as the Linux runner reads and *)
(* watches it (linux/runner/first_weekday_preference.cc), and the Dart      *)
(* controller that asks for it again whenever it changes                    *)
(* (week_preferences_scope.dart, linux_first_weekday_source.dart).          *)
(*                                                                         *)
(* A read asks the settings portal over the session bus and falls back to   *)
(* the settings of GNOME, then to the locale. The setting is one; what the  *)
(* portal sends arrives in order.                                          *)
(***************************************************************************)
EXTENDS Naturals, Sequences

CONSTANTS
    MaxReads,     \* bound: calls of getFirstWeekday
    Days,         \* what the user can choose
    LocaleDay,    \* what the locale says: the setting "default", or no setting
    Nothing,      \* null
    MaxChanges    \* bound: changes of the setting

Reads == 1..MaxReads

VARIABLES
    setting,      \* the choice of the user
    schema,       \* the settings of GNOME can be read directly
    connection,   \* portal_connection is set
    subscribed,   \* portal_subscription_id
    direct,       \* direct_signal_id
    watching,     \* change_callback is set, and Dart listens
    awaited,      \* the operation active, or 0
    timers,       \* operations with a timeout source
    waiting,      \* callbacks that are to come: "bus", "portal" or "none"
    wire,         \* messages of the portal on the bus
    noticed,      \* a change of the settings of GNOME waits to be signalled
    given,        \* the answers of each read, in order
    toDart,       \* answers and events the runner sent, in order
    disposed,     \* disposed
    latest,       \* _refreshSequence: the last read of the controller
    refreshing,   \* the refresh of that read is not over
    day,          \* value of the controller
    origin,       \* where that value came from
    changes

stateVars == <<connection, subscribed, direct, watching, disposed>>
readVars == <<awaited, timers, waiting, given>>
dartVars == <<latest, refreshing, day, origin>>
weekdayVars == <<setting, schema, stateVars, readVars, wire, noticed, toDart,
                 dartVars, changes>>

Values == Days \cup {LocaleDay, Nothing}
Origins == {"portal", "direct", "locale", "none"}

TypeOK ==
    /\ setting \in Days \cup {LocaleDay} /\ day \in Values /\ origin \in Origins
    /\ {schema, connection, subscribed, direct, watching, disposed, noticed,
        refreshing} \subseteq BOOLEAN
    /\ awaited \in 0..MaxReads /\ latest \in 0..MaxReads
    /\ timers \subseteq Reads
    /\ waiting \in [Reads -> {"none", "bus", "portal"}]
    /\ changes \in 0..MaxChanges

\* The controller listens before it reads, and the calls arrive in order.
Init ==
    /\ setting \in Days /\ schema \in BOOLEAN
    /\ connection = FALSE /\ subscribed = FALSE /\ direct = FALSE
    /\ watching = TRUE /\ disposed = FALSE
    /\ awaited = 0 /\ timers = {}
    /\ waiting = [r \in Reads |-> "none"]
    /\ given = [r \in Reads |-> <<>>]
    /\ wire = <<>> /\ noticed = FALSE /\ toDart = <<>>
    /\ latest = 0 /\ refreshing = FALSE /\ day = Nothing /\ origin = "none"
    /\ changes = 0

Answer(r, value, from) == [kind |-> "answer", read |-> r, value |-> value, from |-> from]
Event == [kind |-> "event"]

Completed(r) == given[r] # <<>>

\* Mutant: the older call is dropped.
NotGivenUp == given

\* CancelActive: the operation is over, and its call is answered with null.
GivenUp == IF awaited = 0 THEN given
           ELSE [given EXCEPT ![awaited] = Append(@, Nothing)]
Superseded == IF awaited = 0 THEN toDart
              ELSE Append(toDart, Answer(awaited, Nothing, "none"))

\* Complete
Complete(r, value, from) ==
    /\ given' = [given EXCEPT ![r] = Append(@, value)]
    /\ toDart' = Append(toDart, Answer(r, value, from))
    /\ timers' = timers \ {r}
    /\ awaited' = IF awaited = r THEN 0 ELSE awaited

(* ReadDirect: the signal is connected before the value is read; "default"  *)
(* and a machine without the schema get the day of the locale.              *)
ReadDirect(r) ==
    IF schema
    THEN Complete(r, setting, "direct") /\ direct' = TRUE
    ELSE Complete(r, LocaleDay, "locale") /\ UNCHANGED direct

\* Mutant: only the settings of GNOME are watched.
DoNotSubscribe == UNCHANGED subscribed

\* SubscribePortal, of a connection that is there.
SubscribePortal == subscribed' = (subscribed \/ watching)

-----------------------------------------------------------------------------
(* Reads                                                                   *)

(* Read: a newer call answers the older one with null and takes its place. *)
(* The controller makes it when it starts, when the application resumes and *)
(* for each event.                                                         *)
Read(events) ==
    /\ watching /\ latest < MaxReads
    /\ LET r == latest + 1 IN
       /\ latest' = r /\ refreshing' = TRUE
       /\ given' = GivenUp
       /\ toDart' = SubSeq(Superseded, 1 + events, Len(Superseded))
       /\ awaited' = r
       /\ timers' = (timers \ {awaited}) \cup {r}
       /\ waiting' = [waiting EXCEPT ![r] = IF connection THEN "portal" ELSE "bus"]
       /\ IF connection
          THEN SubscribePortal /\ wire' = Append(wire, [kind |-> "ask", read |-> r])
          ELSE UNCHANGED <<subscribed, wire>>
    /\ UNCHANGED <<setting, schema, connection, direct, watching, disposed,
                   noticed, day, origin, changes>>

RefreshOnEvent == toDart # <<>> /\ Head(toDart) = Event /\ Read(1)

\* BusReady: the connection of an operation that is over is given back.
BusReady(r) ==
    /\ waiting[r] = "bus"
    /\ \/ /\ Completed(r) \/ disposed
          /\ waiting' = [waiting EXCEPT ![r] = "none"]
          /\ UNCHANGED <<connection, subscribed, direct, awaited, timers, given,
                         wire, toDart>>
       \/ /\ ~Completed(r) /\ ~disposed
          /\ connection' = TRUE /\ SubscribePortal
          /\ waiting' = [waiting EXCEPT ![r] = "portal"]
          /\ wire' = Append(wire, [kind |-> "ask", read |-> r])
          /\ UNCHANGED <<direct, awaited, timers, given, toDart>>
       \/ /\ ~Completed(r) /\ ~disposed      \* there is no session bus
          /\ ReadDirect(r)
          /\ waiting' = [waiting EXCEPT ![r] = "none"]
          /\ UNCHANGED <<connection, subscribed, wire>>
    /\ UNCHANGED <<setting, schema, watching, disposed, noticed, dartVars, changes>>

\* The portal answers the question at the head of the wire, or it cannot.
PortalServes ==
    /\ wire # <<>> /\ Head(wire).kind = "ask"
    /\ \E ok \in BOOLEAN :
           wire' = <<[kind |-> "reply", read |-> Head(wire).read, ok |-> ok,
                      value |-> setting]>> \o Tail(wire)
    /\ UNCHANGED <<setting, schema, stateVars, readVars, noticed, toDart, dartVars,
                   changes>>

\* PortalRead: an operation that is over takes nothing from its reply.
PortalRead ==
    /\ wire # <<>> /\ Head(wire).kind = "reply"
    /\ wire' = Tail(wire)
    /\ LET r == Head(wire).read IN
       /\ waiting' = [waiting EXCEPT ![r] = "none"]
       /\ \/ /\ Completed(r) \/ disposed
             /\ UNCHANGED <<direct, awaited, timers, given, toDart>>
          \/ /\ ~Completed(r) /\ ~disposed /\ Head(wire).ok
             /\ Complete(r, Head(wire).value, "portal")
             /\ UNCHANGED direct
          \/ /\ ~Completed(r) /\ ~disposed /\ ~Head(wire).ok
             /\ ReadDirect(r)
    /\ UNCHANGED <<setting, schema, connection, subscribed, watching, disposed,
                   noticed, dartVars, changes>>

\* PortalTimeout: the bus or the portal took a second.
PortalTimeout(r) ==
    /\ r \in timers
    /\ IF Completed(r) \/ disposed
       THEN /\ timers' = timers \ {r}
            /\ UNCHANGED <<direct, awaited, given, toDart>>
       ELSE ReadDirect(r)
    /\ UNCHANGED <<setting, schema, connection, subscribed, watching, disposed,
                   waiting, wire, noticed, dartVars, changes>>

-----------------------------------------------------------------------------
(* Changes                                                                 *)

\* The user changes the setting: the portal and GNOME tell who listens.
ChangeSetting ==
    /\ changes < MaxChanges
    /\ changes' = changes + 1
    /\ setting' \in (Days \cup {LocaleDay}) \ {setting}
    /\ wire' = IF subscribed THEN Append(wire, [kind |-> "signal"]) ELSE wire
    /\ noticed' = (noticed \/ direct)
    /\ UNCHANGED <<schema, stateVars, readVars, toDart, dartVars>>

\* PortalChanged and DirectChanged
PortalChanged ==
    /\ wire # <<>> /\ Head(wire).kind = "signal"
    /\ wire' = Tail(wire)
    /\ toDart' = IF watching /\ subscribed THEN Append(toDart, Event) ELSE toDart
    /\ UNCHANGED <<setting, schema, stateVars, readVars, noticed, dartVars, changes>>

DirectChanged ==
    /\ noticed
    /\ noticed' = FALSE
    /\ toDart' = IF watching /\ direct THEN Append(toDart, Event) ELSE toDart
    /\ UNCHANGED <<setting, schema, stateVars, readVars, wire, dartVars, changes>>

\* The controller is disposed: the stream is cancelled (StopWatching) and the
\* reads are (CancelRead).
StopListening ==
    /\ watching
    /\ watching' = FALSE /\ direct' = FALSE /\ subscribed' = FALSE
    /\ given' = GivenUp /\ toDart' = Superseded
    /\ awaited' = 0 /\ timers' = timers \ {awaited}
    /\ UNCHANGED <<setting, schema, connection, disposed, waiting, wire, noticed,
                   dartVars, changes>>

\* Dispose, with the application: no callback runs from now on.
Dispose ==
    /\ ~disposed
    /\ disposed' = TRUE
    /\ watching' = FALSE /\ direct' = FALSE /\ subscribed' = FALSE
    /\ timers' = timers \ {awaited} /\ awaited' = 0
    /\ UNCHANGED <<setting, schema, connection, waiting, given, wire, noticed,
                   toDart, dartVars, changes>>

-----------------------------------------------------------------------------
(* The controller                                                          *)

\* refresh: what an older read says is not looked at, nor what comes late.
Refreshed(m) ==
    IF m.read = latest /\ refreshing
    THEN day' = m.value /\ origin' = m.from /\ refreshing' = FALSE
    ELSE UNCHANGED <<day, origin, refreshing>>

DartReceives ==
    /\ toDart # <<>> /\ Head(toDart).kind = "answer"
    /\ toDart' = Tail(toDart)
    /\ Refreshed(Head(toDart))
    /\ UNCHANGED <<setting, schema, stateVars, readVars, wire, noticed, latest, changes>>

\* The controller waits two seconds for a read, and takes null.
RefreshTimesOut ==
    /\ refreshing
    /\ refreshing' = FALSE
    /\ day' = Nothing /\ origin' = "none"
    /\ UNCHANGED <<setting, schema, stateVars, readVars, wire, noticed, toDart,
                   latest, changes>>

Next ==
    \/ Read(0) \/ RefreshOnEvent
    \/ \E r \in Reads : BusReady(r) \/ PortalTimeout(r)
    \/ PortalServes \/ PortalRead \/ PortalChanged \/ DirectChanged
    \/ ChangeSetting \/ StopListening \/ Dispose
    \/ DartReceives \/ RefreshTimesOut

Spec == Init /\ [][Next]_weekdayVars

-----------------------------------------------------------------------------
(* Each call for the first weekday is answered once: a newer call answers   *)
(* the older one, the bus and the portal may answer late or never, and the  *)
(* timeout of the operation that is left is always there to answer it       *)
(* (Read, CancelActive, Complete, PortalTimeout).                            *)
WeekdayAnswered ==
    /\ timers = {awaited} \ {0}
    /\ \A r \in 1..latest :
           /\ Len(given[r]) <= 1
           /\ given[r] = <<>> => r = awaited \/ disposed

(* When nothing is under way, a value the controller has from the portal or *)
(* from GNOME is the setting of now: a change cannot fall between the read  *)
(* of a value and the signal that would tell of the change (SubscribePortal, *)
(* ConnectDirect, "the connection above intentionally precedes this initial *)
(* value read").                                                            *)
WeekdayCurrent ==
    watching /\ wire = <<>> /\ ~noticed /\ toDart = <<>> /\ ~refreshing
    /\ origin \in {"portal", "direct"} => day = setting
=============================================================================
