---------------------------- MODULE NativeDialogs ----------------------------
(***************************************************************************)
(* The modal dialogs of the Linux runner: the time picker and the search   *)
(* for a time zone (linux/runner/my_application.cc, time_picker.h). A call  *)
(* of Dart runs a main loop of its own until its dialog is over, and is     *)
(* answered by the same callback; that loop goes on serving Dart, whose     *)
(* next call opens its dialog above the first, in a loop inside the loop.   *)
(*                                                                         *)
(* A zone is the number of its place in the order of names and identifiers. *)
(***************************************************************************)
EXTENDS Integers, Sequences, FiniteSets, SequencesExt

CONSTANTS
    ZoneCalls,    \* calls of selectTimeZone, each made once
    TimeCalls,    \* calls of pickTime, each made once
    Zones,        \* options of the search: numbers
    Region,       \* their regions, numbers too
    Searches,     \* how well each option matches what is typed, -1 when it does not
    ResultLimit,  \* kNativeTimeZoneResultLimit
    Hours         \* hours the time picker is opened with

VARIABLES
    stack,      \* the dialogs whose loops run one inside the other, inmost last
    parent,     \* the main window was not destroyed
    styled,     \* calls whose style provider is on the screen
    replies,    \* the answers of each call, in order
    confirmed,  \* what the user confirmed in each dialog
    crashed     \* a freed dialog was used

dialogVars == <<stack, parent, styled, replies, confirmed, crashed>>

Calls == ZoneCalls \cup TimeCalls
Null == [is |-> "null"]
ErrorAnswer == [is |-> "error"]
Zone(z) == [is |-> "zone", zone |-> z]
Time(hour) == [is |-> "time", hour |-> hour]

Init ==
    /\ stack = <<>> /\ parent = TRUE /\ styled = {} /\ crashed = FALSE
    /\ replies = [c \in Calls |-> <<>>]
    /\ confirmed = [c \in Calls |-> Null]

Top == stack[Len(stack)]
Change(i, dialog) == stack' = [stack EXCEPT ![i] = dialog]
Reply(c, answer) == replies' = [replies EXCEPT ![c] = Append(@, answer)]
Asked(c) == \E i \in DOMAIN stack : stack[i].call = c
Unasked(c) == ~crashed /\ ~Asked(c) /\ replies[c] = <<>>

(* The last dialog that was shown has the grab of GTK: it gets the events  *)
(* of the user, until its window is gone.                                  *)
UserActs == ~crashed /\ stack # <<>> /\ Top.window

-----------------------------------------------------------------------------
(* The search for a time zone                                              *)

Matches(ranks) == {z \in Zones : ranks[z] >= 0}
RegionRank(ranks) ==
    [z \in Matches(ranks) |->
        Min({ranks[y] : y \in {y \in Matches(ranks) : Region[y] = Region[z]}})]

\* Mutant: a better match comes first, wherever its region is.
BetterFirst(ranks, best, y, z) ==
    \/ ranks[y] < ranks[z]
    \/ ranks[y] = ranks[z] /\ y < z

\* compare_native_time_zone_options, with the ranks of the regions.
Before(ranks, best, y, z) ==
    \/ best[y] < best[z]
    \/ best[y] = best[z] /\ Region[y] < Region[z]
    \/ Region[y] = Region[z] /\ ranks[y] < ranks[z]
    \/ Region[y] = Region[z] /\ ranks[y] = ranks[z] /\ y < z

\* The matches in that order: i - 1 others come before the i-th.
Ahead(ranks, z) ==
    {y \in Matches(ranks) : Before(ranks, RegionRank(ranks), y, z)}
Sorted(ranks) ==
    [i \in 1..Cardinality(Matches(ranks)) |->
        CHOOSE z \in Matches(ranks) : Cardinality(Ahead(ranks, z)) = i - 1]

\* rebuild_native_time_zone_results: the rows, cut at the limit.
Results(ranks) ==
    SubSeq(Sorted(ranks), 1, Min({Cardinality(Matches(ranks)), ResultLimit}))

NothingTyped == [z \in Zones |-> -1]

Refuse(c) ==
    /\ Unasked(c) /\ c \in ZoneCalls
    /\ Reply(c, ErrorAnswer)
    /\ UNCHANGED <<stack, parent, styled, confirmed, crashed>>

\* A label, an option or the presentation of the list is missing or wrong.
ArgumentsRefused(c) == parent /\ Refuse(c)

\* GTK does not accept the style that is made of the arguments.
StyleRefused(c) == parent /\ Refuse(c)

\* The window the channel belongs to is gone.
NoParent(c) == ~parent /\ Refuse(c)

OpenZones(c) ==
    /\ Unasked(c) /\ c \in ZoneCalls /\ parent
    /\ stack' = Append(stack, [call |-> c, running |-> TRUE, window |-> TRUE,
                               ranks |-> NothingTyped, rows |-> <<>>,
                               result |-> Null])
    /\ styled' = styled \cup {c}
    /\ UNCHANGED <<parent, replies, confirmed, crashed>>

\* search-changed: what is typed ranks each option, -1 when it does not match;
\* nothing typed lists nothing.
TypeSearch(ranks) ==
    /\ UserActs /\ Top.call \in ZoneCalls
    /\ Change(Len(stack), [Top EXCEPT !.ranks = ranks, !.rows = Results(ranks)])
    /\ UNCHANGED <<parent, styled, replies, confirmed, crashed>>

ActivateRow(row) ==
    /\ UserActs /\ Top.call \in ZoneCalls /\ row \in DOMAIN Top.rows
    /\ Change(Len(stack), [Top EXCEPT !.result = Zone(Top.rows[row]), !.running = FALSE])
    /\ confirmed' = [confirmed EXCEPT ![Top.call] = Zone(Top.rows[row])]
    /\ UNCHANGED <<parent, styled, replies, crashed>>

\* delete-event of the window.
CloseZones ==
    /\ UserActs /\ Top.call \in ZoneCalls
    /\ Change(Len(stack), [Top EXCEPT !.running = FALSE])
    /\ UNCHANGED <<parent, styled, replies, confirmed, crashed>>

\* The escape key.
EscapeZones == CloseZones

(* The loop of the inmost dialog has been told to stop and returns: the call *)
(* is answered, then the window goes if it is still there.                  *)
ReturnZones ==
    /\ ~crashed /\ stack # <<>>
    /\ Top.call \in ZoneCalls /\ ~Top.running
    /\ Reply(Top.call, Top.result)
    /\ styled' = styled \ {Top.call}
    /\ stack' = Front(stack)
    /\ UNCHANGED <<parent, confirmed, crashed>>

-----------------------------------------------------------------------------
(* The time picker                                                         *)

DisplayHour(hour) == ((hour + 11) % 12) + 1

\* Mutant: twelve o'clock is not zero o'clock.
TwelveMore(hour, pm) == hour + (IF pm THEN 12 ELSE 0)

CanonicalHour(hour, pm) == (hour % 12) + (IF pm THEN 12 ELSE 0)

\* A number in the range of the spin button, or a text that is none.
Unreadable == 99
ReadComponent(use24, text) == IF use24 THEN text \in 0..23 ELSE text \in 1..12

\* Controls: the hour as it is displayed; the minutes are left out.
Controls(c, hour, use24) ==
    [call |-> c, running |-> TRUE, window |-> TRUE, use24 |-> use24,
     text |-> IF use24 THEN hour ELSE DisplayHour(hour),
     pm |-> hour >= 12, result |-> Null]

OpenTime(c) ==
    /\ Unasked(c) /\ c \in TimeCalls
    /\ \E hour \in Hours, use24 \in BOOLEAN :
           stack' = Append(stack, Controls(c, hour, use24))
    /\ UNCHANGED <<parent, styled, replies, confirmed, crashed>>

\* The text of an entry stays as it is typed, even when it is no hour.
EditHour(text) ==
    /\ UserActs /\ Top.call \in TimeCalls /\ Top.running
    /\ Change(Len(stack), [Top EXCEPT !.text = text])
    /\ UNCHANGED <<parent, styled, replies, confirmed, crashed>>

EditPeriod ==
    /\ UserActs /\ Top.call \in TimeCalls /\ Top.running /\ ~Top.use24
    /\ Change(Len(stack), [Top EXCEPT !.pm = ~@])
    /\ UNCHANGED <<parent, styled, replies, confirmed, crashed>>

ReadTime(dialog) ==
    IF dialog.use24 THEN dialog.text ELSE CanonicalHour(dialog.text, dialog.pm)

\* What the clock of the dialog shows is this hour of the day.
Displays(dialog, hour) ==
    IF dialog.use24 THEN dialog.text = hour
    ELSE dialog.text = DisplayHour(hour) /\ dialog.pm = (hour >= 12)

\* OK with a text that is no time shows an error and the dialog stays.
ConfirmTime ==
    /\ UserActs /\ Top.call \in TimeCalls /\ Top.running
    /\ ReadComponent(Top.use24, Top.text)
    /\ Change(Len(stack), [Top EXCEPT !.result = Time(ReadTime(Top)), !.running = FALSE])
    /\ confirmed' = [confirmed EXCEPT
                        ![Top.call] = Time(CHOOSE h \in 0..23 : Displays(Top, h))]
    /\ UNCHANGED <<parent, styled, replies, crashed>>

CancelTime ==
    /\ UserActs /\ Top.call \in TimeCalls /\ Top.running
    /\ Change(Len(stack), [Top EXCEPT !.running = FALSE])
    /\ UNCHANGED <<parent, styled, replies, confirmed, crashed>>

(* gtk_dialog_run returns. It held the last reference of a dialog that was  *)
(* destroyed with its parent: what the runner does with it then may work    *)
(* or not.                                                                 *)
ReturnTime ==
    /\ ~crashed /\ stack # <<>>
    /\ Top.call \in TimeCalls /\ ~Top.running
    /\ \/ /\ Reply(Top.call, Top.result)
          /\ stack' = Front(stack) /\ UNCHANGED crashed
       \/ /\ ~Top.window /\ crashed' = TRUE
          /\ UNCHANGED <<stack, replies>>
    /\ UNCHANGED <<parent, styled, confirmed>>

-----------------------------------------------------------------------------

\* Every dialog goes with the main window, and stops its loop.
DestroyParent ==
    /\ ~crashed /\ parent
    /\ parent' = FALSE
    /\ stack' = [i \in DOMAIN stack |->
                    [stack[i] EXCEPT !.window = FALSE, !.running = FALSE]]
    /\ UNCHANGED <<styled, replies, confirmed, crashed>>

Next ==
    \/ \E c \in Calls : \/ ArgumentsRefused(c) \/ StyleRefused(c) \/ NoParent(c)
                        \/ OpenZones(c) \/ OpenTime(c)
    \/ \E ranks \in Searches : TypeSearch(ranks)
    \/ \E row \in 1..ResultLimit : ActivateRow(row)
    \/ CloseZones \/ EscapeZones \/ ReturnZones
    \/ \E text \in Hours \cup {Unreadable} : EditHour(text)
    \/ EditPeriod \/ ConfirmTime \/ CancelTime \/ ReturnTime
    \/ DestroyParent

Spec == Init /\ [][Next]_dialogVars

-----------------------------------------------------------------------------
(* A call is answered once, when its dialog is gone, with what the user     *)
(* confirmed in that dialog (the hour its clock showed, the zone of the     *)
(* row) or with null; the style of a search is on the screen for as long    *)
(* as its call runs (handle_native_time_zone_selection, handle_pick_time).   *)
DialogsAnswered ==
    /\ \A i, j \in DOMAIN stack : stack[i].call = stack[j].call => i = j
    /\ \A c \in Calls :
           /\ Asked(c) => replies[c] = <<>>
           /\ replies[c] \in {<<>>, <<ErrorAnswer>>, <<confirmed[c]>>}
    /\ styled = {c \in ZoneCalls : Asked(c)}

(* The rows of a search: each region is one group, the group of the best    *)
(* match comes first, each group starts with its own best match, and an     *)
(* option that matches is missing only behind the limit                     *)
(* (compare_native_time_zone_options, rebuild_native_time_zone_results).    *)
RowsGrouped ==
    \A d \in DOMAIN stack : stack[d].call \in ZoneCalls =>
        LET rows == stack[d].rows
            ranks == stack[d].ranks
        IN /\ ToSet(rows) \subseteq Matches(ranks)
           /\ Len(rows) < ResultLimit => ToSet(rows) = Matches(ranks)
           /\ \A i, j, k \in DOMAIN rows :
                  i < j /\ j < k /\ Region[rows[i]] = Region[rows[k]]
                  => Region[rows[j]] = Region[rows[i]]
           /\ \A i \in DOMAIN rows :
                  i = 1 \/ Region[rows[i - 1]] # Region[rows[i]] =>
                  \A z \in Matches(ranks) :
                      Region[z] = Region[rows[i]] \/ i = 1 => ranks[rows[i]] <= ranks[z]
==============================================================================
