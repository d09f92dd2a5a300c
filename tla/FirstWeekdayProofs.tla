------------------------- MODULE FirstWeekdayProofs --------------------------
(***************************************************************************)
(* Proofs about FirstWeekday, for any number of reads and changes.         *)
(*                                                                         *)
(* Every read is answered once or is the one whose timeout still runs.     *)
(* That alone is not inductive: a callback of the bus or a reply of the    *)
(* portal may come for any read, the ones that are over included.          *)
(* CallsInv says what the calls look like, LateInv that whatever is still  *)
(* to come is for a read that was made.                                    *)
(*                                                                         *)
(* What the controller has from the portal or from GNOME is current once   *)
(* nothing is on its way.  CurrentInv follows such a value from the reply  *)
(* on the wire to the answer sent to Dart and into the controller: at each *)
(* of these places it is the setting of now, or a change is on its way     *)
(* behind it; and whoever gave a value tells of its changes (WatchedInv).  *)
(***************************************************************************)
EXTENDS FirstWeekday, TLAPS

Made == 1..latest

CallsInv ==
    /\ latest \in 0..MaxReads /\ awaited \in 0..latest
    /\ DOMAIN given = Reads
    /\ timers = {awaited} \ {0}
    /\ awaited # 0 => given[awaited] = <<>> /\ ~disposed
    /\ disposed => ~watching
    /\ \A r \in Made : \/ given[r] = <<>> /\ (r = awaited \/ disposed)
                       \/ \E v : given[r] = <<v>>
    /\ \A r \in Reads \ Made : given[r] = <<>>

Sent(made) == [kind : {"ask"}, read : made]
              \cup [kind : {"reply"}, read : made, ok : BOOLEAN,
                    value : Days \cup {LocaleDay}]
              \cup [kind : {"signal"}]

LateInv ==
    /\ setting \in Days \cup {LocaleDay}
    /\ DOMAIN waiting = Reads
    /\ \A r \in Reads : waiting[r] # "none" => r \in Made
    /\ wire \in Seq(Sent(Made))

ReadsInv == CallsInv /\ LateInv
------------------------------------------------------------------------------

LEMMA OneAnswer ==
    ASSUME NEW x PROVE Append(<<>>, x) = <<x>> /\ <<x>> # <<>> /\ Len(<<x>>) = 1
OBVIOUS

\* What may be on the wire stays so when more reads are made.
LEMMA MoreSent ==
    ASSUME NEW few, NEW many, few \subseteq many, NEW w \in Seq(Sent(few))
    PROVE  w \in Seq(Sent(many))
<1>1. Sent(few) \subseteq Sent(many)
  BY DEF Sent
<1> QED BY <1>1

LEMMA InitReadsInv == ASSUME MaxReads \in Nat, Init PROVE ReadsInv
BY DEF Init, ReadsInv, CallsInv, LateInv, Reads, Made

\* The answer of the only read that may be open leaves none open.
LEMMA CompleteKeepsCalls ==
    ASSUME MaxReads \in Nat, CallsInv, NEW r \in Made, ~Completed(r), ~disposed,
           NEW value, NEW from, Complete(r, value, from),
           UNCHANGED <<latest, disposed, watching>>
    PROVE  CallsInv'
<1>1. r = awaited /\ r \in Reads /\ given[r] = <<>>
  BY DEF CallsInv, Completed, Made, Reads
<1>2. given' = [given EXCEPT ![r] = <<value>>]
  BY <1>1, OneAnswer DEF Complete
<1>3. awaited' = 0 /\ timers' = {} /\ r # 0
  BY <1>1 DEF Complete, CallsInv, Made
<1>4. given'[r] = <<value>> /\ DOMAIN given' = Reads
  BY <1>1, <1>2 DEF CallsInv
<1>5. \A s \in Reads : s # r => given'[s] = given[s]
  BY <1>2 DEF CallsInv
<1>6. \A s \in Made' : \/ given'[s] = <<>> /\ (s = awaited' \/ disposed')
                       \/ \E v : given'[s] = <<v>>
  BY <1>1, <1>4, <1>5 DEF CallsInv, Made, Reads
<1>7. \A s \in Reads \ Made' : given'[s] = <<>>
  BY <1>1, <1>5 DEF CallsInv, Made, Reads
<1> QED BY <1>3, <1>4, <1>6, <1>7 DEF CallsInv, Made

LEMMA ReadDirectKeepsCalls ==
    ASSUME MaxReads \in Nat, CallsInv, NEW r \in Made, ~Completed(r), ~disposed,
           ReadDirect(r), UNCHANGED <<latest, disposed, watching>>
    PROVE  CallsInv'
BY CompleteKeepsCalls DEF ReadDirect

\* A read that is given up is answered with null, and none is open.
LEMMA GivenUpAnswers ==
    ASSUME MaxReads \in Nat, CallsInv
    PROVE  /\ DOMAIN GivenUp = Reads
           /\ \A r \in Made : \/ GivenUp[r] = <<>> /\ disposed
                              \/ \E v : GivenUp[r] = <<v>>
           /\ \A r \in Reads \ Made : GivenUp[r] = <<>>
<1>1. CASE awaited = 0
  BY <1>1 DEF CallsInv, GivenUp, Made
<1>2. CASE awaited # 0
  <2>1. awaited \in Made /\ awaited \in Reads /\ given[awaited] = <<>>
    BY <1>2 DEF CallsInv, Made, Reads
  <2>2. GivenUp = [given EXCEPT ![awaited] = <<Nothing>>]
    BY <1>2, <2>1, OneAnswer DEF GivenUp
  <2>3. GivenUp[awaited] = <<Nothing>> /\ DOMAIN GivenUp = Reads
    BY <2>1, <2>2 DEF CallsInv
  <2>4. \A r \in Reads : r # awaited => GivenUp[r] = given[r]
    BY <2>2 DEF CallsInv
  <2>5. Made \subseteq Reads
    BY DEF CallsInv, Made, Reads
  <2> QED BY <2>1, <2>3, <2>4, <2>5 DEF CallsInv
<1> QED BY <1>1, <1>2
------------------------------------------------------------------------------
(* One lemma per kind of step                                              *)

LEMMA ReadKeepsInv ==
    ASSUME MaxReads \in Nat, ReadsInv, NEW events, Read(events) PROVE ReadsInv'
<1> DEFINE r == latest + 1
<1>1. /\ r \in Reads /\ r \notin Made /\ latest' = r /\ awaited' = r
      /\ Made' = Made \cup {r} /\ Made \subseteq Made' /\ r # 0
  BY DEF Read, ReadsInv, CallsInv, Reads, Made
<1>2. given' = GivenUp /\ ~disposed /\ UNCHANGED <<setting, disposed, watching>>
  BY DEF Read, ReadsInv, CallsInv
<1>3. timers' = {r}
  BY <1>1 DEF Read, ReadsInv, CallsInv
<1>4. CallsInv'
  <2>1. latest' \in 0..MaxReads /\ awaited' \in 0..latest'
    BY <1>1 DEF Reads
  <2>2. given'[r] = <<>>
    BY <1>1, <1>2, GivenUpAnswers DEF ReadsInv
  <2>3. DOMAIN given' = Reads
    BY <1>2, GivenUpAnswers DEF ReadsInv
  <2>4. \A s \in Made : \E v : given'[s] = <<v>>
    BY <1>2, GivenUpAnswers DEF ReadsInv
  <2>5. \A s \in Reads \ Made : given'[s] = <<>>
    BY <1>2, GivenUpAnswers DEF ReadsInv
  <2>6. timers' = {awaited'} \ {0} /\ (disposed' => ~watching') /\ ~disposed'
    BY <1>1, <1>2, <1>3
  <2>7. \A s \in Made' : \/ given'[s] = <<>> /\ (s = awaited' \/ disposed')
                         \/ \E v : given'[s] = <<v>>
    BY <1>1, <2>2, <2>4
  <2>8. \A s \in Reads \ Made' : given'[s] = <<>>
    BY <1>1, <2>5
  <2> QED BY <1>1, <2>1, <2>2, <2>3, <2>6, <2>7, <2>8 DEF CallsInv
<1>5. LateInv'
  <2>1. waiting' = [waiting EXCEPT ![r] = IF connection THEN "portal" ELSE "bus"]
    BY DEF Read
  <2>2. DOMAIN waiting' = Reads /\ \A s \in Reads : waiting'[s] # "none" => s \in Made'
    BY <1>1, <2>1 DEF ReadsInv, LateInv
  <2>3. wire \in Seq(Sent(Made'))
    BY <1>1, MoreSent DEF ReadsInv, LateInv
  <2>4. [kind |-> "ask", read |-> r] \in Sent(Made')
    BY <1>1 DEF Sent
  <2>5. wire' = wire \/ wire' = Append(wire, [kind |-> "ask", read |-> r])
    BY DEF Read
  <2>6. Append(wire, [kind |-> "ask", read |-> r]) \in Seq(Sent(Made'))
    BY <2>3, <2>4
  <2>7. wire' \in Seq(Sent(Made'))
    BY <2>3, <2>5, <2>6
  <2>8. LateInv' <=> /\ setting' \in Days \cup {LocaleDay}
                     /\ DOMAIN waiting' = Reads
                     /\ \A s \in Reads : waiting'[s] # "none" => s \in Made'
                     /\ wire' \in Seq(Sent(Made'))
    BY DEF LateInv, Sent, Reads
  <2> QED BY <1>2, <2>2, <2>7, <2>8 DEF ReadsInv, LateInv
<1> QED BY <1>4, <1>5 DEF ReadsInv

\* A step that takes messages off the wire, or puts one there that may be there.
LEMMA KeepsLate ==
    ASSUME ReadsInv, UNCHANGED <<latest, setting>>,
           DOMAIN waiting' = Reads,
           \A r \in Reads : waiting'[r] # "none" => waiting[r] # "none",
           wire' \in Seq(Sent(Made))
    PROVE  LateInv'
BY DEF ReadsInv, LateInv, Made, Sent, Reads

LEMMA BusReadyKeepsInv ==
    ASSUME MaxReads \in Nat, ReadsInv, NEW r \in Reads, BusReady(r) PROVE ReadsInv'
<1>1. r \in Made /\ UNCHANGED <<setting, watching, disposed, latest>>
  BY DEF BusReady, dartVars, ReadsInv, LateInv
<1>2. DOMAIN waiting' = Reads /\ \A s \in Reads : waiting'[s] # "none" => waiting[s] # "none"
  <2>1. \/ waiting' = [waiting EXCEPT ![r] = "none"]
        \/ waiting' = [waiting EXCEPT ![r] = "portal"]
    BY DEF BusReady
  <2> QED BY <2>1 DEF BusReady, ReadsInv, LateInv
<1>3. wire' \in Seq(Sent(Made))
  <2>1. wire' = wire \/ wire' = Append(wire, [kind |-> "ask", read |-> r])
    BY DEF BusReady
  <2>2. [kind |-> "ask", read |-> r] \in Sent(Made)
    BY <1>1 DEF Sent
  <2>3. Append(wire, [kind |-> "ask", read |-> r]) \in Seq(Sent(Made))
    BY <2>2 DEF ReadsInv, LateInv
  <2> QED BY <2>1, <2>3 DEF ReadsInv, LateInv
<1>4. CallsInv'
  <2>1. CASE UNCHANGED <<awaited, timers, given>>
    BY <1>1, <2>1 DEF ReadsInv, CallsInv, Made, Reads
  <2>2. CASE ~Completed(r) /\ ~disposed /\ ReadDirect(r)
    BY <1>1, <2>2, ReadDirectKeepsCalls DEF ReadsInv
  <2> QED BY <2>1, <2>2 DEF BusReady
<1> QED BY <1>1, <1>2, <1>3, <1>4, KeepsLate DEF ReadsInv

\* The question at the head of the wire becomes its answer.
LEMMA PortalServesKeepsInv ==
    ASSUME MaxReads \in Nat, ReadsInv, PortalServes PROVE ReadsInv'
<1>1. UNCHANGED <<setting, watching, disposed, latest, awaited, timers, waiting, given>>
  BY DEF PortalServes, stateVars, readVars, dartVars
<1>2. CallsInv'
  BY <1>1 DEF ReadsInv, CallsInv, Made, Reads
<1>3. PICK ok \in BOOLEAN : wire' = <<[kind |-> "reply", read |-> Head(wire).read,
                                      ok |-> ok, value |-> setting]>> \o Tail(wire)
  BY DEF PortalServes
<1>4. wire \in Seq(Sent(Made)) /\ wire # <<>> /\ Head(wire).kind = "ask"
  BY DEF PortalServes, ReadsInv, LateInv
<1>5. Head(wire) \in Sent(Made) /\ Tail(wire) \in Seq(Sent(Made))
  BY <1>4
<1>6. Head(wire).read \in Made
  BY <1>4, <1>5 DEF Sent
<1>7. [kind |-> "reply", read |-> Head(wire).read, ok |-> ok, value |-> setting]
          \in Sent(Made)
  BY <1>6 DEF Sent, ReadsInv, LateInv
<1>8. wire' \in Seq(Sent(Made))
  BY <1>3, <1>5, <1>7
<1>9. LateInv'
  BY <1>1, <1>8, KeepsLate DEF ReadsInv, LateInv
<1> QED BY <1>2, <1>9 DEF ReadsInv

LEMMA PortalReadKeepsInv ==
    ASSUME MaxReads \in Nat, ReadsInv, PortalRead PROVE ReadsInv'
<1> DEFINE r == Head(wire).read
<1>1. UNCHANGED <<setting, watching, disposed, latest>>
  BY DEF PortalRead, dartVars
<1>2. wire \in Seq(Sent(Made)) /\ wire # <<>> /\ Head(wire).kind = "reply"
  BY DEF PortalRead, ReadsInv, LateInv
<1>3. Head(wire) \in Sent(Made) /\ Tail(wire) \in Seq(Sent(Made))
  BY <1>2
<1>4. r \in Made
  BY <1>2, <1>3 DEF Sent
<1>5. DOMAIN waiting' = Reads /\ \A s \in Reads : waiting'[s] # "none" => waiting[s] # "none"
  <2>1. waiting' = [waiting EXCEPT ![r] = "none"]
    BY DEF PortalRead
  <2> QED BY <2>1 DEF ReadsInv, LateInv
<1>6. LateInv'
  BY <1>1, <1>3, <1>5, KeepsLate DEF PortalRead
<1>7. CallsInv'
  <2>1. CASE UNCHANGED <<awaited, timers, given>>
    BY <1>1, <2>1 DEF ReadsInv, CallsInv, Made, Reads
  <2>2. CASE ~Completed(r) /\ ~disposed /\ Complete(r, Head(wire).value, "portal")
    BY <1>1, <1>4, <2>2, CompleteKeepsCalls DEF ReadsInv
  <2>3. CASE ~Completed(r) /\ ~disposed /\ ReadDirect(r)
    BY <1>1, <1>4, <2>3, ReadDirectKeepsCalls DEF ReadsInv
  <2> QED BY <2>1, <2>2, <2>3 DEF PortalRead
<1> QED BY <1>6, <1>7 DEF ReadsInv

\* A timeout is that of the open read: its first branch is never taken.
LEMMA PortalTimeoutKeepsInv ==
    ASSUME MaxReads \in Nat, ReadsInv, NEW r \in Reads, PortalTimeout(r) PROVE ReadsInv'
<1>1. UNCHANGED <<setting, watching, disposed, latest, waiting, wire>>
  BY DEF PortalTimeout, dartVars
<1>2. r \in Made /\ ~Completed(r) /\ ~disposed
  BY DEF PortalTimeout, ReadsInv, CallsInv, Made, Completed
<1>3. CallsInv'
  BY <1>1, <1>2, ReadDirectKeepsCalls DEF PortalTimeout, ReadsInv
<1>4. LateInv'
  BY <1>1, KeepsLate DEF ReadsInv, LateInv
<1> QED BY <1>3, <1>4 DEF ReadsInv

LEMMA StopListeningKeepsInv ==
    ASSUME MaxReads \in Nat, ReadsInv, StopListening PROVE ReadsInv'
<1>1. /\ UNCHANGED <<setting, disposed, latest, waiting, wire>>
      /\ awaited' = 0 /\ timers' = {} /\ ~watching' /\ given' = GivenUp
  BY DEF StopListening, dartVars, ReadsInv, CallsInv
<1>2. CallsInv'
  BY <1>1, GivenUpAnswers DEF ReadsInv, CallsInv, Made, Reads
<1>3. LateInv'
  BY <1>1, KeepsLate DEF ReadsInv, LateInv
<1> QED BY <1>2, <1>3 DEF ReadsInv

LEMMA DisposeKeepsInv ==
    ASSUME MaxReads \in Nat, ReadsInv, Dispose PROVE ReadsInv'
<1>1. /\ UNCHANGED <<setting, latest, waiting, wire, given>>
      /\ awaited' = 0 /\ timers' = {} /\ ~watching' /\ disposed'
  BY DEF Dispose, dartVars, ReadsInv, CallsInv
<1>2. CallsInv'
  BY <1>1 DEF ReadsInv, CallsInv, Made, Reads
<1>3. LateInv'
  BY <1>1, KeepsLate DEF ReadsInv, LateInv
<1> QED BY <1>2, <1>3 DEF ReadsInv

\* The setting changes, or a change is told.
LEMMA ChangesKeepInv ==
    ASSUME MaxReads \in Nat, ReadsInv, ChangeSetting \/ PortalChanged \/ DirectChanged
    PROVE  ReadsInv'
<1>1. /\ UNCHANGED <<watching, disposed, latest, awaited, timers, waiting, given>>
      /\ setting' \in Days \cup {LocaleDay}
  BY DEF ChangeSetting, PortalChanged, DirectChanged, stateVars, readVars, dartVars,
         ReadsInv, LateInv
<1>2. CallsInv'
  BY <1>1 DEF ReadsInv, CallsInv, Made, Reads
<1>3. wire' \in Seq(Sent(Made))
  <2>1. wire \in Seq(Sent(Made)) /\ [kind |-> "signal"] \in Sent(Made)
    BY DEF ReadsInv, LateInv, Sent
  <2>2. Append(wire, [kind |-> "signal"]) \in Seq(Sent(Made))
    BY <2>1
  <2>3. wire # <<>> => Tail(wire) \in Seq(Sent(Made))
    BY <2>1
  <2> QED BY <2>1, <2>2, <2>3 DEF ChangeSetting, PortalChanged, DirectChanged
<1>4. LateInv'
  BY <1>1, <1>3 DEF ReadsInv, LateInv, Made, Sent, Reads
<1> QED BY <1>2, <1>4 DEF ReadsInv

\* The controller takes an answer, or stops to wait for it: no call is touched.
LEMMA DartKeepsInv ==
    ASSUME ReadsInv, UNCHANGED <<setting, stateVars, readVars, wire, latest>>
    PROVE  ReadsInv'
BY DEF ReadsInv, CallsInv, LateInv, stateVars, readVars, Made, Sent, Reads
------------------------------------------------------------------------------

LEMMA NextReadsInv ==
    ASSUME MaxReads \in Nat, ReadsInv, [Next]_weekdayVars PROVE ReadsInv'
<1>1. CASE Read(0) \/ RefreshOnEvent
  BY <1>1, ReadKeepsInv DEF RefreshOnEvent
<1>2. ASSUME NEW r \in Reads, BusReady(r) PROVE ReadsInv'
  BY <1>2, BusReadyKeepsInv
<1>3. ASSUME NEW r \in Reads, PortalTimeout(r) PROVE ReadsInv'
  BY <1>3, PortalTimeoutKeepsInv
<1>4. CASE PortalServes
  BY <1>4, PortalServesKeepsInv
<1>5. CASE PortalRead
  BY <1>5, PortalReadKeepsInv
<1>6. CASE PortalChanged \/ DirectChanged \/ ChangeSetting
  BY <1>6, ChangesKeepInv
<1>7. CASE StopListening
  BY <1>7, StopListeningKeepsInv
<1>8. CASE Dispose
  BY <1>8, DisposeKeepsInv
<1>9. CASE DartReceives \/ RefreshTimesOut
  BY <1>9, DartKeepsInv DEF DartReceives, RefreshTimesOut
<1>10. CASE UNCHANGED weekdayVars
  BY <1>10, DartKeepsInv DEF weekdayVars, dartVars
<1> QED BY <1>1, <1>2, <1>3, <1>4, <1>5, <1>6, <1>7, <1>8, <1>9, <1>10 DEF Next

\* An open read has its timeout, whatever the bus and the portal do.
LEMMA ReadsInvAnswers == ASSUME MaxReads \in Nat, ReadsInv PROVE WeekdayAnswered
<1>1. \A r \in Made : /\ given[r] = <<>> => r = awaited \/ disposed
                      /\ given[r] = <<>> \/ \E v : given[r] = <<v>>
  BY DEF ReadsInv, CallsInv
<1>2. ASSUME NEW r \in Made PROVE Len(given[r]) <= 1
  <2>1. CASE given[r] = <<>>
    BY <2>1
  <2>2. CASE \E v : given[r] = <<v>>
    <3>1. PICK v : given[r] = <<v>>
      BY <2>2
    <3>2. Len(<<v>>) = 1
      BY OneAnswer
    <3> QED BY <3>1, <3>2
  <2> QED BY <1>1, <2>1, <2>2
<1> QED BY <1>1, <1>2 DEF ReadsInv, CallsInv, WeekdayAnswered, Made

\* Each call for the first weekday is answered once, or is the one whose
\* timeout runs (Read, CancelActive, Complete, PortalTimeout), for any number
\* of reads and of changes of the setting.
THEOREM EveryReadIsAnswered ==
    ASSUME MaxReads \in Nat PROVE Spec => []WeekdayAnswered
<1>1. Init => ReadsInv
  BY InitReadsInv
<1>2. ReadsInv /\ [Next]_weekdayVars => ReadsInv'
  BY NextReadsInv
<1>3. ReadsInv => WeekdayAnswered
  BY ReadsInvAnswers
<1> QED BY <1>1, <1>2, <1>3, PTL DEF Spec
------------------------------------------------------------------------------
(* A value that is not current is about to be asked for again               *)

Signalled == [kind |-> "signal"]

\* A change is on its way to the controller.
Pending ==
    \/ \E i \in DOMAIN wire : wire[i] = Signalled
    \/ noticed
    \/ \E i \in DOMAIN toDart : toDart[i] = Event

\* Whoever gave a value tells of its changes.
Watched(from) == (from = "portal" => subscribed) /\ (from = "direct" => direct)

Sendable(made) == [kind : {"event"}] \cup
                  [kind : {"answer"}, read : made, value : Values, from : Origins]

\* Answers sent to Dart name reads that were made; of the last read they are
\* current, or a change is on its way.
AnswersInv ==
    /\ toDart \in Seq(Sendable(Made))
    /\ watching => \A i \in DOMAIN toDart : toDart[i].kind = "answer" =>
          /\ Watched(toDart[i].from)
          /\ toDart[i].read = latest /\ toDart[i].from \in {"portal", "direct"}
                => toDart[i].value = setting \/ Pending

WatchedInv ==
    watching =>
       /\ connection => subscribed
       /\ wire # <<>> => subscribed
       /\ noticed => direct
       /\ Watched(origin)

RepliesInv ==
    watching => \A i \in DOMAIN wire : wire[i].kind = "reply" /\ wire[i].ok =>
       wire[i].value = setting \/ \E j \in DOMAIN wire : j > i /\ wire[j] = Signalled

ValueInv ==
    watching /\ ~refreshing /\ origin \in {"portal", "direct"} => day = setting \/ Pending

CurrentInv == AnswersInv /\ WatchedInv /\ RepliesInv /\ ValueInv


LEMMA InitCurrentInv == Init => CurrentInv
BY DEF Init, CurrentInv, AnswersInv, WatchedInv, RepliesInv, ValueInv, Watched, Made

\* A new message leaves the others where they are.
LEMMA Appended ==
    ASSUME NEW S, NEW s \in Seq(S), NEW x
    PROVE  /\ DOMAIN Append(s, x) = DOMAIN s \cup {Len(s) + 1}
           /\ \A i \in DOMAIN s : Append(s, x)[i] = s[i] /\ i < Len(s) + 1
           /\ Append(s, x)[Len(s) + 1] = x
           /\ x \in S => Append(s, x) \in Seq(S)
OBVIOUS

\* Taking the first message moves the others up.
LEMMA Taken ==
    ASSUME NEW S, NEW s \in Seq(S), s # <<>>
    PROVE  /\ Tail(s) \in Seq(S) /\ Head(s) = s[1] /\ 1 \in DOMAIN s
           /\ DOMAIN s \subseteq Nat \ {0}
           /\ \A i \in DOMAIN Tail(s) : i + 1 \in DOMAIN s /\ Tail(s)[i] = s[i + 1]
           /\ \A i \in DOMAIN s : i > 1 => i - 1 \in DOMAIN Tail(s) /\ Tail(s)[i - 1] = s[i]
OBVIOUS

LEMMA MoreSendable ==
    ASSUME NEW few, NEW many, few \subseteq many, NEW s \in Seq(Sendable(few))
    PROVE  s \in Seq(Sendable(many))
<1>1. Sendable(few) \subseteq Sendable(many)
  BY DEF Sendable
<1> QED BY <1>1
\* Once nobody listens only the types matter.
LEMMA NotWatching ==
    ASSUME ~watching', toDart' \in Seq(Sendable(Made')) PROVE CurrentInv'
BY DEF CurrentInv, AnswersInv, WatchedInv, RepliesInv, ValueInv, Made, Sendable, Values

WatchedThen(from) == (from = "portal" => subscribed') /\ (from = "direct" => direct')

\* What was sent stays current or pending; what is new has to be.
LEMMA KeepsAnswers ==
    ASSUME AnswersInv, UNCHANGED <<latest, watching>>,
           toDart' \in Seq(Sendable(Made)),
           watching => /\ subscribed => subscribed'
                       /\ direct => direct'
                       /\ \/ setting' = setting /\ (Pending => Pending')
                          \/ subscribed \/ direct => Pending',
           watching => \A i \in DOMAIN toDart' : toDart'[i].kind = "answer" =>
              \/ \E j \in DOMAIN toDart : toDart'[i] = toDart[j]
              \/ /\ WatchedThen(toDart'[i].from)
                 /\ toDart'[i].from \in {"portal", "direct"} =>
                       toDart'[i].value = setting' \/ Pending'
    PROVE  AnswersInv'
<1>1. toDart' \in Seq(Sendable(Made'))
  BY DEF Made
<1>2. ASSUME watching', NEW i \in DOMAIN toDart', toDart'[i].kind = "answer"
      PROVE  /\ WatchedThen(toDart'[i].from)
             /\ toDart'[i].read = latest' /\ toDart'[i].from \in {"portal", "direct"}
                  => toDart'[i].value = setting' \/ Pending'
  <2>1. ASSUME NEW j \in DOMAIN toDart, toDart'[i] = toDart[j]
        PROVE  /\ WatchedThen(toDart'[i].from)
               /\ toDart'[i].read = latest' /\ toDart'[i].from \in {"portal", "direct"}
                    => toDart'[i].value = setting' \/ Pending'
    <3>1. /\ Watched(toDart[j].from)
          /\ toDart[j].read = latest /\ toDart[j].from \in {"portal", "direct"}
                => toDart[j].value = setting \/ Pending
      BY <1>2, <2>1 DEF AnswersInv
    <3>2. WatchedThen(toDart'[i].from)
      BY <1>2, <2>1, <3>1 DEF Watched, WatchedThen
    <3>3. toDart[j].from \in {"portal", "direct"} => subscribed \/ direct
      BY <3>1 DEF Watched
    <3> QED BY <1>2, <2>1, <3>1, <3>2, <3>3
  <2> QED BY <1>2, <2>1
<1> QED BY <1>1, <1>2 DEF AnswersInv, Watched, WatchedThen

\* A value the controller has stays current or pending.
LEMMA KeepsValue ==
    ASSUME WatchedInv, ValueInv, UNCHANGED <<watching, refreshing, day, origin>>,
           watching => \/ setting' = setting /\ (Pending => Pending')
                       \/ subscribed \/ direct => Pending'
    PROVE  ValueInv'
BY DEF ValueInv, WatchedInv, Watched

LEMMA ReadKeepsCurrent ==
    ASSUME MaxReads \in Nat, ReadsInv, CurrentInv, NEW events \in {0, 1}, Read(events)
    PROVE  CurrentInv'
<1> USE DEF CurrentInv
<1> DEFINE r == latest + 1
           s == Superseded
           ask == [kind |-> "ask", read |-> r]
<1>1. /\ watching' /\ watching /\ latest' = r /\ Made' = Made \cup {r} /\ r \notin Made
      /\ refreshing' /\ UNCHANGED <<setting, connection, direct, noticed, day, origin>>
      /\ latest \in Nat
  BY DEF Read, ReadsInv, CallsInv, Made
<1>2. s \in Seq(Sendable(Made)) /\ \A i \in DOMAIN s : Watched(s[i].from) \/ s[i].kind = "event"
  <2>1. CASE awaited = 0
    BY <1>1, <2>1 DEF Superseded, AnswersInv, Sendable
  <2>2. CASE awaited # 0
    <3>1. awaited \in Made
      BY <2>2 DEF ReadsInv, CallsInv, Made
    <3>2. Answer(awaited, Nothing, "none") \in Sendable(Made)
      BY <3>1 DEF Answer, Sendable, Values, Origins
    <3>3. s = Append(toDart, Answer(awaited, Nothing, "none"))
      BY <2>2 DEF Superseded
    <3>4. Watched(Answer(awaited, Nothing, "none").from)
      BY DEF Watched, Answer
    <3>5. \A i \in DOMAIN toDart : Watched(toDart[i].from) \/ toDart[i].kind = "event"
      BY <1>1 DEF AnswersInv, Sendable
    <3>6. toDart \in Seq(Sendable(Made))
      BY DEF AnswersInv
    <3> QED BY <3>2, <3>3, <3>4, <3>5, <3>6, Appended
  <2> QED BY <2>1, <2>2
<1>3. toDart' = SubSeq(s, 1 + events, Len(s))
  BY DEF Read
<1> HIDE DEF s
<1>4. toDart' \in Seq(Sendable(Made)) /\ \A i \in DOMAIN toDart' : \E j \in DOMAIN s : toDart'[i] = s[j]
  BY <1>2, <1>3
<1>5. AnswersInv'
  <2>1. toDart' \in Seq(Sendable(Made'))
    BY <1>1, <1>4, MoreSendable
  <2>2. ASSUME NEW i \in DOMAIN toDart', toDart'[i].kind = "answer"
        PROVE  WatchedThen(toDart'[i].from) /\ toDart'[i].read # latest'
    <3>1. toDart'[i] \in Sendable(Made)
      BY <1>4, <2>2
    <3>2. toDart'[i].read \in Made
      BY <2>2, <3>1 DEF Sendable
    <3>3. Watched(toDart'[i].from)
      BY <1>2, <1>4, <2>2
    <3>4. subscribed => subscribed'
      BY <1>1 DEF Read, SubscribePortal
    <3> QED BY <1>1, <3>2, <3>3, <3>4 DEF Watched, WatchedThen
  <2> QED BY <2>1, <2>2 DEF AnswersInv, Watched, WatchedThen
<1>6. /\ subscribed => subscribed'
      /\ connection => subscribed'
      /\ wire' = wire \/ (connection /\ wire' = Append(wire, ask))
  <2>1. CASE connection
    <3>1. SubscribePortal /\ wire' = Append(wire, ask)
      BY <2>1 DEF Read
    <3> QED BY <1>1, <2>1, <3>1, Zenon DEF SubscribePortal
  <2>2. CASE ~connection
    <3>1. UNCHANGED <<subscribed, wire>>
      BY <2>2 DEF Read
    <3> QED BY <2>2, <3>1
  <2> QED BY <2>1, <2>2
<1>7. WatchedInv'
  BY <1>1, <1>6 DEF WatchedInv, Watched
<1>8. RepliesInv'
  <2>1. CASE wire' = wire
    BY <1>1, <2>1 DEF RepliesInv, Signalled
  <2>2. CASE wire' = Append(wire, ask)
    <3>1. wire \in Seq(Sent(Made)) /\ ask.kind = "ask"
      BY DEF ReadsInv, LateInv
    <3> HIDE DEF ask
    <3> QED BY <1>1, <2>2, <3>1, Appended DEF RepliesInv, Signalled
  <2> QED BY <1>6, <2>1, <2>2
<1>9. ValueInv'
  BY <1>1 DEF ValueInv
<1> QED BY <1>5, <1>7, <1>8, <1>9
\* The answer of a read that is open, read from its source now.
LEMMA DirectAnswerCurrent ==
    ASSUME ReadsInv, AnswersInv, NEW r \in Made, ReadDirect(r),
           watching => (subscribed => subscribed') /\ (Pending => Pending'),
           UNCHANGED <<setting, latest, watching>>
    PROVE  AnswersInv' /\ (watching => (direct => direct'))
<1>1. PICK value \in Days \cup {LocaleDay}, from \in {"direct", "locale"} :
         /\ toDart' = Append(toDart, Answer(r, value, from))
         /\ from = "direct" => direct' /\ value = setting
         /\ direct => direct'
  <2>1. CASE schema
    BY <2>1 DEF ReadDirect, Complete, ReadsInv, LateInv
  <2>2. CASE ~schema
    BY <2>2 DEF ReadDirect, Complete
  <2> QED BY <2>1, <2>2
<1> DEFINE a == Answer(r, value, from)
<1>2. a \in Sendable(Made) /\ a.from = from /\ a.value = value
  BY DEF Answer, Sendable, Values, Origins
<1>3. toDart \in Seq(Sendable(Made))
  BY DEF AnswersInv
<1>4. WatchedThen(a.from) /\ (a.from \in {"portal", "direct"} => a.value = setting)
  BY <1>1, <1>2 DEF WatchedThen
<1> HIDE DEF a
<1>5. /\ toDart' \in Seq(Sendable(Made))
      /\ \A i \in DOMAIN toDart' : toDart'[i] = a \/ \E j \in DOMAIN toDart : toDart'[i] = toDart[j]
  BY <1>1, <1>2, <1>3, Appended DEF a
<1> QED BY <1>1, <1>4, <1>5, KeepsAnswers

LEMMA BusReadyKeepsCurrent ==
    ASSUME MaxReads \in Nat, ReadsInv, CurrentInv, NEW r \in Reads, BusReady(r)
    PROVE  CurrentInv'
<1> USE DEF CurrentInv
<1>1. r \in Made /\ UNCHANGED <<setting, watching, latest, noticed, refreshing, day, origin>>
  BY DEF BusReady, dartVars, ReadsInv, LateInv
<1>2. CASE UNCHANGED <<connection, subscribed, direct, wire, toDart>>
  BY <1>1, <1>2 DEF AnswersInv, WatchedInv, RepliesInv, ValueInv, Watched, Pending, Signalled,
                    Made, Sendable, Values
<1>3. CASE /\ SubscribePortal /\ wire' = Append(wire, [kind |-> "ask", read |-> r])
           /\ UNCHANGED <<direct, toDart>>
  <2> DEFINE ask == [kind |-> "ask", read |-> r]
  <2>1. watching => subscribed'
    BY <1>3, Zenon DEF SubscribePortal
  <2>2. wire \in Seq(Sent(Made)) /\ ask.kind = "ask"
    BY DEF ReadsInv, LateInv
  <2>3. wire' = Append(wire, ask)
    BY <1>3
  <2> HIDE DEF ask
  <2>4. Pending => Pending'
    BY <1>1, <1>3, <2>2, <2>3, Appended DEF Pending, Signalled
  <2>5. RepliesInv'
    BY <1>1, <2>2, <2>3, Appended DEF RepliesInv, Signalled
  <2>6. AnswersInv'
    BY <1>1, <1>3, <2>1, <2>4, KeepsAnswers DEF AnswersInv
  <2>7. WatchedInv'
    BY <1>1, <1>3, <2>1 DEF WatchedInv, Watched
  <2>8. ValueInv'
    BY <1>1, <2>4, KeepsValue
  <2> QED BY <2>5, <2>6, <2>7, <2>8
<1>4. CASE ReadDirect(r) /\ UNCHANGED <<connection, subscribed, wire>>
  <2>1. Pending => Pending'
    <3>1. toDart' = toDart \/ \E a : toDart' = Append(toDart, a)
      BY <1>4 DEF ReadDirect, Complete
    <3>2. toDart \in Seq(Sendable(Made))
      BY DEF AnswersInv
    <3> QED BY <1>1, <1>4, <3>1, <3>2, Appended DEF Pending, Signalled
  <2>2. AnswersInv' /\ (watching => (direct => direct'))
    BY <1>1, <1>4, <2>1, DirectAnswerCurrent
  <2>3. WatchedInv' /\ RepliesInv'
    BY <1>1, <1>4, <2>2 DEF WatchedInv, RepliesInv, Watched, Signalled
  <2> QED BY <1>1, <2>1, <2>2, <2>3, KeepsValue
<1> QED BY <1>2, <1>3, <1>4 DEF BusReady
\* The question at the head of the wire gets the setting of now.
LEMMA PortalServesKeepsCurrent ==
    ASSUME MaxReads \in Nat, ReadsInv, CurrentInv, PortalServes PROVE CurrentInv'
<1> USE DEF CurrentInv
<1>1. UNCHANGED <<setting, connection, subscribed, direct, watching, latest, noticed,
                  toDart, refreshing, day, origin>>
  BY DEF PortalServes, stateVars, dartVars
<1>2. PICK ok \in BOOLEAN : wire' = <<[kind |-> "reply", read |-> Head(wire).read,
                                      ok |-> ok, value |-> setting]>> \o Tail(wire)
  BY DEF PortalServes
<1> DEFINE reply == [kind |-> "reply", read |-> Head(wire).read, ok |-> ok, value |-> setting]
<1>3. wire \in Seq(Sent(Made)) /\ wire # <<>> /\ wire[1].kind = "ask"
  BY DEF PortalServes, ReadsInv, LateInv
<1>4. reply.value = setting
  OBVIOUS
<1> HIDE DEF reply
<1>5. /\ DOMAIN wire' = DOMAIN wire /\ DOMAIN wire \subseteq Nat \ {0}
      /\ wire'[1] = reply /\ \A i \in DOMAIN wire : i # 1 => wire'[i] = wire[i]
  BY <1>2, <1>3 DEF reply
<1>6. \A i \in DOMAIN wire : wire[i] = Signalled => i # 1
  BY <1>3 DEF Signalled
<1>7. Pending => Pending'
  BY <1>1, <1>5, <1>6 DEF Pending, Signalled
<1>8. RepliesInv'
  BY <1>1, <1>4, <1>5, <1>6 DEF RepliesInv, Signalled
<1>9. WatchedInv'
  BY <1>1, <1>3 DEF WatchedInv, Watched
<1>10. AnswersInv'
  BY <1>1, <1>7, KeepsAnswers DEF AnswersInv
<1>11. ValueInv'
  BY <1>1, <1>7, KeepsValue
<1> QED BY <1>8, <1>9, <1>10, <1>11

\* What is left on the wire keeps its order.
LEMMA RepliesLeft ==
    ASSUME RepliesInv, ReadsInv, wire # <<>>, wire' = Tail(wire), UNCHANGED <<setting, watching>>
    PROVE  RepliesInv'
<1>1. wire \in Seq(Sent(Made))
  BY DEF ReadsInv, LateInv
<1> SUFFICES ASSUME watching, NEW i \in DOMAIN Tail(wire), Tail(wire)[i].kind = "reply",
                    Tail(wire)[i].ok, Tail(wire)[i].value # setting
             PROVE  \E j \in DOMAIN Tail(wire) : j > i /\ Tail(wire)[j] = Signalled
  BY DEF RepliesInv, Signalled
<1>2. i \in Nat /\ i + 1 \in DOMAIN wire /\ Tail(wire)[i] = wire[i + 1]
  BY <1>1, Taken
<1>3. PICK j \in DOMAIN wire : j > i + 1 /\ wire[j] = Signalled
  BY <1>2 DEF RepliesInv
<1>4. j \in Nat /\ j - 1 \in DOMAIN Tail(wire) /\ Tail(wire)[j - 1] = wire[j]
  BY <1>1, <1>2, <1>3, Taken
<1> QED BY <1>2, <1>3, <1>4

LEMMA PortalReadKeepsCurrent ==
    ASSUME MaxReads \in Nat, ReadsInv, CurrentInv, PortalRead PROVE CurrentInv'
<1> USE DEF CurrentInv
<1> DEFINE r == Head(wire).read
<1>1. UNCHANGED <<setting, watching, latest, noticed, refreshing, day, origin, connection,
                  subscribed>>
  BY DEF PortalRead, dartVars
<1>2. /\ wire \in Seq(Sent(Made)) /\ wire # <<>> /\ Head(wire) = wire[1] /\ wire' = Tail(wire)
      /\ wire[1].kind = "reply" /\ wire[1] \in Sent(Made)
  BY DEF PortalRead, ReadsInv, LateInv
<1>3. RepliesInv'
  BY <1>1, <1>2, RepliesLeft
<1>4. (\E i \in DOMAIN wire : wire[i] = Signalled) => \E i \in DOMAIN wire' : wire'[i] = Signalled
  <2> SUFFICES ASSUME NEW i \in DOMAIN wire, wire[i] = Signalled
               PROVE  \E j \in DOMAIN wire' : wire'[j] = Signalled
    OBVIOUS
  <2>1. i > 1
    BY <1>2, Taken DEF Signalled
  <2> QED BY <1>2, <2>1, Taken
<1>5. toDart \in Seq(Sendable(Made))
  BY DEF AnswersInv
<1>6. Pending => Pending'
  <2>1. toDart' = toDart \/ \E a : toDart' = Append(toDart, a)
    BY DEF PortalRead, ReadDirect, Complete
  <2> QED BY <1>1, <1>4, <1>5, <2>1, Appended DEF Pending, Signalled
<1>7. AnswersInv' /\ (watching => (direct => direct'))
  <2>1. CASE UNCHANGED <<direct, toDart>>
    BY <1>1, <1>5, <1>6, <2>1, KeepsAnswers
  <2>2. CASE ReadDirect(r)
    <3>1. r \in Made
      BY <1>2 DEF Sent
    <3> QED BY <1>1, <1>6, <2>2, <3>1, DirectAnswerCurrent
  <2>3. CASE Head(wire).ok /\ Complete(r, Head(wire).value, "portal") /\ UNCHANGED direct
    <3> DEFINE a == Answer(r, Head(wire).value, "portal")
    <3>1. toDart' = Append(toDart, a)
      BY <2>3 DEF Complete
    <3>2. a \in Sendable(Made) /\ a.from = "portal" /\ a.value = wire[1].value
      BY <1>2 DEF Answer, Sendable, Values, Origins, Sent
    <3>3. watching => WatchedThen(a.from)
      BY <1>1, <1>2, <3>2 DEF WatchedThen, WatchedInv
    <3>4. watching => a.value = setting \/ Pending'
      <4>1. 1 \in DOMAIN wire
        BY <1>2, Taken
      <4> QED BY <1>1, <1>2, <1>4, <2>3, <3>2, <4>1 DEF RepliesInv, Pending, Signalled
    <3> HIDE DEF a
    <3>5. /\ toDart' \in Seq(Sendable(Made))
          /\ \A i \in DOMAIN toDart' : toDart'[i] = a \/ \E j \in DOMAIN toDart : toDart'[i] = toDart[j]
      BY <1>5, <3>1, <3>2, Appended
    <3> QED BY <1>1, <1>6, <2>3, <3>3, <3>4, <3>5, KeepsAnswers
  <2> QED BY <2>1, <2>2, <2>3 DEF PortalRead
<1>8. WatchedInv'
  BY <1>1, <1>2, <1>7 DEF WatchedInv, Watched
<1> QED BY <1>1, <1>3, <1>6, <1>7, <1>8, KeepsValue

LEMMA PortalTimeoutKeepsCurrent ==
    ASSUME MaxReads \in Nat, ReadsInv, CurrentInv, NEW r \in Reads, PortalTimeout(r)
    PROVE  CurrentInv'
<1> USE DEF CurrentInv
<1>1. UNCHANGED <<setting, watching, latest, noticed, refreshing, day, origin, connection,
                  subscribed, wire>>
  BY DEF PortalTimeout, dartVars
<1>2. r \in Made /\ ReadDirect(r)
  BY DEF PortalTimeout, ReadsInv, CallsInv, Made, Completed
<1>3. Pending => Pending'
  <2>1. \E a : toDart' = Append(toDart, a)
    BY <1>2 DEF ReadDirect, Complete
  <2>2. toDart \in Seq(Sendable(Made))
    BY DEF AnswersInv
  <2> QED BY <1>1, <2>1, <2>2, Appended DEF Pending, Signalled
<1>4. AnswersInv' /\ (watching => (direct => direct'))
  BY <1>1, <1>2, <1>3, DirectAnswerCurrent
<1>5. WatchedInv' /\ RepliesInv'
  BY <1>1, <1>4 DEF WatchedInv, RepliesInv, Watched, Signalled
<1> QED BY <1>1, <1>3, <1>4, <1>5, KeepsValue
\* Who has a value of the portal or of GNOME is told of the change.
LEMMA ChangeSettingKeepsCurrent ==
    ASSUME MaxReads \in Nat, ReadsInv, CurrentInv, ChangeSetting PROVE CurrentInv'
<1> USE DEF CurrentInv
<1>1. UNCHANGED <<connection, subscribed, direct, watching, latest, toDart, refreshing, day, origin>>
  BY DEF ChangeSetting, stateVars, dartVars
<1>2. wire \in Seq(Sent(Made)) /\ Signalled.kind = "signal"
  BY DEF ReadsInv, LateInv, Signalled
<1>3. /\ subscribed => wire' = Append(wire, Signalled)
      /\ ~subscribed => wire' = wire
      /\ noticed' = (noticed \/ direct)
  BY DEF ChangeSetting, Signalled
<1> DEFINE last == Len(wire) + 1
<1>4. subscribed => /\ last \in DOMAIN wire' /\ wire'[last] = Signalled
                    /\ \A i \in DOMAIN wire' : i # last => i \in DOMAIN wire /\ i < last
                    /\ \A i \in DOMAIN wire : wire'[i] = wire[i]
  BY <1>2, <1>3, Appended
<1> HIDE DEF last
<1>5. subscribed \/ direct => Pending'
  <2>1. subscribed => Pending'
    BY <1>4 DEF Pending, Signalled
  <2>2. direct => Pending'
    BY <1>3 DEF Pending
  <2> QED BY <2>1, <2>2
<1>6. RepliesInv'
  <2>1. CASE subscribed
    <3> SUFFICES ASSUME NEW i \in DOMAIN wire', wire'[i].kind = "reply"
                 PROVE  \E j \in DOMAIN wire' : j > i /\ wire'[j] = Signalled
      BY <1>1 DEF RepliesInv, Signalled
    <3>1. i # last
      BY <1>2, <1>4, <2>1
    <3> QED BY <1>2, <1>4, <2>1, <3>1
  <2>2. CASE ~subscribed
    <3>1. watching => wire' = <<>>
      BY <1>3, <2>2 DEF WatchedInv
    <3> QED BY <1>1, <3>1 DEF RepliesInv
  <2> QED BY <2>1, <2>2
<1>7. WatchedInv'
  BY <1>1, <1>3 DEF WatchedInv, Watched
<1>8. AnswersInv'
  BY <1>1, <1>5, KeepsAnswers DEF AnswersInv
<1>9. ValueInv'
  BY <1>1, <1>5, KeepsValue
<1> QED BY <1>6, <1>7, <1>8, <1>9

\* The news of a change reaches Dart while somebody listens.
LEMMA ToldKeepsCurrent ==
    ASSUME MaxReads \in Nat, ReadsInv, CurrentInv, PortalChanged \/ DirectChanged
    PROVE  CurrentInv'
<1> USE DEF CurrentInv
<1>1. UNCHANGED <<setting, connection, subscribed, direct, watching, latest, refreshing, day, origin>>
  BY DEF PortalChanged, DirectChanged, stateVars, dartVars
<1>2. toDart \in Seq(Sendable(Made)) /\ Event \in Sendable(Made) /\ Event.kind = "event"
  BY DEF AnswersInv, Event, Sendable
<1>3. watching => toDart' = Append(toDart, Event)
  BY DEF PortalChanged, DirectChanged, WatchedInv
<1>4. toDart' = toDart \/ toDart' = Append(toDart, Event)
  BY DEF PortalChanged, DirectChanged
<1>5. watching => Pending'
  <2>1. watching => \E i \in DOMAIN toDart' : toDart'[i] = Event
    BY <1>2, <1>3, Appended
  <2> QED BY <2>1 DEF Pending, Event
<1>6. AnswersInv'
  <2>1. /\ toDart' \in Seq(Sendable(Made))
        /\ \A i \in DOMAIN toDart' : toDart'[i] = Event \/ \E j \in DOMAIN toDart : toDart'[i] = toDart[j]
    BY <1>2, <1>4, Appended
  <2> QED BY <1>1, <1>2, <1>5, <2>1, KeepsAnswers
<1>7. RepliesInv'
  <2>1. CASE PortalChanged
    BY <1>1, <2>1, RepliesLeft DEF PortalChanged
  <2>2. CASE DirectChanged
    BY <1>1, <2>2 DEF DirectChanged, RepliesInv, Signalled
  <2> QED BY <2>1, <2>2
<1>8. WatchedInv'
  BY <1>1 DEF PortalChanged, DirectChanged, WatchedInv, Watched
<1>9. ValueInv'
  BY <1>1, <1>5, KeepsValue
<1> QED BY <1>6, <1>7, <1>8, <1>9

LEMMA StopsKeepCurrent ==
    ASSUME MaxReads \in Nat, ReadsInv, CurrentInv, StopListening \/ Dispose
    PROVE  CurrentInv'
<1>1. ~watching' /\ latest' = latest /\ toDart \in Seq(Sendable(Made))
  BY DEF StopListening, Dispose, dartVars, CurrentInv, AnswersInv
<1>2. toDart' = toDart \/ (awaited # 0 /\ toDart' = Append(toDart, Answer(awaited, Nothing, "none")))
  BY DEF StopListening, Dispose, Superseded
<1>3. awaited # 0 => Answer(awaited, Nothing, "none") \in Sendable(Made)
  BY DEF ReadsInv, CallsInv, Made, Answer, Sendable, Values, Origins
<1>4. toDart' \in Seq(Sendable(Made))
  BY <1>1, <1>2, <1>3, Appended
<1>5. Made' = Made
  BY <1>1 DEF Made
<1> QED BY <1>1, <1>4, <1>5, NotWatching

\* The controller takes an answer, and only that of its last read.
LEMMA DartReceivesKeepsCurrent ==
    ASSUME MaxReads \in Nat, ReadsInv, CurrentInv, DartReceives PROVE CurrentInv'
<1> USE DEF CurrentInv
<1>1. UNCHANGED <<setting, connection, subscribed, direct, watching, latest, wire, noticed>>
  BY DEF DartReceives, stateVars
<1>2. toDart \in Seq(Sendable(Made)) /\ toDart # <<>> /\ toDart' = Tail(toDart)
  BY DEF DartReceives, AnswersInv
<1>3. Head(toDart) = toDart[1] /\ 1 \in DOMAIN toDart /\ toDart[1].kind = "answer"
  BY <1>2, Taken DEF DartReceives
<1>4. Pending => Pending'
  <2>1. \A i \in DOMAIN toDart : toDart[i] = Event => i > 1
    BY <1>2, <1>3, Taken DEF Event
  <2>2. (\E i \in DOMAIN toDart : toDart[i] = Event) => \E i \in DOMAIN toDart' : toDart'[i] = Event
    BY <1>2, <2>1, Taken
  <2> QED BY <1>1, <2>2 DEF Pending, Signalled, Event
<1>5. AnswersInv'
  BY <1>1, <1>2, <1>4, Taken, KeepsAnswers
<1>6. RepliesInv'
  BY <1>1 DEF RepliesInv, Signalled
<1>7. /\ watching => Watched(toDart[1].from)
      /\ watching /\ toDart[1].read = latest /\ toDart[1].from \in {"portal", "direct"}
            => toDart[1].value = setting \/ Pending
  BY <1>3 DEF AnswersInv
<1>8. CASE toDart[1].read = latest /\ refreshing
  <2>1. day' = toDart[1].value /\ origin' = toDart[1].from
    BY <1>3, <1>8 DEF DartReceives, Refreshed
  <2>2. ValueInv'
    BY <1>1, <1>4, <1>7, <1>8, <2>1 DEF ValueInv
  <2>3. WatchedInv'
    BY <1>1, <1>7, <2>1 DEF WatchedInv, Watched
  <2> QED BY <1>5, <1>6, <2>2, <2>3
<1>9. CASE ~(toDart[1].read = latest /\ refreshing)
  <2>1. UNCHANGED <<day, origin, refreshing>>
    BY <1>3, <1>9 DEF DartReceives, Refreshed
  <2>2. ValueInv'
    BY <1>1, <1>4, <2>1, KeepsValue
  <2>3. WatchedInv'
    BY <1>1, <2>1 DEF WatchedInv, Watched
  <2> QED BY <1>5, <1>6, <2>2, <2>3
<1> QED BY <1>8, <1>9

LEMMA RefreshTimesOutKeepsCurrent ==
    ASSUME CurrentInv, RefreshTimesOut PROVE CurrentInv'
BY DEF RefreshTimesOut, CurrentInv, AnswersInv, WatchedInv, RepliesInv, ValueInv, Watched, Pending,
       Signalled, Event, Made, Sendable, Values, stateVars, readVars

LEMMA NextCurrentInv ==
    ASSUME MaxReads \in Nat, ReadsInv, CurrentInv, [Next]_weekdayVars PROVE CurrentInv'
<1>1. CASE Read(0) \/ RefreshOnEvent
  BY <1>1, ReadKeepsCurrent DEF RefreshOnEvent
<1>2. ASSUME NEW r \in Reads, BusReady(r) \/ PortalTimeout(r) PROVE CurrentInv'
  BY <1>2, BusReadyKeepsCurrent, PortalTimeoutKeepsCurrent
<1>3. CASE PortalServes \/ PortalRead
  BY <1>3, PortalServesKeepsCurrent, PortalReadKeepsCurrent
<1>4. CASE ChangeSetting \/ PortalChanged \/ DirectChanged
  BY <1>4, ChangeSettingKeepsCurrent, ToldKeepsCurrent
<1>5. CASE StopListening \/ Dispose
  BY <1>5, StopsKeepCurrent
<1>6. CASE DartReceives \/ RefreshTimesOut
  BY <1>6, DartReceivesKeepsCurrent, RefreshTimesOutKeepsCurrent
<1>7. CASE UNCHANGED weekdayVars
  BY <1>7 DEF weekdayVars, stateVars, readVars, dartVars, CurrentInv, AnswersInv, WatchedInv,
              RepliesInv, ValueInv, Watched, Pending, Signalled, Event, Made, Sendable, Values
<1> QED BY <1>1, <1>2, <1>3, <1>4, <1>5, <1>6, <1>7 DEF Next

LEMMA CurrentInvCurrent == ASSUME CurrentInv PROVE WeekdayCurrent
BY DEF CurrentInv, ValueInv, Pending, WeekdayCurrent

\* When nothing is under way, a value the controller has from the portal or
\* from GNOME is the setting of now (SubscribePortal and ConnectDirect come
\* before the read of the value), for any number of reads and changes.
THEOREM TheDayIsCurrent ==
    ASSUME MaxReads \in Nat PROVE Spec => []WeekdayCurrent
<1> DEFINE Inv == ReadsInv /\ CurrentInv
<1>1. Init => Inv
  BY InitReadsInv, InitCurrentInv
<1>2. Inv /\ [Next]_weekdayVars => Inv'
  BY NextReadsInv, NextCurrentInv
<1>3. Inv => WeekdayCurrent
  BY CurrentInvCurrent
<1> QED BY <1>1, <1>2, <1>3, PTL DEF Spec
=============================================================================
