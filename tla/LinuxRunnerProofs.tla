-------------------------- MODULE LinuxRunnerProofs --------------------------
(***************************************************************************)
(* Proofs about the Linux runner, one part after the other: the menus, the  *)
(* opens of files and links, the dialogs, the first weekday and the icons   *)
(* of the header.                                                          *)
(*                                                                         *)
(* Every call for a menu is answered as MenusAnswered says.                 *)
(* MenusAnswered speaks of the row the user chose, a session answers with   *)
(* the row its action stored. PickInv joins the two: they differ only       *)
(* between the deactivation of the active menu and the action of its row,   *)
(* and no session is disposed of in between.                                *)
(***************************************************************************)
EXTENDS LinuxRunner, SequenceTheorems, FiniteSetTheorems, FunctionTheorems,
        WellFoundedInduction, TLAPS

PickInv ==
    /\ activating # NoRow => current \in sessions /\ chosen[current] = activating
    /\ \A m \in Menus :
           picked[m] = chosen[m] \/ (activating # NoRow /\ m = current)

MenusInv == TypeOK /\ MenusAnswered /\ PickInv
-----------------------------------------------------------------------------

LEMMA OneAnswer == ASSUME NEW x PROVE Append(<<>>, x) = <<x>> /\ <<x>> # <<>>
OBVIOUS

LEMMA InitMenusInv == Init => MenusInv
BY MenusAssumption DEF Init, MenusInv, TypeOK, MenusAnswered, PickInv, Active

\* What was chosen and stored is the same outside of the choice of a row.
LEMMA Settled ==
    ASSUME MenusInv, MainLoop, NEW m \in Menus PROVE picked[m] = chosen[m]
BY DEF MenusInv, PickInv, MainLoop

\* A step that disposes of some sessions answers each of them what was chosen.
LEMMA Retired ==
    ASSUME MenusInv, MainLoop, NEW gone, gone \subseteq sessions,
           answers' = [m \in Menus |-> IF m \in gone THEN Append(answers[m], picked[m])
                                       ELSE answers[m]],
           UNCHANGED chosen
    PROVE  /\ answers' \in [Menus -> Seq(Rows \cup {NoRow, Error})]
           /\ \A m \in gone : answers'[m] = <<chosen[m]>>
           /\ \A m \in Menus \ gone : answers'[m] = answers[m]
<1>1. \A m \in gone : m \in Menus /\ answers[m] = <<>> /\ picked[m] = chosen[m]
  BY Settled DEF MenusInv, TypeOK, MenusAnswered
<1>2. \A m \in gone : answers'[m] = <<chosen[m]>>
  BY <1>1, OneAnswer
<1>3. \A m \in Menus : picked[m] \in Rows \cup {NoRow, Error}
  BY DEF MenusInv, TypeOK
<1>4. \A m \in Menus : answers'[m] \in Seq(Rows \cup {NoRow, Error})
  BY <1>1, <1>3 DEF MenusInv, TypeOK
<1> QED BY <1>1, <1>2, <1>4
-----------------------------------------------------------------------------
(* One lemma per kind of step                                              *)

LEMMA ShowRefusedKeepsInv ==
    ASSUME MenusInv, NEW m \in Menus, ShowRefused(m) PROVE MenusInv'
<1>1. answers' = [answers EXCEPT ![m] = <<Error>>]
  BY OneAnswer DEF ShowRefused, Unasked, Answer
<1>2. UNCHANGED <<sessions, current, open, cleanup, picked, activating, chosen, channel>>
  BY DEF ShowRefused
<1>3. m \notin sessions
  BY DEF ShowRefused, Unasked
<1> QED BY <1>1, <1>2, <1>3 DEF MenusInv, TypeOK, MenusAnswered, PickInv, Active

LEMMA ShowKeepsInv ==
    ASSUME MenusInv, NEW m \in Menus, Show(m) PROVE MenusInv'
<1>1. sessions = Active /\ Active \subseteq Menus /\ m \notin Active /\ answers[m] = <<>>
  BY DEF Show, Unasked, MenusInv, TypeOK, MenusAnswered
<1>2. /\ answers' \in [Menus -> Seq(Rows \cup {NoRow, Error})]
      /\ \A n \in Active : answers'[n] = <<chosen[n]>>
      /\ \A n \in Menus \ Active : answers'[n] = answers[n]
  BY <1>1, Retired DEF Show
<1>3. /\ sessions' = {m} /\ current' = m /\ activating = NoRow
      /\ cleanup' = {} /\ open' \subseteq {m}
      /\ UNCHANGED <<picked, activating, chosen, channel>>
  BY <1>1 DEF Show, MainLoop, MenusInv, MenusAnswered
<1>4. TypeOK' /\ PickInv'
  BY <1>2, <1>3 DEF MenusInv, TypeOK, PickInv
<1>5. m # NoMenu
  BY MenusAssumption
<1>6. MenusAnswered'
  BY <1>1, <1>2, <1>3, <1>5 DEF MenusInv, MenusAnswered, Active
<1> QED BY <1>4, <1>6 DEF MenusInv

LEMMA ShowFailsKeepsInv ==
    ASSUME MenusInv, NEW m \in Menus, ShowFails(m) PROVE MenusInv'
<1>1. sessions = Active /\ Active \subseteq Menus /\ m \notin Active /\ answers[m] = <<>>
  BY DEF ShowFails, Unasked, MenusInv, TypeOK, MenusAnswered
<1>2. /\ answers'[m] = <<Error>>
      /\ \A n \in Active : answers'[n] = <<chosen[n]>>
      /\ \A n \in Menus \ (Active \cup {m}) : answers'[n] = answers[n]
  <2>1. \A n \in Active : answers[n] = <<>> /\ picked[n] = chosen[n]
    BY <1>1, Settled DEF ShowFails, MenusInv, MenusAnswered
  <2> QED BY <1>1, <2>1, OneAnswer DEF ShowFails
<1>3. answers' \in [Menus -> Seq(Rows \cup {NoRow, Error})]
  <2>1. \A n \in Menus : /\ answers[n] \in Seq(Rows \cup {NoRow, Error})
                         /\ picked[n] \in Rows \cup {NoRow, Error}
    BY DEF MenusInv, TypeOK
  <2>2. ASSUME NEW n \in Menus PROVE answers'[n] \in Seq(Rows \cup {NoRow, Error})
    <3>1. answers'[n] = answers[n] \/ answers'[n] = Append(answers[n], Error)
              \/ answers'[n] = Append(answers[n], picked[n])
      BY DEF ShowFails
    <3>2. Append(answers[n], Error) \in Seq(Rows \cup {NoRow, Error})
      BY <2>1
    <3>3. Append(answers[n], picked[n]) \in Seq(Rows \cup {NoRow, Error})
      BY <2>1
    <3> QED BY <2>1, <3>1, <3>2, <3>3
  <2> QED BY <2>2 DEF ShowFails
<1>4. /\ sessions' = {} /\ current' = NoMenu /\ activating = NoRow
      /\ cleanup' = {} /\ open' = {}
      /\ UNCHANGED <<picked, activating, chosen, channel>>
  BY <1>1 DEF ShowFails, MainLoop, MenusInv, MenusAnswered
<1>5. TypeOK' /\ PickInv'
  BY <1>3, <1>4 DEF MenusInv, TypeOK, PickInv
<1>6. MenusAnswered'
  BY <1>1, <1>2, <1>4 DEF MenusInv, MenusAnswered, Active
<1> QED BY <1>5, <1>6 DEF MenusInv

\* A menu on the screen is that of the active session.
LEMMA OpenIsActive ==
    ASSUME MenusInv, NEW m \in Menus, m \in open
    PROVE  m = current /\ m \in sessions /\ answers[m] = <<>>
BY DEF MenusInv, MenusAnswered, Active

LEMMA ChooseRowKeepsInv ==
    ASSUME MenusInv, NEW m \in Menus, NEW row \in Rows, ChooseRow(m, row)
    PROVE  MenusInv'
<1>1. /\ m = current /\ m \in sessions /\ answers[m] = <<>> /\ activating = NoRow
      /\ open' = open \ {m} /\ cleanup' = cleanup \cup {m}
      /\ activating' = row /\ chosen' = [chosen EXCEPT ![m] = row]
      /\ UNCHANGED <<sessions, current, answers, picked, channel>>
  BY OpenIsActive DEF ChooseRow, Deactivate, MainLoop
<1>2. row # NoRow
  BY MenusAssumption
<1>3. TypeOK'
  BY <1>1 DEF MenusInv, TypeOK
<1>4. MenusAnswered'
  BY <1>1 DEF MenusInv, TypeOK, MenusAnswered, Active
<1>5. PickInv'
  BY <1>1, <1>2 DEF MenusInv, TypeOK, PickInv
<1> QED BY <1>3, <1>4, <1>5 DEF MenusInv

LEMMA ActivateActionKeepsInv == ASSUME MenusInv, ActivateAction PROVE MenusInv'
<1>1. /\ current \in sessions /\ chosen[current] = activating
      /\ activating \in Rows /\ current \in Menus
  BY DEF MenusInv, TypeOK, PickInv, ActivateAction
<1>2. /\ activating' = NoRow /\ picked' = [picked EXCEPT ![current] = activating]
      /\ UNCHANGED <<sessions, current, open, cleanup, answers, chosen, channel>>
  BY <1>1 DEF ActivateAction
<1> QED BY <1>1, <1>2 DEF MenusInv, TypeOK, MenusAnswered, PickInv, Active

LEMMA CloseMenuKeepsInv ==
    ASSUME MenusInv, NEW m \in Menus, m \in open, Deactivate(m),
           UNCHANGED <<picked, activating, chosen, channel>>
    PROVE  MenusInv'
BY OpenIsActive DEF Deactivate, MenusInv, TypeOK, MenusAnswered, PickInv, Active

\* The active session, and there is no other, is disposed of.
LEMMA DisposeKeepsInv ==
    ASSUME MenusInv, MainLoop, NEW gone, gone = Active, Dispose(gone),
           sessions' = sessions \ gone, current' = NoMenu, channel' \in BOOLEAN,
           UNCHANGED <<picked, activating, chosen>>
    PROVE  MenusInv'
<1>1. sessions = gone /\ gone \subseteq Menus
  BY DEF MenusInv, TypeOK, MenusAnswered
<1>2. /\ answers' \in [Menus -> Seq(Rows \cup {NoRow, Error})]
      /\ \A m \in gone : answers'[m] = <<chosen[m]>>
      /\ \A m \in Menus \ gone : answers'[m] = answers[m]
  BY <1>1, Retired DEF Dispose
<1>3. sessions' = {} /\ open' = {} /\ cleanup' = {} /\ activating = NoRow
  BY <1>1 DEF Dispose, MainLoop, MenusInv, MenusAnswered
<1>4. TypeOK' /\ PickInv'
  BY <1>2, <1>3 DEF MenusInv, TypeOK, PickInv
<1>5. MenusAnswered'
  BY <1>1, <1>2, <1>3 DEF MenusInv, MenusAnswered, Active
<1> QED BY <1>4, <1>5 DEF MenusInv

LEMMA CleanupIdleKeepsInv ==
    ASSUME MenusInv, NEW m \in Menus, CleanupIdle(m) PROVE MenusInv'
<1>1. m = current /\ {m} = Active
  BY MenusAssumption DEF CleanupIdle, MenusInv, MenusAnswered, Active
<1> QED BY <1>1, DisposeKeepsInv DEF CleanupIdle, MenusInv, TypeOK

LEMMA DismissKeepsInv == ASSUME MenusInv, NEW m \in Menus, Dismiss(m) PROVE MenusInv'
<1>1. {m} = Active
  BY MenusAssumption DEF Dismiss, Active
<1>2. CASE m \in open
  BY <1>2, CloseMenuKeepsInv DEF Dismiss
<1>3. CASE m \notin open
  BY <1>1, <1>3, DisposeKeepsInv DEF Dismiss, MenusInv, TypeOK
<1> QED BY <1>2, <1>3

LEMMA StepKeepsMenusInv == MenusInv /\ [Next]_menuVars => MenusInv'
<1> SUFFICES ASSUME MenusInv, [Next]_menuVars PROVE MenusInv'
  OBVIOUS
<1>1. ASSUME NEW m \in Menus, ShowRefused(m) \/ Show(m) \/ ShowFails(m) PROVE MenusInv'
  BY <1>1, ShowRefusedKeepsInv, ShowKeepsInv, ShowFailsKeepsInv
<1>2. ASSUME NEW m \in Menus, CloseMenu(m) PROVE MenusInv'
  BY <1>2, CloseMenuKeepsInv DEF CloseMenu
<1>3. ASSUME NEW m \in Menus, CleanupIdle(m) \/ Dismiss(m) PROVE MenusInv'
  BY <1>3, CleanupIdleKeepsInv, DismissKeepsInv
<1>4. ASSUME NEW m \in Menus, NEW row \in Rows, ChooseRow(m, row) PROVE MenusInv'
  BY <1>4, ChooseRowKeepsInv
<1>5. CASE ActivateAction
  BY <1>5, ActivateActionKeepsInv
<1>6. CASE FreeHandler
  BY <1>6, DisposeKeepsInv DEF FreeHandler
<1>7. CASE UNCHANGED menuVars
  BY <1>7 DEF menuVars, MenusInv, TypeOK, MenusAnswered, PickInv, Active
<1> QED BY <1>1, <1>2, <1>3, <1>4, <1>5, <1>6, <1>7 DEF Next

LEMMA MenusSpec == RunnerSpec => Spec
<1>1. RunnerInit => Init
  BY DEF RunnerInit
<1>2. [RunnerNext]_runnerVars => [Next]_menuVars
  BY DEF RunnerNext, runnerVars, MenusStep, DialogsStep, WeekdayStep, WindowStep, IconsStep
<1> QED BY <1>1, <1>2, PTL DEF RunnerSpec, Spec

LEMMA MenusKeepInv == RunnerSpec => []MenusInv
<1>1. Spec => []MenusInv
  BY InitMenusInv, StepKeepsMenusInv, PTL DEF Spec
<1> QED BY <1>1, MenusSpec, PTL

\* Every call for a menu is answered at most once and with what was chosen in
\* that menu, whatever number of menus is shown, closed and dismissed.
\* (native_menu_session_dispose, show_native_menu)
THEOREM EveryMenuIsAnswered == RunnerSpec => []MenusAnswered
<1>1. MenusInv => MenusAnswered
  BY DEF MenusInv
<1> QED BY <1>1, MenusKeepInv, PTL

\* The sessions, the picked rows and the answers of the menus are what
\* my_application.cc keeps them to be, for any number of menus and rows.
THEOREM MenusTypeOK == RunnerSpec => []TypeOK
<1>1. MenusInv => TypeOK
  BY DEF MenusInv
<1> QED BY <1>1, MenusKeepInv, PTL
-----------------------------------------------------------------------------
(* The window and what is opened.                                          *)

Chains == Seq(Items)

OpensTypeInv ==
    /\ requests \in Seq([open : BOOLEAN, accepted : BOOLEAN, files : Chains])
    /\ kept \in Chains /\ sent \in Chains /\ pendingDart \in Chains
    /\ tail \in Chains /\ handled \in Chains /\ arrived \in Chains
    /\ minimized \in BOOLEAN /\ dart \in {"off", "asked", "answered", "listening"}

\* Nothing is sent before Dart said it is ready, which it does once its handler
\* is set; what waits for the listener is gone once there is one.
ReadyInv ==
    /\ dart \in {"off", "asked"} => ~ready
    /\ ~ready => sent = <<>>
    /\ dart = "listening" => pendingDart = <<>>

\* A window that is wanted is there before the first frame when it may stay
\* hidden after it.
WantedInv ==
    /\ app <=> window # "none"
    /\ ~app => ~wanted /\ ~framed
    /\ ~framed /\ wanted /\ minimized => window = "visible"

\* What was opened, in the order of the places it goes through.  (Concatenation
\* and what moves have names, so that the lemmas can be used without sequences.)
Cat(s, t) == s \o t
Taken(s, t) == Append(s, Head(t))
Left(t) == Tail(t)
Opened(a, b, c, d, e) == Cat(Cat(Cat(Cat(a, b), c), d), e)

DeliveredInv ==
    /\ arrived = Opened(handled, tail, pendingDart, sent, kept)
    /\ ready => kept = <<>>
    /\ framed /\ wanted => window = "visible"

OpensInv == OpensTypeInv /\ ReadyInv /\ WantedInv /\ DeliveredInv
LEMMA MoveHead ==
    ASSUME NEW S, NEW s \in Seq(S), NEW t \in Seq(S), t # <<>>
    PROVE  /\ s \o t = Append(s, Head(t)) \o Tail(t)
           /\ Append(s, Head(t)) \in Seq(S) /\ Tail(t) \in Seq(S)
<1>1. Head(t) \in S /\ Tail(t) \in Seq(S)
  BY HeadTailProperties
<1>2. Append(s, Head(t)) \in Seq(S)
  BY <1>1, AppendProperties
<1>3. s \o t \in Seq(S) /\ Append(s, Head(t)) \o Tail(t) \in Seq(S)
  BY <1>1, <1>2, ConcatProperties
<1>4. Len(s \o t) = Len(Append(s, Head(t)) \o Tail(t))
  BY <1>1
<1>5. ASSUME NEW i \in 1..Len(s \o t)
      PROVE  (s \o t)[i] = (Append(s, Head(t)) \o Tail(t))[i]
  BY <1>1
<1>6. s \o t = Append(s, Head(t)) \o Tail(t)
  BY <1>3, <1>4, <1>5, SeqEqual
<1> QED BY <1>1, <1>2, <1>6

LEMMA ChainFacts ==
    /\ <<>> \in Chains
    /\ \A s, t \in Chains : Cat(s, t) \in Chains
    /\ \A s \in Chains : Cat(s, <<>>) = s
    /\ \A s, t, u \in Chains : Cat(Cat(s, t), u) = Cat(s, Cat(t, u))
    /\ \A s, t \in Chains : t # <<>> =>
           /\ Cat(s, t) = Cat(Taken(s, t), Left(t))
           /\ Taken(s, t) \in Chains /\ Left(t) \in Chains
<1>1. <<>> \in Chains
  BY EmptySeq DEF Chains
<1>2. \A s, t \in Chains : Cat(s, t) \in Chains
  BY ConcatProperties DEF Chains, Cat
<1>3. \A s \in Chains : Cat(s, <<>>) = s
  BY ConcatEmptySeq DEF Chains, Cat
<1>4. \A s, t, u \in Chains : Cat(Cat(s, t), u) = Cat(s, Cat(t, u))
  BY ConcatAssociative DEF Chains, Cat
<1>5. ASSUME NEW s \in Chains, NEW t \in Chains, t # <<>>
      PROVE  /\ Cat(s, t) = Cat(Taken(s, t), Left(t))
             /\ Taken(s, t) \in Chains /\ Left(t) \in Chains
  BY <1>5, MoveHead DEF Chains, Cat, Taken, Left
<1> QED BY <1>1, <1>2, <1>3, <1>4, <1>5

LEMMA OpenedMore ==
    \A a, b, c, d, e, f \in Chains :
        Cat(Opened(a, b, c, d, e), f) = Opened(a, b, c, d, Cat(e, f))
<1> SUFFICES ASSUME NEW a \in Chains, NEW b \in Chains, NEW c \in Chains,
                    NEW d \in Chains, NEW e \in Chains, NEW f \in Chains
             PROVE  Cat(Opened(a, b, c, d, e), f) = Opened(a, b, c, d, Cat(e, f))
  OBVIOUS
<1>1. Cat(Cat(a, b), c) \in Chains
  BY ChainFacts
<1>2. Cat(Cat(Cat(a, b), c), d) \in Chains
  BY <1>1, ChainFacts
<1> QED BY <1>2, ChainFacts DEF Opened

LEMMA OpenedSent ==
    ASSUME NEW a \in Chains, NEW b \in Chains, NEW c \in Chains, NEW d \in Chains,
           NEW e \in Chains
    PROVE  Opened(a, b, c, d, e) = Opened(a, b, c, Cat(d, e), <<>>)
<1>1. Cat(Cat(a, b), c) \in Chains /\ Cat(d, e) \in Chains
  BY ChainFacts
<1>2. Cat(Cat(Cat(a, b), c), Cat(d, e)) \in Chains
  BY <1>1, ChainFacts
<1> QED BY <1>1, <1>2, ChainFacts DEF Opened

LEMMA OpenedListened ==
    ASSUME NEW a \in Chains, NEW b \in Chains, NEW c \in Chains, NEW d \in Chains,
           NEW e \in Chains
    PROVE  Opened(a, b, c, d, e) = Opened(a, Cat(b, c), <<>>, d, e)
<1>1. Cat(a, Cat(b, c)) \in Chains /\ Cat(Cat(a, b), c) = Cat(a, Cat(b, c))
  BY ChainFacts
<1>2. Cat(Cat(a, Cat(b, c)), <<>>) = Cat(a, Cat(b, c))
  BY <1>1, ChainFacts
<1> QED BY <1>1, <1>2 DEF Opened

LEMMA OpenedStarted ==
    ASSUME NEW a \in Chains, NEW b \in Chains, NEW c \in Chains, NEW d \in Chains,
           NEW e \in Chains, b # <<>>
    PROVE  Opened(a, b, c, d, e) = Opened(Taken(a, b), Left(b), c, d, e)
BY ChainFacts DEF Opened

LEMMA OpenedReceived ==
    ASSUME NEW a \in Chains, NEW b \in Chains, NEW c \in Chains, NEW d \in Chains,
           NEW e \in Chains, d # <<>>
    PROVE  Opened(a, b, c, d, e) = Opened(a, b, Taken(c, d), Left(d), e)
<1>1. /\ Cat(c, d) = Cat(Taken(c, d), Left(d))
      /\ Taken(c, d) \in Chains /\ Left(d) \in Chains /\ Cat(a, b) \in Chains
  BY ChainFacts
<1>2. /\ Cat(Cat(Cat(a, b), c), d) = Cat(Cat(a, b), Cat(c, d))
      /\ Cat(Cat(Cat(a, b), Taken(c, d)), Left(d))
            = Cat(Cat(a, b), Cat(Taken(c, d), Left(d)))
  BY <1>1, ChainFacts
<1> QED BY <1>1, <1>2 DEF Opened

LEMMA InitOpensInv == Window!Init => OpensInv
<1> SUFFICES ASSUME Window!Init PROVE OpensInv
  OBVIOUS
<1>1. <<>> \in Seq([open : BOOLEAN, accepted : BOOLEAN, files : Chains])
  BY EmptySeq
<1>2. Opened(<<>>, <<>>, <<>>, <<>>, <<>>) = <<>>
  BY ChainFacts DEF Opened
<1>3. OpensTypeInv
  BY <1>1, ChainFacts DEF Window!Init, OpensTypeInv
<1> QED BY <1>2, <1>3 DEF Window!Init, OpensInv, ReadyInv, WantedInv, DeliveredInv

LEMMA MorePlaces ==
    ASSUME OpensTypeInv, NEW files \in Chains
    PROVE  Cat(Opened(handled, tail, pendingDart, sent, kept), files)
             = Opened(handled, tail, pendingDart, sent, Cat(kept, files))
BY OpenedMore DEF OpensTypeInv

LEMMA QueueKeeps ==
    ASSUME OpensInv, NEW files \in Chains, Window!Queue(files),
           UNCHANGED <<handled, tail, pendingDart>>
    PROVE  /\ arrived' \in Chains /\ sent' \in Chains /\ kept' \in Chains
           /\ arrived' = Opened(handled', tail', pendingDart', sent', kept')
           /\ ready => kept' = <<>>
           /\ ~ready => sent' = <<>>
<1>0. arrived = Opened(handled, tail, pendingDart, sent, kept)
  BY DEF OpensInv, DeliveredInv
<1>1. /\ arrived \in Chains /\ handled \in Chains /\ tail \in Chains
      /\ pendingDart \in Chains /\ sent \in Chains /\ kept \in Chains
  BY DEF OpensInv, OpensTypeInv
<1>2. /\ Cat(arrived, files) \in Chains /\ Cat(kept, files) \in Chains
      /\ Cat(sent, kept) \in Chains
  BY <1>1, ChainFacts
<1>5. Cat(Opened(handled, tail, pendingDart, sent, kept), files)
        = Opened(handled, tail, pendingDart, sent, Cat(kept, files))
  BY MorePlaces DEF OpensInv
<1>3. CASE ready
  <2>1. /\ arrived' = Cat(arrived, files) /\ sent' = Cat(Cat(sent, kept), files)
        /\ kept' = <<>>
    BY <1>3 DEF Window!Queue, Cat
  <2>2. sent' \in Chains
    BY <1>2, <2>1, ChainFacts
  <2>3. Cat(Cat(sent, kept), files) = Cat(sent, Cat(kept, files))
    BY <1>1, ChainFacts
  <2>4. Cat(arrived, files) = Opened(handled, tail, pendingDart, sent, Cat(kept, files))
    BY <1>0, <1>5
  <2>5. Opened(handled, tail, pendingDart, sent, Cat(kept, files))
          = Opened(handled, tail, pendingDart, Cat(sent, Cat(kept, files)), <<>>)
    BY <1>1, <1>2, OpenedSent
  <2> QED BY <1>2, <1>3, <2>1, <2>2, <2>3, <2>4, <2>5, ChainFacts
<1>4. CASE ~ready
  <2>1. arrived' = Cat(arrived, files) /\ sent' = sent /\ kept' = Cat(kept, files)
    BY <1>4 DEF Window!Queue, Cat
  <2>2. Cat(arrived, files) = Opened(handled, tail, pendingDart, sent, Cat(kept, files))
    BY <1>0, <1>5
  <2> QED BY <1>1, <1>2, <1>4, <2>1, <2>2 DEF OpensInv, ReadyInv
<1> QED BY <1>3, <1>4
LEMMA HandleKeeps ==
    ASSUME OpensInv, NEW asked \in BOOLEAN,
           NEW r \in [open : BOOLEAN, accepted : BOOLEAN, files : Chains],
           Window!Handle(r, asked), UNCHANGED <<framed, ready, dart, pendingDart, tail, handled>>,
           requests' \in Seq([open : BOOLEAN, accepted : BOOLEAN, files : Chains]),
           app', app => asked = minimized
    PROVE  OpensInv'
<1>1. r.files \in Chains /\ Window!Queue(r.files)
  BY DEF Window!Handle
<1>2. /\ arrived' \in Chains /\ sent' \in Chains /\ kept' \in Chains
      /\ arrived' = Opened(handled', tail', pendingDart', sent', kept')
      /\ ready => kept' = <<>>
      /\ ~ready => sent' = <<>>
  BY <1>1, QueueKeeps
<1>3. OpensTypeInv' /\ ReadyInv'
  BY <1>2 DEF OpensInv, OpensTypeInv, ReadyInv, Window!Handle
<1>4. /\ app <=> window # "none"
      /\ ~app => ~wanted /\ ~framed
      /\ ~framed /\ wanted /\ minimized => window = "visible"
      /\ framed /\ wanted => window = "visible"
  BY DEF OpensInv, WantedInv, DeliveredInv
<1>5. WantedInv' /\ (framed' /\ wanted' => window' = "visible")
  <2>1. CASE r.accepted
    BY <1>4, <2>1 DEF Window!Handle, Window!Activate, WantedInv
  <2>2. CASE ~r.accepted
    BY <1>4, <2>2 DEF Window!Handle, Window!Activate, WantedInv
  <2> QED BY <2>1, <2>2
<1>6. DeliveredInv'
  BY <1>2, <1>5 DEF DeliveredInv
<1> QED BY <1>3, <1>5, <1>6 DEF OpensInv

LEMMA LaunchKeeps ==
    ASSUME OpensInv, NEW r \in Window!Requests,
           Window!LaunchFirst(r) \/ Window!LaunchAnother(r)
    PROVE  OpensInv'
<1>1. r \in [open : BOOLEAN, accepted : BOOLEAN, files : Chains]
  <2>1. Window!Files \subseteq Chains
    <3>1. /\ <<>> \in Seq(Items)
          /\ \A i \in Items : <<i>> \in Seq(Items)
          /\ \A i, j \in Items : <<i, j>> \in Seq(Items)
      OBVIOUS
    <3>2. ASSUME NEW files \in Window!Files PROVE files \in Seq(Items)
      <4>1. \/ files = <<>>
            \/ \E i \in Items : files = <<i>>
            \/ \E i \in Items, j \in Items : files = <<i, j>>
        BY DEF Window!Files
      <4> QED BY <3>1, <4>1
    <3> QED BY <3>2 DEF Chains
  <2> QED BY <2>1 DEF Window!Requests
<1>2. CASE Window!LaunchFirst(r)
  <2>1. PICK asked \in BOOLEAN : Window!Handle(r, asked)
    BY <1>2 DEF Window!LaunchFirst
  <2>2. /\ ~app /\ app'
        /\ UNCHANGED <<requests, framed, ready, dart, pendingDart, tail, handled>>
    BY <1>2 DEF Window!LaunchFirst, Window!dartSide
  <2> QED BY <1>1, <2>1, <2>2, HandleKeeps DEF OpensInv, OpensTypeInv
<1>3. CASE Window!LaunchAnother(r)
  <2>1. requests' = Append(requests, r)
        /\ UNCHANGED <<app, minimized, window, framed, ready, kept, sent, dart,
                       pendingDart, tail, handled, arrived, wanted>>
    BY <1>3 DEF Window!LaunchAnother, Window!dartSide
  <2>2. requests' \in Seq([open : BOOLEAN, accepted : BOOLEAN, files : Chains])
    BY <1>1, <2>1, AppendProperties DEF OpensInv, OpensTypeInv
  <2> QED BY <2>1, <2>2 DEF OpensInv, OpensTypeInv, ReadyInv, WantedInv,
          DeliveredInv
<1> QED BY <1>2, <1>3

LEMMA HandleRequestKeeps ==
    ASSUME OpensInv, Window!HandleRequest PROVE OpensInv'
<1>1. /\ app /\ requests # <<>> /\ requests' = Tail(requests)
      /\ Window!Handle(Head(requests), minimized)
      /\ UNCHANGED <<app, framed, ready, dart, pendingDart, tail, handled>>
  BY DEF Window!HandleRequest, Window!dartSide
<1>2. /\ Head(requests) \in [open : BOOLEAN, accepted : BOOLEAN, files : Chains]
      /\ Tail(requests) \in Seq([open : BOOLEAN, accepted : BOOLEAN, files : Chains])
  BY <1>1, HeadTailProperties DEF OpensInv, OpensTypeInv
<1> QED BY <1>1, <1>2, HandleKeeps DEF OpensInv, OpensTypeInv

\* The steps that pass opens on, one place after the other.
LEMMA PassedOnKeeps ==
    ASSUME OpensInv,
           \/ Window!HandleReady \/ Window!ReceiveItem
           \/ Window!ListenForOpens \/ Window!StartOpen
    PROVE  OpensInv'
<1>0. /\ arrived = Opened(handled, tail, pendingDart, sent, kept)
      /\ ready => kept = <<>>
      /\ framed /\ wanted => window = "visible"
  BY DEF OpensInv, DeliveredInv
<1>1. /\ arrived \in Chains /\ handled \in Chains /\ tail \in Chains
      /\ pendingDart \in Chains /\ sent \in Chains /\ kept \in Chains
      /\ requests \in Seq([open : BOOLEAN, accepted : BOOLEAN, files : Chains])
  BY DEF OpensInv, OpensTypeInv
<1>2. CASE Window!HandleReady
  <2>1. /\ sent' = Cat(sent, kept) /\ kept' = <<>> /\ ready' /\ dart' = "answered"
        /\ UNCHANGED <<arrived, handled, tail, pendingDart, requests, app, framed,
                       wanted, window, minimized>>
    BY <1>2 DEF Window!HandleReady, Cat
  <2>2. Cat(sent, kept) \in Chains /\ <<>> \in Chains
    BY <1>1, ChainFacts
  <2>3. Opened(handled, tail, pendingDart, sent, kept)
          = Opened(handled, tail, pendingDart, Cat(sent, kept), <<>>)
    BY <1>1, OpenedSent
  <2>4. DeliveredInv'
    BY <1>0, <2>1, <2>3 DEF DeliveredInv
  <2> QED BY <1>1, <2>1, <2>2, <2>4 DEF OpensInv, OpensTypeInv, ReadyInv, WantedInv
<1>3. CASE Window!ReceiveItem
  <2>1. /\ sent # <<>> /\ sent' = Left(sent)
        /\ UNCHANGED <<arrived, handled, kept, requests, app, framed, wanted, window,
                       minimized, ready, dart>>
        /\ CASE dart = "listening" -> tail' = Taken(tail, sent) /\ UNCHANGED pendingDart
             [] dart \in {"asked", "answered"} ->
                    pendingDart' = Taken(pendingDart, sent) /\ UNCHANGED tail
             [] OTHER -> UNCHANGED <<tail, pendingDart>>
    BY <1>3 DEF Window!ReceiveItem, Window!nativeVars, Taken, Left
  <2>2. /\ Left(sent) \in Chains /\ Taken(tail, sent) \in Chains
        /\ Taken(pendingDart, sent) \in Chains
    BY <1>1, <2>1, ChainFacts
  <2>3. ready /\ dart \notin {"off", "asked"}
    BY <2>1 DEF OpensInv, ReadyInv
  <2>4. Opened(handled, tail, pendingDart, sent, kept)
          = Opened(handled, tail, Taken(pendingDart, sent), Left(sent), kept)
    BY <1>1, <2>1, OpenedReceived
  <2>5. CASE dart = "listening"
    <3>1. pendingDart = <<>> /\ tail' = Taken(tail, sent) /\ pendingDart' = <<>>
      BY <2>1, <2>5 DEF OpensInv, ReadyInv
    <3>2. Opened(handled, tail, Taken(<<>>, sent), Left(sent), kept)
            = Opened(handled, Taken(tail, sent), <<>>, Left(sent), kept)
      <4>1. Cat(tail, Taken(<<>>, sent)) = Taken(tail, sent)
        <5>1. Head(sent) \in Items
          BY <1>1, <2>1, HeadTailProperties DEF Chains
        <5>2. Append(<<>>, Head(sent)) = <<Head(sent)>>
          OBVIOUS
        <5> QED BY <1>1, <5>1, <5>2, AppendIsConcat DEF Cat, Taken, Chains
      <4>2. Taken(<<>>, sent) \in Chains
        BY <2>1, <1>1, ChainFacts
      <4> QED BY <1>1, <2>2, <4>1, <4>2, OpenedListened
    <3>3. DeliveredInv'
      BY <1>0, <2>1, <2>4, <3>1, <3>2 DEF DeliveredInv
    <3> QED BY <1>1, <2>1, <2>2, <3>1, <3>3 DEF OpensInv, OpensTypeInv, ReadyInv, WantedInv
  <2>6. CASE dart = "answered"
    <3>1. pendingDart' = Taken(pendingDart, sent) /\ tail' = tail
      BY <2>1, <2>6
    <3>2. DeliveredInv'
      BY <1>0, <2>1, <2>4, <3>1 DEF DeliveredInv
    <3> QED BY <1>1, <2>1, <2>2, <2>6, <3>1, <3>2 DEF OpensInv, OpensTypeInv, ReadyInv,
            WantedInv
  <2> QED BY <2>3, <2>5, <2>6 DEF OpensInv, OpensTypeInv
<1>4. CASE Window!ListenForOpens
  <2>1. /\ tail' = Cat(tail, pendingDart) /\ pendingDart' = <<>> /\ dart = "answered"
        /\ dart' = "listening"
        /\ UNCHANGED <<arrived, handled, kept, requests, app, framed, wanted, window,
                       minimized, ready, sent>>
    BY <1>4 DEF Window!ListenForOpens, Window!nativeVars, Cat
  <2>2. Cat(tail, pendingDart) \in Chains /\ <<>> \in Chains
    BY <1>1, ChainFacts
  <2>3. Opened(handled, tail, pendingDart, sent, kept)
          = Opened(handled, Cat(tail, pendingDart), <<>>, sent, kept)
    BY <1>1, OpenedListened
  <2>4. DeliveredInv'
    BY <1>0, <2>1, <2>3 DEF DeliveredInv
  <2> QED BY <1>1, <2>1, <2>2, <2>4 DEF OpensInv, OpensTypeInv, ReadyInv, WantedInv
<1>5. CASE Window!StartOpen
  <2>1. /\ tail # <<>> /\ handled' = Taken(handled, tail) /\ tail' = Left(tail)
        /\ UNCHANGED <<arrived, kept, requests, app, framed, wanted, window,
                       minimized, ready, sent, dart, pendingDart>>
    BY <1>5 DEF Window!StartOpen, Window!nativeVars, Taken, Left
  <2>2. Taken(handled, tail) \in Chains /\ Left(tail) \in Chains
    BY <1>1, <2>1, ChainFacts
  <2>3. Opened(handled, tail, pendingDart, sent, kept)
          = Opened(Taken(handled, tail), Left(tail), pendingDart, sent, kept)
    BY <1>1, <2>1, OpenedStarted
  <2>4. DeliveredInv'
    BY <1>0, <2>1, <2>3 DEF DeliveredInv
  <2> QED BY <1>1, <2>1, <2>2, <2>4 DEF OpensInv, OpensTypeInv, ReadyInv, WantedInv
<1> QED BY <1>2, <1>3, <1>4, <1>5
LEMMA EndKeeps == ASSUME OpensInv, Window!End PROVE OpensInv'
<1>1. <<>> \in Seq([open : BOOLEAN, accepted : BOOLEAN, files : Chains])
  BY EmptySeq
<1>2. Opened(<<>>, <<>>, <<>>, <<>>, <<>>) = <<>>
  BY ChainFacts DEF Opened
<1>3. OpensTypeInv'
  BY <1>1, ChainFacts DEF Window!End, OpensTypeInv
<1> QED BY <1>2, <1>3 DEF Window!End, OpensInv, ReadyInv, WantedInv, DeliveredInv

LEMMA WindowKeeps ==
    ASSUME OpensInv,
           \/ Window!Initialize \/ Window!FinishOpen \/ Window!FirstFrame
           \/ \E how \in {"hidden", "visible"} : Window!PresentWindow(how)
           \/ \E hide \in BOOLEAN : Window!SetHideOnClose(hide)
           \/ Window!CloseWindow \/ Window!Quit
    PROVE  OpensInv'
<1> USE DEF OpensInv, OpensTypeInv, ReadyInv, WantedInv, DeliveredInv,
        Window!nativeVars, Window!dartSide
<1>1. CASE Window!Initialize
  BY <1>1 DEF Window!Initialize
<1>2. CASE Window!FinishOpen
  BY <1>2 DEF Window!FinishOpen
<1>3. CASE Window!FirstFrame
  BY <1>3 DEF Window!FirstFrame
<1>4. ASSUME NEW how \in {"hidden", "visible"}, Window!PresentWindow(how) PROVE OpensInv'
  BY <1>4 DEF Window!PresentWindow
<1>5. ASSUME NEW hide \in BOOLEAN, Window!SetHideOnClose(hide) PROVE OpensInv'
  BY <1>5 DEF Window!SetHideOnClose
<1>6. CASE Window!CloseWindow /\ hideOnClose
  BY <1>6 DEF Window!CloseWindow
<1>7. CASE (Window!CloseWindow /\ ~hideOnClose) \/ Window!Quit
  <2>1. Window!End
    BY <1>7 DEF Window!CloseWindow, Window!Quit
  <2> HIDE DEF OpensInv
  <2> QED BY <2>1, EndKeeps
<1> QED BY <1>1, <1>2, <1>3, <1>4, <1>5, <1>6, <1>7

LEMMA StepKeepsOpensInv ==
    ASSUME OpensInv, Window!Next \/ UNCHANGED windowVars PROVE OpensInv'
<1>1. CASE UNCHANGED windowVars
  BY <1>1 DEF windowVars, OpensInv, OpensTypeInv, ReadyInv, WantedInv, DeliveredInv
<1> QED BY <1>1, LaunchKeeps, HandleRequestKeeps, PassedOnKeeps, WindowKeeps
        DEF Window!Next

\* Whatever was opened is handled once and in order, or is on its way, however
\* many launches there are and whenever Dart becomes ready; and a window that a
\* launch asked for is visible from the first frame on unless Dart or the user
\* hid it.  (queue_external_calendar_open, flush_external_calendar_opens)
THEOREM OpensAreDelivered == RunnerSpec => []OpensDelivered
<1>1. RunnerInit => OpensInv
  BY InitOpensInv DEF RunnerInit
<1>2. OpensInv /\ [RunnerNext]_runnerVars => OpensInv'
  <2> SUFFICES ASSUME OpensInv, [RunnerNext]_runnerVars PROVE OpensInv'
    OBVIOUS
  <2>1. Window!Next \/ UNCHANGED windowVars
    BY DEF RunnerNext, runnerVars, MenusStep, DialogsStep, WeekdayStep, WindowStep,
       IconsStep
  <2> QED BY <2>1, StepKeepsOpensInv
<1>3. OpensInv => OpensDelivered
  BY DEF OpensInv, DeliveredInv, Opened, Cat, OpensDelivered, Window!OpensDelivered
<1> QED BY <1>1, <1>2, <1>3, PTL DEF RunnerSpec
-----------------------------------------------------------------------------
(* The rows of a search. Before is a strict order of the matches, so that   *)
(* each match has a place of its own in Sorted: the number of the matches    *)
(* that come before it. In it the regions follow one another.               *)

LEMMA SmallestRank ==
    ASSUME NEW S \in SUBSET Int, NEW low \in Int, \A x \in S : low <= x, S # {}
    PROVE  Dialogs!Min(S) \in S /\ \A x \in S : Dialogs!Min(S) <= x
<1> DEFINE Up == {x - low : x \in S}
<1>1. Up \subseteq Nat /\ Up # {}
  <2>1. \A x \in S : x - low \in Nat
    OBVIOUS
  <2>2. PICK x \in S : TRUE
    OBVIOUS
  <2>3. x - low \in Up
    OBVIOUS
  <2> QED BY <2>1, <2>3
<1> HIDE DEF Up
<1>2. PICK u \in Up : \A v \in Up : ~(<<v, u>> \in OpToRel(<, Nat))
  BY <1>1, NatLessThanWellFounded, WFMin
<1>3. \A v \in Up : u <= v
  <2>1. SUFFICES ASSUME NEW v \in Up, ~(u <= v) PROVE FALSE
    OBVIOUS
  <2>2. <<v, u>> \in Nat \X Nat /\ v < u
    BY <1>1, <2>1
  <2>3. <<v, u>> \in OpToRel(<, Nat)
    BY <2>2 DEF OpToRel
  <2> QED BY <1>2, <2>3
<1>4. PICK x \in S : u = x - low
  BY DEF Up
<1>5. \A y \in S : x <= y
  BY <1>3, <1>4 DEF Up
<1> QED BY <1>4, <1>5 DEF Dialogs!Min

LEMMA MatchesShape ==
    ASSUME NEW ranks \in [Zones -> Int]
    PROVE  /\ Dialogs!Matches(ranks) \subseteq Zones
           /\ Dialogs!Matches(ranks) \subseteq Int
           /\ IsFiniteSet(Dialogs!Matches(ranks))
           /\ \A z \in Dialogs!Matches(ranks) : ranks[z] \in Int /\ Region[z] \in Int
<1>1. Dialogs!Matches(ranks) \subseteq Zones /\ IsFiniteSet(Zones)
      /\ Zones \subseteq Int /\ Region \in [Zones -> Int]
  BY RunnerAssumption DEF Dialogs!Matches
<1>2. IsFiniteSet(Dialogs!Matches(ranks))
  BY <1>1, FS_Subset
<1> QED BY <1>1, <1>2

\* The rank of a region is the best of its matches, and one of them has it.
LEMMA RegionRanked ==
    ASSUME NEW ranks \in [Zones -> Int], NEW z \in Dialogs!Matches(ranks)
    PROVE  /\ Dialogs!RegionRank(ranks)[z] \in Int
           /\ \E y \in Dialogs!Matches(ranks) :
                  Region[y] = Region[z] /\ ranks[y] = Dialogs!RegionRank(ranks)[z]
           /\ \A y \in Dialogs!Matches(ranks) :
                  Region[y] = Region[z] =>
                      /\ Dialogs!RegionRank(ranks)[z] <= ranks[y]
                      /\ Dialogs!RegionRank(ranks)[y] = Dialogs!RegionRank(ranks)[z]
<1> DEFINE M == Dialogs!Matches(ranks)
           Of(r) == {ranks[y] : y \in {y \in M : Region[y] = r}}
<1>1. ASSUME NEW x \in M PROVE Dialogs!RegionRank(ranks)[x] = Dialogs!Min(Of(Region[x]))
  BY <1>1 DEF Dialogs!RegionRank
<1>2. \A y \in M : ranks[y] \in Int /\ 0 <= ranks[y]
  BY MatchesShape DEF Dialogs!Matches
<1>3. Of(Region[z]) \in SUBSET Int /\ Of(Region[z]) # {}
      /\ \A r \in Of(Region[z]) : 0 <= r
  BY <1>2
<1>4. /\ Dialogs!Min(Of(Region[z])) \in Of(Region[z])
      /\ \A r \in Of(Region[z]) : Dialogs!Min(Of(Region[z])) <= r
  <2> HIDE DEF Of
  <2> QED BY <1>3, SmallestRank
<1>5. Dialogs!RegionRank(ranks)[z] = Dialogs!Min(Of(Region[z]))
  BY <1>1
<1>6. ASSUME NEW y \in M, Region[y] = Region[z]
      PROVE  Dialogs!RegionRank(ranks)[y] = Dialogs!RegionRank(ranks)[z]
  <2>1. Dialogs!RegionRank(ranks)[y] = Dialogs!Min(Of(Region[y]))
    BY <1>1
  <2> HIDE DEF Of
  <2> QED BY <1>5, <1>6, <2>1
<1>7. ASSUME NEW y \in M, Region[y] = Region[z] PROVE ranks[y] \in Of(Region[z])
  BY <1>7
<1>8. \A r \in Of(Region[z]) : \E y \in M : Region[y] = Region[z] /\ ranks[y] = r
  OBVIOUS
<1> HIDE DEF Of, M
<1> QED BY <1>3, <1>4, <1>5, <1>6, <1>7, <1>8 DEF M

\* One match comes before another one or the other way round, never both, and
\* what comes before it comes before what follows it.
Precedes(ranks, y, z) == Dialogs!Before(ranks, Dialogs!RegionRank(ranks), y, z)

LEMMA MatchesOrdered ==
    ASSUME NEW ranks \in [Zones -> Int],
           NEW x \in Dialogs!Matches(ranks), NEW y \in Dialogs!Matches(ranks),
           NEW z \in Dialogs!Matches(ranks)
    PROVE  /\ ~Precedes(ranks, x, x)
           /\ x = y \/ Precedes(ranks, x, y) \/ Precedes(ranks, y, x)
           /\ Precedes(ranks, x, y) /\ Precedes(ranks, y, z) => Precedes(ranks, x, z)
<1> DEFINE best == Dialogs!RegionRank(ranks)
<1>1. /\ x \in Int /\ ranks[x] \in Int /\ Region[x] \in Int /\ best[x] \in Int
      /\ y \in Int /\ ranks[y] \in Int /\ Region[y] \in Int /\ best[y] \in Int
      /\ z \in Int /\ ranks[z] \in Int /\ Region[z] \in Int /\ best[z] \in Int
  BY MatchesShape, RegionRanked
<1>2. /\ Region[x] = Region[y] => best[x] = best[y]
      /\ Region[y] = Region[z] => best[y] = best[z]
      /\ Region[x] = Region[z] => best[x] = best[z]
  BY RegionRanked
<1> HIDE DEF best
<1>3. ~Dialogs!Before(ranks, best, x, x)
  BY <1>1 DEF Dialogs!Before
<1>4. x = y \/ Dialogs!Before(ranks, best, x, y) \/ Dialogs!Before(ranks, best, y, x)
  BY <1>1, <1>2 DEF Dialogs!Before
<1>5. Dialogs!Before(ranks, best, x, y) /\ Dialogs!Before(ranks, best, y, z)
      => Dialogs!Before(ranks, best, x, z)
  BY <1>1, <1>2 DEF Dialogs!Before
<1> QED BY <1>3, <1>4, <1>5 DEF Precedes, best

LEMMA SameCardinality == \A S : Dialogs!Cardinality(S) = Cardinality(S)
BY DEF Dialogs!Cardinality, Cardinality

\* Sorted lists each match once, in the order of Before.
LEMMA SortedMatches ==
    ASSUME NEW ranks \in [Zones -> Int]
    PROVE  LET matches == Dialogs!Matches(ranks)
               n == Cardinality(matches)
               sorted == Dialogs!Sorted(ranks)
           IN /\ n \in Nat /\ sorted \in [1..n -> matches]
              /\ \A z \in matches : \E i \in 1..n : sorted[i] = z
              /\ \A i, j \in 1..n : i < j => Precedes(ranks, sorted[i], sorted[j])
<1> DEFINE M == Dialogs!Matches(ranks)
           N == Cardinality(M)
           Before(z) == {y \in M : Precedes(ranks, y, z)}
           Place == [z \in M |-> Cardinality(Before(z)) + 1]
           sorted == Dialogs!Sorted(ranks)
<1>1. IsFiniteSet(M) /\ N \in Nat
  BY MatchesShape, FS_CardinalityType
<1>2. ASSUME NEW x \in M, NEW y \in M
      PROVE  /\ ~Precedes(ranks, x, x)
             /\ x = y \/ Precedes(ranks, x, y) \/ Precedes(ranks, y, x)
             /\ \A z \in M :
                    Precedes(ranks, x, y) /\ Precedes(ranks, y, z) => Precedes(ranks, x, z)
  BY MatchesOrdered
<1>3. \A z \in M : Dialogs!Ahead(ranks, z) = Before(z)
  BY DEF Dialogs!Ahead, Precedes
<1>4. sorted = [i \in 1..N |-> CHOOSE z \in M : Cardinality(Dialogs!Ahead(ranks, z)) = i - 1]
  BY SameCardinality DEF Dialogs!Sorted
<1> HIDE DEF M, sorted
<1>5. ASSUME NEW z \in M
      PROVE  Cardinality(Before(z)) \in Nat /\ Cardinality(Before(z)) < N
  <2>1. Before(z) \in SUBSET M /\ z \notin Before(z)
    BY <1>2
  <2> HIDE DEF Before
  <2>2. IsFiniteSet(Before(z)) /\ Cardinality(Before(z)) <= N /\ Cardinality(Before(z)) # N
    BY <1>1, <1>5, <2>1, FS_Subset
  <2> QED BY <1>1, <2>2, FS_CardinalityType
<1>6. ASSUME NEW y \in M, NEW z \in M, Precedes(ranks, y, z)
      PROVE  Cardinality(Before(y)) < Cardinality(Before(z))
  <2>1. Before(y) \in SUBSET Before(z) /\ y \in Before(z) /\ y \notin Before(y)
    BY <1>2, <1>6
  <2>2. Before(z) \in SUBSET M
    OBVIOUS
  <2>3. Cardinality(Before(y)) \in Nat /\ Cardinality(Before(z)) \in Nat
    BY <1>5
  <2> HIDE DEF Before
  <2>4. IsFiniteSet(Before(z))
    BY <1>1, <2>2, FS_Subset
  <2>5. Cardinality(Before(y)) <= Cardinality(Before(z))
        /\ Cardinality(Before(y)) # Cardinality(Before(z))
    BY <2>1, <2>4, FS_Subset
  <2> QED BY <2>3, <2>5
<1>7. Place \in [M -> 1..N]
  BY <1>1, <1>5
<1>8. \A y, z \in M : Place[y] = Place[z] => y = z
  <2> SUFFICES ASSUME NEW y \in M, NEW z \in M, y # z PROVE Place[y] # Place[z]
    OBVIOUS
  <2>1. Precedes(ranks, y, z) \/ Precedes(ranks, z, y)
    BY <1>2
  <2>2. Cardinality(Before(y)) \in Nat /\ Cardinality(Before(z)) \in Nat
        /\ Cardinality(Before(y)) # Cardinality(Before(z))
    BY <1>5, <1>6, <2>1
  <2>3. Place[y] = Cardinality(Before(y)) + 1 /\ Place[z] = Cardinality(Before(z)) + 1
    OBVIOUS
  <2> HIDE DEF Before, Place
  <2> QED BY <2>2, <2>3
<1>9. \A i \in 1..N : \E z \in M : Place[z] = i
  <2> HIDE DEF Place
  <2>1. Place \in Injection(M, 1..N)
    BY <1>7, <1>8, Fun_IsInj
  <2>2. IsFiniteSet(1..N) /\ Cardinality(1..N) = N
    BY <1>1, FS_Interval
  <2>3. Place \in Surjection(M, 1..N)
    BY <2>1, <2>2, FS_Injection
  <2> QED BY <2>3, Fun_SurjectionProperties
<1>10. ASSUME NEW i \in 1..N PROVE sorted[i] \in M /\ Place[sorted[i]] = i
  <2>1. PICK z \in M : Place[z] = i
    BY <1>9
  <2>2. Cardinality(Dialogs!Ahead(ranks, z)) = i - 1
    <3>1. Place[z] = Cardinality(Before(z)) + 1 /\ Cardinality(Before(z)) \in Nat
      BY <1>5
    <3>2. Dialogs!Ahead(ranks, z) = Before(z)
      BY <1>3
    <3> HIDE DEF Before, Place
    <3> QED BY <2>1, <3>1, <3>2
  <2>3. sorted[i] \in M /\ Cardinality(Dialogs!Ahead(ranks, sorted[i])) = i - 1
    BY <1>4, <2>2
  <2>4. Place[sorted[i]] = Cardinality(Before(sorted[i])) + 1
    BY <2>3
  <2> QED BY <1>3, <2>3, <2>4
<1>11. sorted \in [1..N -> M]
  BY <1>4, <1>10
<1>12. ASSUME NEW z \in M PROVE \E i \in 1..N : sorted[i] = z
  <2>1. Place[z] \in 1..N
    BY <1>7
  <2>2. sorted[Place[z]] \in M /\ Place[sorted[Place[z]]] = Place[z]
    BY <1>10, <2>1
  <2> HIDE DEF Place
  <2> QED BY <1>8, <2>1, <2>2
<1>13. ASSUME NEW i \in 1..N, NEW j \in 1..N, i < j
       PROVE  Precedes(ranks, sorted[i], sorted[j])
  <2>1. sorted[i] \in M /\ Place[sorted[i]] = i /\ sorted[j] \in M /\ Place[sorted[j]] = j
    BY <1>10
  <2>2. sorted[i] # sorted[j]
    BY <1>13, <2>1
  <2>3. CASE Precedes(ranks, sorted[j], sorted[i])
    <3>1. Cardinality(Before(sorted[j])) < Cardinality(Before(sorted[i]))
      BY <1>6, <2>1, <2>3
    <3>2. /\ Cardinality(Before(sorted[j])) \in Nat /\ Cardinality(Before(sorted[i])) \in Nat
          /\ Place[sorted[j]] = Cardinality(Before(sorted[j])) + 1
          /\ Place[sorted[i]] = Cardinality(Before(sorted[i])) + 1
      BY <1>5, <2>1
    <3> HIDE DEF Place, Before
    <3>3. FALSE
      BY <1>13, <2>1, <3>1, <3>2
    <3> QED BY <3>3
  <2> QED BY <1>2, <2>1, <2>2, <2>3
<1> HIDE DEF Place, Before
<1> QED BY <1>1, <1>11, <1>12, <1>13 DEF M, sorted

\* What RowsGrouped says of the rows of one search.
Grouped(rows, ranks) ==
    /\ Dialogs!ToSet(rows) \subseteq Dialogs!Matches(ranks)
    /\ Len(rows) < ResultLimit => Dialogs!ToSet(rows) = Dialogs!Matches(ranks)
    /\ \A i, j, k \in DOMAIN rows :
           i < j /\ j < k /\ Region[rows[i]] = Region[rows[k]]
           => Region[rows[j]] = Region[rows[i]]
    /\ \A i \in DOMAIN rows :
           i = 1 \/ Region[rows[i - 1]] # Region[rows[i]] =>
           \A z \in Dialogs!Matches(ranks) :
               Region[z] = Region[rows[i]] \/ i = 1 => ranks[rows[i]] <= ranks[z]

\* What comes first is in a region as good, and as good in the same region.
LEMMA PrecedesRanks ==
    ASSUME NEW ranks \in [Zones -> Int],
           NEW y \in Dialogs!Matches(ranks), NEW z \in Dialogs!Matches(ranks),
           Precedes(ranks, y, z)
    PROVE  /\ Dialogs!RegionRank(ranks)[y] <= Dialogs!RegionRank(ranks)[z]
           /\ Dialogs!RegionRank(ranks)[y] = Dialogs!RegionRank(ranks)[z]
              => Region[y] <= Region[z]
           /\ Region[y] = Region[z] => ranks[y] <= ranks[z]
<1> DEFINE best == Dialogs!RegionRank(ranks)
<1>1. /\ ranks[y] \in Int /\ Region[y] \in Int /\ best[y] \in Int
      /\ ranks[z] \in Int /\ Region[z] \in Int /\ best[z] \in Int
  BY MatchesShape, RegionRanked
<1>2. Region[y] = Region[z] => best[y] = best[z]
  BY RegionRanked
<1>3. Dialogs!Before(ranks, best, y, z)
  BY DEF Precedes
<1> HIDE DEF best
<1>4. /\ best[y] <= best[z]
      /\ best[y] = best[z] => Region[y] <= Region[z]
      /\ Region[y] = Region[z] => ranks[y] <= ranks[z]
  BY <1>1, <1>2, <1>3, MatchesShape DEF Dialogs!Before
<1> QED BY <1>4 DEF best

\* The rows are the first of the sorted matches.
LEMMA ResultsAreSorted ==
    ASSUME NEW ranks \in [Zones -> Int]
    PROVE  LET rows == Dialogs!Results(ranks)
               sorted == Dialogs!Sorted(ranks)
               n == Cardinality(Dialogs!Matches(ranks))
           IN /\ DOMAIN rows = 1..Len(rows) /\ Len(rows) \in Nat /\ Len(rows) <= n
              /\ Len(rows) < ResultLimit => Len(rows) = n
              /\ \A i \in DOMAIN rows : rows[i] = sorted[i]
<1> DEFINE M == Dialogs!Matches(ranks)
           n == Cardinality(M)
           sorted == Dialogs!Sorted(ranks)
           k == Dialogs!Min({n, ResultLimit})
<1>1. n \in Nat /\ sorted \in [1..n -> M]
  BY SortedMatches
<1>2. /\ k \in Nat /\ k <= n /\ (k < ResultLimit => k = n)
  <2> HIDE DEF n
  <2>1. {n, ResultLimit} \in SUBSET Int /\ \A x \in {n, ResultLimit} : 0 <= x
    BY <1>1, RunnerAssumption
  <2> DEFINE both == {n, ResultLimit}
  <2>2. both \in SUBSET Int /\ 0 \in Int /\ (\A x \in both : 0 <= x) /\ both # {}
    BY <2>1
  <2>3. Dialogs!Min(both) \in both /\ \A x \in both : Dialogs!Min(both) <= x
    <3> HIDE DEF both
    <3> QED BY <2>2, SmallestRank
  <2>4. k \in both /\ k <= n /\ k <= ResultLimit
    BY <2>3
  <2> HIDE DEF k
  <2> QED BY <1>1, <2>4, RunnerAssumption
<1>3. Dialogs!Results(ranks) = SubSeq(sorted, 1, k)
  BY SameCardinality DEF Dialogs!Results
<1> HIDE DEF k, n, sorted, M
<1>4. sorted \in Seq(M) /\ Len(sorted) = n
  BY <1>1
<1>5. SubSeq(sorted, 1, k) = [i \in 1..k |-> sorted[i]]
  BY <1>1, <1>2, <1>4
<1>6. /\ Len(Dialogs!Results(ranks)) = k /\ DOMAIN Dialogs!Results(ranks) = 1..k
      /\ \A i \in 1..k : Dialogs!Results(ranks)[i] = sorted[i]
  BY <1>2, <1>3, <1>5
<1> QED BY <1>2, <1>6 DEF n, sorted, M

LEMMA ResultsAreGrouped ==
    ASSUME NEW ranks \in [Zones -> Int]
    PROVE  Grouped(Dialogs!Results(ranks), ranks)
<1> DEFINE M == Dialogs!Matches(ranks)
           n == Cardinality(M)
           best == Dialogs!RegionRank(ranks)
           s == Dialogs!Sorted(ranks)
           rows == Dialogs!Results(ranks)
<1>1. /\ n \in Nat /\ s \in [1..n -> M]
      /\ \A z \in M : \E i \in 1..n : s[i] = z
      /\ \A i, j \in 1..n : i < j => Precedes(ranks, s[i], s[j])
  BY SortedMatches
<1>2. /\ DOMAIN rows = 1..Len(rows) /\ Len(rows) \in Nat /\ Len(rows) <= n
      /\ Len(rows) < ResultLimit => Len(rows) = n
      /\ \A i \in DOMAIN rows : i \in 1..n /\ rows[i] = s[i]
  <2>1. /\ DOMAIN rows = 1..Len(rows) /\ Len(rows) \in Nat /\ Len(rows) <= n
        /\ Len(rows) < ResultLimit => Len(rows) = n
        /\ \A i \in DOMAIN rows : rows[i] = s[i]
    BY ResultsAreSorted
  <2>2. n \in Nat
    BY <1>1
  <2> HIDE DEF rows, s, n
  <2>3. \A i \in DOMAIN rows : i \in 1..n
    <3> DEFINE l == Len(rows)
    <3>1. l \in Nat /\ l <= n /\ DOMAIN rows = 1..l
      BY <2>1
    <3> HIDE DEF l
    <3>2. \A i \in 1..l : i \in 1..n
      BY <2>2, <3>1
    <3> QED BY <3>1, <3>2
  <2> QED BY <2>1, <2>3
<1>3. \A i \in 1..n : /\ s[i] \in M /\ ranks[s[i]] \in Int /\ Region[s[i]] \in Int
                      /\ best[s[i]] \in Int
  BY <1>1, MatchesShape, RegionRanked
<1>4. ASSUME NEW i \in 1..n, NEW j \in 1..n, i < j
      PROVE  /\ best[s[i]] <= best[s[j]]
             /\ best[s[i]] = best[s[j]] => Region[s[i]] <= Region[s[j]]
             /\ Region[s[i]] = Region[s[j]] => ranks[s[i]] <= ranks[s[j]]
  BY <1>1, <1>4, PrecedesRanks
<1>5. ASSUME NEW i \in 1..n, NEW j \in 1..n, Region[s[i]] = Region[s[j]]
      PROVE  best[s[i]] = best[s[j]]
  BY <1>3, <1>5, RegionRanked
<1>6. ASSUME NEW z \in M
      PROVE  \E y \in M : Region[y] = Region[z] /\ ranks[y] = best[z]
  BY RegionRanked
<1>7. \A z \in M : ranks[z] \in Int /\ best[z] \in Int /\ best[z] <= ranks[z]
  BY MatchesShape, RegionRanked
<1> HIDE DEF M, n, best, s, rows
<1>8. ASSUME NEW i \in 1..n, NEW j \in 1..n, NEW k \in 1..n, i < j, j < k,
             Region[s[i]] = Region[s[k]]
      PROVE  Region[s[j]] = Region[s[i]]
  <2>1. best[s[i]] <= best[s[j]] /\ best[s[j]] <= best[s[k]] /\ best[s[i]] = best[s[k]]
    BY <1>4, <1>5, <1>8
  <2>2. best[s[i]] = best[s[j]] /\ best[s[j]] = best[s[k]]
    BY <1>3, <2>1
  <2>3. Region[s[i]] <= Region[s[j]] /\ Region[s[j]] <= Region[s[k]]
    BY <1>4, <1>8, <2>2
  <2> QED BY <1>3, <1>8, <2>3
<1>9. ASSUME NEW i \in 1..n, i = 1 \/ Region[s[i - 1]] # Region[s[i]],
             NEW z \in M, Region[z] = Region[s[i]]
      PROVE  ranks[s[i]] <= ranks[z]
  <2>1. PICK j \in 1..n : s[j] = z
    BY <1>1
  <2>2. CASE i < j
    BY <1>4, <1>9, <2>1, <2>2
  <2>3. CASE i = j
    BY <1>3, <2>1, <2>3
  <2>4. CASE j < i
    <3>1. i - 1 \in 1..n /\ i # 1 /\ (j = i - 1 \/ j < i - 1)
      BY <1>1, <2>4
    <3>2. Region[s[i - 1]] = Region[s[i]]
      BY <1>8, <1>9, <2>1, <3>1
    <3> QED BY <1>9, <3>1, <3>2
  <2> QED BY <1>1, <2>2, <2>3, <2>4
<1>10. ASSUME 1 \in 1..n, NEW z \in M PROVE ranks[s[1]] <= ranks[z]
  <2>1. PICK y \in M : Region[y] = Region[s[1]] /\ ranks[y] = best[s[1]]
    BY <1>3, <1>6, <1>10
  <2>2. ranks[s[1]] <= best[s[1]]
    BY <1>9, <1>10, <2>1
  <2>3. PICK j \in 1..n : s[j] = z
    BY <1>1
  <2>4. best[s[1]] <= best[z]
    <3>1. j = 1 \/ 1 < j
      BY <1>1
    <3> QED BY <1>3, <1>4, <1>10, <2>3, <3>1
  <2> QED BY <1>3, <1>7, <1>10, <2>2, <2>4
<1>11. Dialogs!ToSet(rows) \subseteq M
  BY <1>2, <1>3 DEF Dialogs!ToSet
<1>12. ASSUME Len(rows) < ResultLimit PROVE Dialogs!ToSet(rows) = M
  <2>1. DOMAIN rows = 1..n
    BY <1>2, <1>12
  <2>2. \A z \in M : \E i \in DOMAIN rows : rows[i] = z
    BY <1>1, <1>2, <2>1
  <2> QED BY <1>11, <2>2 DEF Dialogs!ToSet
<1>13. \A i, j, k \in DOMAIN rows :
          i < j /\ j < k /\ Region[rows[i]] = Region[rows[k]]
          => Region[rows[j]] = Region[rows[i]]
  BY <1>2, <1>8
<1>14. ASSUME NEW i \in DOMAIN rows, i = 1 \/ Region[rows[i - 1]] # Region[rows[i]],
              NEW z \in M, Region[z] = Region[rows[i]] \/ i = 1
       PROVE  ranks[rows[i]] <= ranks[z]
  <2>1. i \in 1..n /\ rows[i] = s[i] /\ (i = 1 \/ rows[i - 1] = s[i - 1])
    <3>1. i = 1 \/ i - 1 \in DOMAIN rows
      BY <1>2
    <3> QED BY <1>2, <3>1
  <2>2. CASE i = 1
    BY <1>10, <2>1, <2>2
  <2>3. CASE i # 1
    BY <1>9, <1>14, <2>1, <2>3
  <2> QED BY <2>2, <2>3
<1> QED BY <1>11, <1>12, <1>13, <1>14 DEF Grouped, M, rows

-----------------------------------------------------------------------------
(* The dialogs.                                                            *)

Listings == {<<>>} \cup {Dialogs!Results(ranks) : ranks \in Searches}
Listed == UNION {{rows[i] : i \in DOMAIN rows} : rows \in Listings}
Answers == {Dialogs!Null} \cup {Dialogs!Zone(z) : z \in Listed}
                          \cup {Dialogs!Time(hour) : hour \in 0..23}
\* The rows of a dialog are those of what is typed in it.
Searched(dialog) ==
    \/ dialog.rows = <<>> /\ dialog.ranks = Dialogs!NothingTyped
    \/ dialog.rows = Dialogs!Results(dialog.ranks)
ZoneDialogs ==
    {dialog \in
         [call : ZoneCalls, running : BOOLEAN, window : BOOLEAN,
          ranks : Searches \cup {Dialogs!NothingTyped}, rows : Listings,
          result : Answers] : Searched(dialog)}
TimeDialogs ==
    [call : TimeCalls, running : BOOLEAN, window : BOOLEAN, use24 : BOOLEAN,
     text : 0..23 \cup {Dialogs!Unreadable}, pm : BOOLEAN, result : Answers]

DialogsTypeInv ==
    /\ stack \in Seq(ZoneDialogs \cup TimeDialogs)
    /\ DOMAIN replies = Dialogs!Calls /\ DOMAIN confirmed = Dialogs!Calls

\* A dialog has the result its user confirmed; a call that was not made has
\* none.
ResultInv ==
    /\ \A i \in DOMAIN stack : stack[i].result = confirmed[stack[i].call]
    /\ \A c \in Dialogs!Calls :
           ~Dialogs!Asked(c) /\ replies[c] = <<>> => confirmed[c] = Dialogs!Null

DialogsInv == DialogsTypeInv /\ ResultInv /\ DialogsAnswered

LEMMA InitDialogsInv == Dialogs!Init => DialogsInv
<1> SUFFICES ASSUME Dialogs!Init PROVE DialogsInv
  OBVIOUS
<1>1. DialogsTypeInv
  BY EmptySeq DEF Dialogs!Init, DialogsTypeInv
<1> QED BY <1>1 DEF Dialogs!Init, DialogsInv, ResultInv, DialogsAnswered,
        Dialogs!DialogsAnswered, Dialogs!Asked

\* The hour the clock of a dialog shows is one, and the one that is read.
LEMMA ClockIsRead ==
    ASSUME NEW d, d.use24 \in BOOLEAN, d.pm \in BOOLEAN,
           Dialogs!ReadComponent(d.use24, d.text)
    PROVE  /\ Dialogs!ReadTime(d) \in 0..23
           /\ (CHOOSE h \in 0..23 : Dialogs!Displays(d, h)) = Dialogs!ReadTime(d)
<1>1. CASE d.use24
  <2>1. /\ d.text \in 0..23 /\ Dialogs!ReadTime(d) = d.text
        /\ \A h \in 0..23 : Dialogs!Displays(d, h) <=> h = d.text
    BY <1>1 DEF Dialogs!ReadComponent, Dialogs!ReadTime, Dialogs!Displays
  <2> QED BY <2>1
<1>2. CASE ~d.use24
  <2>1. /\ d.text \in 1..12
        /\ Dialogs!ReadTime(d) = (d.text % 12) + (IF d.pm THEN 12 ELSE 0)
    BY <1>2 DEF Dialogs!ReadComponent, Dialogs!ReadTime, Dialogs!CanonicalHour
  <2>2. ASSUME NEW h \in 0..23
        PROVE  Dialogs!Displays(d, h) <=> h = Dialogs!ReadTime(d)
    <3>1. Dialogs!Displays(d, h) <=> d.text = ((h + 11) % 12) + 1 /\ d.pm = (h >= 12)
      BY <1>2 DEF Dialogs!Displays, Dialogs!DisplayHour
    <3>2. CASE d.pm
      <4>1. d.text = ((h + 11) % 12) + 1 /\ h >= 12 <=> h = (d.text % 12) + 12
        BY <2>1
      <4> QED BY <2>1, <3>1, <3>2, <4>1
    <3>3. CASE ~d.pm
      <4>1. d.text = ((h + 11) % 12) + 1 /\ ~(h >= 12) <=> h = d.text % 12
        BY <2>1
      <4> QED BY <2>1, <3>1, <3>3, <4>1
    <3> QED BY <3>2, <3>3
  <2>3. Dialogs!ReadTime(d) \in 0..23
    BY <2>1
  <2> QED BY <2>2, <2>3
<1> QED BY <1>1, <1>2
\* The parts of DialogsAnswered.
LEMMA DialogsParts ==
    ASSUME DialogsInv
    PROVE  /\ \A i, j \in DOMAIN stack : stack[i].call = stack[j].call => i = j
           /\ \A c \in Dialogs!Calls :
                  /\ Dialogs!Asked(c) => replies[c] = <<>>
                  /\ replies[c] \in {<<>>, <<Dialogs!ErrorAnswer>>, <<confirmed[c]>>}
           /\ styled = {c \in ZoneCalls : Dialogs!Asked(c)}
BY DEF DialogsInv, DialogsAnswered, Dialogs!DialogsAnswered

LEMMA StackShape ==
    ASSUME DialogsInv
    PROVE  /\ DOMAIN stack = 1..Len(stack) /\ Len(stack) \in Nat
           /\ stack # <<>> => Len(stack) \in DOMAIN stack
           /\ \A i \in DOMAIN stack : stack[i] \in ZoneDialogs \cup TimeDialogs
           /\ \A d \in ZoneDialogs \cup TimeDialogs :
                  /\ d.call \in Dialogs!Calls /\ d.result \in Answers
                  /\ d.call \in ZoneCalls => d \in ZoneDialogs
                  /\ d.call \in TimeCalls => d \in TimeDialogs
<1>1. stack \in Seq(ZoneDialogs \cup TimeDialogs)
  BY DEF DialogsInv, DialogsTypeInv
<1>2. /\ DOMAIN stack = 1..Len(stack) /\ Len(stack) \in Nat
      /\ \A i \in DOMAIN stack : stack[i] \in ZoneDialogs \cup TimeDialogs
  BY <1>1, LenProperties
<1>3. stack # <<>> => Len(stack) \in DOMAIN stack
  BY <1>1, <1>2, EmptySeq
<1>4. ASSUME NEW d \in ZoneDialogs \cup TimeDialogs
      PROVE  /\ d.call \in Dialogs!Calls /\ d.result \in Answers
             /\ d.call \in ZoneCalls => d \in ZoneDialogs
             /\ d.call \in TimeCalls => d \in TimeDialogs
  <2>1. CASE d \in ZoneDialogs
    <3>1. d.call \in ZoneCalls /\ d.result \in Answers
      BY <2>1 DEF ZoneDialogs, Searched
    <3> QED BY <2>1, <3>1, RunnerAssumption DEF Dialogs!Calls
  <2>2. CASE d \in TimeDialogs
    <3>1. d.call \in TimeCalls /\ d.result \in Answers
      BY <2>2 DEF TimeDialogs
    <3> QED BY <2>2, <3>1, RunnerAssumption DEF Dialogs!Calls
  <2> QED BY <2>1, <2>2
<1> QED BY <1>2, <1>3, <1>4

LEMMA RefuseKeeps ==
    ASSUME DialogsInv, NEW c \in Dialogs!Calls, Dialogs!Unasked(c),
           Dialogs!Reply(c, Dialogs!ErrorAnswer),
           UNCHANGED <<stack, styled, confirmed>>
    PROVE  DialogsInv'
<1>1. /\ ~Dialogs!Asked(c) /\ replies[c] = <<>>
      /\ replies' = [replies EXCEPT ![c] = Append(@, Dialogs!ErrorAnswer)]
  BY DEF Dialogs!Unasked, Dialogs!Reply
<1>2. DOMAIN replies = Dialogs!Calls
  BY DEF DialogsInv, DialogsTypeInv
<1>3. /\ replies'[c] = <<Dialogs!ErrorAnswer>> /\ <<Dialogs!ErrorAnswer>> # <<>>
      /\ DOMAIN replies' = Dialogs!Calls
      /\ \A e \in Dialogs!Calls : e # c => replies'[e] = replies[e]
  BY <1>1, <1>2, OneAnswer
<1>4. \A e : Dialogs!Asked(e)' <=> Dialogs!Asked(e)
  BY DEF Dialogs!Asked
<1>5. DialogsTypeInv' /\ ResultInv'
  BY <1>3, <1>4 DEF DialogsInv, DialogsTypeInv, ResultInv
<1>6. DialogsAnswered'
  BY <1>1, <1>3, <1>4, DialogsParts DEF DialogsAnswered, Dialogs!DialogsAnswered
<1> QED BY <1>5, <1>6 DEF DialogsInv

LEMMA PushKeeps ==
    ASSUME DialogsInv, NEW d \in ZoneDialogs \cup TimeDialogs,
           Dialogs!Unasked(d.call), d.result = Dialogs!Null,
           stack' = Append(stack, d), UNCHANGED <<replies, confirmed>>,
           styled' = styled \cup ({d.call} \cap ZoneCalls)
    PROVE  DialogsInv'
<1>1. ~Dialogs!Asked(d.call) /\ replies[d.call] = <<>> /\ d.call \in Dialogs!Calls
  BY StackShape DEF Dialogs!Unasked
<1>2. /\ stack' \in Seq(ZoneDialogs \cup TimeDialogs)
      /\ DOMAIN stack' = 1..(Len(stack) + 1)
      /\ \A i \in 1..Len(stack) : stack'[i] = stack[i]
      /\ stack'[Len(stack) + 1] = d
  <2>1. stack \in Seq(ZoneDialogs \cup TimeDialogs)
    BY DEF DialogsInv, DialogsTypeInv
  <2> QED BY <2>1, AppendProperties, LenProperties
<1>3. DOMAIN stack = 1..Len(stack) /\ Len(stack) \in Nat
  BY StackShape
<1>4. \A i \in DOMAIN stack' : \/ i \in DOMAIN stack /\ stack'[i] = stack[i]
                               \/ i = Len(stack) + 1 /\ stack'[i] = d
  BY <1>2, <1>3
<1>5. \A c : Dialogs!Asked(c)' <=> Dialogs!Asked(c) \/ c = d.call
  <2>1. ASSUME NEW c, Dialogs!Asked(c)' PROVE Dialogs!Asked(c) \/ c = d.call
    BY <1>4, <2>1 DEF Dialogs!Asked
  <2>2. ASSUME NEW c, Dialogs!Asked(c) PROVE Dialogs!Asked(c)'
    BY <1>2, <1>3, <2>2 DEF Dialogs!Asked
  <2>3. Dialogs!Asked(d.call)'
    <3>1. Len(stack) + 1 \in DOMAIN stack'
      BY <1>2, <1>3
    <3> QED BY <1>2, <3>1 DEF Dialogs!Asked
  <2> QED BY <2>1, <2>2, <2>3
<1>6. DialogsTypeInv'
  BY <1>2 DEF DialogsInv, DialogsTypeInv
<1>7. ResultInv'
  <2>1. confirmed[d.call] = Dialogs!Null
    BY <1>1 DEF DialogsInv, ResultInv
  <2>2. ASSUME NEW i \in DOMAIN stack' PROVE stack'[i].result = confirmed'[stack'[i].call]
    BY <1>4, <2>1 DEF DialogsInv, ResultInv
  <2>3. ASSUME NEW c \in Dialogs!Calls, ~Dialogs!Asked(c)', replies'[c] = <<>>
        PROVE  confirmed'[c] = Dialogs!Null
    BY <1>5, <2>3 DEF DialogsInv, ResultInv
  <2> QED BY <2>2, <2>3 DEF ResultInv
<1>8. DialogsAnswered'
  <2>1. ASSUME NEW i \in DOMAIN stack', NEW j \in DOMAIN stack',
               stack'[i].call = stack'[j].call
        PROVE  i = j
    BY <1>1, <1>4, <2>1, DialogsParts DEF Dialogs!Asked
  <2>2. ASSUME NEW c \in Dialogs!Calls
        PROVE  /\ Dialogs!Asked(c)' => replies'[c] = <<>>
               /\ replies'[c] \in {<<>>, <<Dialogs!ErrorAnswer>>, <<confirmed'[c]>>}
    BY <1>1, <1>5, DialogsParts
  <2>3. styled' = {c \in ZoneCalls : Dialogs!Asked(c)'}
    BY <1>5, DialogsParts
  <2> QED BY <2>1, <2>2, <2>3 DEF DialogsAnswered, Dialogs!DialogsAnswered
<1> QED BY <1>6, <1>7, <1>8 DEF DialogsInv
LEMMA ChangeKeeps ==
    ASSUME DialogsInv, stack # <<>>, NEW d \in ZoneDialogs \cup TimeDialogs,
           d.call = Dialogs!Top.call,
           Dialogs!Change(Len(stack), d), UNCHANGED <<replies, styled>>,
           \/ UNCHANGED confirmed /\ d.result = Dialogs!Top.result
           \/ confirmed' = [confirmed EXCEPT ![d.call] = d.result]
    PROVE  DialogsInv'
<1> DEFINE n == Len(stack)
<1>1. /\ DOMAIN stack = 1..n /\ n \in Nat /\ n \in DOMAIN stack
      /\ stack[n].call = d.call /\ Dialogs!Top = stack[n]
      /\ d.call \in Dialogs!Calls
  BY StackShape DEF Dialogs!Top
<1>2. /\ stack' \in Seq(ZoneDialogs \cup TimeDialogs)
      /\ DOMAIN stack' = DOMAIN stack
      /\ stack'[n] = d /\ \A i \in DOMAIN stack : i # n => stack'[i] = stack[i]
  <2>1. stack \in Seq(ZoneDialogs \cup TimeDialogs)
    BY DEF DialogsInv, DialogsTypeInv
  <2>2. stack' = [stack EXCEPT ![n] = d]
    BY DEF Dialogs!Change
  <2> HIDE DEF n
  <2> QED BY <1>1, <2>1, <2>2, ExceptSeq DEF n
<1> HIDE DEF n
<1>3. \A i \in DOMAIN stack : stack'[i].call = stack[i].call
  BY <1>1, <1>2
<1>4. \A c : Dialogs!Asked(c)' <=> Dialogs!Asked(c)
  BY <1>2, <1>3 DEF Dialogs!Asked
<1>5. Dialogs!Asked(d.call)
  BY <1>1 DEF Dialogs!Asked
<1>6. DOMAIN confirmed = Dialogs!Calls /\ DOMAIN replies = Dialogs!Calls
  BY DEF DialogsInv, DialogsTypeInv
<1>7. /\ DOMAIN confirmed' = Dialogs!Calls
      /\ \A c \in Dialogs!Calls : c # d.call => confirmed'[c] = confirmed[c]
      /\ confirmed'[d.call] = d.result
  <2>1. stack[n].result = confirmed[d.call]
    BY <1>1 DEF DialogsInv, ResultInv
  <2> QED BY <1>1, <1>6, <2>1
<1>8. DialogsTypeInv'
  BY <1>2, <1>6, <1>7 DEF DialogsTypeInv
<1>9. ResultInv'
  <2>1. ASSUME NEW i \in DOMAIN stack' PROVE stack'[i].result = confirmed'[stack'[i].call]
    <3>1. CASE i = n
      BY <1>2, <1>7, <3>1
    <3>2. CASE i # n
      <4>1. stack[i].call # d.call
        BY <1>1, <1>2, <3>2, DialogsParts
      <4>2. stack[i].call \in Dialogs!Calls /\ stack[i].result = confirmed[stack[i].call]
        BY <1>2, StackShape DEF DialogsInv, ResultInv
      <4> QED BY <1>2, <1>7, <3>2, <4>1, <4>2
    <3> QED BY <3>1, <3>2
  <2>2. ASSUME NEW c \in Dialogs!Calls, ~Dialogs!Asked(c)', replies'[c] = <<>>
        PROVE  confirmed'[c] = Dialogs!Null
    BY <1>4, <1>5, <1>7, <2>2 DEF DialogsInv, ResultInv
  <2> QED BY <2>1, <2>2 DEF ResultInv
<1>10. DialogsAnswered'
  <2>1. ASSUME NEW i \in DOMAIN stack', NEW j \in DOMAIN stack',
               stack'[i].call = stack'[j].call
        PROVE  i = j
    BY <1>2, <1>3, <2>1, DialogsParts
  <2>2. ASSUME NEW c \in Dialogs!Calls
        PROVE  /\ Dialogs!Asked(c)' => replies'[c] = <<>>
               /\ replies'[c] \in {<<>>, <<Dialogs!ErrorAnswer>>, <<confirmed'[c]>>}
    BY <1>4, <1>5, <1>7, DialogsParts
  <2>3. styled' = {c \in ZoneCalls : Dialogs!Asked(c)'}
    BY <1>4, DialogsParts
  <2> QED BY <2>1, <2>2, <2>3 DEF DialogsAnswered, Dialogs!DialogsAnswered
<1> QED BY <1>8, <1>9, <1>10 DEF DialogsInv

LEMMA PopKeeps ==
    ASSUME DialogsInv, stack # <<>>,
           Dialogs!Reply(Dialogs!Top.call, Dialogs!Top.result),
           stack' = Dialogs!Front(stack), UNCHANGED confirmed,
           styled' = styled \ {Dialogs!Top.call}
    PROVE  DialogsInv'
<1> DEFINE n == Len(stack)
           c0 == stack[n].call
<1>1. /\ DOMAIN stack = 1..n /\ n \in Nat /\ n \in DOMAIN stack
      /\ Dialogs!Top = stack[n] /\ c0 \in Dialogs!Calls
  BY StackShape DEF Dialogs!Top
<1>2. /\ stack' \in Seq(ZoneDialogs \cup TimeDialogs)
      /\ DOMAIN stack' = 1..(n - 1)
      /\ \A i \in 1..(n - 1) : stack'[i] = stack[i]
  <2>1. stack' = SubSeq(stack, 1, n - 1)
    BY DEF Dialogs!Front
  <2>2. \A i \in 1..(n - 1) : stack[i] \in ZoneDialogs \cup TimeDialogs
    BY <1>1, StackShape
  <2>3. n - 1 \in Int
    BY <1>1
  <2> HIDE DEF n
  <2>4. /\ stack' \in Seq(ZoneDialogs \cup TimeDialogs)
        /\ Len(stack') = IF 1 <= n - 1 THEN n - 1 - 1 + 1 ELSE 0
        /\ \A i \in 1..(n - 1 - 1 + 1) : stack'[i] = stack[1 + i - 1]
    BY <2>1, <2>2, <2>3, SubSeqProperties
  <2>5. Len(stack') = n - 1
    BY <1>1, <2>4
  <2>6. DOMAIN stack' = 1..Len(stack')
    BY <2>4, LenProperties
  <2> QED BY <1>1, <2>4, <2>5, <2>6
<1> HIDE DEF n, c0
<1>3. \A c : Dialogs!Asked(c)' <=> Dialogs!Asked(c) /\ c # c0
  <2>1. ASSUME NEW c, Dialogs!Asked(c)' PROVE Dialogs!Asked(c) /\ c # c0
    <3>1. PICK i \in 1..(n - 1) : stack[i].call = c
      BY <1>2, <2>1 DEF Dialogs!Asked
    <3>2. i \in DOMAIN stack /\ i # n
      BY <1>1
    <3> QED BY <1>1, <3>1, <3>2, DialogsParts DEF Dialogs!Asked, c0
  <2>2. ASSUME NEW c, Dialogs!Asked(c), c # c0 PROVE Dialogs!Asked(c)'
    <3>1. PICK i \in DOMAIN stack : stack[i].call = c
      BY <2>2 DEF Dialogs!Asked
    <3>2. i # n
      BY <2>2, <3>1 DEF c0
    <3>3. i \in 1..(n - 1)
      BY <1>1, <3>2
    <3> QED BY <1>2, <3>1, <3>3 DEF Dialogs!Asked
  <2> QED BY <2>1, <2>2
<1>4. Dialogs!Asked(c0) /\ replies[c0] = <<>>
  <2>1. Dialogs!Asked(c0)
    BY <1>1 DEF Dialogs!Asked, c0
  <2> QED BY <1>1, <2>1, DialogsParts
<1>5. /\ DOMAIN replies' = Dialogs!Calls
      /\ replies'[c0] = <<confirmed[c0]>> /\ <<confirmed[c0]>> # <<>>
      /\ \A c \in Dialogs!Calls : c # c0 => replies'[c] = replies[c]
  <2>1. replies' = [replies EXCEPT ![c0] = Append(@, stack[n].result)]
    BY <1>1 DEF Dialogs!Reply, c0
  <2>2. stack[n].result = confirmed[c0]
    BY <1>1 DEF DialogsInv, ResultInv, c0
  <2>3. DOMAIN replies = Dialogs!Calls
    BY DEF DialogsInv, DialogsTypeInv
  <2> QED BY <1>1, <1>4, <2>1, <2>2, <2>3, OneAnswer
<1>6. DialogsTypeInv'
  BY <1>2, <1>5 DEF DialogsInv, DialogsTypeInv
<1>7. ResultInv'
  <2>1. ASSUME NEW i \in DOMAIN stack' PROVE stack'[i].result = confirmed'[stack'[i].call]
    BY <1>1, <1>2 DEF DialogsInv, ResultInv
  <2>2. ASSUME NEW c \in Dialogs!Calls, ~Dialogs!Asked(c)', replies'[c] = <<>>
        PROVE  confirmed'[c] = Dialogs!Null
    BY <1>3, <1>5, <2>2 DEF DialogsInv, ResultInv
  <2> QED BY <2>1, <2>2 DEF ResultInv
<1>8. DialogsAnswered'
  <2>1. ASSUME NEW i \in DOMAIN stack', NEW j \in DOMAIN stack',
               stack'[i].call = stack'[j].call
        PROVE  i = j
    BY <1>1, <1>2, <2>1, DialogsParts
  <2>2. ASSUME NEW c \in Dialogs!Calls
        PROVE  /\ Dialogs!Asked(c)' => replies'[c] = <<>>
               /\ replies'[c] \in {<<>>, <<Dialogs!ErrorAnswer>>, <<confirmed'[c]>>}
    BY <1>3, <1>5, DialogsParts
  <2>3. styled' = {c \in ZoneCalls : Dialogs!Asked(c)'}
    BY <1>1, <1>3, DialogsParts DEF c0
  <2> QED BY <2>1, <2>2, <2>3 DEF DialogsAnswered, Dialogs!DialogsAnswered
<1> QED BY <1>6, <1>7, <1>8 DEF DialogsInv
\* The dialog that has the grab, by its kind.
LEMMA TopDialog ==
    ASSUME DialogsInv, stack # <<>>
    PROVE  /\ Dialogs!Top.call \in Dialogs!Calls
           /\ Dialogs!Top.call \in ZoneCalls => Dialogs!Top \in ZoneDialogs
           /\ Dialogs!Top.call \in TimeCalls => Dialogs!Top \in TimeDialogs
BY StackShape DEF Dialogs!Top

LEMMA ZoneDialogKeeps ==
    ASSUME DialogsInv,
           \/ \E ranks \in Searches : Dialogs!TypeSearch(ranks)
           \/ \E row \in 1..ResultLimit : Dialogs!ActivateRow(row)
           \/ Dialogs!CloseZones \/ Dialogs!EscapeZones
    PROVE  DialogsInv'
<1>1. stack # <<>> /\ Dialogs!Top \in ZoneDialogs
  <2>1. stack # <<>> /\ Dialogs!Top.call \in ZoneCalls
    BY DEF Dialogs!TypeSearch, Dialogs!ActivateRow, Dialogs!CloseZones,
       Dialogs!EscapeZones, Dialogs!UserActs
  <2> QED BY <2>1, TopDialog
<1>2. ASSUME NEW ranks \in Searches, Dialogs!TypeSearch(ranks) PROVE DialogsInv'
  <2> DEFINE d == [Dialogs!Top EXCEPT !.ranks = ranks, !.rows = Dialogs!Results(ranks)]
  <2>1. d \in ZoneDialogs /\ d.call = Dialogs!Top.call /\ d.result = Dialogs!Top.result
    BY <1>1 DEF ZoneDialogs, Searched, Listings
  <2>2. Dialogs!Change(Len(stack), d) /\ UNCHANGED <<replies, styled, confirmed>>
    BY <1>2 DEF Dialogs!TypeSearch
  <2> HIDE DEF d
  <2> QED BY <1>1, <2>1, <2>2, ChangeKeeps
<1>3. ASSUME NEW row \in 1..ResultLimit, Dialogs!ActivateRow(row) PROVE DialogsInv'
  <2> DEFINE zone == Dialogs!Zone(Dialogs!Top.rows[row])
             d == [Dialogs!Top EXCEPT !.result = zone, !.running = FALSE]
  <2>1. zone \in Answers
    <3>1. row \in DOMAIN Dialogs!Top.rows /\ Dialogs!Top.rows \in Listings
      BY <1>1, <1>3 DEF Dialogs!ActivateRow, ZoneDialogs, Searched
    <3>2. Dialogs!Top.rows[row] \in Listed
      BY <3>1 DEF Listed
    <3> QED BY <3>2 DEF Answers
  <2> HIDE DEF zone
  <2>2. d \in ZoneDialogs /\ d.call = Dialogs!Top.call /\ d.result = zone
    BY <1>1, <2>1 DEF ZoneDialogs, Searched
  <2>3. /\ Dialogs!Change(Len(stack), d) /\ UNCHANGED <<replies, styled>>
        /\ confirmed' = [confirmed EXCEPT ![Dialogs!Top.call] = zone]
    BY <1>3 DEF Dialogs!ActivateRow, zone
  <2> HIDE DEF d
  <2> QED BY <1>1, <2>2, <2>3, ChangeKeeps
<1>4. CASE Dialogs!CloseZones \/ Dialogs!EscapeZones
  <2> DEFINE d == [Dialogs!Top EXCEPT !.running = FALSE]
  <2>1. d \in ZoneDialogs /\ d.call = Dialogs!Top.call /\ d.result = Dialogs!Top.result
    BY <1>1 DEF ZoneDialogs, Searched
  <2>2. Dialogs!Change(Len(stack), d) /\ UNCHANGED <<replies, styled, confirmed>>
    BY <1>4 DEF Dialogs!CloseZones, Dialogs!EscapeZones
  <2> HIDE DEF d
  <2> QED BY <1>1, <2>1, <2>2, ChangeKeeps
<1> QED BY <1>2, <1>3, <1>4

LEMMA TimeDialogKeeps ==
    ASSUME DialogsInv,
           \/ \E text \in Hours \cup {Dialogs!Unreadable} : Dialogs!EditHour(text)
           \/ Dialogs!EditPeriod \/ Dialogs!ConfirmTime \/ Dialogs!CancelTime
    PROVE  DialogsInv'
<1>1. stack # <<>> /\ Dialogs!Top \in TimeDialogs
  <2>1. stack # <<>> /\ Dialogs!Top.call \in TimeCalls
    BY DEF Dialogs!EditHour, Dialogs!EditPeriod, Dialogs!ConfirmTime,
       Dialogs!CancelTime, Dialogs!UserActs
  <2> QED BY <2>1, TopDialog
<1>2. ASSUME NEW text \in Hours \cup {Dialogs!Unreadable}, Dialogs!EditHour(text)
      PROVE  DialogsInv'
  <2> DEFINE d == [Dialogs!Top EXCEPT !.text = text]
  <2>1. d \in TimeDialogs /\ d.call = Dialogs!Top.call /\ d.result = Dialogs!Top.result
    BY <1>1, RunnerAssumption DEF TimeDialogs
  <2>2. Dialogs!Change(Len(stack), d) /\ UNCHANGED <<replies, styled, confirmed>>
    BY <1>2 DEF Dialogs!EditHour
  <2> HIDE DEF d
  <2> QED BY <1>1, <2>1, <2>2, ChangeKeeps
<1>3. CASE Dialogs!EditPeriod
  <2> DEFINE d == [Dialogs!Top EXCEPT !.pm = ~@]
  <2>1. d \in TimeDialogs /\ d.call = Dialogs!Top.call /\ d.result = Dialogs!Top.result
    BY <1>1 DEF TimeDialogs
  <2>2. Dialogs!Change(Len(stack), d) /\ UNCHANGED <<replies, styled, confirmed>>
    BY <1>3 DEF Dialogs!EditPeriod
  <2> HIDE DEF d
  <2> QED BY <1>1, <2>1, <2>2, ChangeKeeps
<1>4. CASE Dialogs!ConfirmTime
  <2> DEFINE time == Dialogs!Time(Dialogs!ReadTime(Dialogs!Top))
             d == [Dialogs!Top EXCEPT !.result = time, !.running = FALSE]
  <2>1. /\ Dialogs!Top.use24 \in BOOLEAN /\ Dialogs!Top.pm \in BOOLEAN
        /\ Dialogs!ReadComponent(Dialogs!Top.use24, Dialogs!Top.text)
    BY <1>1, <1>4 DEF Dialogs!ConfirmTime, TimeDialogs
  <2>2. /\ Dialogs!ReadTime(Dialogs!Top) \in 0..23
        /\ (CHOOSE h \in 0..23 : Dialogs!Displays(Dialogs!Top, h))
              = Dialogs!ReadTime(Dialogs!Top)
    BY <2>1, ClockIsRead
  <2>3. time \in Answers
    BY <2>2 DEF Answers
  <2>4. /\ Dialogs!Change(Len(stack), d) /\ UNCHANGED <<replies, styled>>
        /\ confirmed' = [confirmed EXCEPT ![Dialogs!Top.call] = time]
    BY <1>4, <2>2 DEF Dialogs!ConfirmTime
  <2> HIDE DEF time
  <2>5. d \in TimeDialogs /\ d.call = Dialogs!Top.call /\ d.result = time
    BY <1>1, <2>3 DEF TimeDialogs
  <2> HIDE DEF d
  <2> QED BY <1>1, <2>4, <2>5, ChangeKeeps
<1>5. CASE Dialogs!CancelTime
  <2> DEFINE d == [Dialogs!Top EXCEPT !.running = FALSE]
  <2>1. d \in TimeDialogs /\ d.call = Dialogs!Top.call /\ d.result = Dialogs!Top.result
    BY <1>1 DEF TimeDialogs
  <2>2. Dialogs!Change(Len(stack), d) /\ UNCHANGED <<replies, styled, confirmed>>
    BY <1>5 DEF Dialogs!CancelTime
  <2> HIDE DEF d
  <2> QED BY <1>1, <2>1, <2>2, ChangeKeeps
<1> QED BY <1>2, <1>3, <1>4, <1>5

LEMMA CallKeeps ==
    ASSUME DialogsInv, NEW c \in Dialogs!Calls,
           \/ Dialogs!ArgumentsRefused(c) \/ Dialogs!StyleRefused(c)
           \/ Dialogs!NoParent(c) \/ Dialogs!OpenZones(c) \/ Dialogs!OpenTime(c)
    PROVE  DialogsInv'
<1>1. CASE Dialogs!ArgumentsRefused(c) \/ Dialogs!StyleRefused(c) \/ Dialogs!NoParent(c)
  BY <1>1, RefuseKeeps DEF Dialogs!ArgumentsRefused, Dialogs!StyleRefused,
     Dialogs!NoParent, Dialogs!Refuse
<1>2. CASE Dialogs!OpenZones(c)
  <2> DEFINE d == [call |-> c, running |-> TRUE, window |-> TRUE,
                   ranks |-> Dialogs!NothingTyped, rows |-> <<>>,
                   result |-> Dialogs!Null]
  <2>1. /\ d \in ZoneDialogs /\ d.call = c /\ d.result = Dialogs!Null
        /\ {c} \cap ZoneCalls = {c}
    BY <1>2 DEF Dialogs!OpenZones, ZoneDialogs, Searched, Listings, Answers
  <2>2. /\ Dialogs!Unasked(c) /\ stack' = Append(stack, d)
        /\ UNCHANGED <<replies, confirmed>> /\ styled' = styled \cup {c}
    BY <1>2 DEF Dialogs!OpenZones
  <2> HIDE DEF d
  <2> QED BY <2>1, <2>2, PushKeeps
<1>3. CASE Dialogs!OpenTime(c)
  <2>1. PICK hour \in Hours, use24 \in BOOLEAN :
            stack' = Append(stack, Dialogs!Controls(c, hour, use24))
    BY <1>3 DEF Dialogs!OpenTime
  <2> DEFINE d == Dialogs!Controls(c, hour, use24)
  <2>2. hour \in 0..23 /\ Dialogs!DisplayHour(hour) \in 0..23
    BY RunnerAssumption DEF Dialogs!DisplayHour
  <2>3. c \in TimeCalls /\ {c} \cap ZoneCalls = {}
    BY <1>3, RunnerAssumption DEF Dialogs!OpenTime
  <2>4. d \in TimeDialogs /\ d.call = c /\ d.result = Dialogs!Null
    BY <2>2, <2>3 DEF Dialogs!Controls, TimeDialogs, Answers
  <2>5. /\ Dialogs!Unasked(c) /\ stack' = Append(stack, d)
        /\ UNCHANGED <<replies, confirmed, styled>>
    BY <1>3, <2>1 DEF Dialogs!OpenTime
  <2> HIDE DEF d
  <2> QED BY <2>3, <2>4, <2>5, PushKeeps
<1> QED BY <1>1, <1>2, <1>3

LEMMA ReturnKeeps ==
    ASSUME DialogsInv, Dialogs!ReturnZones \/ Dialogs!ReturnTime PROVE DialogsInv'
<1>1. CASE Dialogs!ReturnZones
  BY <1>1, PopKeeps DEF Dialogs!ReturnZones
<1>2. CASE Dialogs!ReturnTime /\ stack' = Dialogs!Front(stack)
           /\ Dialogs!Reply(Dialogs!Top.call, Dialogs!Top.result)
  <2>1. stack # <<>> /\ Dialogs!Top.call \in TimeCalls /\ UNCHANGED <<styled, confirmed>>
    BY <1>2 DEF Dialogs!ReturnTime
  <2>2. styled' = styled \ {Dialogs!Top.call}
    BY <2>1, DialogsParts, RunnerAssumption
  <2> QED BY <1>2, <2>1, <2>2, PopKeeps
<1>3. CASE Dialogs!ReturnTime /\ UNCHANGED <<stack, replies>>
  BY <1>3 DEF Dialogs!ReturnTime, DialogsInv, DialogsTypeInv, ResultInv,
     DialogsAnswered, Dialogs!DialogsAnswered, Dialogs!Asked
<1> QED BY <1>1, <1>2, <1>3 DEF Dialogs!ReturnTime

LEMMA DestroyParentKeeps ==
    ASSUME DialogsInv, Dialogs!DestroyParent PROVE DialogsInv'
<1>1. /\ stack' = [i \in DOMAIN stack |->
                       [stack[i] EXCEPT !.window = FALSE, !.running = FALSE]]
      /\ UNCHANGED <<styled, replies, confirmed>>
  BY DEF Dialogs!DestroyParent
<1>2. ASSUME NEW d \in ZoneDialogs \cup TimeDialogs
      PROVE  /\ [d EXCEPT !.window = FALSE, !.running = FALSE] \in ZoneDialogs \cup TimeDialogs
             /\ [d EXCEPT !.window = FALSE, !.running = FALSE].call = d.call
             /\ [d EXCEPT !.window = FALSE, !.running = FALSE].result = d.result
  <2>1. CASE d \in ZoneDialogs
    BY <2>1 DEF ZoneDialogs, Searched
  <2>2. CASE d \in TimeDialogs
    BY <2>2 DEF TimeDialogs
  <2> QED BY <2>1, <2>2
<1>3. /\ DOMAIN stack' = DOMAIN stack
      /\ \A i \in DOMAIN stack : /\ stack'[i] \in ZoneDialogs \cup TimeDialogs
                                 /\ stack'[i].call = stack[i].call
                                 /\ stack'[i].result = stack[i].result
  BY <1>1, <1>2, StackShape
<1>4. stack' \in Seq(ZoneDialogs \cup TimeDialogs)
  <2>1. stack' = [i \in 1..Len(stack) |->
                      [stack[i] EXCEPT !.window = FALSE, !.running = FALSE]]
    BY <1>1, StackShape
  <2>2. Len(stack) \in Nat /\ stack' \in [1..Len(stack) -> ZoneDialogs \cup TimeDialogs]
    BY <1>3, <2>1, StackShape
  <2> QED BY <2>2
<1>5. \A c : Dialogs!Asked(c)' <=> Dialogs!Asked(c)
  BY <1>3 DEF Dialogs!Asked
<1>6. DialogsTypeInv' /\ ResultInv'
  BY <1>1, <1>3, <1>4, <1>5 DEF DialogsInv, DialogsTypeInv, ResultInv
<1>7. DialogsAnswered'
  <2>1. \A i, j \in DOMAIN stack' : stack'[i].call = stack'[j].call => i = j
    BY <1>3, DialogsParts
  <2>2. \A c \in Dialogs!Calls :
            /\ Dialogs!Asked(c)' => replies'[c] = <<>>
            /\ replies'[c] \in {<<>>, <<Dialogs!ErrorAnswer>>, <<confirmed'[c]>>}
    BY <1>1, <1>5, DialogsParts
  <2>3. styled' = {c \in ZoneCalls : Dialogs!Asked(c)'}
    BY <1>1, <1>5, DialogsParts
  <2> QED BY <2>1, <2>2, <2>3 DEF DialogsAnswered, Dialogs!DialogsAnswered
<1> QED BY <1>6, <1>7 DEF DialogsInv

LEMMA StepKeepsDialogsInv ==
    ASSUME DialogsInv, Dialogs!Next \/ UNCHANGED dialogVars PROVE DialogsInv'
<1>1. CASE UNCHANGED dialogVars
  BY <1>1 DEF dialogVars, DialogsInv, DialogsTypeInv, ResultInv, DialogsAnswered,
     Dialogs!DialogsAnswered, Dialogs!Asked
<1> QED BY <1>1, CallKeeps, ZoneDialogKeeps, TimeDialogKeeps, ReturnKeeps,
        DestroyParentKeeps DEF Dialogs!Next

LEMMA DialogsKeepInv == RunnerSpec => []DialogsInv
<1>1. RunnerInit => DialogsInv
  BY InitDialogsInv DEF RunnerInit
<1>2. DialogsInv /\ [RunnerNext]_runnerVars => DialogsInv'
  <2> SUFFICES ASSUME DialogsInv, [RunnerNext]_runnerVars PROVE DialogsInv'
    OBVIOUS
  <2>1. Dialogs!Next \/ UNCHANGED dialogVars
    BY DEF RunnerNext, runnerVars, MenusStep, DialogsStep, WeekdayStep, WindowStep,
       IconsStep
  <2> QED BY <2>1, StepKeepsDialogsInv
<1> QED BY <1>1, <1>2, PTL DEF RunnerSpec

\* Every call for a dialog is answered once, after the dialogs above its own,
\* with what its user confirmed, whatever is typed, confirmed, closed and
\* destroyed meanwhile.  (handle_native_time_zone_selection, handle_pick_time)
THEOREM EveryDialogIsAnswered == RunnerSpec => []DialogsAnswered
<1>1. DialogsInv => DialogsAnswered
  BY DEF DialogsInv
<1> QED BY <1>1, DialogsKeepInv, PTL

\* The rows of a search keep each region together, the best match first, and
\* leave nothing out but behind the limit, for any zones and any way to rank
\* them.  (compare_native_time_zone_options, rebuild_native_time_zone_results)
THEOREM RowsAreGrouped == RunnerSpec => []RowsGrouped
<1>1. DialogsInv => RowsGrouped
  <2> SUFFICES ASSUME DialogsInv, NEW d \in DOMAIN stack, stack[d].call \in ZoneCalls
               PROVE  Grouped(stack[d].rows, stack[d].ranks)
    BY DEF RowsGrouped, Dialogs!RowsGrouped, Grouped
  <2>1. stack[d] \in ZoneDialogs
    BY StackShape, RunnerAssumption DEF TimeDialogs
  <2>2. Searched(stack[d]) /\ stack[d].ranks \in Searches \cup {Dialogs!NothingTyped}
    BY <2>1 DEF ZoneDialogs
  <2>3. Dialogs!NothingTyped \in [Zones -> Int]
        /\ Dialogs!Matches(Dialogs!NothingTyped) = {}
    BY DEF Dialogs!NothingTyped, Dialogs!Matches
  <2>4. stack[d].ranks \in [Zones -> Int]
    BY <2>2, <2>3, RunnerAssumption
  <2>5. CASE stack[d].rows = Dialogs!Results(stack[d].ranks)
    BY <2>4, <2>5, ResultsAreGrouped
  <2>6. CASE stack[d].rows = <<>> /\ stack[d].ranks = Dialogs!NothingTyped
    BY <2>3, <2>6 DEF Grouped, Dialogs!ToSet
  <2> QED BY <2>2, <2>5, <2>6 DEF Searched
<1> QED BY <1>1, DialogsKeepInv, PTL

-----------------------------------------------------------------------------
(* The first weekday: what FirstWeekdayProofs proves of the component is    *)
(* true of it in the runner.                                               *)

Component == INSTANCE FirstWeekdayProofs
    WITH MaxChanges <- MaxSettings, toDart <- fromWeekday

LEMMA WeekdaySpec == RunnerSpec => Component!Spec
<1>1. RunnerInit => Component!Init
  BY DEF RunnerInit, Weekday!Init, Component!Init, Weekday!Reads, Component!Reads
<1>2. [RunnerNext]_runnerVars => [Component!Next]_Component!weekdayVars
  <2>1. Weekday!Next => Component!Next
    BY DEF Weekday!Next, Component!Next, Weekday!Reads, Component!Reads,
       Weekday!Read, Component!Read, Weekday!RefreshOnEvent, Component!RefreshOnEvent,
       Weekday!BusReady, Component!BusReady, Weekday!PortalTimeout, Component!PortalTimeout,
       Weekday!PortalServes, Component!PortalServes, Weekday!PortalRead, Component!PortalRead,
       Weekday!PortalChanged, Component!PortalChanged,
       Weekday!DirectChanged, Component!DirectChanged,
       Weekday!ChangeSetting, Component!ChangeSetting,
       Weekday!StopListening, Component!StopListening,
       Weekday!Dispose, Component!Dispose,
       Weekday!DartReceives, Component!DartReceives,
       Weekday!RefreshTimesOut, Component!RefreshTimesOut,
       Weekday!Refreshed, Component!Refreshed, Weekday!Complete, Component!Complete,
       Weekday!ReadDirect, Component!ReadDirect,
       Weekday!SubscribePortal, Component!SubscribePortal,
       Weekday!GivenUp, Component!GivenUp, Weekday!Superseded, Component!Superseded,
       Weekday!Completed, Component!Completed, Weekday!Answer, Component!Answer,
       Weekday!Event, Component!Event,
       Weekday!stateVars, Component!stateVars, Weekday!readVars, Component!readVars,
       Weekday!dartVars, Component!dartVars
  <2>2. UNCHANGED weekdayVars => UNCHANGED Component!weekdayVars
    BY DEF weekdayVars, Component!weekdayVars, Component!stateVars, Component!readVars,
       Component!dartVars
  <2> QED BY <2>1, <2>2 DEF RunnerNext, runnerVars, MenusStep, DialogsStep,
          WeekdayStep, WindowStep, IconsStep
<1> QED BY <1>1, <1>2, PTL DEF RunnerSpec, Component!Spec

\* Each call for the first weekday is answered once, whatever the bus and the
\* portal do.  (Read, CancelActive, Complete, PortalTimeout)
THEOREM EveryReadIsAnswered == RunnerSpec => []WeekdayAnswered
<1>1. Component!Spec => []Component!WeekdayAnswered
  BY RunnerAssumption, Component!EveryReadIsAnswered
<1>2. Component!WeekdayAnswered => WeekdayAnswered
  BY DEF WeekdayAnswered, Weekday!WeekdayAnswered, Component!WeekdayAnswered
<1> QED BY <1>1, <1>2, WeekdaySpec, PTL

\* When nothing is under way, a value of the portal or of GNOME is the setting
\* of now.  (SubscribePortal, ConnectDirect)
THEOREM TheWeekdayIsCurrent == RunnerSpec => []WeekdayCurrent
<1>1. Component!Spec => []Component!WeekdayCurrent
  BY RunnerAssumption, Component!TheDayIsCurrent
<1>2. Component!WeekdayCurrent => WeekdayCurrent
  BY DEF WeekdayCurrent, Weekday!WeekdayCurrent, Component!WeekdayCurrent
<1> QED BY <1>1, <1>2, WeekdaySpec, PTL
-----------------------------------------------------------------------------
(* The icons of the header: the revision of a change is on its way to Dart  *)
(* or Dart saw it; a load asked for a revision shows that one or a later    *)
(* one; and Dart does not rest before it loaded the highest it saw.         *)

Looks == [screen : Screens, theme : Nat, scale : Scales]
Drawn == [look : Looks, made : Nat]
Catalogs == [revision : Nat, look : Looks, made : Nat]
IconCalls == [kind : {"listen", "cancel"}] \cup [kind : {"load"}, load : Nat \ {0}]
IconEvents == [kind : {"event"}, revision : Nat]
IconAnswers == [kind : {"icons"}, load : Nat \ {0}, ok : BOOLEAN, icons : Drawn]
Told == IconEvents \cup IconAnswers

\* What is in a queue.
Among(queue) == {queue[i] : i \in DOMAIN queue}

IconsTypeInv ==
    /\ screen \in Screens /\ bound \in Screens /\ scale \in Scales
    /\ theme \in [Screens -> Nat]
    /\ started \in BOOLEAN /\ listening \in BOOLEAN
    /\ failed \in BOOLEAN /\ iconsDisposed \in BOOLEAN
    /\ revision \in Nat /\ loads \in Nat /\ iconsAwaited \in Nat
    /\ target \in Nat /\ queued \in Nat /\ highest \in Nat
    /\ run \in {"off", "initial", "reload", "idle"}
    /\ toRunner \in Seq(IconCalls) /\ iconsToDart \in Seq(Told)
    /\ catalog \in Catalogs \cup {Icons!NoCatalog}

\* What was drawn of a revision that is the last shows what is on the screen.
Shows(drawn) ==
    /\ drawn.made <= revision
    /\ started /\ drawn.made = revision => drawn.look = Icons!Look(screen)

DrawnInv ==
    /\ started => bound = screen
    /\ \A m \in Among(iconsToDart) : m.kind = "event" => m.revision <= revision
    /\ \A m \in Among(iconsToDart) : m.kind = "icons" => Shows(m.icons)
    /\ catalog.made <= revision
    /\ catalog \in Catalogs => Shows(catalog)

LoadsInv ==
    /\ iconsAwaited <= loads
    /\ run \in {"off", "idle"} => iconsAwaited = 0
    /\ \A m \in Among(toRunner) : m.kind = "load" => m.load <= loads
    /\ \A m \in Among(iconsToDart) :
           m.kind = "icons" => /\ m.load <= loads
                               /\ m.load = iconsAwaited => target <= m.icons.made
    /\ catalog.revision <= catalog.made

HeardInv ==
    /\ highest <= revision /\ target <= highest /\ queued <= highest
    /\ run \in {"initial", "reload"} => highest = target \/ highest = queued
    /\ run = "off" => highest = 0
    /\ run = "idle" /\ ~failed /\ ~iconsDisposed
       => catalog \in Catalogs /\ highest <= catalog.revision
    /\ listening /\ ~iconsDisposed
       => revision <= highest \/ Icons!Event(revision) \in Among(iconsToDart)

ListeningInv ==
    /\ run = "off" => /\ toRunner = <<>> /\ iconsToDart = <<>>
                      /\ ~listening /\ ~iconsDisposed
    /\ [kind |-> "cancel"] \in Among(toRunner) => iconsDisposed
    /\ ~listening /\ ~iconsDisposed /\ run # "off"
       => /\ toRunner # <<>> /\ Head(toRunner).kind = "listen" /\ iconsToDart = <<>>
          /\ run = "initial" \/ (run = "idle" /\ failed)

IconsInv == IconsTypeInv /\ DrawnInv /\ LoadsInv /\ HeardInv /\ ListeningInv

LEMMA AmongQueue ==
    ASSUME NEW S, NEW q \in Seq(S)
    PROVE  /\ \A m \in Among(q) : m \in S
           /\ Among(<<>>) = {}
           /\ q # <<>> => /\ Tail(q) \in Seq(S) /\ Head(q) \in S
                          /\ Head(q) \in Among(q)
                          /\ Among(Tail(q)) \subseteq Among(q)
                          /\ \A m \in Among(q) : m = Head(q) \/ m \in Among(Tail(q))
           /\ \A m \in S : /\ Append(q, m) \in Seq(S) /\ Append(q, m) # <<>>
                           /\ Among(Append(q, m)) = Among(q) \cup {m}
                           /\ q # <<>> => Head(Append(q, m)) = Head(q)
<1>1. \A m \in Among(q) : m \in S
  BY DEF Among
<1>2. Among(<<>>) = {}
  BY DEF Among
<1>3. ASSUME q # <<>>
      PROVE /\ Tail(q) \in Seq(S) /\ Head(q) \in S
            /\ Head(q) \in Among(q)
            /\ Among(Tail(q)) \subseteq Among(q)
            /\ \A m \in Among(q) : m = Head(q) \/ m \in Among(Tail(q))
  <2>1. /\ Tail(q) \in Seq(S) /\ Len(q) \in Nat /\ Len(q) > 0 /\ Head(q) = q[1]
        /\ DOMAIN q = 1..Len(q) /\ DOMAIN Tail(q) = 1..(Len(q) - 1)
        /\ \A i \in 1..(Len(q) - 1) : Tail(q)[i] = q[i + 1]
    BY <1>3
  <2>2. Head(q) \in S /\ Head(q) \in Among(q)
    BY <2>1 DEF Among
  <2>3. ASSUME NEW i \in DOMAIN Tail(q) PROVE Tail(q)[i] \in Among(q)
    <3>1. i + 1 \in DOMAIN q /\ Tail(q)[i] = q[i + 1]
      BY <2>1
    <3> QED BY <3>1 DEF Among
  <2>4. ASSUME NEW i \in DOMAIN q, i # 1 PROVE q[i] \in Among(Tail(q))
    <3>1. i - 1 \in DOMAIN Tail(q) /\ Tail(q)[i - 1] = q[i]
      BY <2>1, <2>4
    <3> QED BY <3>1 DEF Among
  <2>5. Among(Tail(q)) \subseteq Among(q)
    BY <2>3 DEF Among
  <2>6. \A m \in Among(q) : m = Head(q) \/ m \in Among(Tail(q))
    <3>1. SUFFICES ASSUME NEW m \in Among(q) PROVE m = Head(q) \/ m \in Among(Tail(q))
      OBVIOUS
    <3>2. PICK i \in DOMAIN q : m = q[i]
      BY DEF Among
    <3> QED BY <2>1, <2>4, <3>2
  <2> QED BY <2>1, <2>2, <2>5, <2>6
<1>4. ASSUME NEW m \in S
      PROVE /\ Append(q, m) \in Seq(S) /\ Append(q, m) # <<>>
            /\ Among(Append(q, m)) = Among(q) \cup {m}
            /\ q # <<>> => Head(Append(q, m)) = Head(q)
  <2>1. /\ Append(q, m) \in Seq(S) /\ Len(q) \in Nat /\ DOMAIN q = 1..Len(q)
        /\ DOMAIN Append(q, m) = 1..(Len(q) + 1)
        /\ \A i \in 1..Len(q) : Append(q, m)[i] = q[i]
        /\ Append(q, m)[Len(q) + 1] = m
    OBVIOUS
  <2>2. Append(q, m) # <<>> /\ (q # <<>> => Head(Append(q, m)) = Head(q))
    BY <2>1
  <2>3. Among(Append(q, m)) \subseteq Among(q) \cup {m}
    <3>1. \A i \in DOMAIN Append(q, m) : i \in DOMAIN q \/ i = Len(q) + 1
      BY <2>1
    <3> QED BY <2>1, <3>1 DEF Among
  <2>4. Among(q) \cup {m} \subseteq Among(Append(q, m))
    <3>1. \A i \in DOMAIN q : i \in DOMAIN Append(q, m) /\ Append(q, m)[i] = q[i]
      BY <2>1
    <3>2. Len(q) + 1 \in DOMAIN Append(q, m)
      BY <2>1
    <3> QED BY <2>1, <3>1, <3>2 DEF Among
  <2> QED BY <2>1, <2>2, <2>3, <2>4
<1> QED BY <1>1, <1>2, <1>3, <1>4

LEMMA InitIconsInv == Icons!Init => IconsInv
<1> SUFFICES ASSUME Icons!Init PROVE IconsInv
  OBVIOUS
<1>1. Among(<<>>) = {}
  BY DEF Among
<1>2. IconsTypeInv
  <2>1. /\ screen \in Screens /\ bound \in Screens /\ scale \in Scales
        /\ toRunner = <<>> /\ iconsToDart = <<>> /\ catalog = Icons!NoCatalog
    BY DEF Icons!Init
  <2>4. theme \in [Screens -> Nat]
    <3>1. theme = [s \in Screens |-> 0]
      BY DEF Icons!Init
    <3> QED BY <3>1
  <2>2. <<>> \in Seq(IconCalls) /\ <<>> \in Seq(Told)
    OBVIOUS
  <2>3. /\ started \in BOOLEAN /\ listening \in BOOLEAN
        /\ failed \in BOOLEAN /\ iconsDisposed \in BOOLEAN
        /\ revision \in Nat /\ loads \in Nat /\ iconsAwaited \in Nat
        /\ target \in Nat /\ queued \in Nat /\ highest \in Nat
        /\ run \in {"off", "initial", "reload", "idle"}
    BY DEF Icons!Init
  <2> QED BY <2>1, <2>2, <2>3, <2>4 DEF IconsTypeInv
<1>3. catalog \notin Catalogs /\ catalog.revision = 0 /\ catalog.made = 0
  BY DEF Icons!Init, Icons!NoCatalog, Catalogs
<1>4. DrawnInv /\ LoadsInv /\ HeardInv /\ ListeningInv
  BY <1>1, <1>3 DEF Icons!Init, DrawnInv, LoadsInv, HeardInv, ListeningInv
<1> QED BY <1>2, <1>4 DEF IconsInv

LEMMA IconsParts == IconsInv => /\ IconsTypeInv /\ DrawnInv /\ LoadsInv /\ HeardInv
                                /\ ListeningInv
BY DEF IconsInv

\* The revision of a change is told to Dart when it listens.
LEMMA Invalidated ==
    ASSUME IconsInv, Icons!Invalidate
    PROVE  /\ revision \in Nat /\ revision' = revision + 1
           /\ iconsToDart' \in Seq(Told)
           /\ Among(iconsToDart) \subseteq Among(iconsToDart')
           /\ \A m \in Among(iconsToDart') :
                  m \in Among(iconsToDart) \/ m = Icons!Event(revision')
           /\ listening => Icons!Event(revision') \in Among(iconsToDart')
           /\ ~listening => iconsToDart' = iconsToDart
<1>1. revision \in Nat /\ iconsToDart \in Seq(Told)
  BY DEF IconsInv, IconsTypeInv
<1>2. revision' = revision + 1 /\ Icons!Event(revision + 1) \in Told
  BY <1>1 DEF Icons!Invalidate, Icons!Event, Told, IconEvents
<1>3. CASE listening
  <2>1. iconsToDart' = Append(iconsToDart, Icons!Event(revision'))
    BY <1>2, <1>3 DEF Icons!Invalidate
  <2> QED BY <1>1, <1>2, <1>3, <2>1, AmongQueue
<1>4. CASE ~listening
  BY <1>1, <1>2, <1>4 DEF Icons!Invalidate
<1> QED BY <1>3, <1>4

LEMMA InvalidateKeeps ==
    ASSUME IconsInv, Icons!Invalidate, started,
           screen' \in Screens, scale' \in Scales, theme' \in [Screens -> Nat],
           bound' = screen',
           UNCHANGED <<started, listening, toRunner, Icons!dartVars>>
    PROVE  IconsInv'
<1>1. /\ revision \in Nat /\ revision' = revision + 1
      /\ iconsToDart' \in Seq(Told)
      /\ Among(iconsToDart) \subseteq Among(iconsToDart')
      /\ \A m \in Among(iconsToDart') :
             m \in Among(iconsToDart) \/ m = Icons!Event(revision')
      /\ listening => Icons!Event(revision') \in Among(iconsToDart')
      /\ ~listening => iconsToDart' = iconsToDart
  BY Invalidated
<1>2. /\ UNCHANGED <<started, listening, toRunner, run, loads, iconsAwaited, target, queued>>
      /\ UNCHANGED <<highest, catalog, failed, iconsDisposed>>
  BY DEF Icons!dartVars
<1>3. IconsTypeInv /\ DrawnInv /\ LoadsInv /\ HeardInv /\ ListeningInv
  BY DEF IconsInv
<1>4. IconsTypeInv'
  BY <1>1, <1>2, <1>3 DEF IconsTypeInv
<1>5. \A m \in Told : /\ m.kind = "icons" => m.icons.made \in Nat
                      /\ m.kind = "event" => m.revision \in Nat
  BY DEF Told, IconEvents, IconAnswers, Drawn
<1>6. \A m \in Among(iconsToDart) : m \in Told
  BY <1>3, AmongQueue DEF IconsTypeInv
<1>7. /\ Icons!Event(revision').kind = "event"
      /\ Icons!Event(revision').revision = revision'
  BY DEF Icons!Event
<1>8. DrawnInv'
  <2>1. \A m \in Among(iconsToDart') : m.kind = "event" => m.revision <= revision'
    BY <1>1, <1>3, <1>5, <1>6, <1>7 DEF DrawnInv
  <2>2. ASSUME NEW drawn, drawn.made \in Nat, Shows(drawn) PROVE Shows(drawn)'
    BY <1>1, <2>2 DEF Shows
  <2>3. \A m \in Among(iconsToDart') : m.kind = "icons" => Shows(m.icons)'
    BY <1>1, <1>3, <1>5, <1>6, <1>7, <2>2 DEF DrawnInv
  <2>4. catalog.made \in Nat
    BY <1>3 DEF IconsTypeInv, Catalogs, Icons!NoCatalog
  <2>5. catalog'.made <= revision' /\ (catalog' \in Catalogs => Shows(catalog)')
    BY <1>1, <1>2, <1>3, <2>2, <2>4 DEF DrawnInv
  <2> QED BY <2>1, <2>3, <2>5 DEF DrawnInv
<1>9. LoadsInv'
  BY <1>1, <1>2, <1>3, <1>7 DEF LoadsInv
<1>10. HeardInv'
  BY <1>1, <1>2, <1>3 DEF HeardInv, IconsTypeInv
<1>11. ListeningInv'
  BY <1>1, <1>2, <1>3 DEF ListeningInv
<1> QED BY <1>4, <1>8, <1>9, <1>10, <1>11 DEF IconsInv

\* A change the runner does not hear of: it has stopped, or the theme is that
\* of another screen.
LEMMA UnheardKeeps ==
    ASSUME IconsInv,
           screen' \in Screens, scale' \in Scales, theme' \in [Screens -> Nat],
           bound' \in Screens,
           UNCHANGED <<started, revision, listening, toRunner, iconsToDart, Icons!dartVars>>,
           started => bound' = screen' /\ Icons!Look(screen)' = Icons!Look(screen)
    PROVE  IconsInv'
<1>1. /\ UNCHANGED <<started, revision, listening, toRunner, iconsToDart, run, loads>>
      /\ UNCHANGED <<iconsAwaited, target, queued, highest, catalog, failed, iconsDisposed>>
  BY DEF Icons!dartVars
<1>2. IconsTypeInv /\ DrawnInv /\ LoadsInv /\ HeardInv /\ ListeningInv
  BY DEF IconsInv
<1>3. IconsTypeInv'
  BY <1>1, <1>2 DEF IconsTypeInv
<1>4. ASSUME NEW drawn, Shows(drawn) PROVE Shows(drawn)'
  BY <1>1, <1>4 DEF Shows
<1>5. DrawnInv'
  BY <1>1, <1>2, <1>4 DEF DrawnInv
<1>6. LoadsInv' /\ HeardInv' /\ ListeningInv'
  BY <1>1, <1>2 DEF LoadsInv, HeardInv, ListeningInv
<1> QED BY <1>3, <1>5, <1>6 DEF IconsInv

LEMMA ScreenKeeps ==
    ASSUME IconsInv,
           (\E s \in Screens : Icons!OnThemeChanged(s)) \/ Icons!OnScaleChanged
               \/ Icons!OnScreenChanged
    PROVE  IconsInv'
<1>1. /\ screen \in Screens /\ bound \in Screens /\ scale \in Scales
      /\ theme \in [Screens -> Nat] /\ (started => bound = screen)
  BY DEF IconsInv, IconsTypeInv, DrawnInv
<1>2. ASSUME NEW s \in Screens, Icons!OnThemeChanged(s) PROVE IconsInv'
  <2>1. /\ theme' = [theme EXCEPT ![s] = @ + 1] /\ theme' \in [Screens -> Nat]
        /\ UNCHANGED <<screen, scale, bound, started, listening, toRunner, Icons!dartVars>>
    BY <1>1, <1>2 DEF Icons!OnThemeChanged
  <2>2. CASE started /\ s = bound
    <3>1. Icons!Invalidate
      BY <1>2, <2>2 DEF Icons!OnThemeChanged
    <3> QED BY <1>1, <2>1, <2>2, <3>1, InvalidateKeeps
  <2>3. CASE ~(started /\ s = bound)
    <3>1. UNCHANGED <<revision, iconsToDart>>
      BY <1>2, <2>3 DEF Icons!OnThemeChanged
    <3>2. started => bound' = screen' /\ Icons!Look(screen)' = Icons!Look(screen)
      BY <1>1, <2>1, <2>3 DEF Icons!Look
    <3> QED BY <1>1, <2>1, <3>1, <3>2, UnheardKeeps
  <2> QED BY <2>2, <2>3
<1>3. CASE Icons!OnScaleChanged
  <2>1. /\ scale' \in Scales
        /\ UNCHANGED <<screen, theme, bound, started, listening, toRunner, Icons!dartVars>>
    BY <1>3 DEF Icons!OnScaleChanged
  <2>2. CASE started
    <3>1. Icons!Invalidate
      BY <1>3, <2>2 DEF Icons!OnScaleChanged
    <3> QED BY <1>1, <2>1, <2>2, <3>1, InvalidateKeeps
  <2>3. CASE ~started
    <3>1. UNCHANGED <<revision, iconsToDart>>
      BY <1>3, <2>3 DEF Icons!OnScaleChanged
    <3> QED BY <1>1, <2>1, <2>3, <3>1, UnheardKeeps
  <2> QED BY <2>2, <2>3
<1>4. CASE Icons!OnScreenChanged
  <2>1. /\ screen' \in Screens
        /\ UNCHANGED <<theme, scale, started, listening, toRunner, Icons!dartVars>>
    BY <1>4 DEF Icons!OnScreenChanged
  <2>2. CASE started
    <3>1. Icons!Invalidate /\ bound' = screen'
      BY <1>4, <2>2 DEF Icons!OnScreenChanged, Icons!RebindTheme
    <3> QED BY <1>1, <2>1, <2>2, <3>1, InvalidateKeeps
  <2>3. CASE ~started
    <3>1. UNCHANGED <<bound, revision, iconsToDart>>
      BY <1>4, <2>3 DEF Icons!OnScreenChanged
    <3> QED BY <1>1, <2>1, <2>3, <3>1, UnheardKeeps
  <2> QED BY <2>2, <2>3
<1> QED BY <1>2, <1>3, <1>4

\* A message is of one kind.
LEMMA Kinds ==
    /\ \A m \in Told : /\ m.kind = "event" => m.revision \in Nat /\ m = Icons!Event(m.revision)
                       /\ m.kind = "icons" => /\ m.load \in Nat \ {0} /\ m.ok \in BOOLEAN
                                              /\ m.icons \in Drawn
                       /\ m.kind = "event" \/ m.kind = "icons"
    /\ \A n \in Nat : Icons!Event(n) \in Told /\ Icons!Event(n).kind = "event"
                      /\ Icons!Event(n).revision = n
    /\ \A m \in IconCalls : m.kind = "load" => m.load \in Nat \ {0}
    /\ \A drawn \in Drawn : drawn.look \in Looks /\ drawn.made \in Nat
BY DEF Told, IconEvents, IconAnswers, IconCalls, Drawn, Icons!Event

LEMMA ListenKeeps ==
    ASSUME IconsInv, Icons!HandleListen PROVE IconsInv'
<1>1. IconsTypeInv /\ DrawnInv /\ LoadsInv /\ HeardInv /\ ListeningInv
  BY DEF IconsInv
<1>2. /\ UNCHANGED <<screen, theme, scale, bound, started, revision, run, loads>>
      /\ UNCHANGED <<iconsAwaited, target, queued, highest, catalog, failed, iconsDisposed>>
      /\ listening' = TRUE /\ toRunner # <<>> /\ toRunner' = Tail(toRunner)
  BY DEF Icons!HandleListen, Icons!gtkVars, Icons!dartVars
<1>3. toRunner' \in Seq(IconCalls) /\ Among(toRunner') \subseteq Among(toRunner)
  BY <1>1, <1>2, AmongQueue DEF IconsTypeInv
<1>4. /\ iconsToDart' \in Seq(Told)
      /\ Among(iconsToDart) \subseteq Among(iconsToDart')
      /\ \A m \in Among(iconsToDart') :
             m \in Among(iconsToDart) \/ m = Icons!Event(revision)
      /\ revision > 0 => Icons!Event(revision) \in Among(iconsToDart')
  <2>1. iconsToDart \in Seq(Told) /\ Icons!Event(revision) \in Told
    BY <1>1, Kinds DEF IconsTypeInv
  <2>2. CASE revision > 0
    <3>1. iconsToDart' = Append(iconsToDart, Icons!Event(revision))
      BY <2>2 DEF Icons!HandleListen
    <3> QED BY <2>1, <3>1, AmongQueue
  <2>3. CASE ~(revision > 0)
    BY <2>1, <2>3 DEF Icons!HandleListen
  <2> QED BY <2>2, <2>3
<1>5. revision \in Nat /\ highest \in Nat /\ Icons!Event(revision).kind = "event"
      /\ Icons!Event(revision).revision = revision
  BY <1>1, Kinds DEF IconsTypeInv
<1>6. IconsTypeInv'
  BY <1>1, <1>2, <1>3, <1>4 DEF IconsTypeInv
<1>7. \A drawn : Shows(drawn)' <=> Shows(drawn)
  BY <1>2 DEF Shows, Icons!Look
<1>8. DrawnInv'
  BY <1>1, <1>2, <1>4, <1>5, <1>7 DEF DrawnInv
<1>9. LoadsInv'
  BY <1>1, <1>2, <1>3, <1>4, <1>5 DEF LoadsInv
<1>10. HeardInv'
  BY <1>1, <1>2, <1>4, <1>5 DEF HeardInv
<1>11. run # "off"
  BY <1>1, <1>2 DEF ListeningInv
<1>12. ListeningInv'
  BY <1>1, <1>2, <1>3, <1>11 DEF ListeningInv
<1> QED BY <1>6, <1>8, <1>9, <1>10, <1>12 DEF IconsInv

LEMMA CancelKeeps ==
    ASSUME IconsInv, Icons!HandleCancel PROVE IconsInv'
<1>1. IconsTypeInv /\ DrawnInv /\ LoadsInv /\ HeardInv /\ ListeningInv
  BY DEF IconsInv
<1>2. /\ UNCHANGED <<screen, theme, scale, bound, started, revision, iconsToDart, run>>
      /\ UNCHANGED <<loads, iconsAwaited, target, queued, highest, catalog, failed,
                     iconsDisposed>>
      /\ listening' = FALSE /\ toRunner # <<>> /\ toRunner' = Tail(toRunner)
      /\ Head(toRunner).kind = "cancel"
  BY DEF Icons!HandleCancel, Icons!gtkVars, Icons!dartVars
<1>3. /\ toRunner' \in Seq(IconCalls) /\ Among(toRunner') \subseteq Among(toRunner)
      /\ Head(toRunner) \in IconCalls /\ Head(toRunner) \in Among(toRunner)
  BY <1>1, <1>2, AmongQueue DEF IconsTypeInv
<1>4. Head(toRunner) = [kind |-> "cancel"]
  BY <1>2, <1>3 DEF IconCalls
<1>5. iconsDisposed /\ run # "off"
  BY <1>1, <1>2, <1>3, <1>4 DEF ListeningInv
<1>6. IconsTypeInv'
  BY <1>1, <1>2, <1>3 DEF IconsTypeInv
<1>7. \A drawn : Shows(drawn)' <=> Shows(drawn)
  BY <1>2 DEF Shows, Icons!Look
<1>8. DrawnInv'
  BY <1>1, <1>2, <1>7 DEF DrawnInv
<1>9. LoadsInv' /\ HeardInv' /\ ListeningInv'
  BY <1>1, <1>2, <1>3, <1>5 DEF LoadsInv, HeardInv, ListeningInv
<1> QED BY <1>6, <1>8, <1>9 DEF IconsInv

\* A load draws the screen of now, with the revision of now.
LEMMA LoadKeeps ==
    ASSUME IconsInv, Icons!LoadIcons PROVE IconsInv'
<1>1. IconsTypeInv /\ DrawnInv /\ LoadsInv /\ HeardInv /\ ListeningInv
  BY DEF IconsInv
<1>2. /\ UNCHANGED <<screen, theme, scale, bound, started, revision, listening, run>>
      /\ UNCHANGED <<loads, iconsAwaited, target, queued, highest, catalog, failed,
                     iconsDisposed>>
      /\ started /\ toRunner # <<>> /\ toRunner' = Tail(toRunner)
      /\ Head(toRunner).kind = "load"
  BY DEF Icons!LoadIcons, Icons!gtkVars, Icons!runnerVars, Icons!dartVars
<1>3. /\ toRunner' \in Seq(IconCalls) /\ Among(toRunner') \subseteq Among(toRunner)
      /\ Head(toRunner) \in IconCalls /\ Head(toRunner) \in Among(toRunner)
  BY <1>1, <1>2, AmongQueue DEF IconsTypeInv
<1>4. Head(toRunner).load \in Nat \ {0} /\ Head(toRunner).load <= loads
  BY <1>1, <1>2, <1>3, Kinds DEF LoadsInv
<1>5. PICK ok \in BOOLEAN :
          iconsToDart' = Append(iconsToDart,
                                [kind |-> "icons", load |-> Head(toRunner).load,
                                 ok |-> ok, icons |-> Icons!Load])
  BY DEF Icons!LoadIcons
<1> DEFINE answer == [kind |-> "icons", load |-> Head(toRunner).load,
                      ok |-> ok, icons |-> Icons!Load]
<1>6. /\ Icons!Load \in Drawn /\ Icons!Load.made = revision
      /\ Shows(Icons!Load)
  <2>1. revision \in Nat /\ Icons!Look(screen) \in Looks /\ bound = screen
    BY <1>1, <1>2 DEF IconsTypeInv, DrawnInv, Icons!Look, Looks
  <2> QED BY <2>1 DEF Icons!Load, Drawn, Shows
<1>7. /\ answer \in Told /\ answer.kind = "icons" /\ answer.load = Head(toRunner).load
      /\ answer.icons = Icons!Load
  BY <1>4, <1>6 DEF Told, IconAnswers
<1> HIDE DEF answer
<1>8. /\ iconsToDart' \in Seq(Told)
      /\ Among(iconsToDart') = Among(iconsToDart) \cup {answer}
  BY <1>1, <1>5, <1>7, AmongQueue DEF IconsTypeInv, answer
<1>9. IconsTypeInv'
  BY <1>1, <1>2, <1>3, <1>8 DEF IconsTypeInv
<1>10. \A drawn : Shows(drawn)' <=> Shows(drawn)
  BY <1>2 DEF Shows, Icons!Look
<1>11. DrawnInv'
  BY <1>1, <1>2, <1>6, <1>7, <1>8, <1>10 DEF DrawnInv
<1>12. LoadsInv'
  <2>1. target <= revision
    BY <1>1 DEF HeardInv, IconsTypeInv
  <2> QED BY <1>1, <1>2, <1>3, <1>4, <1>6, <1>7, <1>8, <2>1 DEF LoadsInv
<1>13. HeardInv'
  BY <1>1, <1>2, <1>8 DEF HeardInv
<1>14. (listening \/ iconsDisposed) /\ run # "off"
  BY <1>1, <1>2 DEF ListeningInv
<1>15. ListeningInv'
  BY <1>1, <1>2, <1>3, <1>14 DEF ListeningInv
<1> QED BY <1>9, <1>11, <1>12, <1>13, <1>15 DEF IconsInv

LEMMA StopKeeps ==
    ASSUME IconsInv, Icons!Stop PROVE IconsInv'
<1>1. IconsTypeInv /\ DrawnInv /\ LoadsInv /\ HeardInv /\ ListeningInv
  BY DEF IconsInv
<1>2. /\ UNCHANGED <<screen, theme, scale, bound, revision, listening, run, loads>>
      /\ UNCHANGED <<iconsAwaited, target, queued, highest, catalog, failed,
                     iconsDisposed, toRunner, iconsToDart>>
      /\ started' = FALSE
  BY DEF Icons!Stop, Icons!gtkVars, Icons!dartVars
<1>3. IconsTypeInv'
  BY <1>1, <1>2 DEF IconsTypeInv
<1>4. \A drawn : Shows(drawn) => Shows(drawn)'
  BY <1>2 DEF Shows
<1>5. DrawnInv'
  BY <1>1, <1>2, <1>4 DEF DrawnInv
<1>6. LoadsInv' /\ HeardInv' /\ ListeningInv'
  BY <1>1, <1>2 DEF LoadsInv, HeardInv, ListeningInv
<1> QED BY <1>3, <1>5, <1>6 DEF IconsInv

LEMMA DisposeIconsKeeps ==
    ASSUME IconsInv, Icons!Dispose PROVE IconsInv'
<1>1. IconsTypeInv /\ DrawnInv /\ LoadsInv /\ HeardInv /\ ListeningInv
  BY DEF IconsInv
<1>2. /\ UNCHANGED <<screen, theme, scale, bound, started, revision, listening, run>>
      /\ UNCHANGED <<loads, iconsAwaited, target, queued, highest, catalog, failed,
                     iconsToDart>>
      /\ iconsDisposed' = TRUE /\ run # "off"
      /\ toRunner' = Append(toRunner, [kind |-> "cancel"])
  BY DEF Icons!Dispose, Icons!gtkVars, Icons!runnerVars
<1>3. [kind |-> "cancel"] \in IconCalls /\ [kind |-> "cancel"].kind = "cancel"
  BY DEF IconCalls
<1>4. /\ toRunner' \in Seq(IconCalls)
      /\ Among(toRunner') = Among(toRunner) \cup {[kind |-> "cancel"]}
  BY <1>1, <1>2, <1>3, AmongQueue DEF IconsTypeInv
<1>5. IconsTypeInv'
  BY <1>1, <1>2, <1>4 DEF IconsTypeInv
<1>6. \A drawn : Shows(drawn)' <=> Shows(drawn)
  BY <1>2 DEF Shows, Icons!Look
<1>7. DrawnInv'
  BY <1>1, <1>2, <1>6 DEF DrawnInv
<1>8. LoadsInv'
  BY <1>1, <1>2, <1>3, <1>4 DEF LoadsInv
<1>9. HeardInv' /\ ListeningInv'
  BY <1>1, <1>2 DEF HeardInv, ListeningInv
<1> QED BY <1>5, <1>7, <1>8, <1>9 DEF IconsInv

\* A load is asked for after every other, with a number of its own.
LEMMA AskSends ==
    ASSUME IconsInv, NEW n \in Nat, Icons!Ask(<<>>, n)
    PROVE  /\ loads' = loads + 1 /\ iconsAwaited' = loads + 1 /\ target' = n
           /\ loads \in Nat
           /\ toRunner' \in Seq(IconCalls) /\ toRunner' # <<>>
           /\ \A m \in Among(toRunner') :
                  m \in Among(toRunner) \/ m = [kind |-> "load", load |-> loads + 1]
           /\ toRunner # <<>> => Head(toRunner') = Head(toRunner)
<1>1. loads \in Nat /\ toRunner \in Seq(IconCalls)
  BY DEF IconsInv, IconsTypeInv
<1> DEFINE call == [kind |-> "load", load |-> loads + 1]
<1>2. call \in IconCalls
  BY <1>1 DEF IconCalls
<1>3. toRunner' = toRunner \o <<>> \o <<call>>
  BY DEF Icons!Ask
<1> HIDE DEF call
<1>4. toRunner' = Append(toRunner, call)
  BY <1>1, <1>2, <1>3
<1>5. /\ toRunner' \in Seq(IconCalls) /\ toRunner' # <<>>
      /\ Among(toRunner') = Among(toRunner) \cup {call}
      /\ toRunner # <<>> => Head(toRunner') = Head(toRunner)
  BY <1>1, <1>2, <1>4, AmongQueue
<1> QED BY <1>1, <1>5 DEF Icons!Ask, call

LEMMA InitializeKeeps ==
    ASSUME IconsInv, Icons!Initialize PROVE IconsInv'
<1>1. IconsTypeInv /\ DrawnInv /\ LoadsInv /\ HeardInv /\ ListeningInv
  BY DEF IconsInv
<1>2. /\ UNCHANGED <<screen, theme, scale, bound, started, revision, listening>>
      /\ UNCHANGED <<queued, highest, catalog, failed, iconsDisposed, iconsToDart>>
      /\ run = "off" /\ run' = "initial" /\ loads' = loads + 1
      /\ iconsAwaited' = loads + 1 /\ target' = 0
      /\ toRunner' = toRunner \o <<[kind |-> "listen"]>>
                              \o <<[kind |-> "load", load |-> loads + 1]>>
  BY DEF Icons!Initialize, Icons!Ask, Icons!gtkVars, Icons!runnerVars
<1>3. /\ toRunner = <<>> /\ iconsToDart = <<>> /\ highest = 0 /\ ~listening
      /\ loads \in Nat /\ catalog.revision <= catalog.made /\ revision \in Nat
      /\ queued \in Nat
  BY <1>1, <1>2 DEF ListeningInv, HeardInv, LoadsInv, IconsTypeInv
<1> DEFINE listen == [kind |-> "listen"]
           load == [kind |-> "load", load |-> loads + 1]
<1>4. /\ listen \in IconCalls /\ load \in IconCalls /\ listen.kind = "listen"
      /\ load.kind = "load" /\ load.load = loads + 1
      /\ listen # [kind |-> "cancel"]
  BY <1>3 DEF IconCalls
<1>5. load # [kind |-> "cancel"]
  BY <1>4
<1>6. toRunner' = <<>> \o <<listen>> \o <<load>>
  BY <1>2, <1>3
<1> HIDE DEF listen, load
<1>7. toRunner' = Append(Append(<<>>, listen), load)
  BY <1>4, <1>6
<1>8. /\ Append(<<>>, listen) \in Seq(IconCalls) /\ Append(<<>>, listen) # <<>>
      /\ Among(Append(<<>>, listen)) = {listen} /\ Head(Append(<<>>, listen)) = listen
  <2>1. <<>> \in Seq(IconCalls) /\ Append(<<>>, listen) = <<listen>>
    BY <1>4
  <2>2. Head(Append(<<>>, listen)) = listen
    BY <2>1
  <2>3. Among(Append(<<>>, listen)) = Among(<<>>) \cup {listen} /\ Among(<<>>) = {}
    BY <1>4, <2>1, AmongQueue
  <2>4. Append(<<>>, listen) \in Seq(IconCalls) /\ Append(<<>>, listen) # <<>>
    BY <1>4, <2>1, AmongQueue
  <2> QED BY <2>2, <2>3, <2>4
<1>9. /\ toRunner' \in Seq(IconCalls) /\ toRunner' # <<>>
      /\ Among(toRunner') = {listen, load} /\ Head(toRunner') = listen
  <2> DEFINE first == Append(<<>>, listen)
  <2>1. first \in Seq(IconCalls) /\ first # <<>> /\ Among(first) = {listen}
        /\ Head(first) = listen /\ toRunner' = Append(first, load)
    BY <1>7, <1>8
  <2> HIDE DEF first
  <2>2. /\ toRunner' \in Seq(IconCalls) /\ toRunner' # <<>>
        /\ Among(toRunner') = Among(first) \cup {load} /\ Head(toRunner') = Head(first)
    BY <1>4, <2>1, AmongQueue
  <2> QED BY <2>1, <2>2
<1>10. IconsTypeInv'
  BY <1>1, <1>2, <1>3, <1>9 DEF IconsTypeInv
<1>11. \A drawn : Shows(drawn)' <=> Shows(drawn)
  BY <1>2 DEF Shows, Icons!Look
<1>12. DrawnInv'
  BY <1>1, <1>2, <1>11 DEF DrawnInv
<1>13. Among(iconsToDart') = {}
  BY <1>2, <1>3 DEF Among
<1>14. LoadsInv'
  BY <1>2, <1>3, <1>4, <1>9, <1>13 DEF LoadsInv
<1>15. HeardInv'
  BY <1>1, <1>2, <1>3 DEF HeardInv
<1>16. ListeningInv'
  BY <1>2, <1>3, <1>4, <1>5, <1>9 DEF ListeningInv
<1> QED BY <1>10, <1>12, <1>14, <1>15, <1>16 DEF IconsInv

LEMMA TimesOutKeeps ==
    ASSUME IconsInv, Icons!InitialTimesOut PROVE IconsInv'
<1>1. IconsTypeInv /\ DrawnInv /\ LoadsInv /\ HeardInv /\ ListeningInv
  BY DEF IconsInv
<1>2. /\ UNCHANGED <<screen, theme, scale, bound, started, revision, listening, loads>>
      /\ UNCHANGED <<target, queued, highest, catalog, iconsDisposed, toRunner, iconsToDart>>
      /\ run = "initial" /\ run' = "idle" /\ iconsAwaited' = 0 /\ failed' = TRUE
  BY DEF Icons!InitialTimesOut, Icons!Finish, Icons!gtkVars, Icons!runnerVars
<1>3. IconsTypeInv'
  BY <1>1, <1>2 DEF IconsTypeInv
<1>4. \A drawn : Shows(drawn)' <=> Shows(drawn)
  BY <1>2 DEF Shows, Icons!Look
<1>5. DrawnInv'
  BY <1>1, <1>2, <1>4 DEF DrawnInv
<1>6. \A m \in Among(iconsToDart) : m.kind = "icons" => m.load # 0
  BY <1>1, Kinds, AmongQueue DEF IconsTypeInv
<1>7. LoadsInv'
  BY <1>1, <1>2, <1>6 DEF LoadsInv, IconsTypeInv
<1>8. HeardInv' /\ ListeningInv'
  BY <1>1, <1>2 DEF HeardInv, ListeningInv
<1> QED BY <1>3, <1>5, <1>7, <1>8 DEF IconsInv

LEMMA LateKeeps ==
    ASSUME IconsInv, Icons!ReceiveLate PROVE IconsInv'
<1>1. IconsTypeInv /\ DrawnInv /\ LoadsInv /\ HeardInv /\ ListeningInv
  BY DEF IconsInv
<1>2. /\ UNCHANGED <<screen, theme, scale, bound, started, revision, listening, run, loads>>
      /\ UNCHANGED <<iconsAwaited, target, queued, highest, catalog, failed,
                     iconsDisposed, toRunner>>
      /\ iconsToDart # <<>> /\ iconsToDart' = Tail(iconsToDart)
      /\ Head(iconsToDart).kind = "icons"
  BY DEF Icons!ReceiveLate, Icons!gtkVars, Icons!runnerVars, Icons!dartVars
<1>3. /\ iconsToDart' \in Seq(Told) /\ Among(iconsToDart') \subseteq Among(iconsToDart)
      /\ \A m \in Among(iconsToDart) :
             m = Head(iconsToDart) \/ m \in Among(iconsToDart')
  BY <1>1, <1>2, AmongQueue DEF IconsTypeInv
<1>4. Icons!Event(revision) # Head(iconsToDart)
  BY <1>1, <1>2, Kinds DEF IconsTypeInv
<1>5. IconsTypeInv'
  BY <1>1, <1>2, <1>3 DEF IconsTypeInv
<1>6. \A drawn : Shows(drawn)' <=> Shows(drawn)
  BY <1>2 DEF Shows, Icons!Look
<1>7. DrawnInv'
  BY <1>1, <1>2, <1>3, <1>6 DEF DrawnInv
<1>8. LoadsInv' /\ ListeningInv'
  BY <1>1, <1>2, <1>3 DEF LoadsInv, ListeningInv
<1>9. HeardInv'
  BY <1>1, <1>2, <1>3, <1>4 DEF HeardInv
<1> QED BY <1>5, <1>7, <1>8, <1>9 DEF IconsInv

LEMMA ReceiveEventKeeps ==
    ASSUME IconsInv, Icons!HandleInvalidation PROVE IconsInv'
<1>1. IconsTypeInv /\ DrawnInv /\ LoadsInv /\ HeardInv /\ ListeningInv
  BY DEF IconsInv
<1> DEFINE event == Head(iconsToDart)
           n == event.revision
<1>2. /\ UNCHANGED <<screen, theme, scale, bound, started, revision, listening>>
      /\ UNCHANGED <<catalog, failed, iconsDisposed>>
      /\ iconsToDart # <<>> /\ iconsToDart' = Tail(iconsToDart) /\ event.kind = "event"
  BY DEF Icons!HandleInvalidation, Icons!gtkVars, Icons!runnerVars
<1>3. /\ iconsToDart' \in Seq(Told) /\ Among(iconsToDart') \subseteq Among(iconsToDart)
      /\ event \in Told /\ event \in Among(iconsToDart)
      /\ \A m \in Among(iconsToDart) : m = event \/ m \in Among(iconsToDart')
  BY <1>1, <1>2, AmongQueue DEF IconsTypeInv
<1>4. n \in Nat /\ n <= revision /\ Icons!Event(revision).revision = revision
  BY <1>1, <1>2, <1>3, Kinds DEF DrawnInv, IconsTypeInv
<1>5. /\ highest \in Nat /\ target \in Nat /\ queued \in Nat /\ revision \in Nat
      /\ highest <= revision /\ target <= highest /\ queued <= highest
      /\ loads \in Nat /\ iconsAwaited \in Nat
  BY <1>1 DEF IconsTypeInv, HeardInv
<1>6. (listening \/ iconsDisposed) /\ run # "off"
  BY <1>1, <1>2 DEF ListeningInv
<1> HIDE DEF event
<1>7. \A drawn : Shows(drawn)' <=> Shows(drawn)
  BY <1>2 DEF Shows, Icons!Look
<1>8. DrawnInv'
  BY <1>1, <1>2, <1>3, <1>7 DEF DrawnInv
<1>9. CASE iconsDisposed \/ n <= highest
  <2>1. UNCHANGED <<run, highest, queued, loads, iconsAwaited, target, toRunner>>
    BY <1>9 DEF Icons!HandleInvalidation, event
  <2>2. IconsTypeInv'
    BY <1>1, <1>2, <1>3, <2>1 DEF IconsTypeInv
  <2>3. LoadsInv' /\ ListeningInv'
    BY <1>1, <1>2, <1>3, <1>6, <2>1 DEF LoadsInv, ListeningInv
  <2>4. HeardInv'
    BY <1>1, <1>2, <1>3, <1>4, <1>9, <2>1 DEF HeardInv
  <2> QED BY <1>8, <2>2, <2>3, <2>4 DEF IconsInv
<1>10. CASE ~iconsDisposed /\ n > highest /\ run \in {"initial", "reload"}
  <2>1. /\ highest' = n /\ queued' = n
        /\ UNCHANGED <<run, loads, iconsAwaited, target, toRunner>>
    BY <1>4, <1>5, <1>10 DEF Icons!HandleInvalidation, event
  <2>2. IconsTypeInv'
    BY <1>1, <1>2, <1>3, <1>4, <2>1 DEF IconsTypeInv
  <2>3. LoadsInv' /\ ListeningInv'
    BY <1>1, <1>2, <1>3, <1>6, <2>1 DEF LoadsInv, ListeningInv
  <2>4. listening' /\ ~iconsDisposed'
        => revision' <= highest' \/ Icons!Event(revision)' \in Among(iconsToDart')
    BY <1>1, <1>2, <1>3, <1>4, <1>5, <1>10, <2>1 DEF HeardInv
  <2>5. HeardInv'
    BY <1>2, <1>4, <1>5, <1>10, <2>1, <2>4 DEF HeardInv
  <2> QED BY <1>8, <2>2, <2>3, <2>5 DEF IconsInv
<1>11. CASE ~iconsDisposed /\ n > highest /\ run \notin {"initial", "reload"}
  <2>1. /\ highest' = n /\ run' = "reload" /\ queued' = queued
        /\ Icons!Ask(<<>>, n)
    BY <1>4, <1>5, <1>11 DEF Icons!HandleInvalidation, event
  <2>2. /\ loads' = loads + 1 /\ iconsAwaited' = loads + 1 /\ target' = n
        /\ toRunner' \in Seq(IconCalls)
        /\ \A m \in Among(toRunner') :
               m \in Among(toRunner) \/ m = [kind |-> "load", load |-> loads + 1]
    BY <1>4, <2>1, AskSends
  <2>3. IconsTypeInv'
    BY <1>1, <1>2, <1>3, <1>4, <1>5, <2>1, <2>2 DEF IconsTypeInv
  <2>4. LoadsInv'
    <3>1. \A m \in Among(toRunner) : m.kind = "load" => m.load \in Nat
      BY <1>1, AmongQueue, Kinds DEF IconsTypeInv
    <3>2. \A m \in Among(toRunner') : m.kind = "load" => m.load <= loads'
      BY <1>1, <1>5, <2>2, <3>1 DEF LoadsInv
    <3>3. \A m \in Among(iconsToDart') :
              m.kind = "icons" => m.load \in Nat /\ m.load <= loads
      BY <1>1, <1>3, AmongQueue, Kinds DEF LoadsInv, IconsTypeInv
    <3> QED BY <1>1, <1>2, <1>5, <2>1, <2>2, <3>2, <3>3 DEF LoadsInv
  <2>5. listening' /\ ~iconsDisposed'
        => revision' <= highest' \/ Icons!Event(revision)' \in Among(iconsToDart')
    BY <1>1, <1>2, <1>3, <1>4, <1>5, <1>11, <2>1 DEF HeardInv
  <2>6. HeardInv'
    BY <1>2, <1>4, <1>5, <1>11, <2>1, <2>2, <2>5 DEF HeardInv
  <2>7. [kind |-> "load", load |-> loads + 1] # [kind |-> "cancel"]
    <3>1. [kind |-> "load", load |-> loads + 1].kind # [kind |-> "cancel"].kind
      OBVIOUS
    <3> QED BY <3>1
  <2>8. ListeningInv'
    BY <1>1, <1>2, <1>6, <2>1, <2>2, <2>7 DEF ListeningInv
  <2> QED BY <1>8, <2>3, <2>4, <2>6, <2>8 DEF IconsInv
<1> QED BY <1>4, <1>5, <1>9, <1>10, <1>11

\* What a load leaves behind, whatever Dart does next.
LEMMA ReceiveIconsKeeps ==
    ASSUME IconsInv, Icons!ReceiveIcons PROVE IconsInv'
<1>1. IconsTypeInv /\ DrawnInv /\ LoadsInv /\ HeardInv /\ ListeningInv
  BY DEF IconsInv
<1> DEFINE answer == Head(iconsToDart)
<1>2. /\ UNCHANGED <<screen, theme, scale, bound, started, revision, listening>>
      /\ UNCHANGED <<highest, iconsDisposed>>
      /\ iconsToDart # <<>> /\ iconsToDart' = Tail(iconsToDart)
      /\ answer.kind = "icons" /\ answer.load = iconsAwaited
  BY DEF Icons!ReceiveIcons, Icons!gtkVars, Icons!runnerVars
<1>3. /\ iconsToDart' \in Seq(Told) /\ Among(iconsToDart') \subseteq Among(iconsToDart)
      /\ answer \in Told /\ answer \in Among(iconsToDart)
      /\ \A m \in Among(iconsToDart) : m = answer \/ m \in Among(iconsToDart')
  BY <1>1, <1>2, AmongQueue DEF IconsTypeInv
<1>4. /\ highest \in Nat /\ target \in Nat /\ queued \in Nat /\ revision \in Nat
      /\ highest <= revision /\ target <= highest /\ queued <= highest
      /\ loads \in Nat /\ iconsAwaited \in Nat
  BY <1>1 DEF IconsTypeInv, HeardInv
<1>5. /\ answer.load # 0 /\ answer.ok \in BOOLEAN /\ answer.icons \in Drawn
      /\ Shows(answer.icons) /\ target <= answer.icons.made
  BY <1>1, <1>2, <1>3, Kinds DEF DrawnInv, LoadsInv
<1>6. (listening \/ iconsDisposed) /\ run \in {"initial", "reload"}
  BY <1>1, <1>2, <1>5 DEF ListeningInv, LoadsInv, IconsTypeInv
<1>7. Icons!Event(revision) # answer
  BY <1>2, <1>4, Kinds
<1>8. \A m \in Among(iconsToDart') : m.kind = "icons" => m.load \in Nat \ {0}
  BY <1>1, <1>3, AmongQueue, Kinds DEF IconsTypeInv
<1> HIDE DEF answer
<1>9. listening' /\ ~iconsDisposed'
      => revision' <= highest' \/ Icons!Event(revision)' \in Among(iconsToDart')
  BY <1>1, <1>2, <1>3, <1>7 DEF HeardInv
<1>10. \A drawn : Shows(drawn)' <=> Shows(drawn)
  BY <1>2 DEF Shows, Icons!Look
<1> DEFINE shown == Icons!Catalog(target, answer.icons)
<1>11. /\ shown \in Catalogs /\ shown.revision = target
       /\ shown.made = answer.icons.made /\ Shows(shown)
       /\ shown.made \in Nat
  <2>1. answer.icons.look \in Looks /\ answer.icons.made \in Nat
    BY <1>5, Kinds
  <2>2. shown \in Catalogs /\ shown.revision = target
        /\ shown.made = answer.icons.made /\ shown.look = answer.icons.look
    BY <1>4, <2>1 DEF Icons!Catalog, Catalogs
  <2> QED BY <1>5, <2>1, <2>2 DEF Shows
<1> HIDE DEF shown
<1>12. /\ catalog' = catalog \/ catalog' = shown
       /\ ~iconsDisposed => /\ failed' = ~answer.ok
                            /\ ~failed' => catalog' = shown
       /\ iconsDisposed => failed' = failed
  BY <1>5 DEF Icons!ReceiveIcons, answer, shown
<1>13. failed' \in BOOLEAN
  BY <1>1, <1>5, <1>12 DEF IconsTypeInv
<1>14. DrawnInv'
  BY <1>1, <1>2, <1>3, <1>10, <1>11, <1>12 DEF DrawnInv, Shows
<1>15. catalog'.revision <= catalog'.made
       /\ catalog' \in Catalogs \cup {Icons!NoCatalog}
  BY <1>1, <1>5, <1>11, <1>12 DEF LoadsInv, IconsTypeInv
<1>16. CASE Icons!Finish /\ (queued' = queued \/ queued' = 0)
            /\ (iconsDisposed \/ failed' \/ target >= queued)
  <2>1. /\ run' = "idle" /\ iconsAwaited' = 0
        /\ UNCHANGED <<loads, target, toRunner>>
    BY <1>16 DEF Icons!Finish
  <2>2. IconsTypeInv'
    BY <1>1, <1>2, <1>3, <1>4, <1>13, <1>15, <1>16, <2>1 DEF IconsTypeInv
  <2>3. LoadsInv'
    BY <1>1, <1>2, <1>3, <1>4, <1>8, <1>15, <2>1 DEF LoadsInv
  <2>4. ~failed' /\ ~iconsDisposed => catalog' = shown /\ highest = target
    BY <1>1, <1>4, <1>6, <1>12, <1>16 DEF HeardInv
  <2>5. HeardInv'
    BY <1>2, <1>4, <1>9, <1>11, <1>16, <2>1, <2>4 DEF HeardInv
  <2>6. ListeningInv'
    BY <1>1, <1>2, <1>6, <2>1 DEF ListeningInv
  <2> QED BY <1>14, <2>2, <2>3, <2>5, <2>6 DEF IconsInv
<1>17. CASE ~iconsDisposed /\ queued' = 0 /\ queued > target
            /\ Icons!Ask(<<>>, queued) /\ run' = run
  <2>1. /\ loads' = loads + 1 /\ iconsAwaited' = loads + 1 /\ target' = queued
        /\ toRunner' \in Seq(IconCalls)
        /\ \A m \in Among(toRunner') :
               m \in Among(toRunner) \/ m = [kind |-> "load", load |-> loads + 1]
    BY <1>4, <1>17, AskSends
  <2>2. IconsTypeInv'
    BY <1>1, <1>2, <1>3, <1>4, <1>13, <1>15, <1>17, <2>1 DEF IconsTypeInv
  <2>3. LoadsInv'
    <3>1. \A m \in Among(toRunner) : m.kind = "load" => m.load \in Nat
      BY <1>1, AmongQueue, Kinds DEF IconsTypeInv
    <3>2. \A m \in Among(toRunner') : m.kind = "load" => m.load <= loads'
      BY <1>1, <1>4, <2>1, <3>1 DEF LoadsInv
    <3>3. \A m \in Among(iconsToDart') :
              m.kind = "icons" => m.load \in Nat /\ m.load <= loads
      BY <1>1, <1>3, <1>8 DEF LoadsInv
    <3> QED BY <1>4, <1>6, <1>15, <1>17, <2>1, <3>2, <3>3 DEF LoadsInv
  <2>4. highest = queued
    BY <1>1, <1>4, <1>6, <1>17 DEF HeardInv
  <2>5. HeardInv'
    BY <1>2, <1>4, <1>6, <1>9, <1>17, <2>1, <2>4 DEF HeardInv
  <2>6. [kind |-> "load", load |-> loads + 1] # [kind |-> "cancel"]
    <3>1. [kind |-> "load", load |-> loads + 1].kind # [kind |-> "cancel"].kind
      OBVIOUS
    <3> QED BY <3>1
  <2>7. ListeningInv'
    BY <1>1, <1>2, <1>6, <1>17, <2>1, <2>6 DEF ListeningInv
  <2> QED BY <1>14, <2>2, <2>3, <2>5, <2>7 DEF IconsInv
<1>18. CASE iconsDisposed
  BY <1>16, <1>18 DEF Icons!ReceiveIcons
<1>19. CASE ~iconsDisposed /\ run = "initial" /\ ~answer.ok
  BY <1>12, <1>16, <1>19 DEF Icons!ReceiveIcons, answer
<1>20. CASE ~iconsDisposed /\ ~(run = "initial" /\ ~answer.ok)
  <2>1. Icons!Continue
    BY <1>20 DEF Icons!ReceiveIcons, answer
  <2>2. CASE queued > target
    BY <1>17, <1>20, <2>1, <2>2 DEF Icons!Continue
  <2>3. CASE ~(queued > target)
    BY <1>4, <1>16, <1>20, <2>1, <2>3 DEF Icons!Continue
  <2> QED BY <2>2, <2>3
<1> QED BY <1>18, <1>19, <1>20

LEMMA StepKeepsIconsInv ==
    ASSUME IconsInv, Icons!Next \/ UNCHANGED iconVars PROVE IconsInv'
<1>1. CASE UNCHANGED iconVars
  BY <1>1 DEF iconVars, IconsInv, IconsTypeInv, DrawnInv, LoadsInv, HeardInv,
     ListeningInv, Shows, Icons!Look
<1> QED BY <1>1, ScreenKeeps, ListenKeeps, CancelKeeps, LoadKeeps, StopKeeps,
        InitializeKeeps, ReceiveEventKeeps, ReceiveIconsKeeps, TimesOutKeeps, LateKeeps,
        DisposeIconsKeeps DEF Icons!Next

\* When nothing is under way, the icons of the header are those of the screen,
\* the theme and the scale of now, and a catalog is never older than it claims.
\* (BusyMaxGtkHeaderIcons, _handleInvalidation, _loadCatalog)
THEOREM TheIconsAreCurrent == RunnerSpec => []IconsCurrent
<1>1. RunnerInit => IconsInv
  BY InitIconsInv DEF RunnerInit
<1>2. IconsInv /\ [RunnerNext]_runnerVars => IconsInv'
  <2> SUFFICES ASSUME IconsInv, [RunnerNext]_runnerVars PROVE IconsInv'
    OBVIOUS
  <2>1. Icons!Next \/ UNCHANGED iconVars
    BY DEF RunnerNext, runnerVars, MenusStep, DialogsStep, WeekdayStep, WindowStep,
       IconsStep
  <2> QED BY <2>1, StepKeepsIconsInv
<1>3. IconsInv => IconsCurrent
  <2> SUFFICES ASSUME IconsInv PROVE IconsCurrent
    OBVIOUS
  <2>1. IconsTypeInv /\ DrawnInv /\ LoadsInv /\ HeardInv /\ ListeningInv
    BY DEF IconsInv
  <2>2. ASSUME started, run = "idle", ~failed, ~iconsDisposed, iconsToDart = <<>>
        PROVE  catalog.look = Icons!Look(screen)
    <3>1. catalog \in Catalogs /\ highest <= catalog.revision /\ Shows(catalog)
      BY <2>1, <2>2 DEF HeardInv, DrawnInv
    <3>2. listening
      BY <2>1, <2>2 DEF ListeningInv
    <3>3. Among(iconsToDart) = {}
      BY <2>2 DEF Among
    <3>4. revision <= highest
      BY <2>1, <2>2, <3>2, <3>3 DEF HeardInv
    <3>5. catalog.made = revision
      BY <2>1, <3>1, <3>4 DEF LoadsInv, DrawnInv, IconsTypeInv, Catalogs
    <3> QED BY <2>2, <3>1, <3>5 DEF Shows
  <2>3. catalog.revision <= catalog.made
    BY <2>1 DEF LoadsInv
  <2> QED BY <2>2, <2>3 DEF IconsCurrent, Icons!IconsCurrent
<1> QED BY <1>1, <1>2, <1>3, PTL DEF RunnerSpec
=============================================================================
