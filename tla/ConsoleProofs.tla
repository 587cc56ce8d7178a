---------------------------- MODULE ConsoleProofs ----------------------------
(***************************************************************************)
(* Proofs about the serial console, for every ring, history, buffer size,  *)
(* keyboard and number of clients.  First the line under edit: ELine is    *)
(* inductive, the editor keeps the cursor inside the line whatever the     *)
(* line's length, and only insertion and the history make it longer.  Then *)
(* the ring, the line parked on the way into the history, and the history. *)
(* Last the echo: what the bytes the driver sends make of the terminal's   *)
(* row, one kind of output after the other, and that the row shows the     *)
(* line (ScreenOK).                                                        *)
(***************************************************************************)
EXTENDS ConsoleScreen, SeqProofs

Glyphs == UNION Keyboards
Lines  == [text : Seq(Glyphs), pos : Nat]

\* A line with its cursor inside it.
InLine(e) == e \in Lines /\ e.pos <= Len(e.text)

\* ... that leaves room for a terminating zero in the client's buffer.
Fits(e) == InLine(e) /\ Len(e.text) < rd_max

HistoryOK ==
    /\ hist \in [0 .. HMAX - 1 -> Seq(Glyphs)]
    /\ h_next \in Int /\ h_nav \in Int
    /\ h_saved \in Seq(Glyphs)

ELine ==
    /\ keyboard \in Keyboards
    /\ rd_max \in Nat
    /\ InLine(ed)
    /\ HistoryOK
    /\ rd_active => Len(ed.text) < rd_max
    /\ phase = "edit" => rd_active
-----------------------------------------------------------------------------
LEMMA Part ==
    ASSUME NEW s \in Seq(Glyphs), NEW m \in 1 .. Len(s) + 1, NEW n \in 0 .. Len(s), m <= n + 1
    PROVE  SubSeq(s, m, n) \in Seq(Glyphs) /\ Len(SubSeq(s, m, n)) = n - m + 1
<1>1. m \in Int /\ n \in Int
  OBVIOUS
<1>2. \A i \in m .. n : s[i] \in Glyphs
  BY ElementOfSeq
<1> QED
  BY <1>1, <1>2, SubSeqProperties

LEMMA TakeType ==
    ASSUME NEW s \in Seq(Glyphs), NEW n \in Nat
    PROVE  Take(s, n) \in Seq(Glyphs) /\ Len(Take(s, n)) <= n
<1> DEFINE k == IF Len(s) < n THEN Len(s) ELSE n
<1>1. k \in 0 .. Len(s) /\ k <= n
  BY LenProperties
<1>2. SubSeq(s, 1, k) \in Seq(Glyphs) /\ Len(SubSeq(s, 1, k)) = k - 1 + 1
  <2>1. 1 \in 1 .. Len(s) + 1 /\ 1 <= k + 1
    BY <1>1, LenProperties
  <2> HIDE DEF k
  <2> QED
    BY <1>1, <2>1, Part
<1>3. Take(s, n) = SubSeq(s, 1, k)
  BY DEF Take
<1> HIDE DEF k
<1> QED
  BY <1>1, <1>2, <1>3

\* The line is the text left of the cursor and the text right of it.
LEMMA Halves ==
    ASSUME NEW e, InLine(e)
    PROVE  /\ Left(e) \in Seq(Glyphs) /\ Len(Left(e)) = e.pos
           /\ Right(e) \in Seq(Glyphs) /\ Len(Right(e)) = Len(e.text) - e.pos
<1>1. e.text \in Seq(Glyphs) /\ e.pos \in 0 .. Len(e.text)
  BY LenProperties DEF InLine, Lines
<1>2. Len(e.text) \in Nat
  BY <1>1, LenProperties
<1>3. 1 \in 1 .. Len(e.text) + 1 /\ e.pos + 1 \in 1 .. Len(e.text) + 1 /\ Len(e.text) \in 0 .. Len(e.text)
  BY <1>1, <1>2
<1>4. Left(e) \in Seq(Glyphs) /\ Len(Left(e)) = e.pos - 1 + 1
  BY <1>1, <1>2, <1>3, Part DEF Left
<1>5. Right(e) \in Seq(Glyphs) /\ Len(Right(e)) = Len(e.text) - (e.pos + 1) + 1
  BY <1>1, <1>2, <1>3, Part DEF Right
<1> QED
  BY <1>1, <1>2, <1>4, <1>5

\* ins_char() lengthens the line only when there is room for one more.
LEMMA InsertFits ==
    ASSUME rd_max \in Nat, NEW e, Fits(e), NEW c \in Glyphs
    PROVE  Fits(ins_char(e, c))
<1>1. CASE Full(e)
  BY <1>1 DEF ins_char
<1>2. CASE ~Full(e)
  <2>1. InLine(e) /\ e.text \in Seq(Glyphs) /\ e.pos \in Nat /\ Len(e.text) \in Nat /\ e.pos <= Len(e.text)
    BY LenProperties DEF Fits, InLine, Lines
  <2>2. <<c>> \in Seq(Glyphs) /\ Len(<<c>>) = 1
    OBVIOUS
  <2> DEFINE l == Left(e)
             r == Right(e)
             lc == l \o <<c>>
  <2>3. l \in Seq(Glyphs) /\ Len(l) = e.pos /\ r \in Seq(Glyphs) /\ Len(r) = Len(e.text) - e.pos
    BY <2>1, Halves
  <2>4. lc \in Seq(Glyphs) /\ Len(lc) = e.pos + 1
    <3> HIDE DEF l
    <3> QED
      BY <2>2, <2>3, ConcatProperties
  <2>5. ins_char(e, c) = [text |-> Left(e) \o <<c>> \o Right(e), pos |-> e.pos + 1]
    BY <1>2 DEF ins_char
  <2>6. Len(e.text) + 1 < rd_max
    BY <1>2, <2>1 DEF Full
  <2> DEFINE t == lc \o r
  <2>7. t \in Seq(Glyphs) /\ Len(t) = Len(e.text) + 1
    <3>1. t \in Seq(Glyphs) /\ Len(t) = Len(lc) + Len(r)
      <4> HIDE DEF lc, r
      <4> QED
        BY <2>3, <2>4, ConcatProperties
    <3> HIDE DEF lc, r, t, l
    <3> QED
      BY <2>1, <2>3, <2>4, <3>1
  <2>5a. ins_char(e, c) = [text |-> t, pos |-> e.pos + 1]
    BY <2>5
  <2> HIDE DEF t
  <2> QED
    BY <2>1, <2>5a, <2>6, <2>7 DEF Fits, InLine, Lines
<1> QED
  BY <1>1, <1>2

LEMMA DeleteFits ==
    ASSUME rd_max \in Nat, NEW e, Fits(e)
    PROVE  Fits(del_left(e)) /\ Fits(del_at(e))
<1>1. InLine(e) /\ e.text \in Seq(Glyphs) /\ e.pos \in Nat /\ Len(e.text) \in Nat /\ e.pos <= Len(e.text)
  BY LenProperties DEF Fits, InLine, Lines
<1>2. Fits(del_left(e))
  <2>1. CASE e.pos = 0
    BY <2>1 DEF del_left
  <2>2. CASE e.pos # 0
    <3> DEFINE l == SubSeq(e.text, 1, e.pos - 1)
               r == Right(e)
               t == l \o r
    <3>1. 1 \in 1 .. Len(e.text) + 1 /\ e.pos - 1 \in 0 .. Len(e.text) /\ 1 <= (e.pos - 1) + 1
      BY <1>1, <2>2
    <3>2. l \in Seq(Glyphs) /\ Len(l) = e.pos - 1 - 1 + 1
      BY <1>1, <3>1, Part
    <3>3. t \in Seq(Glyphs) /\ Len(t) = Len(l) + (Len(e.text) - e.pos)
      <4>1. r \in Seq(Glyphs) /\ Len(r) = Len(e.text) - e.pos
        BY <1>1, Halves
      <4>2. t \in Seq(Glyphs) /\ Len(t) = Len(l) + Len(r)
        <5> HIDE DEF l, r
        <5> QED
          BY <3>2, <4>1, ConcatProperties
      <4> HIDE DEF l, r, t
      <4> QED
        BY <4>1, <4>2
    <3>4. del_left(e) = [text |-> t, pos |-> e.pos - 1]
      BY <2>2 DEF del_left
    <3> HIDE DEF l, r, t
    <3> QED
      BY <1>1, <2>2, <3>2, <3>3, <3>4 DEF Fits, InLine, Lines
  <2> QED
    BY <2>1, <2>2
<1>3. Fits(del_at(e))
  <2>1. CASE e.pos >= Len(e.text)
    BY <2>1 DEF del_at
  <2>2. CASE ~(e.pos >= Len(e.text))
    <3> DEFINE r == SubSeq(e.text, e.pos + 2, Len(e.text))
               t == Left(e) \o r
    <3>1. e.pos + 2 \in 1 .. Len(e.text) + 1 /\ Len(e.text) \in 0 .. Len(e.text) /\ e.pos + 2 <= Len(e.text) + 1
      BY <1>1, <2>2
    <3>2. r \in Seq(Glyphs) /\ Len(r) = Len(e.text) - (e.pos + 2) + 1
      BY <1>1, <3>1, Part
    <3>3. t \in Seq(Glyphs) /\ Len(t) = e.pos + Len(r)
      <4>1. Left(e) \in Seq(Glyphs) /\ Len(Left(e)) = e.pos
        BY <1>1, Halves
      <4> DEFINE l == Left(e)
      <4>2. l \in Seq(Glyphs) /\ r \in Seq(Glyphs)
        BY <3>2, <4>1
      <4>3. t = l \o r /\ Len(l) = e.pos
        BY <4>1
      <4> HIDE DEF l, r, t
      <4>4. l \o r \in Seq(Glyphs) /\ Len(l \o r) = Len(l) + Len(r)
        BY ONLY <4>2, ConcatProperties
      <4> QED
        BY ONLY <4>3, <4>4
    <3>4. del_at(e) = [text |-> t, pos |-> e.pos]
      BY <2>2 DEF del_at
    <3> HIDE DEF r, t
    <3> QED
      BY <1>1, <2>2, <3>2, <3>3, <3>4 DEF Fits, InLine, Lines
  <2> QED
    BY <2>1, <2>2
<1> QED
  BY <1>2, <1>3

LEMMA MoveFits ==
    ASSUME rd_max \in Nat, NEW e, Fits(e)
    PROVE  Fits(go_left(e)) /\ Fits(go_right(e)) /\ Fits(go_home(e)) /\ Fits(go_end(e))
<1>1. e \in Lines /\ Len(e.text) \in Nat /\ e.pos <= Len(e.text) /\ Len(e.text) < rd_max
  BY LenProperties DEF Fits, InLine, Lines
<1>2. ASSUME NEW k \in 0 .. Len(e.text), NEW f, f = [text |-> e.text, pos |-> k] PROVE Fits(f)
  BY <1>1, <1>2 DEF Fits, InLine, Lines
<1>3. /\ go_home(e) = [text |-> e.text, pos |-> 0]
      /\ go_end(e) = [text |-> e.text, pos |-> Len(e.text)]
  BY <1>1 DEF Lines, go_home, go_end
<1>4. /\ go_left(e) = IF e.pos > 0 THEN [text |-> e.text, pos |-> e.pos - 1] ELSE e
      /\ go_right(e) = IF e.pos < Len(e.text) THEN [text |-> e.text, pos |-> e.pos + 1] ELSE e
  <2>1. ASSUME NEW k PROVE [e EXCEPT !.pos = k] = [text |-> e.text, pos |-> k]
    BY <1>1 DEF Lines
  <2>2. /\ go_left(e) = IF e.pos > 0 THEN [e EXCEPT !.pos = e.pos - 1] ELSE e
        /\ go_right(e) = IF e.pos < Len(e.text) THEN [e EXCEPT !.pos = e.pos + 1] ELSE e
    BY DEF go_left, go_right
  <2> QED
    BY <2>1, <2>2
<1>5. e.pos \in Nat
  BY <1>1 DEF Lines
<1>6. Fits(go_home(e)) /\ Fits(go_end(e))
  <2>1. 0 \in 0 .. Len(e.text) /\ Len(e.text) \in 0 .. Len(e.text)
    BY <1>1
  <2> QED
    BY <1>2, <1>3, <2>1
<1>7. Fits(go_left(e))
  <2>1. e.pos > 0 => e.pos - 1 \in 0 .. Len(e.text)
    BY <1>1, <1>5
  <2> QED
    BY <1>2, <1>4, <2>1
<1>8. Fits(go_right(e))
  <2>1. e.pos < Len(e.text) => e.pos + 1 \in 0 .. Len(e.text)
    BY <1>1, <1>5
  <2> QED
    BY <1>2, <1>4, <2>1
<1> QED
  BY <1>6, <1>7, <1>8

LEMMA EmptyFits ==
    ASSUME rd_max \in Nat, rd_max > 0
    PROVE  Fits(NoLine)
BY EmptySeq DEF Fits, InLine, Lines, NoLine

\* A recalled line is cut to the client's buffer.
LEMMA SetLineFits ==
    ASSUME rd_max \in Nat, rd_max > 0, NEW s \in Seq(Glyphs)
    PROVE  Fits(set_line(s))
<1> DEFINE t == Take(s, rd_max - 1)
<1>1. t \in Seq(Glyphs) /\ Len(t) <= rd_max - 1
  BY TakeType
<1>2. Len(t) \in Nat
  BY <1>1, LenProperties
<1>3. set_line(s) = [text |-> t, pos |-> Len(t)]
  BY DEF set_line
<1> HIDE DEF t
<1> QED
  BY <1>1, <1>2, <1>3 DEF Fits, InLine, Lines

LEMMA KeyFits ==
    ASSUME rd_max \in Nat, NEW e, Fits(e), NEW c \in Glyphs
    PROVE  Fits(KeyEdit(e, c)) /\ Fits(CsiEdit(e, c))
<1>1. Fits(NoLine)
  <2>1. rd_max > 0
    BY LenProperties DEF Fits, InLine, Lines
  <2> QED
    BY <2>1, EmptyFits
<1>2. Fits(KeyEdit(e, c))
  <2> HIDE DEF Fits
  <2> QED
    BY <1>1, InsertFits, DeleteFits, MoveFits DEF KeyEdit
<1>3. Fits(CsiEdit(e, c))
  BY DeleteFits, MoveFits DEF CsiEdit
<1> QED
  BY <1>2, <1>3
-----------------------------------------------------------------------------
\* What the history shows fits the buffer as well.
LEMMA NavFits ==
    ASSUME ELine, rd_active, NEW step \in {1, -1}, hist_nav(step)
    PROVE  Fits(ed') /\ h_nav' \in Int /\ h_saved' \in Seq(Glyphs)
<1>1. /\ rd_max \in Nat /\ Fits(ed) /\ ed.text \in Seq(Glyphs) /\ Len(ed.text) \in Nat
      /\ h_nav \in Int /\ h_next \in Int /\ h_saved \in Seq(Glyphs)
      /\ hist \in [0 .. HMAX - 1 -> Seq(Glyphs)]
  BY LenProperties DEF ELine, HistoryOK, Fits, InLine, Lines
<1>2. rd_max > 0
  BY <1>1 DEF Fits
<1> DEFINE nav == h_nav + step
<1>3. nav \in Int
  BY <1>1
<1>4. CASE nav \notin Depths
  BY <1>1, <1>4 DEF hist_nav, navVars, Fits, InLine
<1>5. CASE nav \in Depths
  <2>1. /\ h_nav' = nav
        /\ h_saved' = IF Parks(nav) THEN Take(ed.text, HLEN - 1) ELSE h_saved
        /\ ed' = set_line(IF nav = 0 THEN h_saved ELSE hist[Slot(nav)])
    BY <1>5 DEF hist_nav
  <2>2. HLEN - 1 \in Nat
    BY ConsoleAssumption
  <2>3. h_saved' \in Seq(Glyphs)
    BY <1>1, <2>1, <2>2, TakeType
  <2>4. Slot(nav) \in 0 .. HMAX - 1
    <3>1. HMAX \in Nat /\ HMAX > 0
      BY ConsoleAssumption
    <3> HIDE DEF nav
    <3> QED
      BY <1>1, <1>3, <3>1 DEF Slot
  <2>5. (IF nav = 0 THEN h_saved ELSE hist[Slot(nav)]) \in Seq(Glyphs)
    BY <1>1, <2>4
  <2>6. Fits(ed')
    <3> HIDE DEF nav
    <3> QED
      BY <1>1, <1>2, <2>1, <2>5, SetLineFits
  <2> QED
    BY <1>3, <2>1, <2>3, <2>6
<1> QED
  BY <1>4, <1>5

\* A line that is handed to a client is remembered as it is, or cut.
LEMMA PushKeeps ==
    ASSUME HistoryOK, NEW s \in Seq(Glyphs), hist_push(s)
    PROVE  hist' \in [0 .. HMAX - 1 -> Seq(Glyphs)] /\ h_next' \in Int
<1>1. CASE s = << >> \/ Repeats(s)
  BY <1>1 DEF hist_push, histVars, HistoryOK
<1>2. CASE ~(s = << >> \/ Repeats(s))
  <2>1. /\ hist' = [hist EXCEPT ![h_next] = Take(s, HLEN - 1)]
        /\ h_next' = (h_next + 1) % HMAX
    BY <1>2 DEF hist_push
  <2>2. HLEN - 1 \in Nat /\ HMAX \in Nat /\ HMAX > 0
    BY ConsoleAssumption
  <2>3. Take(s, HLEN - 1) \in Seq(Glyphs)
    BY <2>2, TakeType
  <2>4. h_next' \in Int
    BY <2>1, <2>2 DEF HistoryOK
  <2>5. hist' \in [0 .. HMAX - 1 -> Seq(Glyphs)]
    BY <2>1, <2>3 DEF HistoryOK
  <2> QED
    BY <2>4, <2>5
<1> QED
  BY <1>1, <1>2

\* The steps that leave the line and the buffer's size as they are.
LEMMA LineKept ==
    ASSUME ELine, UNCHANGED <<keyboard, hist, h_next, h_nav, h_saved, rd_max, ed, rd_active>>,
           phase' = "edit" => rd_active
    PROVE  ELine'
BY DEF ELine, HistoryOK, InLine, Lines

\* ... and those that edit it while the request stays.
LEMMA LineEdited ==
    ASSUME ELine, Fits(ed'), rd_active, UNCHANGED <<keyboard, hist, h_next, rd_max, rd_active, phase>>,
           h_nav' \in Int, h_saved' \in Seq(Glyphs)
    PROVE  ELine'
BY DEF ELine, HistoryOK, Fits, InLine, Lines
-----------------------------------------------------------------------------
LEMMA ConsoleStart == Init => ELine
<1> SUFFICES ASSUME Init PROVE ELine
  OBVIOUS
<1>1. << >> \in Seq(Glyphs) /\ Len(<< >>) = 0
  BY EmptySeq
<1>2. InLine(ed)
  BY <1>1 DEF Init, InLine, Lines, NoLine
<1>3. HistoryOK
  BY <1>1 DEF Init, HistoryOK
<1> QED
  BY <1>2, <1>3 DEF Init, ELine

LEMMA ReadlineKeeps ==
    ASSUME ELine, NEW r \in Readers, NEW max \in MaxLens, Readline(r, max)
    PROVE  ELine'
<1>1. max \in Nat /\ max > 0
  BY ConsoleAssumption
<1>2. InLine(NoLine) /\ Len(NoLine.text) = 0
  BY EmptySeq DEF InLine, Lines, NoLine
<1>3. /\ ed' = NoLine /\ rd_max' = max /\ h_nav' = 0 /\ rd_active' = TRUE
      /\ UNCHANGED <<keyboard, hist, h_next, h_saved>>
  BY DEF Readline, ringVars, histVars
<1> QED
  BY <1>1, <1>2, <1>3 DEF ELine, HistoryOK, InLine

LEMMA FinishKeeps ==
    ASSUME ELine, NEW e, InLine(e), finish_line(e)
    PROVE  ELine'
<1>1. e.text \in Seq(Glyphs)
  BY DEF InLine, Lines
<1>2. hist' \in [0 .. HMAX - 1 -> Seq(Glyphs)] /\ h_next' \in Int
  BY <1>1, PushKeeps DEF ELine, finish_line
<1>3. /\ ed' = e /\ rd_active' = FALSE /\ phase' = "recv"
      /\ UNCHANGED <<keyboard, h_nav, h_saved, rd_max>>
  BY DEF finish_line, navVars
<1> QED
  BY <1>2, <1>3 DEF ELine, HistoryOK, InLine

LEMMA EditStepKeeps ==
    ASSUME ELine, NEW c \in keyboard, EditStep(c)
    PROVE  ELine'
<1>1. phase = "edit" /\ rd_active
  BY DEF ELine, EditStep, AfterEsc, CsiDigit, CsiHistory, CsiFinal, StartEsc, EditKey, Return, Cancel, Turn
<1>2. rd_max \in Nat /\ Fits(ed) /\ c \in Glyphs /\ h_nav \in Int /\ h_saved \in Seq(Glyphs)
  BY <1>1 DEF ELine, HistoryOK, Fits, Glyphs
<1>3. CASE AfterEsc(c) \/ CsiDigit(c) \/ StartEsc(c)
  <2>1. UNCHANGED <<keyboard, hist, h_next, h_nav, h_saved, rd_max, ed, rd_active>>
    BY <1>3 DEF AfterEsc, CsiDigit, StartEsc, histVars, navVars, reqVars
  <2> QED
    BY <1>1, <2>1, LineKept
<1>4. CASE CsiHistory(c)
  <2>1. /\ hist_nav(IF c = "A" THEN 1 ELSE -1)
        /\ UNCHANGED <<keyboard, hist, h_next, rd_max, rd_active, phase>>
    BY <1>4 DEF CsiHistory, histVars, reqVars
  <2>2. Fits(ed') /\ h_nav' \in Int /\ h_saved' \in Seq(Glyphs)
    BY <1>1, <2>1, NavFits
  <2> QED
    BY <1>1, <2>1, <2>2, LineEdited
<1>5. CASE CsiFinal(c) \/ EditKey(c)
  <2>1. /\ ed' = CsiEdit(ed, c) \/ ed' = KeyEdit(ed, c)
        /\ UNCHANGED <<keyboard, hist, h_next, h_nav, h_saved, rd_max, rd_active, phase>>
    BY <1>5 DEF CsiFinal, EditKey, histVars, navVars, reqVars
  <2>2. Fits(ed')
    <3>1. Fits(CsiEdit(ed, c)) /\ Fits(KeyEdit(ed, c))
      BY <1>2, KeyFits
    <3> QED
      BY <2>1, <3>1
  <2> QED
    BY <1>1, <1>2, <2>1, <2>2, LineEdited
<1>6. CASE Return(c)
  BY <1>6, FinishKeeps DEF Return, ELine
<1>7. CASE Cancel(c)
  <2>1. InLine(NoLine)
    BY EmptySeq DEF InLine, Lines, NoLine
  <2> QED
    BY <1>7, <2>1, FinishKeeps DEF Cancel
<1> QED
  BY <1>3, <1>4, <1>5, <1>6, <1>7 DEF EditStep

LEMMA ConsoleStep == ELine /\ [Next]_vars => ELine'
<1> SUFFICES ASSUME ELine, [Next]_vars PROVE ELine'
  OBVIOUS
<1>1. CASE Irq \/ DrainEnds \/ EditEnds \/ \E b \in keyboard : Receive(b)
  <2>1. UNCHANGED <<keyboard, hist, h_next, h_nav, h_saved, rd_max, ed, rd_active>>
    BY <1>1 DEF Irq, DrainEnds, EditEnds, Receive, histVars, navVars, reqVars
  <2>2. phase' = "edit" => rd_active
    BY <1>1 DEF ELine, Irq, DrainEnds, EditEnds, Receive, CallEdit
  <2> QED
    BY <2>1, <2>2, LineKept
<1>2. ASSUME NEW r \in Readers, NEW max \in MaxLens, Readline(r, max) PROVE ELine'
  BY <1>2, ReadlineKeeps
<1>3. ASSUME NEW c \in keyboard, EditStep(c) PROVE ELine'
  BY <1>3, EditStepKeeps
<1>4. CASE UNCHANGED vars
  BY <1>4, LineKept DEF vars, histVars, navVars, reqVars, ELine
<1> QED
  BY <1>1, <1>2, <1>3, <1>4 DEF Next

(* Whatever the sizes of ring, history and buffers and whatever is typed,  *)
(* the line and its terminating zero stay inside the client's buffer and   *)
(* the cursor inside the line (ins_char, del_left, set_line, finish_line). *)
THEOREM ConsoleLineFits == Spec => []LineFits
<1>1. ELine => LineFits
  BY DEF ELine, LineFits, InLine
<1> QED
  BY <1>1, ConsoleStart, ConsoleStep, PTL DEF Spec
-----------------------------------------------------------------------------
\* What is in the ring, or was; the invariant of RingIsQueue.
Cells == Glyphs \cup {Blank}

RingOK ==
    /\ keyboard \in Keyboards
    /\ ring \in [0 .. RING - 1 -> Cells]
    /\ r_head \in 0 .. RING - 1 /\ r_tail \in 0 .. RING - 1

RingStep ==
    \/ Queue' = Queue
    \/ phase = "drain" /\ Len(Queue) < RING - 1 /\ \E b \in keyboard : Queue' = Append(Queue, b)
    \/ phase = "edit" /\ Queue # << >> /\ Queue' = Tail(Queue)

LEMMA QueueIsRingQueue ==
    /\ Queue = RingQueue(ring, RING, r_head, r_tail)
    /\ Queue' = RingQueue(ring', RING, r_head', r_tail')
BY DEF Queue, RingQueue

LEMMA RingStill ==
    ASSUME RingOK, UNCHANGED <<keyboard, ring, r_head, r_tail>>
    PROVE  RingOK' /\ RingStep
BY DEF RingOK, RingStep, Queue

LEMMA ReceivePushes ==
    ASSUME RingOK, NEW b \in keyboard, Receive(b)
    PROVE  RingOK' /\ RingStep
<1>1. /\ RING \in Nat \ {0} /\ ring \in [0 .. RING - 1 -> Cells] /\ b \in Cells
      /\ r_head \in 0 .. RING - 1 /\ r_tail \in 0 .. RING - 1 /\ keyboard' = keyboard
  BY ConsoleAssumption DEF RingOK, Receive, Cells, Glyphs
<1>2. CASE (r_head + 1) % RING = r_tail
  BY <1>2, RingStill DEF Receive, ring_push
<1>3. CASE (r_head + 1) % RING # r_tail
  <2>1. /\ ring' = [ring EXCEPT ![r_head] = b]
        /\ r_head' = (r_head + 1) % RING /\ r_tail' = r_tail /\ phase = "drain"
    BY <1>3 DEF Receive, ring_push
  <2>2. Pushes(ring, RING, r_head, r_tail, b)
    BY <1>1, <1>3, RingPush
  <2>3. RingOK'
    BY <1>1, <2>1, <2>2 DEF RingOK, Pushes
  <2>4. Len(Queue) < RING - 1 /\ Queue' = Append(Queue, b)
    BY <2>1, <2>2, QueueIsRingQueue DEF Pushes
  <2> QED
    BY <2>1, <2>3, <2>4 DEF RingStep
<1> QED
  BY <1>2, <1>3

LEMMA TurnPulls ==
    ASSUME RingOK, NEW c, Turn(c), keyboard' = keyboard
    PROVE  RingOK' /\ RingStep
<1>1. /\ RING \in Nat \ {0} /\ ring \in [0 .. RING - 1 -> Cells] /\ Blank \in Cells
      /\ r_head \in 0 .. RING - 1 /\ r_tail \in 0 .. RING - 1
  BY ConsoleAssumption DEF RingOK, Cells
<1>2. /\ ring' = [ring EXCEPT ![r_tail] = Blank]
      /\ r_tail' = (r_tail + 1) % RING /\ r_head' = r_head /\ r_head # r_tail /\ phase = "edit"
  BY DEF Turn, ring_pop
<1>3. Pulls(ring, RING, r_head, r_tail, Blank)
  BY <1>1, <1>2, RingPop
<1>4. RingOK'
  BY <1>1, <1>2, <1>3 DEF RingOK, Pulls
<1>5. Queue # << >> /\ Queue' = Tail(Queue)
  BY <1>2, <1>3, QueueIsRingQueue DEF Pulls
<1> QED
  BY <1>2, <1>4, <1>5 DEF RingStep

LEMMA RingStarts == Init => RingOK
BY ConsoleAssumption DEF Init, RingOK, Cells

LEMMA RingSteps == RingOK /\ [Next]_vars => RingOK' /\ RingStep
<1> SUFFICES ASSUME RingOK, [Next]_vars PROVE RingOK' /\ RingStep
  OBVIOUS
<1>1. CASE Irq \/ DrainEnds \/ EditEnds \/ (\E r \in Readers, max \in MaxLens : Readline(r, max)) \/ UNCHANGED vars
  <2>1. UNCHANGED <<keyboard, ring, r_head, r_tail>>
    BY <1>1 DEF Irq, DrainEnds, EditEnds, Readline, vars, ringVars
  <2> QED
    BY <2>1, RingStill
<1>2. ASSUME NEW b \in keyboard, Receive(b) PROVE RingOK' /\ RingStep
  BY <1>2, ReceivePushes
<1>3. ASSUME NEW c \in keyboard, EditStep(c) PROVE RingOK' /\ RingStep
  <2>1. Turn(c) /\ keyboard' = keyboard
    BY <1>3 DEF EditStep, AfterEsc, CsiDigit, CsiHistory, CsiFinal, StartEsc, EditKey, Return, Cancel, finish_line
  <2> QED
    BY <2>1, TurnPulls
<1> QED
  BY <1>1, <1>2, <1>3 DEF Next

(* For every size of the ring: bytes are edited in the order they arrived, *)
(* and a byte that finds it full changes nothing (ring_push, ring_pop).    *)
THEOREM ConsoleRingIsQueue == Spec => RingIsQueue
<1>1. RingOK /\ [Next]_vars => [RingStep]_vars
  BY RingSteps
<1>2. RingOK /\ [Next]_vars => RingOK'
  BY RingSteps
<1> QED
  BY <1>1, <1>2, RingStarts, PTL DEF Spec, RingIsQueue, RingStep
-----------------------------------------------------------------------------
\* The line parked when the history was entered is the line of then, and
\* fits the buffer of the request it belongs to.
LiveOK ==
    /\ rd_max <= HLEN
    /\ (rd_active /\ h_nav > 0) => h_saved = live /\ live \in Seq(Glyphs) /\ Len(live) < rd_max

LiveStep == (rd_active /\ phase = "edit" /\ h_nav > 0 /\ h_nav' = 0) => ed'.text = live

\* What is not longer than the place for it is not cut.
LEMMA TakeAll ==
    ASSUME NEW s \in Seq(Glyphs), NEW n \in Nat, Len(s) <= n
    PROVE  Take(s, n) = s
<1>1. Len(s) \in Nat /\ (IF Len(s) < n THEN Len(s) ELSE n) = Len(s)
  BY LenProperties
<1>2. SubSeq(s, 1, Len(s)) = s
  BY SubSeqFull
<1> QED
  BY <1>1, <1>2 DEF Take

LEMMA NavRestores ==
    ASSUME ELine, LiveOK, rd_active, NEW step \in {1, -1}, hist_nav(step),
           UNCHANGED <<rd_max, rd_active>>
    PROVE  LiveOK' /\ LiveStep
<1>1. /\ rd_max \in Nat /\ rd_max <= HLEN /\ HLEN \in Nat /\ h_nav \in Int
      /\ ed.text \in Seq(Glyphs) /\ Len(ed.text) \in Nat /\ Len(ed.text) < rd_max
  BY ConsoleAssumption, LenProperties DEF ELine, HistoryOK, InLine, Lines, LiveOK
<1> DEFINE nav == h_nav + step
<1>2. CASE nav \notin Depths
  BY <1>1, <1>2 DEF hist_nav, navVars, LiveOK, LiveStep
<1>3. CASE nav \in Depths
  <2>1. /\ h_nav' = nav
        /\ h_saved' = IF Parks(nav) THEN Take(ed.text, HLEN - 1) ELSE h_saved
        /\ live' = IF h_nav = 0 THEN ed.text ELSE live
        /\ ed' = set_line(IF nav = 0 THEN h_saved ELSE hist[Slot(nav)])
    BY <1>3 DEF hist_nav
  <2>2. nav \in Int /\ nav >= 0
    BY <1>1, <1>3 DEF Depths
  <2>3. CASE nav = 0
    <3>1. LiveOK'
      BY <1>1, <2>1, <2>3 DEF LiveOK
    <3>2. ASSUME h_nav > 0 PROVE ed'.text = live
      <4>1. h_saved = live /\ live \in Seq(Glyphs) /\ Len(live) \in Nat /\ Len(live) <= rd_max - 1
        BY <1>1, <3>2, LenProperties DEF LiveOK
      <4>2. Take(live, rd_max - 1) = live
        BY <1>1, <4>1, TakeAll
      <4> QED
        BY <2>1, <2>3, <4>1, <4>2 DEF set_line
    <3> QED
      BY <3>1, <3>2 DEF LiveStep
  <2>4. CASE nav # 0 /\ h_nav = 0
    <3>1. Take(ed.text, HLEN - 1) = ed.text
      BY <1>1, TakeAll
    <3>2. h_saved' = ed.text /\ live' = ed.text
      BY <2>1, <2>2, <2>4, <3>1 DEF Parks
    <3> QED
      BY <1>1, <2>1, <2>4, <3>2 DEF LiveOK, LiveStep
  <2>5. CASE nav # 0 /\ h_nav # 0
    <3>1. h_nav > 0
      BY <1>1, <2>2, <2>5
    <3>2. h_saved' = h_saved /\ live' = live
      BY <2>1, <2>5 DEF Parks
    <3> QED
      BY <1>1, <2>1, <2>5, <3>1, <3>2 DEF LiveOK, LiveStep
  <2> QED
    BY <2>3, <2>4, <2>5
<1> QED
  BY <1>2, <1>3

LEMMA LiveStarts == Init => LiveOK
BY ConsoleAssumption DEF Init, LiveOK

LEMMA LiveSteps == ELine /\ LiveOK /\ [Next]_vars => LiveOK' /\ LiveStep
<1> SUFFICES ASSUME ELine, LiveOK, [Next]_vars PROVE LiveOK' /\ LiveStep
  OBVIOUS
<1>1. ASSUME UNCHANGED <<rd_max, h_nav, h_saved, live>>, rd_active' => rd_active
      PROVE  LiveOK' /\ LiveStep
  BY <1>1 DEF LiveOK, LiveStep
<1>2. CASE Irq \/ DrainEnds \/ EditEnds \/ (\E b \in keyboard : Receive(b)) \/ UNCHANGED vars
  <2>1. UNCHANGED <<rd_max, h_nav, h_saved, live, rd_active>>
    BY <1>2 DEF Irq, DrainEnds, EditEnds, Receive, vars, navVars, reqVars
  <2> QED
    BY <1>1, <2>1
<1>3. ASSUME NEW r \in Readers, NEW max \in MaxLens, Readline(r, max) PROVE LiveOK' /\ LiveStep
  <2>1. max <= HLEN
    BY ConsoleAssumption
  <2>2. rd_max' = max /\ h_nav' = 0 /\ phase = "recv"
    BY <1>3 DEF Readline
  <2> QED
    BY <2>1, <2>2 DEF LiveOK, LiveStep
<1>4. ASSUME NEW c \in keyboard, EditStep(c) PROVE LiveOK' /\ LiveStep
  <2>1. CASE CsiHistory(c)
    <3>1. rd_active
      BY <2>1 DEF CsiHistory, Turn, ELine
    <3>2. hist_nav(IF c = "A" THEN 1 ELSE -1) /\ UNCHANGED <<rd_max, rd_active>>
      BY <2>1 DEF CsiHistory, reqVars
    <3> QED
      BY <3>1, <3>2, NavRestores
  <2>2. CASE Return(c) \/ Cancel(c)
    BY <1>1, <2>2 DEF Return, Cancel, finish_line, navVars
  <2>3. CASE AfterEsc(c) \/ CsiDigit(c) \/ CsiFinal(c) \/ StartEsc(c) \/ EditKey(c)
    BY <1>1, <2>3 DEF AfterEsc, CsiDigit, CsiFinal, StartEsc, EditKey, navVars, reqVars
  <2> QED
    BY <1>4, <2>1, <2>2, <2>3 DEF EditStep
<1> QED
  BY <1>2, <1>3, <1>4 DEF Next

(* For every size of buffers and history entries, and any number of        *)
(* clients: leaving the history by a key gives back, whole, the line that  *)
(* was being typed when it was entered (hist_nav, set_line).               *)
THEOREM ConsoleLiveLineKept == Spec => LiveLineKept
<1>1. ELine /\ LiveOK /\ [Next]_vars => [LiveStep]_vars
  BY LiveSteps
<1>2. ELine /\ LiveOK /\ [Next]_vars => LiveOK'
  BY LiveSteps
<1> QED
  BY <1>1, <1>2, ConsoleStart, ConsoleStep, LiveStarts, PTL DEF Spec, LiveLineKept, LiveStep
-----------------------------------------------------------------------------
\* The indices of the history; with HistoryOK and LiveOK the invariant of
\* HistoryIsRecent.
IndexOK == h_next \in 0 .. HMAX - 1 /\ h_count \in 0 .. HMAX

HistStep ==
    LET line == ed'.text
        new  == rd_active /\ ~rd_active' /\ line # << >> /\ Take(Recall, 1) # <<line>>
    IN  Recall' = IF new THEN Take(<<line>> \o Recall, HMAX) ELSE Recall

\* The k newest entries of h, the next free one at n.
Newest(h, n, k) == [i \in 1 .. k |-> h[(n - i + HMAX) % HMAX]]

\* They are the sequence q, read without %.
Lists(q, h, n, k) ==
    /\ q \in Seq(Seq(Glyphs)) /\ Len(q) = k
    /\ \A i \in 1 .. k : q[i] = h[IF i <= n THEN n - i ELSE n - i + HMAX]

LEMMA NewestLists ==
    ASSUME NEW h \in [0 .. HMAX - 1 -> Seq(Glyphs)], NEW n \in 0 .. HMAX - 1, NEW k \in 0 .. HMAX
    PROVE  Lists(Newest(h, n, k), h, n, k)
<1> DEFINE q == Newest(h, n, k)
<1>1. HMAX \in Nat \ {0}
  BY ConsoleAssumption
<1>2. ASSUME NEW i \in 1 .. k
      PROVE  /\ (n - i + HMAX) % HMAX = IF i <= n THEN n - i ELSE n - i + HMAX
             /\ (n - i + HMAX) % HMAX \in 0 .. HMAX - 1
  <2> DEFINE m == n - i + HMAX
  <2>1. m \in 0 .. 2 * HMAX - 1 /\ (m < HMAX <=> i > n)
    BY <1>1, <1>2
  <2>2. m % HMAX = IF m < HMAX THEN m ELSE m - HMAX
    <3> HIDE DEF m
    <3> QED
      BY <1>1, <2>1, ModOnce
  <2> QED
    BY <1>1, <2>1, <2>2
<1>3. q \in [1 .. k -> Seq(Glyphs)]
  BY <1>2 DEF Newest
<1>4. q \in Seq(Seq(Glyphs)) /\ Len(q) = k
  <2> HIDE DEF q
  <2> QED
    BY <1>1, <1>3
<1>5. \A i \in 1 .. k : q[i] = h[IF i <= n THEN n - i ELSE n - i + HMAX]
  BY <1>2 DEF Newest
<1> QED
  BY <1>4, <1>5 DEF Lists

\* What Take() keeps.
LEMMA TakeFront ==
    ASSUME NEW S, NEW s \in Seq(S), NEW n \in Nat
    PROVE  /\ Take(s, n) \in Seq(S)
           /\ Len(Take(s, n)) = IF Len(s) < n THEN Len(s) ELSE n
           /\ \A i \in 1 .. Len(Take(s, n)) : Take(s, n)[i] = s[i]
<1> DEFINE k == IF Len(s) < n THEN Len(s) ELSE n
           t == SubSeq(s, 1, k)
<1>1. k \in 0 .. Len(s) /\ 1 \in Int /\ k \in Int
  BY LenProperties
<1>2. Take(s, n) = t
  BY DEF Take
<1>3. \A i \in 1 .. k : s[i] \in S
  BY <1>1, ElementOfSeq
<1> HIDE DEF k
<1>4. t \in Seq(S) /\ Len(t) = (IF 1 <= k + 1 THEN k - 1 + 1 ELSE 0) /\ \A i \in 1 .. k - 1 + 1 : t[i] = s[1 + i - 1]
  BY <1>1, <1>3, SubSeqProperties
<1> HIDE DEF t
<1>5. Len(t) = k /\ \A i \in 1 .. Len(t) : t[i] = s[i]
  BY <1>1, <1>4
<1> QED
  BY <1>2, <1>4, <1>5 DEF k

\* hist_push() compares with the entry the up key would show first.
LEMMA RepeatsFirst ==
    ASSUME HistoryOK, IndexOK, NEW s \in Seq(Glyphs)
    PROVE  Repeats(s) <=> Take(Recall, 1) = <<s>>
<1>1. HMAX \in Nat \ {0} /\ Recall = Newest(hist, h_next, h_count)
  BY ConsoleAssumption DEF Recall, Newest, Slot
<1>2. /\ Recall \in Seq(Seq(Glyphs)) /\ Len(Recall) = h_count
      /\ h_count > 0 => Recall[1] = hist[Slot(1)]
  <2>1. Lists(Recall, hist, h_next, h_count)
    BY <1>1, NewestLists DEF HistoryOK, IndexOK
  <2>2. 1 \in 1 .. h_count => Recall[1] = hist[Slot(1)]
    BY DEF Recall
  <2> QED
    BY <2>1, <2>2 DEF Lists, IndexOK
<1> DEFINE t == Take(Recall, 1)
<1> HIDE DEF Recall
<1>3. /\ t \in Seq(Seq(Glyphs)) /\ Len(t) = (IF Len(Recall) < 1 THEN Len(Recall) ELSE 1)
      /\ \A i \in 1 .. Len(t) : t[i] = Recall[i]
  <2>1. Recall \in Seq(Seq(Glyphs)) /\ 1 \in Nat
    BY <1>2
  <2> QED
    BY ONLY <2>1, TakeFront
<1>4. <<s>> \in Seq(Seq(Glyphs)) /\ Len(<<s>>) = 1 /\ <<s>>[1] = s
  OBVIOUS
<1> HIDE DEF t
<1>5. CASE h_count = 0
  BY <1>2, <1>3, <1>4, <1>5 DEF Repeats, t
<1>6. CASE h_count > 0
  <2>1. Len(t) = 1 /\ t[1] = hist[Slot(1)]
    BY <1>2, <1>3, <1>6 DEF IndexOK
  <2>2. t = <<s>> <=> t[1] = s
    BY <1>3, <1>4, <2>1, SeqEqual
  <2> QED
    BY <1>6, <2>1, <2>2 DEF Repeats, t
<1> QED
  BY <1>5, <1>6 DEF IndexOK

\* A line that is written becomes the newest entry; the oldest leaves when
\* the history is full.
LEMMA PushRecent ==
    ASSUME HistoryOK, IndexOK, NEW s \in Seq(Glyphs), Len(s) < HLEN, hist_push(s)
    PROVE  /\ IndexOK'
           /\ Recall' = IF s # << >> /\ Take(Recall, 1) # <<s>> THEN Take(<<s>> \o Recall, HMAX) ELSE Recall
<1>1. HMAX \in Nat \ {0} /\ HLEN \in Nat \ {0} /\ (Repeats(s) <=> Take(Recall, 1) = <<s>>)
  BY ConsoleAssumption, RepeatsFirst
<1>2. CASE s = << >> \/ Repeats(s)
  BY <1>1, <1>2 DEF hist_push, histVars, IndexOK, Recall, Slot
<1>3. CASE ~(s = << >> \/ Repeats(s))
  <2>1. /\ hist' = [hist EXCEPT ![h_next] = Take(s, HLEN - 1)]
        /\ h_next' = (h_next + 1) % HMAX
        /\ h_count' = IF h_count < HMAX THEN h_count + 1 ELSE h_count
    BY <1>3 DEF hist_push
  <2>2. Take(s, HLEN - 1) = s
    BY <1>1, LenProperties, TakeAll
  <2>3. h_next' = IF h_next + 1 < HMAX THEN h_next + 1 ELSE 0
    BY <1>1, <2>1, RingNext DEF IndexOK
  <2>4. IndexOK'
    BY <1>1, <2>1, <2>3 DEF IndexOK
  <2>5. /\ hist' \in [0 .. HMAX - 1 -> Seq(Glyphs)] /\ hist'[h_next] = s
        /\ \A j \in 0 .. HMAX - 1 : j # h_next => hist'[j] = hist[j]
    BY <2>1, <2>2 DEF HistoryOK, IndexOK
  <2> DEFINE q == Recall
             p == Recall'
             t == <<s>> \o q
             u == Take(t, HMAX)
  <2>6. Lists(q, hist, h_next, h_count)
    <3>1. q = Newest(hist, h_next, h_count)
      BY DEF Recall, Newest, Slot
    <3> QED
      BY <3>1, NewestLists DEF HistoryOK, IndexOK
  <2>7. Lists(p, hist', h_next', h_count')
    <3>1. p = Newest(hist', h_next', h_count')
      BY DEF Recall, Newest, Slot
    <3> QED
      BY <2>4, <2>5, <3>1, NewestLists DEF IndexOK
  <2> HIDE DEF p, q
  <2>8. q \in Seq(Seq(Glyphs)) /\ Len(q) = h_count /\ h_count \in 0 .. HMAX
    BY <2>6 DEF Lists, IndexOK
  <2>9. /\ t \in Seq(Seq(Glyphs)) /\ Len(t) = 1 + h_count
        /\ t[1] = s /\ \A i \in 1 .. h_count : t[i + 1] = q[i]
    <3>1. <<s>> \in Seq(Seq(Glyphs)) /\ Len(<<s>>) = 1 /\ <<s>>[1] = s
      OBVIOUS
    <3>2. /\ t \in Seq(Seq(Glyphs)) /\ Len(t) = Len(<<s>>) + Len(q)
          /\ \A i \in 1 .. Len(<<s>>) + Len(q) :
                t[i] = IF i <= Len(<<s>>) THEN <<s>>[i] ELSE q[i - Len(<<s>>)]
      BY <2>8, <3>1, ConcatProperties
    <3> HIDE DEF t
    <3>3. \A i \in 1 .. 1 + h_count : t[i] = IF i <= 1 THEN s ELSE q[i - 1]
      BY <2>8, <3>1, <3>2
    <3> QED
      BY <2>8, <3>1, <3>2, <3>3
  <2> HIDE DEF t
  <2>10. /\ u \in Seq(Seq(Glyphs)) /\ Len(u) = h_count'
         /\ \A i \in 1 .. Len(u) : u[i] = t[i]
    <3>1. /\ u \in Seq(Seq(Glyphs)) /\ Len(u) = IF Len(t) < HMAX THEN Len(t) ELSE HMAX
          /\ \A i \in 1 .. Len(u) : u[i] = t[i]
      BY <1>1, <2>9, TakeFront
    <3> HIDE DEF u
    <3> QED
      BY <1>1, <2>1, <2>8, <2>9, <3>1
  <2> HIDE DEF u
  <2>11. p \in Seq(Seq(Glyphs)) /\ Len(p) = h_count'
    BY <2>7 DEF Lists
  <2>12. ASSUME NEW i \in 1 .. h_count' PROVE p[i] = u[i]
    <3>1. u[i] = t[i] /\ p[i] = hist'[IF i <= h_next' THEN h_next' - i ELSE h_next' - i + HMAX]
      BY <2>7, <2>10, <2>12 DEF Lists
    <3>2. CASE i = 1
      <4>1. (IF i <= h_next' THEN h_next' - i ELSE h_next' - i + HMAX) = h_next
        BY <1>1, <2>3, <3>2 DEF IndexOK
      <4> QED
        BY <2>5, <2>9, <3>1, <3>2, <4>1
    <3>3. CASE i # 1
      <4> DEFINE j == i - 1
                 k == IF j <= h_next THEN h_next - j ELSE h_next - j + HMAX
      <4>1. j \in 1 .. h_count /\ j < HMAX /\ i = j + 1
        BY <1>1, <2>1, <2>8, <3>3
      <4>2. (IF i <= h_next' THEN h_next' - i ELSE h_next' - i + HMAX) = k
        BY <1>1, <2>3, <2>8, <4>1 DEF IndexOK
      <4>3. k \in 0 .. HMAX - 1 /\ k # h_next
        BY <1>1, <2>8, <4>1 DEF IndexOK
      <4>4. q[j] = hist[k]
        BY <2>6, <4>1 DEF Lists
      <4>5. t[i] = q[j]
        BY <2>9, <4>1
      <4> HIDE DEF j, k
      <4> QED
        BY <2>5, <3>1, <4>2, <4>3, <4>4, <4>5
    <3> QED
      BY <3>2, <3>3
  <2>13. p = u
    BY <2>10, <2>11, <2>12, SeqEqual
  <2>14. Recall' = Take(<<s>> \o Recall, HMAX)
    BY <2>13 DEF p, q, t, u
  <2> QED
    BY <1>1, <1>3, <2>4, <2>14
<1> QED
  BY <1>2, <1>3

LEMMA HistStill ==
    ASSUME IndexOK, UNCHANGED histVars, rd_active => rd_active'
    PROVE  IndexOK' /\ HistStep
BY DEF IndexOK, HistStep, histVars, Recall, Slot

LEMMA FinishRecent ==
    ASSUME ELine, LiveOK, IndexOK, phase = "edit", NEW e, InLine(e), Len(e.text) < rd_max, finish_line(e)
    PROVE  IndexOK' /\ HistStep
<1>1. e.text \in Seq(Glyphs) /\ Len(e.text) < HLEN /\ HistoryOK /\ rd_active
  BY ConsoleAssumption, LenProperties DEF ELine, LiveOK, InLine, Lines
<1>2. hist_push(e.text) /\ ed' = e /\ ~rd_active'
  BY DEF finish_line
<1> QED
  BY <1>1, <1>2, PushRecent DEF HistStep

LEMMA HistStarts == Init => IndexOK
BY ConsoleAssumption DEF Init, IndexOK

LEMMA HistSteps == ELine /\ LiveOK /\ IndexOK /\ [Next]_vars => IndexOK' /\ HistStep
<1> SUFFICES ASSUME ELine, LiveOK, IndexOK, [Next]_vars PROVE IndexOK' /\ HistStep
  OBVIOUS
<1>1. CASE Irq \/ DrainEnds \/ EditEnds \/ (\E b \in keyboard : Receive(b)) \/ UNCHANGED vars
  <2>1. UNCHANGED histVars /\ UNCHANGED rd_active
    BY <1>1 DEF Irq, DrainEnds, EditEnds, Receive, vars, reqVars, histVars
  <2> QED
    BY <2>1, HistStill
<1>2. ASSUME NEW r \in Readers, NEW max \in MaxLens, Readline(r, max) PROVE IndexOK' /\ HistStep
  <2>1. UNCHANGED histVars /\ rd_active'
    BY <1>2 DEF Readline
  <2> QED
    BY <2>1, HistStill
<1>3. ASSUME NEW c \in keyboard, EditStep(c) PROVE IndexOK' /\ HistStep
  <2>1. CASE Return(c)
    <3>1. InLine(ed) /\ Len(ed.text) < rd_max /\ phase = "edit" /\ finish_line(ed)
      BY <2>1 DEF ELine, Return, Turn
    <3> QED
      BY <3>1, FinishRecent
  <2>2. CASE Cancel(c)
    <3>1. phase = "edit" /\ finish_line(NoLine) /\ rd_active /\ rd_max \in Nat /\ rd_max > 0
      BY <2>2, LenProperties DEF ELine, InLine, Lines, Cancel, Turn
    <3>2. InLine(NoLine) /\ Len(NoLine.text) < rd_max
      BY <3>1, EmptyFits DEF Fits
    <3> QED
      BY <3>1, <3>2, FinishRecent
  <2>3. CASE AfterEsc(c) \/ CsiDigit(c) \/ CsiHistory(c) \/ CsiFinal(c) \/ StartEsc(c) \/ EditKey(c)
    <3>1. UNCHANGED histVars /\ UNCHANGED rd_active
      BY <2>3 DEF AfterEsc, CsiDigit, CsiHistory, CsiFinal, StartEsc, EditKey, reqVars
    <3> QED
      BY <3>1, HistStill
  <2> QED
    BY <1>3, <2>1, <2>2, <2>3 DEF EditStep
<1> QED
  BY <1>1, <1>2, <1>3 DEF Next

(* For every size of the history: the up key reaches the last HMAX lines   *)
(* handed out, newest first, without empty ones and repetitions, and       *)
(* nothing but a finished line changes them (hist_push, finish_line).      *)
THEOREM ConsoleHistoryIsRecent == Spec => HistoryIsRecent
<1>1. ELine /\ LiveOK /\ IndexOK /\ [Next]_vars => [HistStep]_vars
  BY HistSteps
<1>2. ELine /\ LiveOK /\ IndexOK /\ [Next]_vars => IndexOK' /\ LiveOK'
  BY HistSteps, LiveSteps
<1> QED
  BY <1>1, <1>2, ConsoleStart, ConsoleStep, LiveStarts, HistStarts, PTL DEF Spec, HistoryIsRecent, HistStep
-----------------------------------------------------------------------------
(* The terminal of ConsoleScreen.                                          *)

\* What a byte that is shown may be.
Ink == (Glyphs \cup STRING \cup {Space}) \ {Bsp, Nl}

\* A terminal with its cursor on its row or right behind it.
TermOK(t) == t \in [row : Seq(Ink), col : Nat] /\ t.col <= Len(t.row)

-----------------------------------------------------------------------------
(* PutAll() is the last of the terminal's states.                          *)
Trace(f, t, out) ==
    /\ f[0] = t
    /\ \A i \in 1 .. Len(out) : f[i] = Put(f[i - 1], out[i])

Runs(t, out, n) == \E f : f = [i \in 0 .. n |-> IF i = 0 THEN t ELSE Put(f[i - 1], out[i])]

\* The recursion of PutAll() defines a function.
LEMMA RunsAll == ASSUME NEW t, NEW out, NEW n \in Nat PROVE Runs(t, out, n)
<1> DEFINE S == {m \in Nat : Runs(t, out, m)}
<1>1. 0 \in S
  <2> DEFINE f == [i \in 0 .. 0 |-> t]
  <2>1. f = [i \in 0 .. 0 |-> IF i = 0 THEN t ELSE Put(f[i - 1], out[i])]
    <3>1. \A i \in 0 .. 0 : i = 0
      OBVIOUS
    <3>2. f = [i \in 0 .. 0 |-> f[i]] /\ \A i \in 0 .. 0 : f[i] = t
      BY Zenon
    <3> HIDE DEF f
    <3> QED
      BY <3>1, <3>2, Zenon
  <2> HIDE DEF f
  <2> QED
    BY <2>1, Zenon DEF Runs
<1>2. ASSUME NEW m \in Nat, m \in S PROVE m + 1 \in S
  <2>1. PICK f : f = [i \in 0 .. m |-> IF i = 0 THEN t ELSE Put(f[i - 1], out[i])]
    BY <1>2 DEF Runs
  <2> DEFINE h(i) == IF i <= m THEN f[i] ELSE Put(f[i - 1], out[i])
             g == [i \in 0 .. m + 1 |-> h(i)]
  <2>2. ASSUME NEW i \in 0 .. m + 1
        PROVE  h(i) = IF i = 0 THEN t ELSE Put(h(i - 1), out[i])
    <3>1. CASE i <= m
      <4>1. i \in 0 .. m /\ h(i) = f[i] /\ (i # 0 => h(i - 1) = f[i - 1])
        BY <3>1
      <4>2. f[i] = IF i = 0 THEN t ELSE Put(f[i - 1], out[i])
        BY <2>1, <4>1, Zenon
      <4> QED
        BY <4>1, <4>2, Zenon
    <3>2. CASE ~(i <= m)
      <4>1. i # 0 /\ i - 1 <= m
        BY <3>2
      <4> QED
        BY <3>2, <4>1, Zenon
    <3> QED
      BY <3>1, <3>2
  <2>3. ASSUME NEW i \in 0 .. m + 1
        PROVE  g[i] = IF i = 0 THEN t ELSE Put(g[i - 1], out[i])
    <3>1. g[i] = h(i)
      OBVIOUS
    <3>2. i # 0 => i - 1 \in 0 .. m + 1
      OBVIOUS
    <3> HIDE DEF h
    <3>3. i # 0 => g[i - 1] = h(i - 1)
      BY <3>2, Zenon
    <3> HIDE DEF g
    <3> QED
      BY <2>2, <3>1, <3>3, Zenon
  <2>4. g = [i \in 0 .. m + 1 |-> IF i = 0 THEN t ELSE Put(g[i - 1], out[i])]
    <3> HIDE DEF h
    <3>1. g = [i \in 0 .. m + 1 |-> g[i]]
      BY Zenon
    <3> HIDE DEF g
    <3> QED
      BY <2>3, <3>1, Zenon
  <2> HIDE DEF g
  <2>5. Runs(t, out, m + 1)
    BY <2>4, Zenon DEF Runs
  <2> QED
    BY <2>5
<1> HIDE DEF S
<1>3. Nat \subseteq S
  BY <1>1, <1>2, SetInduction
<1> QED
  BY <1>3 DEF S

LEMMA PutAllIs ==
    ASSUME NEW t, NEW out, Len(out) \in Nat
    PROVE  \E f : Trace(f, t, out) /\ PutAll(t, out) = f[Len(out)]
<1> DEFINE n == Len(out)
           F == CHOOSE f : f = [i \in 0 .. Len(out) |-> IF i = 0 THEN t ELSE Put(f[i - 1], out[i])]
<1>1. PutAll(t, out) = F[n]
  BY Zenon DEF PutAll
<1>2. \E f : f = [i \in 0 .. n |-> IF i = 0 THEN t ELSE Put(f[i - 1], out[i])]
  <2>1. Runs(t, out, n)
    BY RunsAll
  <2> QED
    BY <2>1, Zenon DEF Runs
<1>3. F = [i \in 0 .. n |-> IF i = 0 THEN t ELSE Put(F[i - 1], out[i])]
  BY <1>2, Zenon
<1> HIDE DEF F
<1>4. \A i \in 0 .. n : F[i] = IF i = 0 THEN t ELSE Put(F[i - 1], out[i])
  BY <1>3, Zenon
<1>5. 0 \in 0 .. n /\ \A i \in 1 .. n : i \in 0 .. n /\ i # 0
  OBVIOUS
<1>6. Trace(F, t, out)
  BY <1>4, <1>5, Zenon DEF Trace
<1> QED
  BY <1>1, <1>6

LEMMA TraceOnly ==
    ASSUME NEW t, NEW out, Len(out) \in Nat, NEW f, Trace(f, t, out)
    PROVE  PutAll(t, out) = f[Len(out)]
<1>1. PICK g : Trace(g, t, out) /\ PutAll(t, out) = g[Len(out)]
  BY PutAllIs
<1> DEFINE S == {m \in Nat : m <= Len(out) => g[m] = f[m]}
<1>2. 0 \in S
  BY <1>1 DEF Trace
<1>3. ASSUME NEW m \in Nat, m \in S PROVE m + 1 \in S
  <2> SUFFICES ASSUME m + 1 <= Len(out) PROVE g[m + 1] = f[m + 1]
    OBVIOUS
  <2>1. m + 1 \in 1 .. Len(out) /\ (m + 1) - 1 = m /\ g[m] = f[m]
    BY <1>3
  <2> HIDE DEF S
  <2>2. g[m + 1] = Put(g[(m + 1) - 1], out[m + 1]) /\ f[m + 1] = Put(f[(m + 1) - 1], out[m + 1])
    BY <1>1, <2>1, Zenon DEF Trace
  <2> QED
    BY <2>1, <2>2
<1> HIDE DEF S
<1>4. Nat \subseteq S
  BY <1>2, <1>3, SetInduction
<1> QED
  BY <1>1, <1>4 DEF S

LEMMA PutNone == ASSUME NEW t PROVE PutAll(t, << >>) = t
<1> DEFINE f == [i \in {0} |-> t]
<1>1. Len(<< >>) = 0 /\ f[0] = t
  OBVIOUS
<1>2. Trace(f, t, << >>)
  BY <1>1 DEF Trace
<1> HIDE DEF f
<1> QED
  BY <1>1, <1>2, TraceOnly

LEMMA PutOne == ASSUME NEW t, NEW c PROVE PutAll(t, <<c>>) = Put(t, c)
<1> DEFINE f == [i \in 0 .. 1 |-> IF i = 0 THEN t ELSE Put(t, c)]
<1>1. Len(<<c>>) = 1 /\ <<c>>[1] = c
  OBVIOUS
<1>2. f[0] = t /\ f[1] = Put(t, c)
  OBVIOUS
<1> HIDE DEF f
<1>3. Trace(f, t, <<c>>)
  BY <1>1, <1>2 DEF Trace
<1> QED
  BY <1>1, <1>2, <1>3, TraceOnly

\* Bytes are written one after the other.
LEMMA PutCat ==
    ASSUME NEW t, NEW S, NEW a \in Seq(S), NEW b \in Seq(S)
    PROVE  PutAll(t, a \o b) = PutAll(PutAll(t, a), b)
<1> DEFINE o == a \o b
<1>1. Len(a) \in Nat /\ Len(b) \in Nat
  BY LenProperties
<1>2. /\ Len(o) = Len(a) + Len(b)
      /\ \A i \in 1 .. Len(a) : o[i] = a[i]
      /\ \A i \in 1 .. Len(b) : o[Len(a) + i] = b[i]
  BY ConcatProperties
<1> HIDE DEF o
<1>3. PICK f : Trace(f, t, o) /\ PutAll(t, o) = f[Len(o)]
  <2>1. Len(o) \in Nat
    BY <1>1, <1>2
  <2> QED
    BY <2>1, PutAllIs
<1>4. \A i \in 1 .. Len(o) : f[i] = Put(f[i - 1], o[i])
  BY <1>3 DEF Trace
<1>5. Trace(f, t, a)
  <2>1. \A i \in 1 .. Len(a) : i \in 1 .. Len(o)
    BY <1>1, <1>2
  <2> QED
    BY <1>2, <1>3, <1>4, <2>1, Zenon DEF Trace
<1>6. PutAll(t, a) = f[Len(a)]
  BY <1>1, <1>5, TraceOnly
<1> DEFINE g == [i \in 0 .. Len(b) |-> f[Len(a) + i]]
<1>7. Trace(g, f[Len(a)], b)
  <2>1. g[0] = f[Len(a)]
    BY <1>1
  <2>2. ASSUME NEW i \in 1 .. Len(b) PROVE g[i] = Put(g[i - 1], b[i])
    <3>1. g[i] = f[Len(a) + i] /\ g[i - 1] = f[(Len(a) + i) - 1] /\ Len(a) + i \in 1 .. Len(o)
      BY <1>1, <1>2
    <3> HIDE DEF g
    <3>2. f[Len(a) + i] = Put(f[(Len(a) + i) - 1], o[Len(a) + i])
      BY <1>4, <3>1, Zenon
    <3>3. o[Len(a) + i] = b[i]
      BY <1>2
    <3> QED
      BY <3>1, <3>2, <3>3, Zenon
  <2> HIDE DEF g
  <2> QED
    BY <2>1, <2>2, Zenon DEF Trace
<1>8. g[Len(b)] = f[Len(o)]
  BY <1>1, <1>2
<1> HIDE DEF g
<1>9. PutAll(f[Len(a)], b) = g[Len(b)]
  BY <1>1, <1>7, TraceOnly
<1> QED
  BY <1>3, <1>6, <1>8, <1>9 DEF o

-----------------------------------------------------------------------------
(* What is printed, and what moves the cursor.                             *)

\* The row w is r with the first m bytes of s over what was behind cell k.
Over(r, k, s, m, w) ==
    /\ Len(r) < k + m => Len(w) = k + m
    /\ k + m <= Len(r) => Len(w) = Len(r)
    /\ \A i \in 1 .. Len(w) : w[i] = IF k < i /\ i <= k + m THEN s[i - k] ELSE r[i]

\* u is the terminal t after the first m bytes of s, which are shown.
Printed(t, u, s, m) ==
    TermOK(u) /\ u.col = t.col + m /\ Over(t.row, t.col, s, m, u.row)

LEMMA OverNext ==
    ASSUME NEW r, NEW k \in Nat, NEW s, NEW m \in Nat, NEW w, NEW x, NEW q, Len(r) \in Nat,
           Over(r, k, s, m, w), Over(w, k + m, q, 1, x), q[1] = s[m + 1]
    PROVE  Over(r, k, s, m + 1, x)
<1>1. PICK n \in Nat : n = Len(r)
  OBVIOUS
<1>2. PICK l \in Nat : l = Len(w) /\ (n < k + m => l = k + m) /\ (k + m <= n => l = n)
  <2>1. k + m \in Nat /\ (n < k + m \/ k + m <= n)
    OBVIOUS
  <2>2. (n < k + m => Len(w) = k + m) /\ (k + m <= n => Len(w) = n)
    BY <1>1 DEF Over
  <2> QED
    BY <2>1, <2>2
<1>3. PICK j \in Nat : j = Len(x) /\ (l < k + m + 1 => j = k + m + 1) /\ (k + m + 1 <= l => j = l)
  <2>1. k + m + 1 \in Nat /\ (l < k + m + 1 \/ k + m + 1 <= l)
    OBVIOUS
  <2>2. (l < k + m + 1 => Len(x) = k + m + 1) /\ (k + m + 1 <= l => Len(x) = l)
    BY <1>2 DEF Over
  <2> QED
    BY <2>1, <2>2
<1>4. (n < k + (m + 1) => j = k + (m + 1)) /\ (k + (m + 1) <= n => j = n)
  BY <1>2, <1>3
<1>5. \A i \in 1 .. l : w[i] = IF k < i /\ i <= k + m THEN s[i - k] ELSE r[i]
  BY <1>2 DEF Over
<1>6. \A i \in 1 .. j : x[i] = IF k + m < i /\ i <= k + m + 1 THEN q[i - (k + m)] ELSE w[i]
  BY <1>3 DEF Over
<1>7. ASSUME NEW i \in 1 .. j
      PROVE  x[i] = IF k < i /\ i <= k + (m + 1) THEN s[i - k] ELSE r[i]
  <2>1. CASE i = k + m + 1
    <3>1. i - (k + m) = 1 /\ i - k = m + 1
      BY <2>1
    <3>2. x[i] = q[i - (k + m)]
      BY <1>6, <2>1
    <3>3. x[i] = s[i - k]
      BY <3>1, <3>2
    <3> QED
      BY <2>1, <3>3
  <2>2. CASE i # k + m + 1
    <3>1. i \in 1 .. l /\ ~(k + m < i /\ i <= k + m + 1)
      BY <1>2, <1>3, <2>2
    <3>2. x[i] = w[i]
      BY <1>6, <3>1
    <3>3. x[i] = IF k < i /\ i <= k + m THEN s[i - k] ELSE r[i]
      BY <1>5, <3>1, <3>2
    <3>4. (k < i /\ i <= k + m) <=> (k < i /\ i <= k + (m + 1))
      BY <2>2
    <3> QED
      BY <3>3, <3>4
  <2> QED
    BY <2>1, <2>2
<1> QED
  BY <1>1, <1>3, <1>4, <1>7 DEF Over

LEMMA TermFacts ==
    ASSUME NEW t, TermOK(t)
    PROVE  /\ t.row \in Seq(Ink) /\ Len(t.row) \in Nat /\ t.col \in 0 .. Len(t.row)
           /\ t = [row |-> t.row, col |-> t.col]
<1>1. t.row \in Seq(Ink) /\ t.col \in Nat /\ t.col <= Len(t.row) /\ t = [row |-> t.row, col |-> t.col]
  BY DEF TermOK
<1> QED
  BY <1>1, LenProperties

LEMMA PartOf ==
    ASSUME NEW S, NEW s \in Seq(S), NEW m \in 1 .. Len(s) + 2, NEW n \in 0 .. Len(s)
    PROVE  /\ SubSeq(s, m, n) \in Seq(S)
           /\ m <= n => Len(SubSeq(s, m, n)) = n - m + 1
           /\ n < m => Len(SubSeq(s, m, n)) = 0
           /\ \A i \in 1 .. Len(SubSeq(s, m, n)) : SubSeq(s, m, n)[i] = s[m + i - 1]
<1>1. m \in Int /\ n \in Int /\ Len(s) \in Nat
  BY LenProperties
<1>2. \A i \in m .. n : s[i] \in S
  BY <1>1, ElementOfSeq
<1>3. SubSeq(s, m, n) \in Seq(S)
  BY <1>1, <1>2, SubSeqProperties
<1>4. (m <= n => Len(SubSeq(s, m, n)) = n - m + 1) /\ (n < m => Len(SubSeq(s, m, n)) = 0)
  BY <1>1, SubSeqProperties
<1>5. \A i \in 1 .. n - m + 1 : SubSeq(s, m, n)[i] = s[m + i - 1]
  BY <1>1, <1>2, SubSeqProperties
<1> QED
  BY <1>1, <1>3, <1>4, <1>5

\* A character is shown at the cursor, over what was there.
LEMMA PutChar ==
    ASSUME NEW t, TermOK(t), NEW c \in Ink
    PROVE  Printed(t, Put(t, c), <<c>>, 1)
<1> DEFINE r == t.row
           k == t.col
           x == SubSeq(r, 1, k)
           y == SubSeq(r, k + 2, Len(r))
           z == x \o <<c>>
           w == z \o y
<1>1. r \in Seq(Ink) /\ Len(r) \in Nat /\ k \in 0 .. Len(r)
  BY TermFacts
<1>2. Put(t, c) = [row |-> w, col |-> k + 1]
  BY Zenon DEF Put, Ink
<1> HIDE DEF r, k
<1>3. x \in Seq(Ink) /\ Len(x) = k /\ \A i \in 1 .. k : x[i] = r[i]
  <2>1. 1 \in 1 .. Len(r) + 2 /\ k \in 0 .. Len(r)
    BY <1>1
  <2>2. /\ x \in Seq(Ink) /\ (1 <= k => Len(x) = k - 1 + 1) /\ (k < 1 => Len(x) = 0)
        /\ \A i \in 1 .. Len(x) : x[i] = r[1 + i - 1]
    BY <1>1, <2>1, PartOf
  <2> HIDE DEF x
  <2> QED
    BY <1>1, <2>2
<1>4. /\ y \in Seq(Ink)
      /\ (k + 1 <= Len(r) => Len(y) = Len(r) - (k + 1)) /\ (Len(r) < k + 1 => Len(y) = 0)
      /\ \A i \in 1 .. Len(y) : y[i] = r[k + 1 + i]
  <2>1. k + 2 \in 1 .. Len(r) + 2 /\ Len(r) \in 0 .. Len(r)
    BY <1>1
  <2>2. /\ y \in Seq(Ink)
        /\ (k + 2 <= Len(r) => Len(y) = Len(r) - (k + 2) + 1) /\ (Len(r) < k + 2 => Len(y) = 0)
        /\ \A i \in 1 .. Len(y) : y[i] = r[k + 2 + i - 1]
    BY <1>1, <2>1, PartOf
  <2> HIDE DEF y
  <2>3. Len(y) \in Nat /\ \A i \in 1 .. Len(y) : k + 2 + i - 1 = k + 1 + i
    BY <1>1, <2>2
  <2> QED
    BY <1>1, <2>2, <2>3
<1> HIDE DEF x, y
<1>5. z \in Seq(Ink) /\ Len(z) = k + 1 /\ z[k + 1] = c /\ \A i \in 1 .. k : z[i] = r[i]
  <2> DEFINE q == <<c>>
  <2>1. q \in Seq(Ink) /\ Len(q) = 1 /\ q[1] = c
    OBVIOUS
  <2>2. /\ x \o q \in Seq(Ink) /\ Len(x \o q) = Len(x) + Len(q)
        /\ \A i \in 1 .. Len(x) : (x \o q)[i] = x[i]
        /\ \A i \in Len(x) + 1 .. Len(x) + Len(q) : (x \o q)[i] = q[i - Len(x)]
    <3> HIDE DEF q
    <3> QED
      BY <1>3, <2>1, Cat
  <2>3. z = x \o q
    OBVIOUS
  <2> HIDE DEF q, z
  <2> QED
    BY <1>1, <1>3, <2>1, <2>2, <2>3
<1> HIDE DEF z
<1>6. /\ w \in Seq(Ink) /\ Len(w) = Len(z) + Len(y)
      /\ \A i \in 1 .. Len(z) : w[i] = z[i]
      /\ \A i \in Len(z) + 1 .. Len(z) + Len(y) : w[i] = y[i - Len(z)]
  <2>1. z \in Seq(Ink) /\ y \in Seq(Ink)
    BY <1>4, <1>5
  <2> QED
    BY ONLY <2>1, Cat
<1> HIDE DEF w
<1>7. (Len(r) < k + 1 => Len(w) = k + 1) /\ (k + 1 <= Len(r) => Len(w) = Len(r))
  BY <1>1, <1>4, <1>5, <1>6
<1>8. ASSUME NEW i \in 1 .. Len(w)
      PROVE  w[i] = IF k < i /\ i <= k + 1 THEN <<c>>[i - k] ELSE r[i]
  <2>1. CASE i <= k
    BY <1>1, <1>5, <1>6, <2>1
  <2>2. CASE i = k + 1
    <3>1. i - k = 1 /\ <<c>>[1] = c
      BY <1>1, <2>2
    <3> QED
      BY <1>1, <1>5, <1>6, <2>2, <3>1
  <2>3. CASE i > k + 1
    <3>1. i \in Len(z) + 1 .. Len(z) + Len(y) /\ i - Len(z) \in 1 .. Len(y) /\ k + 1 + (i - Len(z)) = i
      BY <1>1, <1>4, <1>5, <1>6, <2>3
    <3>2. w[i] = r[i]
      BY <1>4, <1>6, <3>1
    <3> QED
      BY <1>1, <2>3, <3>2
  <2> QED
    BY <1>1, <2>1, <2>2, <2>3
<1>9. TermOK([row |-> w, col |-> k + 1])
  BY <1>1, <1>6, <1>7 DEF TermOK
<1> QED
  BY <1>2, <1>7, <1>8, <1>9 DEF Printed, Over, r, k

LEMMA PutText ==
    ASSUME NEW t, TermOK(t), NEW s \in Seq(Ink)
    PROVE  Printed(t, PutAll(t, s), s, Len(s))
<1>1. Len(s) \in Nat /\ t.row \in Seq(Ink) /\ Len(t.row) \in Nat /\ t.col \in 0 .. Len(t.row)
  BY TermFacts, LenProperties
<1>2. PICK f : Trace(f, t, s) /\ PutAll(t, s) = f[Len(s)]
  BY <1>1, PutAllIs
<1> DEFINE S == {m \in Nat : m <= Len(s) => Printed(t, f[m], s, m)}
<1>3. 0 \in S
  <2>1. f[0] = t
    BY <1>2 DEF Trace
  <2>2. Printed(t, t, s, 0)
    BY <1>1, TermFacts DEF Printed, Over
  <2> QED
    BY <2>1, <2>2
<1>4. ASSUME NEW m \in Nat, m \in S PROVE m + 1 \in S
  <2> SUFFICES ASSUME m + 1 <= Len(s) PROVE Printed(t, f[m + 1], s, m + 1)
    OBVIOUS
  <2>1. m + 1 \in 1 .. Len(s) /\ (m + 1) - 1 = m /\ Printed(t, f[m], s, m)
    BY <1>4
  <2> HIDE DEF S
  <2>2. f[m + 1] = Put(f[m], s[m + 1])
    <3>1. f[m + 1] = Put(f[(m + 1) - 1], s[m + 1])
      BY <1>2, <2>1, Zenon DEF Trace
    <3> QED
      BY <2>1, <3>1
  <2>3. s[m + 1] \in Ink
    BY <2>1, ElementOfSeq
  <2>4. PICK u : u = f[m]
    OBVIOUS
  <2>5. PICK v : v = f[m + 1]
    OBVIOUS
  <2>6. PICK c : c = s[m + 1]
    OBVIOUS
  <2>7. TermOK(u) /\ u.col = t.col + m
    BY <2>1, <2>4 DEF Printed
  <2>8. Printed(u, v, <<c>>, 1)
    BY <2>2, <2>3, <2>4, <2>5, <2>6, <2>7, PutChar
  <2>9. Over(t.row, t.col, s, m, u.row)
    BY <2>1, <2>4 DEF Printed
  <2>10. TermOK(v) /\ v.col = u.col + 1 /\ Over(u.row, u.col, <<c>>, 1, v.row)
    BY <2>8 DEF Printed
  <2>11. v.col = t.col + (m + 1)
    <3>1. PICK k \in Nat : k = t.col
      BY <1>1
    <3>2. (k + m) + 1 = k + (m + 1)
      OBVIOUS
    <3> QED
      BY <2>7, <2>10, <3>1, <3>2
  <2>12. Over(t.row, t.col, s, m + 1, v.row)
    <3>1. <<c>>[1] = s[m + 1] /\ t.col \in Nat /\ Over(u.row, t.col + m, <<c>>, 1, v.row)
      BY <1>1, <2>6, <2>7, <2>10
    <3> QED
      BY <1>1, <2>9, <3>1, OverNext
  <2>14. Printed(t, v, s, m + 1)
    BY <2>10, <2>11, <2>12 DEF Printed
  <2> QED
    BY <2>5, <2>14
<1> HIDE DEF S
<1>5. Nat \subseteq S
  BY <1>3, <1>4, SetInduction
<1>6. Printed(t, f[Len(s)], s, Len(s))
  BY <1>1, <1>5 DEF S
<1> QED
  BY <1>2, <1>6

-----------------------------------------------------------------------------
LEMMA PutBsp ==
    ASSUME NEW r, NEW k \in Nat, k > 0
    PROVE  Put([row |-> r, col |-> k], Bsp) = [row |-> r, col |-> k - 1]
BY DEF Put, Bsp, Nl

LEMMA RepeatNext ==
    ASSUME NEW S, NEW s \in Seq(S), NEW k \in Nat
    PROVE  /\ Repeat(s, 0) = << >>
           /\ Repeat(s, k) \in Seq(S)
           /\ Repeat(s, k + 1) = Repeat(s, k) \o s
<1> DEFINE A(n) == [i \in 1 .. n |-> s]
<1>1. ASSUME NEW n \in Nat
      PROVE  \E p \in [0 .. n -> Seq(S)] :
                p[0] = << >> /\ (\A i \in 1 .. n : p[i] = p[i - 1] \o s) /\ Repeat(s, n) = p[n]
  <2> DEFINE a == A(n)
  <2>1. a \in Seq(Seq(S)) /\ Len(a) = n /\ \A i \in 1 .. n : a[i] = s
    <3>1. a \in [1 .. n -> Seq(S)]
      OBVIOUS
    <3> QED
      BY <3>1
  <2>2. Repeat(s, n) = FlattenSeq(a)
    BY DEF Repeat
  <2> HIDE DEF a
  <2>3. PICK p \in [0 .. Len(a) -> Seq(S)] : Accumulates(p, a) /\ FlattenSeq(a) = p[Len(a)]
    BY <2>1, FlattenPrefixes
  <2>4. p \in [0 .. n -> Seq(S)] /\ p[0] = << >> /\ Repeat(s, n) = p[n]
    BY <2>1, <2>2, <2>3 DEF Accumulates
  <2>5. ASSUME NEW i \in 1 .. n PROVE p[i] = p[i - 1] \o s
    <3>1. p[i] = p[i - 1] \o a[i] /\ a[i] = s
      BY <2>1, <2>3 DEF Accumulates
    <3> QED
      BY <3>1
  <2> QED
    BY <2>4, <2>5
<1>2. PICK p \in [0 .. k -> Seq(S)] :
         p[0] = << >> /\ (\A i \in 1 .. k : p[i] = p[i - 1] \o s) /\ Repeat(s, k) = p[k]
  BY <1>1
<1>3. PICK q \in [0 .. k + 1 -> Seq(S)] :
         q[0] = << >> /\ (\A i \in 1 .. k + 1 : q[i] = q[i - 1] \o s) /\ Repeat(s, k + 1) = q[k + 1]
  <2>1. k + 1 \in Nat
    OBVIOUS
  <2> HIDE DEF A
  <2> QED
    BY <1>1, <2>1
<1> DEFINE T == {m \in Nat : m <= k => p[m] = q[m]}
<1>4. 0 \in T
  BY <1>2, <1>3
<1>5. ASSUME NEW m \in Nat, m \in T PROVE m + 1 \in T
  <2> SUFFICES ASSUME m + 1 <= k PROVE p[m + 1] = q[m + 1]
    OBVIOUS
  <2>1. m + 1 \in 1 .. k /\ m + 1 \in 1 .. k + 1 /\ (m + 1) - 1 = m /\ p[m] = q[m]
    BY <1>5
  <2> HIDE DEF T
  <2>2. p[m + 1] = p[(m + 1) - 1] \o s /\ q[m + 1] = q[(m + 1) - 1] \o s
    BY <1>2, <1>3, <2>1, Zenon
  <2> QED
    BY <2>1, <2>2
<1> HIDE DEF T
<1>6. Nat \subseteq T
  BY <1>4, <1>5, SetInduction
<1>7. p[k] = q[k]
  BY <1>6 DEF T
<1>8. Repeat(s, k + 1) = Repeat(s, k) \o s
  <2>1. k + 1 \in 1 .. k + 1 /\ (k + 1) - 1 = k
    OBVIOUS
  <2>2. q[k + 1] = q[(k + 1) - 1] \o s
    BY <1>3, <2>1, Zenon
  <2> QED
    BY <1>2, <1>3, <1>7, <2>1, <2>2
<1>9. Repeat(s, 0) = << >>
  <2>1. 0 \in Nat
    OBVIOUS
  <2>2. PICK o \in [0 .. 0 -> Seq(S)] : o[0] = << >> /\ Repeat(s, 0) = o[0]
    BY <1>1, <2>1
  <2> QED
    BY <2>2
<1>10. Repeat(s, k) \in Seq(S)
  BY <1>2
<1> QED
  BY <1>8, <1>9, <1>10

\* Backspaces move the cursor and erase nothing.
LEMMA PutBack ==
    ASSUME NEW t, TermOK(t), NEW k \in 0 .. t.col
    PROVE  PutAll(t, backspaces(k)) = [row |-> t.row, col |-> t.col - k]
<1>1. PICK r \in Seq(Ink), n \in Nat : r = t.row /\ n = t.col /\ t = [row |-> r, col |-> n]
  BY TermFacts
<1> DEFINE b == <<Bsp>>
           S == {m \in Nat : m <= n => PutAll(t, Repeat(b, m)) = [row |-> r, col |-> n - m]}
<1>2. b \in Seq({Bsp})
  OBVIOUS
<1> HIDE DEF b, S
<1>3. 0 \in S
  <2>1. Repeat(b, 0) = << >> /\ n - 0 = n
    <3>1. 0 \in Nat /\ n - 0 = n
      OBVIOUS
    <3> QED
      BY <1>2, <3>1, RepeatNext
  <2>2. PutAll(t, Repeat(b, 0)) = t
    BY <2>1, PutNone
  <2> QED
    BY <1>1, <2>1, <2>2 DEF S
<1>4. ASSUME NEW m \in Nat, m \in S PROVE m + 1 \in S
  <2> SUFFICES ASSUME m + 1 <= n PROVE PutAll(t, Repeat(b, m + 1)) = [row |-> r, col |-> n - (m + 1)]
    BY DEF S
  <2>1. PutAll(t, Repeat(b, m)) = [row |-> r, col |-> n - m]
    BY <1>4 DEF S
  <2>2. Repeat(b, m) \in Seq({Bsp}) /\ Repeat(b, m + 1) = Repeat(b, m) \o b
    BY <1>2, RepeatNext
  <2>3. PutAll(t, Repeat(b, m + 1)) = PutAll(PutAll(t, Repeat(b, m)), b)
    <3>1. ASSUME NEW x \in Seq({Bsp}) PROVE PutAll(t, x \o b) = PutAll(PutAll(t, x), b)
      BY <1>2, PutCat
    <3> QED
      BY <2>2, <3>1
  <2>4. n - m \in Nat /\ n - m > 0 /\ (n - m) - 1 = n - (m + 1)
    OBVIOUS
  <2>5. Put([row |-> r, col |-> n - m], Bsp) = [row |-> r, col |-> (n - m) - 1]
    BY <2>4, PutBsp
  <2>6. PutAll([row |-> r, col |-> n - m], b) = Put([row |-> r, col |-> n - m], Bsp)
    BY PutOne DEF b
  <2> QED
    BY <2>1, <2>3, <2>4, <2>5, <2>6
<1>5. Nat \subseteq S
  BY <1>3, <1>4, SetInduction
<1>6. k \in S /\ k <= n
  BY <1>1, <1>5
<1>7. PutAll(t, Repeat(b, k)) = [row |-> r, col |-> n - k]
  BY <1>6 DEF S
<1> QED
  BY <1>1, <1>7 DEF backspaces, b

\* The row w is r with m cells up to the k-th blank.
Erased(r, k, m, w) ==
    /\ Len(w) = Len(r)
    /\ \A i \in 1 .. Len(r) : w[i] = IF k - m < i /\ i <= k THEN Space ELSE r[i]

\* "\b \b" rubs out the cell left of the cursor.
LEMMA EraseOne ==
    ASSUME NEW t, TermOK(t), t.col > 0
    PROVE  LET u == PutAll(t, <<Bsp, Space, Bsp>>) IN
           TermOK(u) /\ u.col = t.col - 1 /\ Erased(t.row, t.col, 1, u.row)
<1>1. PICK r \in Seq(Ink), n \in Nat : r = t.row /\ n = t.col /\ t = [row |-> r, col |-> n]
  BY TermFacts
<1>2. n - 1 \in Nat /\ n > 0 /\ n <= Len(r) /\ Len(r) \in Nat
  BY <1>1, TermFacts
<1> DEFINE t1 == [row |-> r, col |-> n - 1]
           t2 == Put(t1, Space)
           b == <<Bsp>>
           s == <<Space>>
           bs == b \o s
<1>3. TermOK(t1) /\ t1.row = r /\ t1.col = n - 1
  BY <1>2 DEF TermOK
<1>4. Space \in Ink
  BY DEF Ink, Space, Bsp, Nl
<1>5. Printed(t1, t2, <<Space>>, 1)
  <2> HIDE DEF t1
  <2> QED
    BY <1>3, <1>4, PutChar
<1>6. Put(t, Bsp) = t1
  BY <1>1, <1>2, PutBsp
<1> HIDE DEF t1, t2
<1>7. TermOK(t2) /\ t2.col = n /\ Over(r, n - 1, <<Space>>, 1, t2.row)
  BY <1>2, <1>3, <1>5 DEF Printed
<1>8. Put(t2, Bsp) = [row |-> t2.row, col |-> n - 1]
  <2>1. t2 = [row |-> t2.row, col |-> n]
    BY <1>7, TermFacts
  <2>2. Put([row |-> t2.row, col |-> n], Bsp) = [row |-> t2.row, col |-> n - 1]
    BY <1>2, PutBsp
  <2> QED
    BY <2>1, <2>2
<1>9. PutAll(t, <<Bsp, Space, Bsp>>) = [row |-> t2.row, col |-> n - 1]
  <2>1. <<Bsp, Space, Bsp>> = bs \o b
    OBVIOUS
  <2>2. b \in Seq({Bsp, Space}) /\ s \in Seq({Bsp, Space}) /\ bs \in Seq({Bsp, Space})
    OBVIOUS
  <2>3. PutAll(t, b) = t1 /\ PutAll(t1, s) = t2 /\ PutAll(t2, b) = Put(t2, Bsp)
    BY <1>6, PutOne DEF t2
  <2> HIDE DEF b, s, bs
  <2>4. PutAll(t, bs \o b) = PutAll(PutAll(t, bs), b)
    BY <2>2, PutCat
  <2>5. PutAll(t, bs) = PutAll(PutAll(t, b), s)
    BY <2>2, PutCat DEF bs
  <2> QED
    BY <1>8, <2>1, <2>3, <2>4, <2>5
<1>10. PICK w : w = t2.row
  OBVIOUS
<1>11. w \in Seq(Ink) /\ Len(w) = Len(r)
  BY <1>2, <1>7, <1>10, TermFacts DEF Over
<1>12. Erased(r, n, 1, w)
  <2>1. ASSUME NEW i \in 1 .. Len(r) PROVE w[i] = IF n - 1 < i /\ i <= n THEN Space ELSE r[i]
    <3>1. w[i] = IF n - 1 < i /\ i <= n - 1 + 1 THEN <<Space>>[i - (n - 1)] ELSE r[i]
      BY <1>7, <1>10, <1>11 DEF Over
    <3>2. CASE i = n
      <4>1. i - (n - 1) = 1 /\ <<Space>>[1] = Space
        BY <3>2
      <4> QED
        BY <3>1, <3>2, <4>1
    <3>3. CASE i # n
      BY <1>2, <3>1, <3>3
    <3> QED
      BY <3>2, <3>3
  <2> QED
    BY <1>11, <2>1 DEF Erased
<1>13. TermOK([row |-> w, col |-> n - 1])
  BY <1>2, <1>11 DEF TermOK
<1> QED
  BY <1>1, <1>9, <1>10, <1>12, <1>13

LEMMA ErasedNext ==
    ASSUME NEW r, NEW k \in Nat, NEW m \in Nat, m + 1 <= k, NEW w, NEW x, Len(r) \in Nat,
           Erased(r, k, m, w), Erased(w, k - m, 1, x)
    PROVE  Erased(r, k, m + 1, x)
<1>1. PICK n \in Nat : n = Len(r) /\ n = Len(w) /\ n = Len(x)
  BY DEF Erased
<1>2. \A i \in 1 .. n : w[i] = IF k - m < i /\ i <= k THEN Space ELSE r[i]
  BY <1>1 DEF Erased
<1>3. \A i \in 1 .. n : x[i] = IF (k - m) - 1 < i /\ i <= k - m THEN Space ELSE w[i]
  BY <1>1 DEF Erased
<1>4. ASSUME NEW i \in 1 .. n PROVE x[i] = IF k - (m + 1) < i /\ i <= k THEN Space ELSE r[i]
  <2>1. CASE i = k - m
    <3>1. (k - m) - 1 < i /\ i <= k - m /\ k - (m + 1) < i /\ i <= k
      BY <2>1
    <3> QED
      BY <1>3, <3>1
  <2>2. CASE i # k - m
    <3>1. ~((k - m) - 1 < i /\ i <= k - m)
      BY <2>2
    <3>2. (k - m < i /\ i <= k) <=> (k - (m + 1) < i /\ i <= k)
      BY <2>2
    <3>3. x[i] = w[i]
      BY <1>3, <3>1
    <3> QED
      BY <1>2, <3>2, <3>3
  <2> QED
    BY <2>1, <2>2
<1> QED
  BY <1>1, <1>4 DEF Erased

LEMMA PutErase ==
    ASSUME NEW t, TermOK(t), NEW k \in 0 .. t.col
    PROVE  LET u == PutAll(t, Repeat(<<Bsp, Space, Bsp>>, k)) IN
           TermOK(u) /\ u.col = t.col - k /\ Erased(t.row, t.col, k, u.row)
<1>1. PICK r \in Seq(Ink), n \in Nat : r = t.row /\ n = t.col
  BY TermFacts
<1> DEFINE b == <<Bsp, Space, Bsp>>
           u(m) == PutAll(t, Repeat(b, m))
           Goal(m) == TermOK(u(m)) /\ u(m).col = n - m /\ Erased(r, n, m, u(m).row)
           S == {m \in Nat : m <= n => Goal(m)}
<1>2. b \in Seq({Bsp, Space})
  OBVIOUS
<1>3. ASSUME NEW v, TermOK(v), v.col > 0
      PROVE  TermOK(PutAll(v, b)) /\ PutAll(v, b).col = v.col - 1 /\ Erased(v.row, v.col, 1, PutAll(v, b).row)
  BY <1>3, EraseOne
<1> HIDE DEF b, S, Goal
<1>4. 0 \in S
  <2>1. 0 \in Nat /\ n - 0 = n
    OBVIOUS
  <2>2. Repeat(b, 0) = << >>
    BY <1>2, <2>1, RepeatNext
  <2>3. u(0) = t
    BY <2>2, PutNone
  <2>4. Erased(r, n, 0, r)
    <3>1. \A i \in 1 .. Len(r) : i \in Int /\ ~(n - 0 < i /\ i <= n)
      OBVIOUS
    <3> QED
      BY <3>1 DEF Erased
  <2> HIDE DEF u
  <2>5. Goal(0)
    BY <1>1, <2>1, <2>3, <2>4 DEF Goal
  <2> QED
    BY <2>5 DEF S
<1>5. ASSUME NEW m \in Nat, m \in S PROVE m + 1 \in S
  <2> SUFFICES ASSUME m + 1 <= n PROVE Goal(m + 1)
    BY DEF S
  <2>1. Goal(m)
    BY <1>5 DEF S
  <2>2. Repeat(b, m) \in Seq({Bsp, Space}) /\ Repeat(b, m + 1) = Repeat(b, m) \o b
    BY <1>2, RepeatNext
  <2>3. u(m + 1) = PutAll(u(m), b)
    <3>1. ASSUME NEW x \in Seq({Bsp, Space}) PROVE PutAll(t, x \o b) = PutAll(PutAll(t, x), b)
      BY <1>2, PutCat
    <3> QED
      BY <2>2, <3>1
  <2> HIDE DEF u
  <2>4. PICK v : v = u(m)
    OBVIOUS
  <2>5. PICK w : w = u(m + 1)
    OBVIOUS
  <2>6. TermOK(v) /\ v.col = n - m /\ Erased(r, n, m, v.row) /\ n - m > 0 /\ (n - m) - 1 = n - (m + 1)
    BY <2>1, <2>4 DEF Goal
  <2>7. TermOK(w) /\ w.col = v.col - 1 /\ Erased(v.row, v.col, 1, w.row)
    BY <1>3, <2>3, <2>4, <2>5, <2>6
  <2>8. Erased(r, n, m + 1, w.row)
    <3>1. Erased(v.row, n - m, 1, w.row) /\ Len(r) \in Nat
      BY <2>6, <2>7, LenProperties
    <3> QED
      BY <2>6, <3>1, ErasedNext
  <2> QED
    BY <2>5, <2>6, <2>7, <2>8 DEF Goal
<1>6. Nat \subseteq S
  BY <1>4, <1>5, SetInduction
<1>7. Goal(k)
  <2>1. k \in Nat /\ k <= n
    BY <1>1
  <2> QED
    BY <1>6, <2>1 DEF S
<1> QED
  BY <1>1, <1>7 DEF Goal, b

-----------------------------------------------------------------------------
(* A row that shows the line s behind b, and the cursor in front of the    *)
(* line's character k + 1.                                                 *)
OnRow(r, b, s) ==
    /\ Len(b) + Len(s) <= Len(r)
    /\ \A i \in 1 .. Len(b) : r[i] = b[i]
    /\ \A i \in 1 .. Len(s) : r[Len(b) + i] = s[i]
    /\ \A i \in Len(b) + Len(s) + 1 .. Len(r) : r[i] = Space

Displays(t, b, s, k) == TermOK(t) /\ t.col = Len(b) + k /\ OnRow(t.row, b, s)

LEMMA RowText ==
    ASSUME NEW r \in Seq(Ink), NEW b \in Seq(Ink), NEW s \in Seq(Ink), NEW k \in 0 .. Len(s),
           OnRow(r, b, s), NEW w, NEW m \in Nat, NEW x, NEW z,
           Over(r, Len(b) + k, w, m, x), Over(s, k, w, m, z)
    PROVE  OnRow(x, b, z)
<1>1. PICK n \in Nat, l \in Nat, j \in Nat : n = Len(b) /\ l = Len(s) /\ j = Len(r)
  BY LenProperties
<1>2. k \in Nat /\ k <= l /\ n + l <= j
  BY <1>1 DEF OnRow
<1>3. /\ (j < n + k + m => Len(x) = n + k + m) /\ (n + k + m <= j => Len(x) = j)
      /\ (l < k + m => Len(z) = k + m) /\ (k + m <= l => Len(z) = l)
  BY <1>1 DEF Over
<1>4. PICK p \in Nat, q \in Nat :
         /\ p = Len(x) /\ q = Len(z)
         /\ (j < n + k + m => p = n + k + m) /\ (n + k + m <= j => p = j)
         /\ (l < k + m => q = k + m) /\ (k + m <= l => q = l)
  <2>1. Len(x) \in Nat
    <3>1. n + k + m \in Nat /\ (j < n + k + m \/ n + k + m <= j)
      BY <1>2
    <3> QED
      BY <1>3, <3>1
  <2>2. Len(z) \in Nat
    <3>1. k + m \in Nat /\ (l < k + m \/ k + m <= l)
      BY <1>2
    <3> QED
      BY <1>3, <3>1
  <2> QED
    BY <1>3, <2>1, <2>2
<1>5. n + q <= p
  BY <1>2, <1>4
<1>6. \A i \in 1 .. p : x[i] = IF n + k < i /\ i <= n + k + m THEN w[i - (n + k)] ELSE r[i]
  BY <1>1, <1>4 DEF Over
<1>7. \A i \in 1 .. q : z[i] = IF k < i /\ i <= k + m THEN w[i - k] ELSE s[i]
  BY <1>4 DEF Over
<1>8. /\ \A i \in 1 .. n : r[i] = b[i]
      /\ \A i \in 1 .. l : r[n + i] = s[i]
      /\ \A i \in n + l + 1 .. j : r[i] = Space
  BY <1>1 DEF OnRow
<1>9. ASSUME NEW i \in 1 .. n PROVE x[i] = b[i]
  <2>1. i \in 1 .. p /\ ~(n + k < i)
    BY <1>2, <1>5, <1>4
  <2> QED
    BY <1>6, <1>8, <2>1
<1>10. ASSUME NEW i \in 1 .. q PROVE x[n + i] = z[i]
  <2>1. n + i \in 1 .. p
    BY <1>5
  <2>2. CASE k < i /\ i <= k + m
    <3>1. n + k < n + i /\ n + i <= n + k + m /\ (n + i) - (n + k) = i - k
      BY <1>2, <2>2
    <3> QED
      BY <1>6, <1>7, <2>1, <2>2, <3>1
  <2>3. CASE ~(k < i /\ i <= k + m)
    <3>1. ~(n + k < n + i /\ n + i <= n + k + m) /\ i \in 1 .. l
      BY <1>2, <1>4, <2>3
    <3> QED
      BY <1>6, <1>7, <1>8, <2>1, <2>3, <3>1
  <2> QED
    BY <2>2, <2>3
<1>11. ASSUME NEW i \in n + q + 1 .. p PROVE x[i] = Space
  <2>1. i \in 1 .. p /\ ~(i <= n + k + m) /\ i \in n + l + 1 .. j
    BY <1>2, <1>4
  <2> QED
    BY <1>6, <1>8, <2>1
<1> QED
  BY <1>1, <1>4, <1>5, <1>9, <1>10, <1>11 DEF OnRow

\* A space over the last character takes it away.
LEMMA RowBlank ==
    ASSUME NEW r \in Seq(Ink), NEW b \in Seq(Ink), NEW s \in Seq(Ink), NEW z \in Seq(Ink),
           OnRow(r, b, s), Len(s) = Len(z) + 1, \A i \in 1 .. Len(z) : z[i] = s[i],
           NEW x, Over(r, Len(b) + Len(z), <<Space>>, 1, x)
    PROVE  OnRow(x, b, z)
<1>1. PICK n \in Nat, q \in Nat, j \in Nat : n = Len(b) /\ q = Len(z) /\ j = Len(r)
  BY LenProperties
<1>2. n + q + 1 <= j /\ Len(s) = q + 1
  BY <1>1 DEF OnRow
<1>3. Len(x) = j
  BY <1>1, <1>2 DEF Over
<1>4. \A i \in 1 .. j : x[i] = IF n + q < i /\ i <= n + q + 1 THEN <<Space>>[i - (n + q)] ELSE r[i]
  BY <1>1, <1>3 DEF Over
<1>5. /\ \A i \in 1 .. n : r[i] = b[i]
      /\ \A i \in 1 .. q : r[n + i] = z[i]
      /\ \A i \in n + q + 2 .. j : r[i] = Space
  <2>1. /\ \A i \in 1 .. n : r[i] = b[i]
        /\ \A i \in 1 .. q + 1 : r[n + i] = s[i]
        /\ \A i \in n + (q + 1) + 1 .. j : r[i] = Space
    BY <1>1, <1>2 DEF OnRow
  <2>2. n + (q + 1) + 1 = n + q + 2 /\ \A i \in 1 .. q : i \in 1 .. q + 1
    OBVIOUS
  <2> QED
    BY <1>1, <2>1, <2>2
<1>6. ASSUME NEW i \in 1 .. n PROVE x[i] = b[i]
  <2>1. i \in 1 .. j /\ ~(n + q < i)
    BY <1>2
  <2> QED
    BY <1>4, <1>5, <2>1
<1>7. ASSUME NEW i \in 1 .. q PROVE x[n + i] = z[i]
  <2>1. n + i \in 1 .. j /\ ~(n + q < n + i)
    BY <1>2
  <2> QED
    BY <1>4, <1>5, <2>1
<1>8. ASSUME NEW i \in n + q + 1 .. j PROVE x[i] = Space
  <2>1. CASE i = n + q + 1
    <3>1. i \in 1 .. j /\ i - (n + q) = 1 /\ <<Space>>[1] = Space /\ n + q < i /\ i <= n + q + 1
      BY <1>2, <2>1
    <3> QED
      BY <1>4, <3>1
  <2>2. CASE i # n + q + 1
    <3>1. i \in 1 .. j /\ ~(i <= n + q + 1) /\ i \in n + q + 2 .. j
      BY <2>2
    <3> QED
      BY <1>4, <1>5, <3>1
  <2> QED
    BY <2>1, <2>2
<1>9. n + q <= Len(x)
  BY <1>2, <1>3
<1> QED
  BY <1>1, <1>3, <1>6, <1>7, <1>8, <1>9 DEF OnRow

LEMMA RowErase ==
    ASSUME NEW r \in Seq(Ink), NEW b \in Seq(Ink), NEW s \in Seq(Ink), OnRow(r, b, s),
           NEW x, Erased(r, Len(b) + Len(s), Len(s), x)
    PROVE  OnRow(x, b, << >>)
<1>1. PICK n \in Nat, l \in Nat, j \in Nat : n = Len(b) /\ l = Len(s) /\ j = Len(r)
  BY LenProperties
<1>2. n + l <= j /\ Len(x) = j
  BY <1>1 DEF OnRow, Erased
<1>3. \A i \in 1 .. j : x[i] = IF (n + l) - l < i /\ i <= n + l THEN Space ELSE r[i]
  BY <1>1 DEF Erased
<1>4. /\ \A i \in 1 .. n : r[i] = b[i]
      /\ \A i \in n + l + 1 .. j : r[i] = Space
  BY <1>1 DEF OnRow
<1>5. ASSUME NEW i \in 1 .. n PROVE x[i] = b[i]
  <2>1. i \in 1 .. j /\ ~((n + l) - l < i)
    BY <1>2
  <2> QED
    BY <1>3, <1>4, <2>1
<1>6. ASSUME NEW i \in n + 0 + 1 .. j PROVE x[i] = Space
  <2>1. i \in 1 .. j /\ (n + l) - l < i
    OBVIOUS
  <2>2. CASE i <= n + l
    BY <1>3, <2>1, <2>2
  <2>3. CASE ~(i <= n + l)
    <3>1. i \in n + l + 1 .. j
      BY <2>3
    <3> QED
      BY <1>3, <1>4, <2>1, <2>3, <3>1
  <2> QED
    BY <2>2, <2>3
<1>7. Len(<< >>) = 0 /\ n + 0 <= j
  BY <1>2
<1> QED
  BY <1>1, <1>2, <1>5, <1>6, <1>7 DEF OnRow

-----------------------------------------------------------------------------
(* What each thing the driver writes does to a line that is displayed.     *)

\* What the driver sends.
Sent == Ink \cup {Bsp, Nl}

LEMMA SentType ==
    ASSUME NEW s \in Seq(Ink), NEW k \in Nat
    PROVE  /\ s \in Seq(Sent) /\ backspaces(k) \in Seq(Sent) /\ backspaces(0) = << >>
           /\ Repeat(<<Bsp, Space, Bsp>>, k) \in Seq(Sent)
<1>1. s \in Seq(Sent)
  BY DEF Sent
<1>2. <<Bsp>> \in Seq(Sent) /\ <<Bsp, Space, Bsp>> \in Seq(Sent)
  <2>1. Bsp \in Sent /\ Space \in Sent
    BY DEF Sent, Ink, Space, Bsp, Nl
  <2> QED
    BY <2>1
<1>3. backspaces(k) \in Seq(Sent) /\ backspaces(0) = << >>
  <2> DEFINE b == <<Bsp>>
  <2>1. b \in Seq(Sent)
    BY <1>2
  <2> HIDE DEF b
  <2>2. Repeat(b, k) \in Seq(Sent) /\ Repeat(b, 0) = << >>
    BY <2>1, RepeatNext
  <2> QED
    BY <2>2 DEF backspaces, b
<1>4. Repeat(<<Bsp, Space, Bsp>>, k) \in Seq(Sent)
  <2> DEFINE b == <<Bsp, Space, Bsp>>
  <2>1. b \in Seq(Sent)
    BY <1>2
  <2> HIDE DEF b
  <2>2. Repeat(b, k) \in Seq(Sent)
    BY <2>1, RepeatNext
  <2> QED
    BY <2>2 DEF b
<1> QED
  BY <1>1, <1>3, <1>4

LEMMA ShowBack ==
    ASSUME NEW t, NEW b \in Seq(Ink), NEW s \in Seq(Ink), NEW k \in 0 .. Len(s),
           Displays(t, b, s, k), NEW j \in 0 .. k
    PROVE  Displays(PutAll(t, backspaces(j)), b, s, k - j)
<1>1. PICK n \in Nat : n = Len(b)
  BY LenProperties
<1>2. TermOK(t) /\ t.col = n + k /\ OnRow(t.row, b, s)
  BY <1>1 DEF Displays
<1>3. j \in 0 .. t.col /\ (n + k) - j = n + (k - j) /\ n + (k - j) \in Nat /\ n + (k - j) <= n + k
  BY <1>2
<1>4. PutAll(t, backspaces(j)) = [row |-> t.row, col |-> n + (k - j)]
  <2>1. PutAll(t, backspaces(j)) = [row |-> t.row, col |-> t.col - j]
    BY <1>2, <1>3, PutBack
  <2> QED
    BY <1>2, <1>3, <2>1
<1>5. TermOK([row |-> t.row, col |-> n + (k - j)])
  <2>1. t.row \in Seq(Ink) /\ Len(t.row) \in Nat /\ n + k <= Len(t.row) /\ n + k \in Nat
    BY <1>2, TermFacts
  <2> QED
    BY <1>3, <2>1 DEF TermOK
<1> QED
  BY <1>1, <1>2, <1>4, <1>5 DEF Displays

LEMMA ShowText ==
    ASSUME NEW t, NEW b \in Seq(Ink), NEW s \in Seq(Ink), NEW k \in 0 .. Len(s),
           Displays(t, b, s, k), NEW w \in Seq(Ink), NEW z, Over(s, k, w, Len(w), z)
    PROVE  Displays(PutAll(t, w), b, z, k + Len(w))
<1>1. PICK n \in Nat, m \in Nat : n = Len(b) /\ m = Len(w)
  BY LenProperties
<1>2. TermOK(t) /\ t.col = n + k /\ OnRow(t.row, b, s) /\ t.row \in Seq(Ink)
  BY <1>1, TermFacts DEF Displays
<1>3. PICK u : u = PutAll(t, w)
  OBVIOUS
<1>4. TermOK(u) /\ u.col = (n + k) + m /\ Over(t.row, n + k, w, m, u.row)
  <2>1. Printed(t, u, w, m)
    BY <1>1, <1>2, <1>3, PutText
  <2> QED
    BY <1>2, <2>1 DEF Printed
<1>5. OnRow(u.row, b, z)
  <2>1. Over(t.row, Len(b) + k, w, m, u.row) /\ Over(s, k, w, m, z)
    BY <1>1, <1>4
  <2> QED
    BY <1>2, <2>1, RowText
<1>6. (n + k) + m = n + (k + m)
  BY <1>1
<1> QED
  BY <1>1, <1>3, <1>4, <1>5, <1>6 DEF Displays

LEMMA ShowErase ==
    ASSUME NEW t, NEW b \in Seq(Ink), NEW s \in Seq(Ink), Displays(t, b, s, Len(s))
    PROVE  Displays(PutAll(t, Repeat(<<Bsp, Space, Bsp>>, Len(s))), b, << >>, 0)
<1>1. PICK n \in Nat, l \in Nat : n = Len(b) /\ l = Len(s)
  BY LenProperties
<1>2. TermOK(t) /\ t.col = n + l /\ OnRow(t.row, b, s) /\ t.row \in Seq(Ink)
  BY <1>1, TermFacts DEF Displays
<1>3. PICK u : u = PutAll(t, Repeat(<<Bsp, Space, Bsp>>, l))
  OBVIOUS
<1>4. l \in 0 .. t.col /\ (n + l) - l = n /\ n + 0 = n
  BY <1>2
<1>5. TermOK(u) /\ u.col = t.col - l /\ Erased(t.row, t.col, l, u.row)
  BY <1>2, <1>3, <1>4, PutErase
<1>6. OnRow(u.row, b, << >>)
  <2>1. Erased(t.row, Len(b) + Len(s), Len(s), u.row)
    BY <1>1, <1>2, <1>5
  <2> QED
    BY <1>2, <2>1, RowErase
<1> QED
  BY <1>1, <1>2, <1>3, <1>4, <1>5, <1>6 DEF Displays

LEMMA ShowBlank ==
    ASSUME NEW t, NEW b \in Seq(Ink), NEW s \in Seq(Ink), NEW z \in Seq(Ink),
           Displays(t, b, s, Len(z)), Len(s) = Len(z) + 1, \A i \in 1 .. Len(z) : z[i] = s[i]
    PROVE  Displays(PutAll(t, <<Space>> \o backspaces(1)), b, z, Len(z))
<1>1. PICK n \in Nat, q \in Nat : n = Len(b) /\ q = Len(z)
  BY LenProperties
<1>2. TermOK(t) /\ t.col = n + q /\ OnRow(t.row, b, s) /\ t.row \in Seq(Ink)
  BY <1>1, TermFacts DEF Displays
<1> DEFINE c == <<Space>>
<1>3. c \in Seq(Ink) /\ Len(c) = 1
  <2>1. Space \in Ink
    BY DEF Ink, Space, Bsp, Nl
  <2> QED
    BY <2>1
<1>4. PICK u : u = PutAll(t, c)
  OBVIOUS
<1>5. TermOK(u) /\ u.col = (n + q) + 1 /\ Over(t.row, n + q, c, 1, u.row)
  <2> HIDE DEF c
  <2>1. Printed(t, u, c, Len(c))
    BY <1>2, <1>3, <1>4, PutText
  <2> QED
    BY <1>2, <1>3, <2>1 DEF Printed
<1>6. OnRow(u.row, b, z)
  <2>1. Over(t.row, Len(b) + Len(z), <<Space>>, 1, u.row)
    BY <1>1, <1>5
  <2> QED
    BY <1>2, <2>1, RowBlank
<1>7. PutAll(u, backspaces(1)) = [row |-> u.row, col |-> n + q]
  <2>1. 1 \in 0 .. u.col /\ u.col - 1 = n + q
    BY <1>5
  <2> QED
    BY <1>5, <2>1, PutBack
<1>8. PutAll(t, c \o backspaces(1)) = PutAll(u, backspaces(1))
  <2>1. c \in Seq(Sent) /\ backspaces(1) \in Seq(Sent)
    <3>1. 1 \in Nat
      OBVIOUS
    <3> HIDE DEF c
    <3> QED
      BY <1>3, <3>1, SentType
  <2> HIDE DEF c
  <2> QED
    BY <1>4, <2>1, PutCat
<1>9. TermOK([row |-> u.row, col |-> n + q])
  <2>1. u.row \in Seq(Ink) /\ Len(u.row) \in Nat /\ (n + q) + 1 <= Len(u.row)
    BY <1>5, TermFacts
  <2> QED
    BY <2>1 DEF TermOK
<1> QED
  BY <1>1, <1>6, <1>7, <1>8, <1>9 DEF Displays

-----------------------------------------------------------------------------
(* The editor's echo.                                                      *)
Shows(t, b, e) == Displays(t, b, e.text, e.pos)

LEMMA LineIsInk ==
    ASSUME NEW e, InLine(e)
    PROVE  /\ e.text \in Seq(Ink) /\ Len(e.text) \in Nat /\ e.pos \in 0 .. Len(e.text)
           /\ Right(e) \in Seq(Ink) /\ Len(Right(e)) = Len(e.text) - e.pos
           /\ \A i \in 1 .. Len(e.text) - e.pos : Right(e)[i] = e.text[e.pos + i]
<1>1. Glyphs \subseteq Ink
  BY ScreenAssumption DEF Ink, Glyphs
<1>2. e.text \in Seq(Glyphs) /\ e.pos \in Nat /\ e.pos <= Len(e.text)
  BY DEF InLine, Lines
<1>3. e.text \in Seq(Ink)
  BY <1>1, <1>2
<1>4. Len(e.text) \in Nat
  BY <1>2, LenProperties
<1>5. PICK s \in Seq(Ink), k \in Nat, n \in Nat : s = e.text /\ k = e.pos /\ n = Len(s) /\ k <= n
  BY <1>2, <1>3, <1>4
<1>6. k + 1 \in 1 .. n + 2 /\ n \in 0 .. n
  BY <1>5
<1> DEFINE r == SubSeq(s, k + 1, n)
<1>7. /\ r \in Seq(Ink)
      /\ (k + 1 <= n => Len(r) = n - (k + 1) + 1) /\ (n < k + 1 => Len(r) = 0)
      /\ \A i \in 1 .. Len(r) : r[i] = s[(k + 1) + i - 1]
  BY <1>5, <1>6, PartOf
<1> HIDE DEF r
<1>8. Len(r) = n - k
  BY <1>5, <1>7
<1>9. \A i \in 1 .. n - k : r[i] = s[k + i]
  <2>1. \A i \in 1 .. n - k : (k + 1) + i - 1 = k + i
    OBVIOUS
  <2> QED
    BY <1>7, <1>8, <2>1
<1> QED
  BY <1>3, <1>4, <1>2, <1>5, <1>7, <1>8, <1>9 DEF Right, r

\* The end of the line is written over itself.
LEMMA EchoRight ==
    ASSUME NEW t, NEW b \in Seq(Ink), NEW e, InLine(e), Shows(t, b, e)
    PROVE  Displays(PutAll(t, Right(e)), b, e.text, Len(e.text))
<1>1. PICK s \in Seq(Ink), k \in Nat, n \in Nat, r \in Seq(Ink) :
         /\ s = e.text /\ k = e.pos /\ n = Len(s) /\ k <= n /\ r = Right(e)
         /\ Len(r) = n - k /\ \A i \in 1 .. n - k : r[i] = s[k + i]
  <2>1. /\ e.text \in Seq(Ink) /\ e.pos \in Nat /\ Len(e.text) \in Nat /\ Right(e) \in Seq(Ink)
        /\ e.pos <= Len(e.text) /\ Len(Right(e)) = Len(e.text) - e.pos
        /\ \A i \in 1 .. Len(e.text) - e.pos : Right(e)[i] = e.text[e.pos + i]
    BY LineIsInk
  <2> QED
    BY <2>1
<1>2. n - k \in Nat /\ k + (n - k) = n /\ k \in 0 .. n
  BY <1>1
<1>3. Over(s, k, r, n - k, s)
  <2>1. (n < k + (n - k) => Len(s) = k + (n - k)) /\ (k + (n - k) <= n => Len(s) = n)
    BY <1>1
  <2>2. ASSUME NEW i \in 1 .. n PROVE s[i] = IF k < i /\ i <= k + (n - k) THEN r[i - k] ELSE s[i]
    <3>1. CASE k < i
      <4>1. i - k \in 1 .. n - k /\ k + (i - k) = i
        BY <3>1
      <4>2. r[i - k] = s[i]
        BY <1>1, <4>1
      <4> QED
        BY <4>2
    <3>2. CASE ~(k < i)
      BY <3>2
    <3> QED
      BY <3>1, <3>2
  <2> QED
    BY <1>1, <2>1, <2>2 DEF Over
<1>4. Displays(t, b, s, k)
  BY <1>1 DEF Shows
<1>5. Displays(PutAll(t, r), b, s, k + Len(r))
  BY <1>1, <1>2, <1>3, <1>4, ShowText
<1> QED
  BY <1>1, <1>2, <1>5

\* One character of the line is written over itself.
LEMMA EchoNext ==
    ASSUME NEW t, NEW b \in Seq(Ink), NEW e, InLine(e), Shows(t, b, e)
    PROVE  Shows(PutAll(t, go_rightOut(e)), b, go_right(e))
<1>1. PICK s \in Seq(Ink), k \in Nat, n \in Nat :
         s = e.text /\ k = e.pos /\ n = Len(s) /\ k <= n
  BY LineIsInk
<1>2. Displays(t, b, s, k) /\ e = [text |-> s, pos |-> k]
  BY <1>1 DEF Shows, InLine, Lines
<1>3. CASE k < n
  <2>1. go_right(e) = [text |-> s, pos |-> k + 1]
    BY <1>1, <1>2, <1>3 DEF go_right
  <2> DEFINE w == SubSeq(s, k + 1, k + 1)
  <2>2. go_rightOut(e) = w
    <3>1. go_right(e).pos = k + 1
      BY <2>1
    <3> QED
      BY <1>1, <3>1 DEF go_rightOut
  <2>3. w \in Seq(Ink) /\ Len(w) = 1 /\ w[1] = s[k + 1]
    <3>1. k + 1 \in 1 .. n + 2 /\ k + 1 \in 0 .. n
      BY <1>3
    <3>2. /\ w \in Seq(Ink) /\ (k + 1 <= k + 1 => Len(w) = (k + 1) - (k + 1) + 1)
          /\ \A i \in 1 .. Len(w) : w[i] = s[(k + 1) + i - 1]
      BY <1>1, <3>1, PartOf
    <3> HIDE DEF w
    <3>3. Len(w) = 1 /\ 1 \in 1 .. 1 /\ (k + 1) + 1 - 1 = k + 1
      BY <3>2
    <3> QED
      BY <3>2, <3>3
  <2> HIDE DEF w
  <2>4. Over(s, k, w, 1, s)
    <3>1. (n < k + 1 => Len(s) = k + 1) /\ (k + 1 <= n => Len(s) = n)
      BY <1>1, <1>3
    <3>2. ASSUME NEW i \in 1 .. n PROVE s[i] = IF k < i /\ i <= k + 1 THEN w[i - k] ELSE s[i]
      <4>1. CASE i = k + 1
        <5>1. i - k = 1
          BY <4>1
        <5> QED
          BY <2>3, <4>1, <5>1
      <4>2. CASE i # k + 1
        BY <4>2
      <4> QED
        BY <4>1, <4>2
    <3> QED
      BY <1>1, <3>1, <3>2 DEF Over
  <2>5. Displays(PutAll(t, w), b, s, k + Len(w))
    <3>1. k \in 0 .. Len(s) /\ Over(s, k, w, Len(w), s)
      BY <1>1, <2>3, <2>4
    <3> QED
      BY <1>2, <2>3, <3>1, ShowText
  <2> QED
    BY <2>1, <2>2, <2>3, <2>5 DEF Shows
<1>4. CASE ~(k < n)
  <2>1. go_right(e) = e
    BY <1>1, <1>4 DEF go_right
  <2>2. go_rightOut(e) = << >>
    <3>1. go_rightOut(e) = SubSeq(s, k + 1, k)
      BY <1>1, <2>1 DEF go_rightOut
    <3>2. k + 1 \in 1 .. n + 2 /\ k \in 0 .. n /\ k < k + 1
      BY <1>1
    <3>3. SubSeq(s, k + 1, k) \in Seq(Ink) /\ Len(SubSeq(s, k + 1, k)) = 0
      BY <1>1, <3>2, PartOf
    <3> QED
      BY <3>1, <3>3, EmptySeq
  <2> QED
    BY <2>1, <2>2, PutNone
<1> QED
  BY <1>3, <1>4

LEMMA EchoBack ==
    ASSUME NEW t, NEW b \in Seq(Ink), NEW e, InLine(e), Shows(t, b, e)
    PROVE  /\ Shows(PutAll(t, go_leftOut(e)), b, go_left(e))
           /\ Shows(PutAll(t, go_homeOut(e)), b, go_home(e))
<1>1. PICK s \in Seq(Ink), k \in Nat : s = e.text /\ k = e.pos /\ k \in 0 .. Len(s)
  BY LineIsInk
<1>2. Displays(t, b, s, k) /\ e = [text |-> s, pos |-> k]
  BY <1>1 DEF Shows, InLine, Lines
<1>3. ASSUME NEW j \in 0 .. k
      PROVE  Displays(PutAll(t, backspaces(j)), b, s, k - j)
  BY <1>1, <1>2, ShowBack
<1>4. Shows(PutAll(t, go_homeOut(e)), b, go_home(e))
  <2>1. go_home(e) = [text |-> s, pos |-> 0] /\ go_homeOut(e) = backspaces(k)
    BY <1>1, <1>2 DEF go_home, go_homeOut
  <2>2. k \in 0 .. k /\ k - k = 0
    OBVIOUS
  <2> QED
    BY <1>3, <2>1, <2>2 DEF Shows
<1>5. Shows(PutAll(t, go_leftOut(e)), b, go_left(e))
  <2>1. CASE k > 0
    <3>1. go_left(e) = [text |-> s, pos |-> k - 1]
      BY <1>1, <1>2, <2>1 DEF go_left
    <3>2. k - (k - 1) = 1 /\ 1 \in 0 .. k
      BY <2>1
    <3>3. go_leftOut(e) = backspaces(1)
      BY <1>1, <3>1, <3>2 DEF go_leftOut
    <3> QED
      BY <1>3, <3>1, <3>2, <3>3 DEF Shows
  <2>2. CASE ~(k > 0)
    <3>1. go_left(e) = e
      BY <1>1, <2>2 DEF go_left
    <3>2. go_leftOut(e) = backspaces(0)
      BY <1>1, <3>1 DEF go_leftOut
    <3>3. backspaces(0) = << >>
      <4>1. 0 \in Nat
        OBVIOUS
      <4> QED
        BY <1>1, <4>1, SentType
    <3> QED
      BY <3>1, <3>2, <3>3, PutNone
  <2> QED
    BY <2>1, <2>2
<1> QED
  BY <1>4, <1>5

LEMMA EchoErase ==
    ASSUME NEW t, NEW b \in Seq(Ink), NEW e, InLine(e), Shows(t, b, e)
    PROVE  EraseOut(e) \in Seq(Sent) /\ Displays(PutAll(t, EraseOut(e)), b, << >>, 0)
<1>1. PICK s \in Seq(Ink), r \in Seq(Ink) : s = e.text /\ r = Right(e)
  BY LineIsInk
<1>2. Len(s) \in Nat /\ r \in Seq(Sent)
  BY LenProperties, SentType
<1> DEFINE c == Repeat(<<Bsp, Space, Bsp>>, Len(s))
<1>3. c \in Seq(Sent)
  BY <1>2, SentType
<1>4. EraseOut(e) = r \o c
  BY <1>1 DEF EraseOut
<1>5. Displays(PutAll(t, r), b, s, Len(s))
  BY <1>1, EchoRight
<1>6. Displays(PutAll(PutAll(t, r), c), b, << >>, 0)
  BY <1>5, ShowErase
<1> HIDE DEF c
<1>7. r \o c \in Seq(Sent) /\ PutAll(t, r \o c) = PutAll(PutAll(t, r), c)
  BY <1>2, <1>3, PutCat, ConcatProperties
<1> QED
  BY <1>4, <1>6, <1>7

LEMMA EchoSet ==
    ASSUME NEW t, NEW b \in Seq(Ink), NEW e, InLine(e), Shows(t, b, e),
           NEW f, InLine(f), f.pos = Len(f.text)
    PROVE  Shows(PutAll(t, set_lineOut(e, f)), b, f)
<1>1. PICK w \in Seq(Ink), n \in Nat : w = f.text /\ n = Len(w) /\ n = f.pos
  BY LineIsInk
<1>2. PICK c \in Seq(Sent) : c = EraseOut(e)
  BY EchoErase
<1> DEFINE u == PutAll(t, c)
<1>3. Displays(u, b, << >>, 0)
  BY <1>2, EchoErase
<1> HIDE DEF u
<1>4. Over(<< >>, 0, w, n, w)
  <2>1. \A i \in 1 .. n : 0 < i /\ i <= 0 + n /\ i - 0 = i
    OBVIOUS
  <2>2. Len(<< >>) = 0 /\ 0 + n = n /\ (n <= 0 => n = 0)
    OBVIOUS
  <2> QED
    BY <1>1, <2>1, <2>2 DEF Over
<1>5. Displays(PutAll(u, w), b, w, 0 + n)
  <2>1. << >> \in Seq(Ink) /\ 0 \in 0 .. Len(<< >>)
    OBVIOUS
  <2>2. Over(<< >>, 0, w, Len(w), w)
    BY <1>1, <1>4
  <2> QED
    BY <1>1, <1>3, <2>1, <2>2, ShowText
<1>6. PutAll(t, c \o w) = PutAll(u, w)
  <2>1. w \in Seq(Sent)
    BY <1>1, SentType
  <2> QED
    BY <2>1, PutCat DEF u
<1>7. set_lineOut(e, f) = c \o w /\ 0 + n = n
  BY <1>1, <1>2 DEF set_lineOut
<1> QED
  BY <1>1, <1>5, <1>6, <1>7 DEF Shows

\* What ins_char() makes of the line.
LEMMA Inserted ==
    ASSUME NEW e, InLine(e), NEW c \in Glyphs, ~Full(e)
    PROVE  LET f == ins_char(e, c) IN
           /\ f.pos = e.pos + 1 /\ Len(f.text) = Len(e.text) + 1
           /\ f.text[e.pos + 1] = c
           /\ \A i \in 1 .. e.pos : f.text[i] = e.text[i]
<1>1. PICK s \in Seq(Glyphs), k \in Nat, n \in Nat : s = e.text /\ k = e.pos /\ n = Len(s) /\ k <= n
  BY LenProperties DEF InLine, Lines
<1> DEFINE x == SubSeq(s, 1, k)
           r == SubSeq(s, k + 1, n)
           q == <<c>>
           z == x \o q
<1>2. ins_char(e, c) = [text |-> z \o r, pos |-> k + 1]
  BY <1>1 DEF ins_char, Left, Right
<1>3. x \in Seq(Glyphs) /\ Len(x) = k /\ \A i \in 1 .. k : x[i] = s[i]
  <2>1. 1 \in 1 .. n + 2 /\ k \in 0 .. n
    BY <1>1
  <2>2. /\ x \in Seq(Glyphs) /\ (1 <= k => Len(x) = k - 1 + 1) /\ (k < 1 => Len(x) = 0)
        /\ \A i \in 1 .. Len(x) : x[i] = s[1 + i - 1]
    BY <1>1, <2>1, PartOf
  <2> HIDE DEF x
  <2> QED
    BY <1>1, <2>2
<1>4. r \in Seq(Glyphs) /\ Len(r) = n - k
  <2>1. k + 1 \in 1 .. n + 2 /\ n \in 0 .. n
    BY <1>1
  <2>2. r \in Seq(Glyphs) /\ (k + 1 <= n => Len(r) = n - (k + 1) + 1) /\ (n < k + 1 => Len(r) = 0)
    BY <1>1, <2>1, PartOf
  <2> HIDE DEF r
  <2> QED
    BY <1>1, <2>2
<1>5. q \in Seq(Glyphs) /\ Len(q) = 1 /\ q[1] = c
  OBVIOUS
<1> HIDE DEF x, r, q
<1>6. /\ z \in Seq(Glyphs) /\ Len(z) = k + 1 /\ z[k + 1] = c
      /\ \A i \in 1 .. k : z[i] = s[i]
  <2>1. /\ z \in Seq(Glyphs) /\ Len(z) = Len(x) + Len(q)
        /\ \A i \in 1 .. Len(x) : z[i] = x[i]
        /\ \A i \in Len(x) + 1 .. Len(x) + Len(q) : z[i] = q[i - Len(x)]
    BY <1>3, <1>5, Cat
  <2>2. k + 1 \in Len(x) + 1 .. Len(x) + Len(q) /\ (k + 1) - Len(x) = 1
    BY <1>3, <1>5
  <2> HIDE DEF z
  <2>3. z[k + 1] = q[(k + 1) - Len(x)]
    BY <2>1, <2>2
  <2> QED
    BY <1>3, <1>5, <2>1, <2>2, <2>3
<1> HIDE DEF z
<1> DEFINE g == z \o r
<1>7. Len(g) = Len(z) + Len(r) /\ \A i \in 1 .. Len(z) : g[i] = z[i]
  BY <1>4, <1>6, Cat
<1> HIDE DEF g
<1>8. Len(g) = n + 1 /\ g[k + 1] = c /\ \A i \in 1 .. k : g[i] = s[i]
  <2>1. k + 1 \in 1 .. Len(z) /\ \A i \in 1 .. k : i \in 1 .. Len(z)
    BY <1>6
  <2>2. (k + 1) + (n - k) = n + 1
    OBVIOUS
  <2>3. Len(g) = n + 1
    BY <1>4, <1>6, <1>7, <2>2
  <2>4. g[k + 1] = c
    BY <1>6, <1>7, <2>1
  <2>5. \A i \in 1 .. k : g[i] = s[i]
    BY <1>6, <1>7, <2>1
  <2> QED
    BY <2>3, <2>4, <2>5
<1>9. ins_char(e, c) = [text |-> g, pos |-> k + 1]
  BY <1>2 DEF g
<1> QED
  BY <1>1, <1>8, <1>9

LEMMA EchoInsert ==
    ASSUME NEW t, NEW b \in Seq(Ink), NEW e, rd_max \in Nat, Fits(e), Shows(t, b, e),
           NEW c \in Glyphs
    PROVE  Shows(PutAll(t, ins_charOut(e, c)), b, ins_char(e, c))
<1>1. PICK f : f = ins_char(e, c)
  OBVIOUS
<1>2. InLine(e) /\ InLine(f)
  BY <1>1, InsertFits DEF Fits
<1>3. CASE f = e
  BY <1>1, <1>3, PutNone DEF ins_charOut
<1>4. CASE f # e
  <2>1. ~Full(e)
    BY <1>1, <1>4 DEF ins_char
  <2>2. PICK s \in Seq(Ink), k \in Nat, n \in Nat : s = e.text /\ k = e.pos /\ n = Len(s) /\ k <= n
    BY <1>2, LineIsInk
  <2>3. PICK z \in Seq(Ink), r \in Seq(Ink) :
           /\ z = f.text /\ r = Right(f) /\ f.pos = k + 1 /\ Len(z) = n + 1 /\ z[k + 1] = c
           /\ \A i \in 1 .. k : z[i] = s[i]
    <3>1. f.text \in Seq(Ink) /\ Right(f) \in Seq(Ink)
      BY <1>2, LineIsInk
    <3>2. /\ f.pos = e.pos + 1 /\ Len(f.text) = Len(e.text) + 1
          /\ f.text[e.pos + 1] = c
          /\ \A i \in 1 .. e.pos : f.text[i] = e.text[i]
      BY <1>1, <1>2, <2>1, Inserted
    <3> QED
      BY <2>2, <3>1, <3>2
  <2>4. Len(r) = n - k /\ \A i \in 1 .. n - k : r[i] = z[(k + 1) + i]
    <3>1. /\ Len(Right(f)) = Len(f.text) - f.pos
          /\ \A i \in 1 .. Len(f.text) - f.pos : Right(f)[i] = f.text[f.pos + i]
      BY <1>2, LineIsInk
    <3>2. Len(f.text) - f.pos = n - k /\ f.pos = k + 1
      BY <2>3
    <3> QED
      BY <2>3, <3>1, <3>2
  <2> DEFINE q == <<c>>
             w == q \o r
             a == backspaces(n - k)
  <2>5. q \in Seq(Ink) /\ Len(q) = 1 /\ q[1] = c
    <3>1. c \in Ink
      BY ScreenAssumption DEF Ink, Glyphs
    <3> QED
      BY <3>1
  <2>6. ins_charOut(e, c) = w \o a
    <3>1. Len(z) - (k + 1) = n - k
      BY <2>3
    <3>2. ins_charOut(e, c) = (<<c>> \o Right(f)) \o backspaces(Len(f.text) - f.pos)
      BY <1>1, <1>4 DEF ins_charOut
    <3> QED
      BY <2>3, <3>1, <3>2
  <2> HIDE DEF q
  <2>7. /\ w \in Seq(Ink) /\ Len(w) = n - k + 1 /\ w[1] = c
        /\ \A i \in 2 .. n - k + 1 : w[i] = z[k + i]
    <3>1. /\ w \in Seq(Ink) /\ Len(w) = Len(q) + Len(r)
          /\ \A i \in 1 .. Len(q) : w[i] = q[i]
          /\ \A i \in Len(q) + 1 .. Len(q) + Len(r) : w[i] = r[i - Len(q)]
      BY <2>5, Cat
    <3> HIDE DEF w
    <3>2. Len(w) = n - k + 1 /\ w[1] = c
      BY <2>2, <2>4, <2>5, <3>1
    <3>3. ASSUME NEW i \in 2 .. n - k + 1 PROVE w[i] = z[k + i]
      <4>1. i \in 1 + 1 .. 1 + (n - k) /\ i - 1 \in 1 .. n - k /\ (k + 1) + (i - 1) = k + i
        OBVIOUS
      <4>2. w[i] = r[i - 1]
        BY <2>4, <2>5, <3>1, <4>1
      <4> QED
        BY <2>4, <4>1, <4>2
    <3> QED
      BY <3>1, <3>2, <3>3
  <2> HIDE DEF w
  <2>8. Over(s, k, w, n - k + 1, z)
    <3>1. (Len(s) < k + (n - k + 1) => Len(z) = k + (n - k + 1)) /\ ~(k + (n - k + 1) <= Len(s))
      BY <2>2, <2>3
    <3>2. ASSUME NEW i \in 1 .. Len(z)
          PROVE  z[i] = IF k < i /\ i <= k + (n - k + 1) THEN w[i - k] ELSE s[i]
      <4>1. i \in 1 .. n + 1
        BY <2>3
      <4>2. CASE i <= k
        BY <2>3, <4>1, <4>2
      <4>3. CASE i = k + 1
        <5>1. i - k = 1 /\ k < i /\ i <= k + (n - k + 1)
          BY <2>2, <4>3
        <5> QED
          BY <2>3, <2>7, <4>3, <5>1
      <4>4. CASE i > k + 1
        <5>1. PICK j \in 2 .. n - k + 1 : i = k + j
          <6>1. i \in Int /\ i <= n + 1
            BY <4>1
          <6>2. i - k \in Int /\ 2 <= i - k /\ i - k <= n - k + 1 /\ i = k + (i - k)
            BY <4>4, <6>1
          <6> QED
            BY <6>2
        <5>2. i - k = j /\ k < i /\ i <= k + (n - k + 1)
          BY <5>1
        <5> QED
          BY <2>7, <5>1, <5>2
      <4> QED
        BY <4>1, <4>2, <4>3, <4>4
    <3> QED
      BY <3>1, <3>2 DEF Over
  <2>9. Displays(PutAll(t, w), b, z, n + 1)
    <3>1. k \in 0 .. Len(s) /\ Over(s, k, w, Len(w), z) /\ k + Len(w) = n + 1 /\ Displays(t, b, s, k)
      BY <2>2, <2>7, <2>8 DEF Shows
    <3>2. Displays(PutAll(t, w), b, z, k + Len(w))
      BY <2>7, <3>1, ShowText
    <3> QED
      BY <3>1, <3>2
  <2>10. Displays(PutAll(PutAll(t, w), a), b, z, k + 1)
    <3>1. n + 1 \in 0 .. Len(z) /\ n - k \in 0 .. n + 1 /\ (n + 1) - (n - k) = k + 1
      BY <2>2, <2>3
    <3>2. Displays(PutAll(PutAll(t, w), a), b, z, (n + 1) - (n - k))
      BY <2>9, <3>1, ShowBack
    <3> QED
      BY <3>1, <3>2
  <2>11. PutAll(t, w \o a) = PutAll(PutAll(t, w), a)
    <3>1. n - k \in Nat
      BY <2>2
    <3>2. w \in Seq(Sent) /\ a \in Seq(Sent)
      BY <2>7, <3>1, SentType
    <3> HIDE DEF a
    <3> QED
      BY <3>2, PutCat
  <2> QED
    BY <1>1, <2>3, <2>6, <2>10, <2>11 DEF Shows
<1> QED
  BY <1>3, <1>4

LEMMA OneBack == backspaces(1) = <<Bsp>>
<1> DEFINE b == <<Bsp>>
<1>1. b \in Seq({Bsp})
  OBVIOUS
<1>2. << >> \o b = b
  OBVIOUS
<1> HIDE DEF b
<1>3. Repeat(b, 0) = << >> /\ Repeat(b, 0 + 1) = Repeat(b, 0) \o b
  <2>1. 0 \in Nat
    OBVIOUS
  <2> QED
    BY <1>1, <2>1, RepeatNext
<1>4. 0 + 1 = 1
  OBVIOUS
<1> QED
  BY <1>2, <1>3, <1>4 DEF backspaces, b

\* At the end of the line, what closes the gap is a space and one backspace.
LEMMA CloseGapAtEnd ==
    ASSUME NEW f, InLine(f), f.pos = Len(f.text)
    PROVE  CloseGap(f) = <<Space>> \o backspaces(1)
<1>1. Len(f.text) \in Nat /\ Right(f) \in Seq(Ink) /\ Len(Right(f)) = Len(f.text) - f.pos
  BY LineIsInk
<1>2. PICK n \in Nat : n = Len(f.text) /\ n = f.pos
  BY <1>1
<1>3. n - n = 0 /\ 0 + 1 = 1
  OBVIOUS
<1>4. Right(f) = << >>
  BY <1>1, <1>2, <1>3, EmptySeq
<1>5. backspaces(0) = << >>
  <2>1. 0 \in Nat /\ << >> \in Seq(Ink)
    OBVIOUS
  <2> QED
    BY <2>1, SentType
<1>6. CloseGap(f) = ((Right(f) \o backspaces(Len(f.text) - f.pos)) \o <<Space>>)
                       \o backspaces(Len(f.text) - f.pos + 1)
  BY DEF CloseGap, redraw_from
<1>7. CloseGap(f) = ((<< >> \o << >>) \o <<Space>>) \o backspaces(1)
  BY <1>2, <1>3, <1>4, <1>5, <1>6
<1>8. (<< >> \o << >>) \o <<Space>> = <<Space>>
  OBVIOUS
<1> QED
  BY <1>7, <1>8

\* The line without the character before, or at, the cursor.
LEMMA Deleted ==
    ASSUME NEW e, InLine(e)
    PROVE  /\ e.pos > 0 =>
                 LET f == del_left(e) IN
                 /\ f.pos = e.pos - 1 /\ Len(f.text) = Len(e.text) - 1
                 /\ \A i \in 1 .. f.pos : f.text[i] = e.text[i]
           /\ e.pos < Len(e.text) =>
                 LET f == del_at(e) IN
                 /\ f.pos = e.pos /\ Len(f.text) = Len(e.text) - 1
                 /\ \A i \in 1 .. f.pos : f.text[i] = e.text[i]
<1>1. PICK s \in Seq(Glyphs), k \in Nat, n \in Nat : s = e.text /\ k = e.pos /\ n = Len(s) /\ k <= n
  BY LenProperties DEF InLine, Lines
<1>2. ASSUME NEW a \in 0 .. n, NEW c \in 1 .. n + 1
      PROVE  LET g == SubSeq(s, 1, a) \o SubSeq(s, c, n) IN
             Len(g) = a + (n - c + 1) /\ \A i \in 1 .. a : g[i] = s[i]
  <2> DEFINE x == SubSeq(s, 1, a)
             r == SubSeq(s, c, n)
  <2>1. x \in Seq(Glyphs) /\ Len(x) = a /\ \A i \in 1 .. a : x[i] = s[i]
    <3>1. 1 \in 1 .. n + 2 /\ a \in 0 .. n
      OBVIOUS
    <3>2. /\ x \in Seq(Glyphs) /\ (1 <= a => Len(x) = a - 1 + 1) /\ (a < 1 => Len(x) = 0)
          /\ \A i \in 1 .. Len(x) : x[i] = s[1 + i - 1]
      BY <1>1, <3>1, PartOf
    <3> HIDE DEF x
    <3> QED
      BY <3>2
  <2>2. r \in Seq(Glyphs) /\ Len(r) = n - c + 1
    <3>1. c \in 1 .. n + 2 /\ n \in 0 .. n
      OBVIOUS
    <3>2. r \in Seq(Glyphs) /\ (c <= n => Len(r) = n - c + 1) /\ (n < c => Len(r) = 0)
      BY <1>1, <3>1, PartOf
    <3> HIDE DEF r
    <3> QED
      BY <3>2
  <2> HIDE DEF x, r
  <2> DEFINE g == x \o r
  <2>3. Len(g) = Len(x) + Len(r) /\ \A i \in 1 .. Len(x) : g[i] = x[i]
    BY <2>1, <2>2, Cat
  <2> HIDE DEF g
  <2>4. Len(g) = a + (n - c + 1) /\ \A i \in 1 .. a : g[i] = s[i]
    BY <2>1, <2>2, <2>3
  <2> QED
    BY <2>4 DEF g, x, r
<1>3. ASSUME k > 0
      PROVE  LET f == del_left(e) IN
             /\ f.pos = k - 1 /\ Len(f.text) = n - 1
             /\ \A i \in 1 .. f.pos : f.text[i] = s[i]
  <2> DEFINE g == SubSeq(s, 1, k - 1) \o SubSeq(s, k + 1, n)
  <2>1. k - 1 \in 0 .. n /\ k + 1 \in 1 .. n + 1 /\ (k - 1) + (n - (k + 1) + 1) = n - 1
    <3>1. k - 1 \in 0 .. n /\ k + 1 \in 1 .. n + 1
      BY <1>1, <1>3
    <3>2. (k - 1) + (n - (k + 1) + 1) = n - 1
      OBVIOUS
    <3> QED
      BY <3>1, <3>2
  <2>2. Len(g) = (k - 1) + (n - (k + 1) + 1) /\ \A i \in 1 .. k - 1 : g[i] = s[i]
    BY <1>2, <2>1
  <2>3. del_left(e) = [text |-> g, pos |-> k - 1]
    BY <1>1, <1>3 DEF del_left, Right
  <2> HIDE DEF g
  <2> QED
    BY <2>1, <2>2, <2>3
<1>4. ASSUME k < n
      PROVE  LET f == del_at(e) IN
             /\ f.pos = k /\ Len(f.text) = n - 1
             /\ \A i \in 1 .. f.pos : f.text[i] = s[i]
  <2> DEFINE g == SubSeq(s, 1, k) \o SubSeq(s, k + 2, n)
  <2>1. k \in 0 .. n /\ k + 2 \in 1 .. n + 1 /\ k + (n - (k + 2) + 1) = n - 1
    BY <1>1, <1>4
  <2>2. Len(g) = k + (n - (k + 2) + 1) /\ \A i \in 1 .. k : g[i] = s[i]
    BY <1>2, <2>1
  <2>3. del_at(e) = [text |-> g, pos |-> k]
    BY <1>1, <1>4 DEF del_at, Left
  <2> HIDE DEF g
  <2> QED
    BY <2>1, <2>2, <2>3
<1> QED
  BY <1>1, <1>3, <1>4

\* A character is taken out of the line f is what is left of.
Closes(e, f) == Len(f.text) < Len(e.text) /\ f.pos < Len(f.text)

LEMMA EchoDelete ==
    ASSUME NEW t, NEW b \in Seq(Ink), NEW e, rd_max \in Nat, Fits(e), Shows(t, b, e)
    PROVE  /\ ~Closes(e, del_left(e)) => Shows(PutAll(t, del_leftOut(e)), b, del_left(e))
           /\ ~Closes(e, del_at(e)) => Shows(PutAll(t, del_atOut(e)), b, del_at(e))
<1>1. InLine(e) /\ InLine(del_left(e)) /\ InLine(del_at(e))
  BY DeleteFits DEF Fits
<1>2. PICK s \in Seq(Ink), k \in Nat, n \in Nat : s = e.text /\ k = e.pos /\ n = Len(s) /\ k <= n
  <2>1. InLine(e)
    BY <1>1
  <2> QED
    BY <2>1, LineIsInk
<1> DEFINE out == <<Space>> \o backspaces(1)
\* Where the line f is s without its last character.
<1>3. ASSUME NEW u, NEW f, InLine(f), Len(f.text) = n - 1, n > 0, f.pos = n - 1,
             \A i \in 1 .. f.pos : f.text[i] = s[i], Displays(u, b, s, n - 1)
      PROVE  Shows(PutAll(u, out), b, f)
  <2>1. PICK z \in Seq(Ink) : z = f.text
    BY <1>3, LineIsInk
  <2>2. Len(z) = n - 1 /\ Len(s) = Len(z) + 1 /\ \A i \in 1 .. Len(z) : z[i] = s[i]
    BY <1>2, <1>3, <2>1
  <2>3. Displays(PutAll(u, out), b, z, Len(z))
    BY <1>3, <2>2, ShowBlank
  <2> QED
    BY <1>3, <2>1, <2>2, <2>3 DEF Shows
<1> HIDE DEF out
<1>4. ASSUME ~Closes(e, del_left(e)) PROVE Shows(PutAll(t, del_leftOut(e)), b, del_left(e))
  <2>1. CASE k = 0
    BY <1>2, <2>1, PutNone DEF del_left, del_leftOut
  <2>2. CASE k # 0
    <3>1. PICK f : f = del_left(e)
      OBVIOUS
    <3>2. f.pos = k - 1 /\ Len(f.text) = n - 1 /\ \A i \in 1 .. f.pos : f.text[i] = s[i]
      BY <1>1, <1>2, <2>2, <3>1, Deleted
    <3>3. k = n
      <4>1. ~(n - 1 < n /\ k - 1 < n - 1)
        BY <1>2, <1>4, <3>1, <3>2 DEF Closes
      <4> QED
        BY <1>2, <4>1
    <3>4. del_leftOut(e) = <<Bsp>> \o out
      <4>1. InLine(f) /\ f.pos = Len(f.text)
        BY <1>1, <3>1, <3>2, <3>3
      <4>2. CloseGap(f) = out
        BY <4>1, CloseGapAtEnd DEF out
      <4> QED
        BY <1>2, <2>2, <3>1, <4>2 DEF del_leftOut
    <3> DEFINE c == backspaces(1)
               u == PutAll(t, c)
    <3>5. Displays(u, b, s, n - 1)
      <4>1. k \in 0 .. Len(s) /\ 1 \in 0 .. k /\ Displays(t, b, s, k)
        BY <1>2, <2>2 DEF Shows
      <4>2. Displays(u, b, s, k - 1)
        BY <4>1, ShowBack
      <4> QED
        BY <3>3, <4>2
    <3>6. PutAll(t, c \o out) = PutAll(u, out)
      <4>1. c \in Seq(Sent) /\ out \in Seq(Sent)
        <5> DEFINE q == <<Space>>
        <5>1. q \in Seq(Ink)
          <6>1. Space \in Ink
            BY DEF Ink, Space, Bsp, Nl
          <6> QED
            BY <6>1
        <5>2. 1 \in Nat
          OBVIOUS
        <5> HIDE DEF q
        <5>3. q \in Seq(Sent) /\ c \in Seq(Sent)
          BY <5>1, <5>2, SentType
        <5> HIDE DEF c
        <5>4. q \o c \in Seq(Sent)
          BY <5>3, ConcatProperties
        <5> QED
          BY <5>3, <5>4 DEF out, c, q
      <4> HIDE DEF c
      <4> QED
        BY <4>1, PutCat DEF u
    <3>7. Shows(PutAll(u, out), b, f)
      <4>1. InLine(f) /\ n > 0 /\ f.pos = n - 1
        BY <1>1, <2>2, <3>1, <3>2, <3>3
      <4> HIDE DEF u
      <4> QED
        BY <1>3, <3>2, <3>5, <4>1
    <3>8. <<Bsp>> = c
      BY OneBack
    <3> HIDE DEF u, c
    <3> QED
      BY <3>1, <3>4, <3>6, <3>7, <3>8
  <2> QED
    BY <2>1, <2>2
<1>5. ASSUME ~Closes(e, del_at(e)) PROVE Shows(PutAll(t, del_atOut(e)), b, del_at(e))
  <2>1. CASE k >= n
    BY <1>2, <2>1, PutNone DEF del_at, del_atOut
  <2>2. CASE ~(k >= n)
    <3>1. PICK f : f = del_at(e)
      OBVIOUS
    <3>2. f.pos = k /\ Len(f.text) = n - 1 /\ \A i \in 1 .. f.pos : f.text[i] = s[i]
      BY <1>1, <1>2, <2>2, <3>1, Deleted
    <3>3. k = n - 1
      <4>1. ~(n - 1 < n /\ k < n - 1)
        BY <1>2, <1>5, <3>1, <3>2 DEF Closes
      <4> QED
        BY <1>2, <2>2, <4>1
    <3>4. InLine(f) /\ f.pos = Len(f.text) /\ n > 0
      BY <1>1, <3>1, <3>2, <3>3
    <3>5. del_atOut(e) = out
      <4>1. CloseGap(f) = out
        BY <3>4, CloseGapAtEnd DEF out
      <4> QED
        BY <1>2, <2>2, <3>1, <4>1 DEF del_atOut
    <3>6. Displays(t, b, s, n - 1)
      BY <1>2, <3>3 DEF Shows
    <3>7. Shows(PutAll(t, out), b, f)
      BY <1>3, <3>2, <3>3, <3>4, <3>6
    <3> QED
      BY <3>1, <3>5, <3>7
  <2> QED
    BY <2>1, <2>2
<1> QED
  BY <1>4, <1>5

LEMMA EchoEnd ==
    ASSUME NEW t, NEW b \in Seq(Ink), NEW e, InLine(e), Shows(t, b, e)
    PROVE  Shows(PutAll(t, go_endOut(e)), b, go_end(e))
<1>1. go_end(e) = [text |-> e.text, pos |-> Len(e.text)]
  BY DEF go_end, InLine, Lines
<1> QED
  BY <1>1, EchoRight DEF go_endOut, Shows

LEMMA EchoKey ==
    ASSUME NEW t, NEW b \in Seq(Ink), NEW e, rd_max \in Nat, Fits(e), Shows(t, b, e),
           NEW c \in Glyphs
    PROVE  /\ ~Closes(e, KeyEdit(e, c)) => Shows(PutAll(t, KeyOut(e, c)), b, KeyEdit(e, c))
           /\ ~Closes(e, CsiEdit(e, c)) => Shows(PutAll(t, CsiOut(e, c)), b, CsiEdit(e, c))
<1> DEFINE Good(out, f) == Shows(PutAll(t, out), b, f)
<1>1. InLine(e)
  BY DEF Fits
<1>2. /\ Good(go_leftOut(e), go_left(e)) /\ Good(go_homeOut(e), go_home(e))
      /\ Good(go_rightOut(e), go_right(e)) /\ Good(go_endOut(e), go_end(e))
  BY <1>1, EchoBack, EchoNext, EchoEnd
<1>3. Good(ins_charOut(e, c), ins_char(e, c))
  BY EchoInsert
<1>4. Good(EraseOut(e), NoLine)
  <2>1. Displays(PutAll(t, EraseOut(e)), b, << >>, 0)
    BY <1>1, EchoErase
  <2> QED
    BY <2>1 DEF Shows, NoLine
<1>5. Good(<< >>, e)
  BY PutNone
<1>6. /\ ~Closes(e, del_left(e)) => Good(del_leftOut(e), del_left(e))
      /\ ~Closes(e, del_at(e)) => Good(del_atOut(e), del_at(e))
  BY EchoDelete
<1> HIDE DEF Good
<1>7. ~Closes(e, KeyEdit(e, c)) => Good(KeyOut(e, c), KeyEdit(e, c))
  BY <1>2, <1>3, <1>4, <1>5, <1>6 DEF KeyEdit, KeyOut
<1>8. ~Closes(e, CsiEdit(e, c)) => Good(CsiOut(e, c), CsiEdit(e, c))
  BY <1>2, <1>5, <1>6 DEF CsiEdit, CsiOut
<1> QED
  BY <1>7, <1>8 DEF Good

-----------------------------------------------------------------------------
(* The terminal between two steps of the driver.                           *)
Term == [row |-> row, col |-> col]

ScreenOK ==
    /\ TermOK(Term)
    /\ before \in Seq(Ink)
    /\ rd_active => waiting # {} /\ Shows(Term, before, ed)
    /\ ~rd_active => col = Len(row)

\* A character in front of others is deleted.
DeletesInside == Closes(ed, ed')

\* A request comes while another one is pending, on the row it has written.
Replaces == rd_active /\ \E r \in waiting' : r \notin waiting

\* What a client writes leaves the cursor behind it.
LEMMA PutPrompt ==
    ASSUME NEW t, TermOK(t), t.col = Len(t.row)
    PROVE  LET u == PutAll(t, Prompt) IN TermOK(u) /\ u.col = Len(u.row)
<1> DEFINE Good(u) == TermOK(u) /\ u.col = Len(u.row)
<1>1. Len(Prompt) \in Nat /\ \A i \in 1 .. Len(Prompt) : Prompt[i] \in STRING \ {Bsp}
  BY ScreenAssumption, LenProperties, ElementOfSeq
<1>2. PICK f : Trace(f, t, Prompt) /\ PutAll(t, Prompt) = f[Len(Prompt)]
  BY <1>1, PutAllIs
<1> DEFINE S == {m \in Nat : m <= Len(Prompt) => Good(f[m])}
<1>3. ASSUME NEW u, Good(u), NEW c \in STRING \ {Bsp} PROVE Good(Put(u, c))
  <2>1. CASE c = Nl
    <3>1. Put(u, c) = [row |-> << >>, col |-> 0]
      BY <2>1, Zenon DEF Put, Nl, Bsp
    <3>2. << >> \in Seq(Ink) /\ Len(<< >>) = 0
      OBVIOUS
    <3> QED
      BY <3>1, <3>2 DEF TermOK
  <2>2. CASE c # Nl
    <3>1. c \in Ink
      BY <2>2 DEF Ink
    <3>2. PICK v : v = Put(u, c)
      OBVIOUS
    <3>3. TermOK(u)
      BY <1>3
    <3>4. PICK n \in Nat : n = u.col /\ n = Len(u.row)
      BY <1>3, <3>3, TermFacts
    <3>5. Printed(u, v, <<c>>, 1)
      BY <3>1, <3>2, <3>3, PutChar
    <3>6. TermOK(v) /\ v.col = n + 1 /\ Over(u.row, n, <<c>>, 1, v.row)
      BY <3>4, <3>5 DEF Printed
    <3>7. Len(v.row) = n + 1
      BY <3>4, <3>6 DEF Over
    <3> QED
      BY <3>2, <3>6, <3>7
  <2> QED
    BY <2>1, <2>2
<1>4. 0 \in S
  BY <1>2 DEF Trace
<1> HIDE DEF Good
<1>5. ASSUME NEW m \in Nat, m \in S PROVE m + 1 \in S
  <2> SUFFICES ASSUME m + 1 <= Len(Prompt) PROVE Good(f[m + 1])
    OBVIOUS
  <2>1. m + 1 \in 1 .. Len(Prompt) /\ (m + 1) - 1 = m /\ Good(f[m])
    BY <1>1, <1>5
  <2> HIDE DEF S
  <2>2. f[m + 1] = Put(f[(m + 1) - 1], Prompt[m + 1])
    BY <1>2, <2>1, Zenon DEF Trace
  <2>3. Prompt[m + 1] \in STRING \ {Bsp}
    BY <1>1, <2>1
  <2> QED
    BY <1>3, <2>1, <2>2, <2>3
<1> HIDE DEF S
<1>6. Nat \subseteq S
  BY <1>4, <1>5, SetInduction
<1>7. Good(f[Len(Prompt)])
  BY <1>1, <1>6 DEF S
<1> QED
  BY <1>2, <1>7 DEF Good

LEMMA PutNewline ==
    ASSUME NEW t
    PROVE  /\ PutAll(t, <<Nl>>) = [row |-> << >>, col |-> 0]
           /\ PutAll(t, <<"^", "C", Nl, Nl>>) = [row |-> << >>, col |-> 0]
<1>1. ASSUME NEW u PROVE PutAll(u, <<Nl>>) = [row |-> << >>, col |-> 0]
  <2>1. Put(u, Nl) = [row |-> << >>, col |-> 0]
    BY Zenon DEF Put, Nl, Bsp
  <2> QED
    BY <2>1, PutOne
<1> DEFINE a == <<"^", "C", Nl>>
           b == <<Nl>>
<1>2. <<"^", "C", Nl, Nl>> = a \o b /\ a \in Seq({"^", "C", Nl}) /\ b \in Seq({"^", "C", Nl})
  OBVIOUS
<1> HIDE DEF a
<1>3. PutAll(t, a \o b) = PutAll(PutAll(t, a), b)
  <2> HIDE DEF b
  <2> QED
    BY <1>2, PutCat
<1> QED
  BY <1>1, <1>2, <1>3

LEMMA ScreenStarts == ScreenInit => ScreenOK
<1> SUFFICES ASSUME ScreenInit PROVE ScreenOK
  OBVIOUS
<1>1. row = << >> /\ col = 0 /\ before = << >> /\ rd_active = FALSE
  BY DEF ScreenInit, Init
<1>2. << >> \in Seq(Ink) /\ Len(<< >>) = 0
  OBVIOUS
<1> QED
  BY <1>1, <1>2 DEF ScreenOK, TermOK, Term

LEMMA ScreenStepIsNext == [ScreenNext]_<<vars, screenVars>> => [Next]_vars
BY DEF ScreenNext, ClientWrites, Asks, Silent, Echoes, Next, EditStep

\* What a step that writes leaves, while the request stays.
LEMMA ScreenEdited ==
    ASSUME ScreenOK, rd_active, UNCHANGED <<rd_active, waiting, before>>,
           NEW out, Write(out), Shows(PutAll(Term, out), before, ed')
    PROVE  ScreenOK'
<1>1. PICK u : u = PutAll(Term, out)
  OBVIOUS
<1>2. row' = u.row /\ col' = u.col
  BY <1>1 DEF Write, Shown, Term
<1>3. TermOK(u)
  BY <1>1 DEF Shows, Displays
<1>4. Term' = u
  BY <1>2, <1>3, TermFacts DEF Term
<1>5. TermOK(Term') /\ Shows(Term', before', ed')
  BY <1>1, <1>3, <1>4
<1>6. before' \in Seq(Ink) /\ rd_active' /\ waiting' # {}
  BY DEF ScreenOK
<1> QED
  BY <1>5, <1>6 DEF ScreenOK

LEMMA ScreenKept ==
    ASSUME ScreenOK, UNCHANGED <<rd_active, waiting, screenVars, ed>>
    PROVE  ScreenOK'
<1>1. UNCHANGED <<row, col, before>>
  BY DEF screenVars
<1>2. Term' = Term
  BY <1>1 DEF Term
<1>3. TermOK(Term') /\ before' \in Seq(Ink)
  BY <1>1, <1>2 DEF ScreenOK
<1>4. rd_active' => waiting' # {} /\ Shows(Term', before', ed')
  BY <1>1, <1>2 DEF ScreenOK
<1>5. ~rd_active' => col' = Len(row')
  BY <1>1 DEF ScreenOK
<1> QED
  BY <1>3, <1>4, <1>5 DEF ScreenOK

\* The line is done: an empty row.
LEMMA ScreenFinished ==
    ASSUME ScreenOK, rd_active' = FALSE, UNCHANGED before,
           NEW out, Write(out), \A t : PutAll(t, out) = [row |-> << >>, col |-> 0]
    PROVE  ScreenOK'
<1>1. row' = << >> /\ col' = 0
  BY DEF Write, Shown
<1>2. << >> \in Seq(Ink) /\ Len(<< >>) = 0
  OBVIOUS
<1>3. TermOK(Term')
  BY <1>1, <1>2 DEF TermOK, Term
<1>4. before' \in Seq(Ink) /\ col' = Len(row')
  BY <1>1, <1>2 DEF ScreenOK
<1> QED
  BY <1>3, <1>4 DEF ScreenOK

\* A client writes its prompt.
LEMMA ScreenPrompted == ASSUME ScreenOK, ClientWrites PROVE ScreenOK'
<1>1. /\ ~rd_active /\ ~rd_active' /\ before' = before /\ Write(Prompt)
  BY DEF ClientWrites, ScreenOK, vars, reqVars
<1>2. TermOK(Term) /\ Term.col = Len(Term.row)
  BY <1>1 DEF ScreenOK, Term
<1>3. PICK u : u = PutAll(Term, Prompt)
  OBVIOUS
<1>4. TermOK(u) /\ u.col = Len(u.row)
  BY <1>2, <1>3, PutPrompt
<1>5. row' = u.row /\ col' = u.col
  BY <1>1, <1>3 DEF Write, Shown, Term
<1>6. Term' = u
  BY <1>4, <1>5, TermFacts DEF Term
<1>7. TermOK(Term') /\ col' = Len(row')
  BY <1>4, <1>5, <1>6
<1>8. before' \in Seq(Ink)
  BY <1>1 DEF ScreenOK
<1> QED
  BY <1>1, <1>7, <1>8 DEF ScreenOK

\* A request starts an empty line behind what is on the row.
LEMMA ScreenAsked == ASSUME ScreenOK, Asks, ~Replaces PROVE ScreenOK'
<1>1. PICK r \in Readers, max \in MaxLens : Readline(r, max)
  BY DEF Asks
<1>2. /\ r \notin waiting /\ waiting' = waiting \cup {r} /\ ed' = NoLine
      /\ row' = row /\ col' = col /\ before' = row /\ rd_active'
  BY <1>1 DEF Asks, Readline
<1>3. ~rd_active
  BY <1>2 DEF Replaces
<1>4. Term' = Term /\ TermOK(Term) /\ col = Len(row)
  BY <1>2, <1>3 DEF ScreenOK, Term
<1>5. PICK n \in Nat : n = Len(row) /\ row \in Seq(Ink)
  BY <1>4, TermFacts DEF Term
<1>6. OnRow(row, row, << >>)
  <2>1. Len(<< >>) = 0 /\ n + 0 = n /\ \A i \in n + 0 + 1 .. n : FALSE
    BY <1>5
  <2> QED
    BY <1>5, <2>1 DEF OnRow
<1>7. Displays(Term, row, << >>, 0)
  BY <1>4, <1>5, <1>6 DEF Displays, Term
<1>8. Shows(Term', before', ed')
  BY <1>2, <1>4, <1>7 DEF Shows, NoLine
<1>9. before' \in Seq(Ink) /\ TermOK(Term') /\ waiting' # {}
  BY <1>2, <1>4, <1>5
<1> QED
  BY <1>2, <1>8, <1>9 DEF ScreenOK

\* The up and down keys.
LEMMA ScreenRecalled ==
    ASSUME ELine, ScreenOK, NEW c \in keyboard, CsiHistory(c), Write(HistoryOut), UNCHANGED before
    PROVE  ScreenOK'
<1>1. PICK step \in {1, -1} : hist_nav(step)
  BY DEF CsiHistory
<1>2. rd_active /\ UNCHANGED <<rd_active, waiting, before>>
  BY DEF ELine, CsiHistory, Turn, reqVars
<1>3. before \in Seq(Ink) /\ InLine(ed) /\ Shows(Term, before, ed)
  BY <1>2 DEF ScreenOK, ELine
<1>4. Shows(PutAll(Term, HistoryOut), before, ed')
  <2>1. CASE h_nav + step \notin Depths
    <3>1. h_nav' = h_nav /\ ed' = ed
      BY <1>1, <2>1 DEF hist_nav, navVars
    <3>2. HistoryOut = << >>
      BY <3>1 DEF HistoryOut
    <3> QED
      BY <1>3, <3>1, <3>2, PutNone
  <2>2. CASE h_nav + step \in Depths
    <3>1. /\ h_nav' = h_nav + step
          /\ \E s : ed' = set_line(s)
      BY <1>1, <2>2 DEF hist_nav
    <3>2. h_nav' # h_nav
      <4>1. h_nav \in Int
        BY DEF ELine, HistoryOK
      <4> QED
        BY <3>1, <4>1
    <3>3. HistoryOut = set_lineOut(ed, ed')
      BY <3>2 DEF HistoryOut
    <3>4. ed'.pos = Len(ed'.text)
      BY <3>1 DEF set_line
    <3>5. InLine(ed')
      BY <1>1, <1>2, NavFits DEF Fits
    <3> QED
      BY <1>3, <3>3, <3>4, <3>5, EchoSet
  <2> QED
    BY <2>1, <2>2
<1> QED
  BY <1>2, <1>4, ScreenEdited

\* A key, and the final byte of an escape sequence.
LEMMA ScreenKeyed ==
    ASSUME ELine, ScreenOK, NEW c \in keyboard, UNCHANGED before, ~DeletesInside,
           \/ CsiFinal(c) /\ Write(CsiOut(ed, c))
           \/ EditKey(c) /\ Write(KeyOut(ed, c))
    PROVE  ScreenOK'
<1>1. rd_active /\ UNCHANGED <<rd_active, waiting, before>>
  BY DEF ELine, CsiFinal, EditKey, Turn, reqVars
<1>2. c \in Glyphs
  BY DEF ELine, Glyphs
<1>3. before \in Seq(Ink) /\ Shows(Term, before, ed) /\ rd_max \in Nat /\ Fits(ed)
  BY <1>1 DEF ScreenOK, ELine, Fits
<1>4. ~Closes(ed, ed')
  BY DEF DeletesInside
<1>5. CASE CsiFinal(c) /\ Write(CsiOut(ed, c))
  <2>1. ed' = CsiEdit(ed, c)
    BY <1>5 DEF CsiFinal
  <2>2. Shows(PutAll(Term, CsiOut(ed, c)), before, ed')
    BY <1>2, <1>3, <1>4, <2>1, EchoKey
  <2> QED
    BY <1>1, <1>5, <2>2, ScreenEdited
<1>6. CASE EditKey(c) /\ Write(KeyOut(ed, c))
  <2>1. ed' = KeyEdit(ed, c)
    BY <1>6 DEF EditKey
  <2>2. Shows(PutAll(Term, KeyOut(ed, c)), before, ed')
    BY <1>2, <1>3, <1>4, <2>1, EchoKey
  <2> QED
    BY <1>1, <1>6, <2>2, ScreenEdited
<1> QED
  BY <1>5, <1>6

LEMMA ScreenEnded ==
    ASSUME ScreenOK, NEW c, UNCHANGED before,
           \/ Return(c) /\ Write(<<Nl>>)
           \/ Cancel(c) /\ Write(<<"^", "C", Nl, Nl>>)
    PROVE  ScreenOK'
<1>1. rd_active' = FALSE
  BY DEF Return, Cancel, finish_line
<1>2. ASSUME NEW t
      PROVE  /\ PutAll(t, <<Nl>>) = [row |-> << >>, col |-> 0]
             /\ PutAll(t, <<"^", "C", Nl, Nl>>) = [row |-> << >>, col |-> 0]
  BY PutNewline
<1> DEFINE a == <<Nl>>
           b == <<"^", "C", Nl, Nl>>
<1>3. Write(a) \/ Write(b)
  OBVIOUS
<1>4. \A t : PutAll(t, a) = [row |-> << >>, col |-> 0]
  BY <1>2
<1>5. \A t : PutAll(t, b) = [row |-> << >>, col |-> 0]
  BY <1>2
<1> HIDE DEF a, b
<1>6. CASE Write(a)
  BY <1>1, <1>4, <1>6, ScreenFinished
<1>7. CASE Write(b)
  BY <1>1, <1>5, <1>7, ScreenFinished
<1> QED
  BY <1>3, <1>6, <1>7

LEMMA ScreenSteps ==
    ASSUME ELine, ScreenOK, [ScreenNext /\ ~DeletesInside /\ ~Replaces]_<<vars, screenVars>>
    PROVE  ScreenOK'
<1>1. CASE UNCHANGED <<vars, screenVars>>
  <2>1. UNCHANGED <<rd_active, waiting, screenVars, ed>>
    BY <1>1 DEF vars, reqVars
  <2> QED
    BY <2>1, ScreenKept
<1>2. CASE ScreenNext /\ ~DeletesInside /\ ~Replaces
  <2>1. CASE ClientWrites
    BY <2>1, ScreenPrompted
  <2>2. CASE Asks
    BY <1>2, <2>2, ScreenAsked
  <2>3. CASE Silent
    <3>1. UNCHANGED <<rd_active, waiting, screenVars, ed>>
      BY <2>3 DEF Silent, Irq, Receive, DrainEnds, EditEnds, AfterEsc, CsiDigit, StartEsc, reqVars
    <3> QED
      BY <3>1, ScreenKept
  <2>4. ASSUME NEW c \in keyboard, Echoes(c) PROVE ScreenOK'
    <3>1. UNCHANGED before
      BY <2>4 DEF Echoes
    <3>2. CASE CsiHistory(c) /\ Write(HistoryOut)
      BY <3>1, <3>2, ScreenRecalled
    <3>3. CASE \/ CsiFinal(c) /\ Write(CsiOut(ed, c))
               \/ EditKey(c) /\ Write(KeyOut(ed, c))
      BY <1>2, <3>1, <3>3, ScreenKeyed
    <3>4. CASE \/ Return(c) /\ Write(<<Nl>>)
               \/ Cancel(c) /\ Write(<<"^", "C", Nl, Nl>>)
      BY <3>1, <3>4, ScreenEnded
    <3> QED
      BY <2>4, <3>2, <3>3, <3>4 DEF Echoes
  <2> QED
    BY <1>2, <2>1, <2>2, <2>3, <2>4 DEF ScreenNext
<1> QED
  BY <1>1, <1>2

\* The user sees the line and nothing else behind it.
LEMMA ScreenIsLine == ASSUME ELine, ScreenOK PROVE ScreenShowsLine
<1> SUFFICES ASSUME rd_active
             PROVE  LET n == Len(before) + Len(ed.text)
                    IN  /\ SubSeq(row, 1, n) = before \o ed.text
                        /\ Blanks(SubSeq(row, n + 1, Len(row)))
                        /\ col = Len(before) + ed.pos
  BY DEF ScreenShowsLine
<1>1. before \in Seq(Ink) /\ ed.text \in Seq(Ink) /\ Displays(Term, before, ed.text, ed.pos)
  <2>1. InLine(ed)
    BY DEF ELine
  <2> QED
    BY <2>1, LineIsInk DEF ScreenOK, Shows
<1>2. row \in Seq(Ink) /\ OnRow(row, before, ed.text) /\ col = Len(before) + ed.pos
  BY <1>1 DEF Displays, TermOK, Term
<1>3. PICK s \in Seq(Ink), a \in Nat, b \in Nat, k \in Nat :
         s = ed.text /\ a = Len(before) /\ b = Len(s) /\ k = Len(row)
  BY <1>1, <1>2, LenProperties
<1>4. /\ a + b <= k
      /\ \A i \in 1 .. a : row[i] = before[i]
      /\ \A i \in 1 .. b : row[a + i] = s[i]
      /\ \A i \in a + b + 1 .. k : row[i] = Space
  BY <1>2, <1>3 DEF OnRow
<1> DEFINE x == SubSeq(row, 1, a + b)
           y == before \o s
           z == SubSeq(row, a + b + 1, k)
<1>5. x \in Seq(Ink) /\ Len(x) = a + b /\ \A i \in 1 .. a + b : x[i] = row[i]
  <2>1. 1 \in 1 .. k + 2 /\ a + b \in 0 .. k
    BY <1>4
  <2>2. /\ x \in Seq(Ink) /\ (1 <= a + b => Len(x) = (a + b) - 1 + 1) /\ (a + b < 1 => Len(x) = 0)
        /\ \A i \in 1 .. Len(x) : x[i] = row[1 + i - 1]
    BY <1>2, <1>3, <2>1, PartOf
  <2> HIDE DEF x
  <2> QED
    BY <2>2
<1>6. /\ y \in Seq(Ink) /\ Len(y) = a + b
      /\ \A i \in 1 .. a : y[i] = before[i]
      /\ \A i \in a + 1 .. a + b : y[i] = s[i - a]
  BY <1>1, <1>3, Cat
<1>7. x = y
  <2> HIDE DEF x, y
  <2>1. ASSUME NEW i \in 1 .. a + b PROVE x[i] = y[i]
    <3>1. CASE i <= a
      BY <1>4, <1>5, <1>6, <3>1
    <3>2. CASE i > a
      <4>1. i \in a + 1 .. a + b /\ i - a \in 1 .. b /\ a + (i - a) = i
        BY <3>2
      <4>2. row[a + (i - a)] = s[i - a]
        BY <1>4, <4>1
      <4> QED
        BY <1>5, <1>6, <4>1, <4>2
    <3> QED
      BY <3>1, <3>2
  <2> QED
    BY <1>5, <1>6, <2>1, SeqEqual
<1>8. Blanks(z)
  <2>1. PICK m \in 1 .. k + 2 : m = a + b + 1
    <3>1. a + b + 1 \in 1 .. k + 2
      BY <1>4
    <3> QED
      BY <3>1
  <2>2. PICK w : w = SubSeq(row, m, k)
    OBVIOUS
  <2>3. /\ w \in Seq(Ink) /\ (m <= k => Len(w) = k - m + 1) /\ (k < m => Len(w) = 0)
        /\ \A i \in 1 .. Len(w) : w[i] = row[m + i - 1]
    <3>1. m \in 1 .. Len(row) + 2 /\ k \in 0 .. Len(row)
      BY <1>3
    <3> QED
      BY <1>2, <2>2, <3>1, PartOf
  <2>4. DOMAIN w = 1 .. Len(w)
    BY <2>3, LenProperties
  <2>5. ASSUME NEW i \in 1 .. Len(w) PROVE w[i] = Space
    <3>1. m + i - 1 \in m .. k
      BY <2>3
    <3>2. row[m + i - 1] = Space
      BY <1>4, <2>1, <3>1
    <3> QED
      BY <2>3, <3>2
  <2>6. Blanks(w)
    BY <2>4, <2>5 DEF Blanks
  <2> QED
    BY <2>1, <2>2, <2>6
<1> QED
  BY <1>2, <1>3, <1>7, <1>8

(* The echo is right: while a line is edited, the row of the terminal      *)
(* shows what was on it when the line was asked for, then the line and     *)
(* nothing else, with the cursor at rd_pos (redraw_from, ins_char, the     *)
(* cursor keys, set_line and hist_nav), whatever the length of the line,   *)
(* the buffers, the history and the prompt.  Two kinds of step are taken   *)
(* out: one that deletes a character in front of others, after which the   *)
(* invariant is false in a reachable state, and a request that replaces a  *)
(* pending one, whose line stays on the row in front of the new one.       *)
THEOREM ConsoleScreenShowsLine ==
    ScreenSpec /\ [][~DeletesInside /\ ~Replaces]_<<vars, screenVars>> => []ScreenShowsLine
<1> DEFINE Good == ELine /\ ScreenOK
           Step == ScreenNext /\ ~DeletesInside /\ ~Replaces
<1>1. ScreenInit => Good
  BY ConsoleStart, ScreenStarts DEF ScreenInit
<1>2. Good /\ [Step]_<<vars, screenVars>> => Good'
  <2> SUFFICES ASSUME Good, [Step]_<<vars, screenVars>> PROVE Good'
    OBVIOUS
  <2>1. [Next]_vars
    BY ScreenStepIsNext
  <2> QED
    BY <2>1, ConsoleStep, ScreenSteps
<1>3. Good => ScreenShowsLine
  BY ScreenIsLine
<1>4. [ScreenNext]_<<vars, screenVars>> /\ [~DeletesInside /\ ~Replaces]_<<vars, screenVars>>
         => [Step]_<<vars, screenVars>>
  OBVIOUS
<1> QED
  <2> HIDE DEF Good, Step
  <2> QED
    BY <1>1, <1>2, <1>3, <1>4, PTL DEF ScreenSpec
=============================================================================
