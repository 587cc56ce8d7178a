---------------------------- MODULE ConsoleScreen ----------------------------
(***************************************************************************)
(* The console driver with the row of the terminal it writes to.  Every    *)
(* key that is edited is echoed (uart_putc, uart_puts, backspaces), and    *)
(* what the user then sees is compared with the line in the buffer.        *)
(*                                                                         *)
(* The terminal is not in this repository: a byte is shown at the cursor,  *)
(* which moves right; a backspace moves it left and erases nothing; a      *)
(* newline starts an empty row.  A row is as wide as it needs to be.       *)
(* Clients write their prompt before they ask for a line, and nothing      *)
(* while one waits for it.                                                 *)
(***************************************************************************)
EXTENDS Console, SequencesExt

CONSTANT Prompt          \* what a client writes

VARIABLES
    row, col,            \* the cells of the terminal's row, and its cursor
    before               \* observer: the row when the line was asked for

screenVars == <<row, col, before>>
-----------------------------------------------------------------------------
Bsp   == "bsp"
Space == " "
Nl    == "newline"

\* A key is not named like what moves the cursor; a prompt does not go back.
ASSUME ScreenAssumption ==
    /\ {Bsp, Nl} \cap UNION Keyboards = {}
    /\ Prompt \in Seq(STRING \ {Bsp})

\* The terminal's row and cursor after one byte.
Put(t, c) ==
    CASE c = Bsp -> [t EXCEPT !.col = IF @ > 0 THEN @ - 1 ELSE 0]
      [] c = Nl  -> [row |-> << >>, col |-> 0]
      [] OTHER   -> [row |-> SubSeq(t.row, 1, t.col) \o <<c>> \o SubSeq(t.row, t.col + 2, Len(t.row)),
                     col |-> t.col + 1]

\* ... after the bytes of out.
PutAll(t, out) ==
    LET after[i \in 0 .. Len(out)] == IF i = 0 THEN t ELSE Put(after[i - 1], out[i])
    IN  after[Len(out)]

Shown(out) == PutAll([row |-> row, col |-> col], out)

\* The bytes of out go to the UART.
Write(out) == row' = Shown(out).row /\ col' = Shown(out).col
-----------------------------------------------------------------------------
Repeat(s, k)  == FlattenSeq([i \in 1 .. k |-> s])
backspaces(k) == Repeat(<<Bsp>>, k)

\* "\b \b" for every character, the cursor at the end first.
EraseOut(e) == Right(e) \o Repeat(<<Bsp, Space, Bsp>>, Len(e.text))

redraw_from(e) == Right(e) \o backspaces(Len(e.text) - e.pos)

\* What each operation of the editor writes on the line e.
ins_charOut(e, c) ==
    LET f == ins_char(e, c) IN
    IF f = e THEN << >> ELSE <<c>> \o Right(f) \o backspaces(Len(f.text) - f.pos)

\* Mutant: the deleted character's place is not blanked.
CloseGap_NoBlank(f) == redraw_from(f)

CloseGap(f) == redraw_from(f) \o <<Space>> \o backspaces(Len(f.text) - f.pos + 1)

del_leftOut(e)  == IF e.pos = 0 THEN << >> ELSE <<Bsp>> \o CloseGap(del_left(e))
del_atOut(e)    == IF e.pos >= Len(e.text) THEN << >> ELSE CloseGap(del_at(e))
go_leftOut(e)   == backspaces(e.pos - go_left(e).pos)
go_homeOut(e)   == backspaces(e.pos)
go_rightOut(e)  == SubSeq(e.text, e.pos + 1, go_right(e).pos)
go_endOut(e)    == Right(e)
set_lineOut(e, f) == EraseOut(e) \o f.text

KeyOut(e, c) ==
    CASE c = "BS"      -> del_leftOut(e)
      [] c = "HOME"    -> go_homeOut(e)
      [] c = "END"     -> go_endOut(e)
      [] c = "LEFT"    -> go_leftOut(e)
      [] c = "RIGHT"   -> go_rightOut(e)
      [] c = "KILL"    -> EraseOut(e)
      [] c \in Control -> << >>
      [] OTHER         -> ins_charOut(e, c)

CsiOut(e, c) ==
    CASE c = "C" -> go_rightOut(e)
      [] c = "D" -> go_leftOut(e)
      [] c = "H" \/ (c = "~" /\ csi_num \in {1, 7}) -> go_homeOut(e)
      [] c = "F" \/ (c = "~" /\ csi_num \in {4, 8}) -> go_endOut(e)
      [] c = "~" /\ csi_num = 3 -> del_atOut(e)
      [] OTHER -> << >>

\* hist_nav() writes nothing at either end of the history.
HistoryOut == IF h_nav' = h_nav THEN << >> ELSE set_lineOut(ed, ed')
-----------------------------------------------------------------------------
ScreenInit == Init /\ row = << >> /\ col = 0 /\ before = << >>

\* MSG_WRITE: the bytes are written and the client is answered.
ClientWrites ==
    /\ phase = "recv" /\ waiting = {} /\ row = << >>
    /\ Write(Prompt)
    /\ UNCHANGED <<vars, before>>

Asks == (\E r \in Readers, max \in MaxLens : Readline(r, max)) /\ before' = row /\ UNCHANGED <<row, col>>

Silent ==
    /\ \/ Irq
       \/ \E b \in keyboard : Receive(b)
       \/ DrainEnds
       \/ EditEnds
       \/ \E c \in keyboard : AfterEsc(c) \/ CsiDigit(c) \/ StartEsc(c)
    /\ UNCHANGED screenVars

\* The steps of edit() that write, each with what it writes.
Echoes(c) ==
    /\ \/ CsiHistory(c) /\ Write(HistoryOut)
       \/ CsiFinal(c) /\ Write(CsiOut(ed, c))
       \/ EditKey(c) /\ Write(KeyOut(ed, c))
       \/ Return(c) /\ Write(<<Nl>>)
       \/ Cancel(c) /\ Write(<<"^", "C", Nl, Nl>>)
    /\ UNCHANGED before

ScreenNext == ClientWrites \/ Asks \/ Silent \/ \E c \in keyboard : Echoes(c)

ScreenSpec == ScreenInit /\ [][ScreenNext]_<<vars, screenVars>>
-----------------------------------------------------------------------------
Blanks(s) == \A i \in DOMAIN s : s[i] = Space

(* While a line is edited the user sees what the client will get: after    *)
(* what was on the row before, the line and nothing else, with the cursor  *)
(* at rd_pos ("leave the cursor at rd_pos", redraw_from()).                *)
ScreenShowsLine ==
    rd_active =>
        LET n == Len(before) + Len(ed.text)
        IN  /\ SubSeq(row, 1, n) = before \o ed.text
            /\ Blanks(SubSeq(row, n + 1, Len(row)))
            /\ col = Len(before) + ed.pos
=============================================================================
