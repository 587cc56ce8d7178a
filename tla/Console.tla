------------------------------- MODULE Console -------------------------------
(***************************************************************************)
(* The serial console driver (drivers/console/main.c): a receive ring      *)
(* filled on interrupts, one pending line request, a line editor that      *)
(* understands escape sequences, and a command history.                    *)
(*                                                                         *)
(* The driver is one thread that serves one message at a time: the loops   *)
(* of drain_rx() and edit() are sequences of steps, one byte each, during  *)
(* which no message is received.  What is written to the terminal is left  *)
(* to ConsoleScreen.                                                       *)
(*                                                                         *)
(* Bytes are named by their key; control bytes have names of their own,    *)
(* every other byte is printable.                                          *)
(***************************************************************************)
EXTENDS Integers, Sequences

CONSTANTS
    RING,                \* size of the receive ring
    HMAX, HLEN,          \* history entries and their size
    Readers,             \* clients that ask for lines
    MaxLens,             \* the buffer sizes they pass
    Keyboards            \* the sets of bytes that may arrive

Control  == {"ESC", "CR", "BS", "HOME", "END", "LEFT", "RIGHT", "KILL", "CANCEL", "TAB"}
Digits   == [c \in {"1", "3", "4", "7", "8"} |->
                CASE c = "1" -> 1 [] c = "3" -> 3 [] c = "4" -> 4 [] c = "7" -> 7 [] c = "8" -> 8]
CsiBound == 10           \* a CSI parameter is counted no further: none from here on has a meaning

\* The shell's line buffer and a history entry have the same size (128).  No
\* client passes a buffer of size 0, in which the zero has no place either.
ASSUME ConsoleAssumption ==
    /\ RING \in Nat /\ RING > 1
    /\ HMAX \in Nat \ {0}
    /\ HLEN \in Nat \ {0}
    /\ MaxLens \subseteq 1 .. HLEN

VARIABLES
    keyboard,            \* the bytes that may arrive in this behaviour
    ring, r_head, r_tail,
    hist, h_count, h_next, h_nav, h_saved,
    rd_active, rd_from, rd_max,
    ed,                  \* rd_buf[0 .. rd_n) and rd_pos
    esc, csi_num,
    phase,               \* "recv", or the loop the driver is in: "drain", "edit"
    waiting,             \* clients in con_readline()
    live                 \* observer: the line when the history was entered

ringVars == <<ring, r_head, r_tail>>
histVars == <<hist, h_count, h_next>>
navVars  == <<h_nav, h_saved, live>>
reqVars  == <<rd_active, rd_from, rd_max, waiting>>
escVars  == <<esc, csi_num>>
vars     == <<keyboard, ringVars, histVars, navVars, reqVars, ed, escVars, phase>>

Nobody == "nobody"
Blank  == "blank"        \* a slot of the ring that is not read again
NoLine == [text |-> << >>, pos |-> 0]
-----------------------------------------------------------------------------
\* Mutant: a full ring is not recognised.
ring_push_Overruns(b) ==
    /\ ring' = [ring EXCEPT ![r_head] = b]
    /\ r_head' = (r_head + 1) % RING
    /\ UNCHANGED r_tail

\* One slot stays free; a byte that finds the ring full is dropped.
ring_push(b) ==
    LET n == (r_head + 1) % RING IN
    /\ ring'   = IF n # r_tail THEN [ring EXCEPT ![r_head] = b] ELSE ring
    /\ r_head' = IF n # r_tail THEN n ELSE r_head
    /\ UNCHANGED r_tail

\* ring_pop() returns c.
ring_pop(c) ==
    /\ r_head # r_tail
    /\ c = ring[r_tail]
    /\ ring' = [ring EXCEPT ![r_tail] = Blank]
    /\ r_tail' = (r_tail + 1) % RING
    /\ UNCHANGED r_head
-----------------------------------------------------------------------------
Take(s, n) == SubSeq(s, 1, IF Len(s) < n THEN Len(s) ELSE n)
Left(e)    == SubSeq(e.text, 1, e.pos)
Right(e)   == SubSeq(e.text, e.pos + 1, Len(e.text))

Full(e) == Len(e.text) + 1 >= rd_max

ins_char(e, c) ==
    IF Full(e) THEN e ELSE [text |-> Left(e) \o <<c>> \o Right(e), pos |-> e.pos + 1]

del_left(e) ==
    IF e.pos = 0 THEN e
    ELSE [text |-> SubSeq(e.text, 1, e.pos - 1) \o Right(e), pos |-> e.pos - 1]

del_at(e) ==
    IF e.pos >= Len(e.text) THEN e
    ELSE [text |-> Left(e) \o SubSeq(e.text, e.pos + 2, Len(e.text)), pos |-> e.pos]

go_left(e)  == IF e.pos > 0 THEN [e EXCEPT !.pos = @ - 1] ELSE e
go_right(e) == IF e.pos < Len(e.text) THEN [e EXCEPT !.pos = @ + 1] ELSE e
go_home(e)  == [e EXCEPT !.pos = 0]
go_end(e)   == [e EXCEPT !.pos = Len(e.text)]

\* Mutant: a recalled line is not cut to the client's buffer.
set_line_NoCut(s) == [text |-> s, pos |-> Len(s)]

set_line(s) == LET t == Take(s, rd_max - 1) IN [text |-> t, pos |-> Len(t)]

\* A byte outside an escape sequence.
KeyEdit(e, c) ==
    CASE c = "BS"      -> del_left(e)
      [] c = "HOME"    -> go_home(e)
      [] c = "END"     -> go_end(e)
      [] c = "LEFT"    -> go_left(e)
      [] c = "RIGHT"   -> go_right(e)
      [] c = "KILL"    -> NoLine
      [] c \in Control -> e
      [] OTHER         -> ins_char(e, c)

\* The final byte of an escape sequence, but for the history.
CsiEdit(e, c) ==
    CASE c = "C" -> go_right(e)
      [] c = "D" -> go_left(e)
      [] c = "H" \/ (c = "~" /\ csi_num \in {1, 7}) -> go_home(e)
      [] c = "F" \/ (c = "~" /\ csi_num \in {4, 8}) -> go_end(e)
      [] c = "~" /\ csi_num = 3 -> del_at(e)
      [] OTHER -> e
-----------------------------------------------------------------------------
Slot(back) == (h_next - back + HMAX) % HMAX

\* The newest entry is compared before the line is cut to its size.
Repeats(s) == h_count > 0 /\ hist[Slot(1)] = s

\* Mutant: the oldest entry is kept in a full history.
hist_push_Full(s) ==
    IF s = << >> \/ Repeats(s) \/ h_count = HMAX THEN UNCHANGED histVars
    ELSE /\ hist' = [hist EXCEPT ![h_next] = Take(s, HLEN - 1)]
         /\ h_next' = (h_next + 1) % HMAX
         /\ h_count' = h_count + 1

hist_push(s) ==
    IF s = << >> \/ Repeats(s) THEN UNCHANGED histVars
    ELSE /\ hist' = [hist EXCEPT ![h_next] = Take(s, HLEN - 1)]
         /\ h_next' = (h_next + 1) % HMAX
         /\ h_count' = IF h_count < HMAX THEN h_count + 1 ELSE h_count

Depths == 0 .. h_count

\* Mutant: the line on display is parked at every step back.
Parks_Always(nav) == nav > 0

Parks(nav) == h_nav = 0 /\ nav > 0

\* hist_nav(): one entry older (1) or newer (-1).
hist_nav(step) ==
    LET nav == h_nav + step IN
    IF nav \notin Depths THEN UNCHANGED <<navVars, ed>>
    ELSE /\ h_nav' = nav
         /\ h_saved' = IF Parks(nav) THEN Take(ed.text, HLEN - 1) ELSE h_saved
         /\ live' = IF h_nav = 0 THEN ed.text ELSE live
         /\ ed' = set_line(IF nav = 0 THEN h_saved ELSE hist[Slot(nav)])
-----------------------------------------------------------------------------
\* edit() is called, and returns at once when no read is pending.
CallEdit(active) == phase' = IF active THEN "edit" ELSE "recv"

\* MSG_IRQ: drain_rx() reads the UART until it is empty, then edit().
Irq ==
    /\ phase = "recv"
    /\ phase' = "drain"
    /\ UNCHANGED <<keyboard, ringVars, histVars, navVars, reqVars, ed, escVars>>

Receive(b) ==
    /\ phase = "drain"
    /\ ring_push(b)
    /\ UNCHANGED <<keyboard, histVars, navVars, reqVars, ed, escVars, phase>>

DrainEnds ==
    /\ phase = "drain"
    /\ CallEdit(rd_active)
    /\ UNCHANGED <<keyboard, ringVars, histVars, navVars, reqVars, ed, escVars>>

\* Mutant: a request waits for the next interrupt.
Readline_NoEdit(r, max) ==
    /\ phase = "recv" /\ r \notin waiting
    /\ rd_active' = TRUE /\ rd_from' = r /\ rd_max' = max
    /\ waiting' = waiting \cup {r}
    /\ ed' = NoLine /\ esc' = 0 /\ h_nav' = 0
    /\ UNCHANGED <<keyboard, ringVars, histVars, h_saved, live, csi_num, phase>>

\* MSG_READLINE: replaces a pending request; type-ahead is edited at once.
Readline(r, max) ==
    /\ phase = "recv" /\ r \notin waiting
    /\ rd_active' = TRUE /\ rd_from' = r /\ rd_max' = max
    /\ waiting' = waiting \cup {r}
    /\ ed' = NoLine /\ esc' = 0 /\ h_nav' = 0
    /\ CallEdit(TRUE)
    /\ UNCHANGED <<keyboard, ringVars, histVars, h_saved, live, csi_num>>
-----------------------------------------------------------------------------
\* One turn of the loop of edit(): the byte c is taken from the ring.
Turn(c) == phase = "edit" /\ ring_pop(c)

EditEnds ==
    /\ phase = "edit" /\ r_head = r_tail
    /\ phase' = "recv"
    /\ UNCHANGED <<keyboard, ringVars, histVars, navVars, reqVars, ed, escVars>>

AfterEsc(c) ==
    /\ esc = 1 /\ Turn(c)
    /\ esc' = IF c \in {"[", "O"} THEN 2 ELSE 0
    /\ csi_num' = 0
    /\ UNCHANGED <<keyboard, histVars, navVars, reqVars, ed, phase>>

CsiDigit(c) ==
    /\ esc = 2 /\ Turn(c) /\ c \in DOMAIN Digits
    /\ csi_num' = LET n == csi_num * 10 + Digits[c] IN IF n < CsiBound THEN n ELSE CsiBound
    /\ UNCHANGED <<keyboard, histVars, navVars, reqVars, ed, esc, phase>>

CsiHistory(c) ==
    /\ esc = 2 /\ Turn(c) /\ c \in {"A", "B"}
    /\ hist_nav(IF c = "A" THEN 1 ELSE -1)
    /\ esc' = 0
    /\ UNCHANGED <<keyboard, histVars, reqVars, csi_num, phase>>

CsiFinal(c) ==
    /\ esc = 2 /\ Turn(c) /\ c \notin DOMAIN Digits \cup {"A", "B"}
    /\ ed' = CsiEdit(ed, c)
    /\ esc' = 0
    /\ UNCHANGED <<keyboard, histVars, navVars, reqVars, csi_num, phase>>

StartEsc(c) ==
    /\ esc = 0 /\ Turn(c) /\ c = "ESC"
    /\ esc' = 1
    /\ UNCHANGED <<keyboard, histVars, navVars, reqVars, ed, csi_num, phase>>

EditKey(c) ==
    /\ esc = 0 /\ Turn(c) /\ c \notin {"ESC", "CR", "CANCEL"}
    /\ ed' = KeyEdit(ed, c)
    /\ UNCHANGED <<keyboard, histVars, navVars, reqVars, escVars, phase>>

\* finish_line() with the line e, and edit() returns.
finish_line(e) ==
    /\ ed' = e
    /\ hist_push(e.text)
    /\ rd_active' = FALSE
    /\ waiting' = waiting \ {rd_from}
    /\ phase' = "recv"
    /\ UNCHANGED <<keyboard, navVars, rd_from, rd_max, escVars>>

Return(c) == esc = 0 /\ Turn(c) /\ c = "CR" /\ finish_line(ed)

Cancel(c) == esc = 0 /\ Turn(c) /\ c = "CANCEL" /\ finish_line(NoLine)

EditStep(c) ==
    \/ AfterEsc(c)
    \/ CsiDigit(c)
    \/ CsiHistory(c)
    \/ CsiFinal(c)
    \/ StartEsc(c)
    \/ EditKey(c)
    \/ Return(c)
    \/ Cancel(c)
-----------------------------------------------------------------------------
\* The driver drains the UART once before its loop.
Init ==
    /\ keyboard \in Keyboards
    /\ ring = [i \in 0 .. RING - 1 |-> Blank] /\ r_head = 0 /\ r_tail = 0
    /\ hist = [i \in 0 .. HMAX - 1 |-> << >>] /\ h_count = 0 /\ h_next = 0
    /\ h_nav = 0 /\ h_saved = << >> /\ live = << >>
    /\ rd_active = FALSE /\ rd_from = Nobody /\ rd_max = 0 /\ waiting = {}
    /\ ed = NoLine /\ esc = 0 /\ csi_num = 0
    /\ phase = "drain"

Next ==
    \/ Irq
    \/ \E b \in keyboard : Receive(b)
    \/ DrainEnds
    \/ \E r \in Readers, max \in MaxLens : Readline(r, max)
    \/ \E c \in keyboard : EditStep(c)
    \/ EditEnds

\* The driver does not stop inside its loops, and a burst of bytes ends.
Spec ==
    /\ Init /\ [][Next]_vars
    /\ WF_vars(DrainEnds)
    /\ WF_vars(\E c \in keyboard : EditStep(c))
    /\ WF_vars(EditEnds)
-----------------------------------------------------------------------------
Bytes    == UNION Keyboards
LinesTo(n) == UNION {[1 .. k -> Bytes \ Control] : k \in 0 .. n}

(* The types of the driver's variables; a history entry has room for its   *)
(* line, and the navigation depth stays within the entries.                *)
ConsoleTypeOK ==
    /\ keyboard \in Keyboards
    /\ ring \in [0 .. RING - 1 -> Bytes \cup {Blank}]
    /\ {r_head, r_tail} \subseteq 0 .. RING - 1
    /\ hist \in [0 .. HMAX - 1 -> LinesTo(HLEN - 1)]
    /\ h_count \in 0 .. HMAX /\ h_next \in 0 .. HMAX - 1
    /\ h_nav \in 0 .. h_count
    /\ {h_saved, live, ed.text} \subseteq LinesTo(HLEN - 1) /\ ed.pos \in Nat
    /\ rd_active \in BOOLEAN /\ rd_from \in Readers \cup {Nobody}
    /\ rd_max \in MaxLens \cup {0}
    /\ esc \in 0 .. 2 /\ csi_num \in Nat
    /\ phase \in {"recv", "drain", "edit"} /\ waiting \subseteq Readers

(* Whatever keys were pressed and whichever history entries were recalled, *)
(* the cursor of the line being edited is inside it, and the client's      *)
(* buffer has room for the line and for the zero finish_line() writes.     *)
LineFits == rd_active => ed.pos <= Len(ed.text) /\ Len(ed.text) < rd_max

\* The bytes between r_tail and r_head, oldest first.
Queue == [i \in 1 .. (r_head - r_tail + RING) % RING |-> ring[(r_tail + i - 1) % RING]]

(* The ring is a queue of RING - 1 places: bytes are edited in the order   *)
(* they arrived, and one that finds it full disturbs no earlier one        *)
(* (ring_push, ring_pop).                                                  *)
RingIsQueue ==
    [][ \/ Queue' = Queue
        \/ phase = "drain" /\ Len(Queue) < RING - 1 /\ \E b \in keyboard : Queue' = Append(Queue, b)
        \/ phase = "edit" /\ Queue # << >> /\ Queue' = Tail(Queue) ]_vars

\* The lines the up key reaches, newest first.
Recall == [i \in 1 .. h_count |-> hist[Slot(i)]]

(* The history holds the last HMAX lines handed to clients, newest first,  *)
(* without empty ones and repetitions, and nothing else changes it         *)
(* (hist_push and the indices hist_nav computes).                          *)
HistoryIsRecent ==
    [][ LET line == ed'.text
            new  == rd_active /\ ~rd_active' /\ line # << >> /\ Take(Recall, 1) # <<line>>
        IN  Recall' = IF new THEN Take(<<line>> \o Recall, HMAX) ELSE Recall ]_vars

(* Coming back from the history, by a key and not by another request,      *)
(* shows the line that was being typed when it was entered, whatever was   *)
(* edited in between (hist_nav).                                           *)
LiveLineKept ==
    [][ (rd_active /\ phase = "edit" /\ h_nav > 0 /\ h_nav' = 0) => ed'.text = live ]_vars

(* A client that waits while two returns have arrived one after the other  *)
(* (the first may end an escape sequence) gets its line: no line stays in  *)
(* the ring while the driver waits for messages (MSG_READLINE, edit).      *)
(* With one client: a request that replaces a pending one leaves the first *)
(* client without an answer.                                               *)
Answered ==
    \A r \in Readers :
        (r \in waiting /\ \E i \in 1 .. Len(Queue) - 1 : Queue[i] = "CR" /\ Queue[i + 1] = "CR")
            ~> r \notin waiting
=============================================================================
