---------------------------------- MODULE Vga ----------------------------------
(***************************************************************************)
(* The VGA terminal (servers/vga/main.c): a text screen, the PS/2 keyboard *)
(* behind its interrupt, a ring of decoded keys, and a line editor.        *)
(*                                                                         *)
(* The driver is one thread that serves one message at a time; its loops   *)
(* put one character or edit one key a step, with the keyboard going on.   *)
(* Scancodes are named by their keys.                                      *)
(***************************************************************************)
EXTENDS Integers, Sequences

CONSTANTS
    COLS, ROWS,          \* the screen (80 by 25)
    KRING,               \* size of the key ring (128)
    Pressed,             \* keys that users press
    Texts,               \* what clients print: sequences of characters
    MaxLens,             \* the buffer sizes they pass
    Early                \* keys may be pressed before the driver has started

Letters == [k \in {"a", "b"} |-> IF k = "a" THEN <<"a", "A">> ELSE <<"b", "B">>]
(* "TAB" stands for Tab and Esc, which have a character the editor drops.  *)
Keys == DOMAIN Letters \cup {"NL", "BS", "TAB", "SHIFT", "unshift", "other"}

ASSUME VgaAssumption ==
    /\ COLS \in Nat \ {0} /\ ROWS \in Nat \ {0}
    /\ KRING \in Nat /\ KRING > 1
    /\ Pressed \subseteq Keys
    /\ Texts \subseteq Seq(STRING)
    /\ MaxLens \subseteq Nat \ {0}
    /\ Early \in BOOLEAN

VARIABLES
    kbd,                 \* controller: its data register, whether that is full, and
                         \* (of the user) whether shift was down with that key
    irqs,                \* notifications the driver has not received
    unmasked,            \* the driver has registered for the line
    shift,
    kr, kr_head, kr_tail,
    screen,              \* the cells VGA[] with cur_r and cur_c
    rd_active, rd_max, rd_buf,
    phase,               \* where the driver is
    text                 \* what is left to print

kbdVars == <<kbd, irqs, unmasked>>
krVars  == <<kr, kr_head, kr_tail>>
rdVars  == <<rd_active, rd_max, rd_buf>>
vgavars == <<kbdVars, shift, krVars, screen, rdVars, phase, text>>
-----------------------------------------------------------------------------
Cells == 0 .. ROWS * COLS - 1
LastRow == (ROWS - 1) * COLS

\* Mutant: the copy stops one row short.
scroll_Short(cells) == [i \in Cells |-> IF i < LastRow - COLS THEN cells[i + COLS] ELSE " "]

scroll(cells) == [i \in Cells |-> IF i < LastRow THEN cells[i + COLS] ELSE " "]

NextRow(s) ==
    IF s.cur_r + 1 >= ROWS THEN [cells |-> scroll(s.cells), cur_r |-> ROWS - 1, cur_c |-> 0]
    ELSE [s EXCEPT !.cur_r = @ + 1, !.cur_c = 0]

Put(s, ch) == [s EXCEPT !.cells[s.cur_r * COLS + s.cur_c] = ch]

\* Mutant: the character is blanked but the cursor stays.
Rubout_InPlace(s) == IF s.cur_c > 0 THEN Put(s, " ") ELSE s

\* Backspace stops at the left margin, in a wrapped line too.
Rubout(s) == IF s.cur_c > 0 THEN Put([s EXCEPT !.cur_c = @ - 1], " ") ELSE s

vga_putc(s, ch) ==
    CASE ch = "NL" -> NextRow(s)
      [] ch = "BS" -> Rubout(s)
      [] ch = "CR" -> [s EXCEPT !.cur_c = 0]
      [] OTHER -> IF s.cur_c + 1 >= COLS THEN NextRow(Put(s, ch))
                  ELSE [Put(s, ch) EXCEPT !.cur_c = @ + 1]

vga_clear == [cells |-> [i \in Cells |-> " "], cur_r |-> 0, cur_c |-> 0]
-----------------------------------------------------------------------------
(* The keyboard controller.  It holds one key until that is read, and a    *)
(* key raises the line; a line that was raised while masked interrupts     *)
(* when it is unmasked.  An empty controller gives the last key again.     *)
UserShift(k) == IF k \in {"SHIFT", "unshift"} THEN k = "SHIFT" ELSE kbd.down

Press(k) ==
    /\ ~kbd.full
    /\ phase \in {"banner", "go", "drain"} => Early
    /\ kbd' = [key |-> k, full |-> TRUE, down |-> UserShift(k)]
    /\ irqs' = IF unmasked THEN irqs + 1 ELSE irqs
    /\ UNCHANGED <<unmasked, shift, krVars, screen, rdVars, phase, text>>

KeyRead == kbd' = [kbd EXCEPT !.full = FALSE]

\* Mutant: a full ring is not recognised.
kr_push_Overruns(c) ==
    /\ kr' = [kr EXCEPT ![kr_head] = c]
    /\ kr_head' = (kr_head + 1) % KRING

\* One slot stays free; a key that finds the ring full is dropped.
kr_push(c) ==
    LET n == (kr_head + 1) % KRING IN
    IF n = kr_tail THEN UNCHANGED <<kr, kr_head>>
    ELSE kr' = [kr EXCEPT ![kr_head] = c] /\ kr_head' = n

\* map_lo[] and map_hi[]; the other keys give no character.
Decoded(k, shifted) ==
    IF k \in DOMAIN Letters THEN {Letters[k][IF shifted THEN 2 ELSE 1]}
    ELSE {k} \cap {"NL", "BS", "TAB"}

\* Mutant: the release of shift is ignored like other releases.
kbd_drain_Sticky ==
    /\ KeyRead
    /\ shift' = (shift \/ kbd.key = "SHIFT")
    /\ IF Decoded(kbd.key, shift) = {} THEN UNCHANGED <<kr, kr_head>>
       ELSE \E c \in Decoded(kbd.key, shift) : kr_push(c)
    /\ UNCHANGED kr_tail

kbd_drain ==
    /\ KeyRead
    /\ shift' = IF kbd.key \in {"SHIFT", "unshift"} THEN kbd.key = "SHIFT" ELSE shift
    /\ IF Decoded(kbd.key, shift) = {} THEN UNCHANGED <<kr, kr_head>>
       ELSE \E c \in Decoded(kbd.key, shift) : kr_push(c)
    /\ UNCHANGED kr_tail

VgaInit ==
    /\ kbd = [key |-> "other", full |-> FALSE, down |-> FALSE] /\ irqs = 0 /\ unmasked = FALSE
    /\ shift = FALSE
    /\ kr = [i \in 0 .. KRING - 1 |-> " "] /\ kr_head = 0 /\ kr_tail = 0
    /\ screen = vga_clear
    /\ rd_active = FALSE /\ rd_max = 0 /\ rd_buf = << >>
    /\ phase = "banner" /\ text \in Texts

PutNext ==
    /\ phase \in {"banner", "write"} /\ text # << >>
    /\ screen' = vga_putc(screen, Head(text))
    /\ text' = Tail(text)
    /\ UNCHANGED <<kbdVars, shift, krVars, rdVars, phase>>

\* The banner is followed by the handshake with init, a text by an answer.
PutEnds ==
    /\ phase \in {"banner", "write"} /\ text = << >>
    /\ phase' = IF phase = "banner" THEN "go" ELSE "recv"
    /\ UNCHANGED <<kbdVars, shift, krVars, screen, rdVars, text>>

Registers ==
    /\ phase = "go"
    /\ unmasked' = TRUE
    /\ irqs' = IF kbd.full THEN 1 ELSE 0
    /\ phase' = "drain"
    /\ UNCHANGED <<kbd, shift, krVars, screen, rdVars, text>>

DrainPending ==
    /\ phase = "drain"
    /\ KeyRead
    /\ phase' = "recv"
    /\ UNCHANGED <<irqs, unmasked, shift, krVars, screen, rdVars, text>>

Irq ==
    /\ phase = "recv" /\ irqs > 0
    /\ irqs' = irqs - 1
    /\ kbd_drain
    /\ phase' = "edit"
    /\ UNCHANGED <<unmasked, screen, rdVars, text>>

(* The one client prints or asks for a line, and waits for the answer: it  *)
(* does not print while its own request is pending.  (A second client,     *)
(* which the code would serve then, is not modelled.)                      *)
Write(t) ==
    /\ phase = "recv" /\ ~rd_active
    /\ text' = t
    /\ phase' = "write"
    /\ UNCHANGED <<kbdVars, shift, krVars, screen, rdVars>>

\* Mutant: keys typed ahead are left for the next interrupt.
Readline_NoEdit(max) ==
    /\ phase = "recv" /\ ~rd_active
    /\ rd_active' = TRUE /\ rd_max' = max /\ rd_buf' = << >>
    /\ UNCHANGED <<kbdVars, shift, krVars, screen, phase, text>>

Readline(max) ==
    /\ phase = "recv" /\ ~rd_active
    /\ rd_active' = TRUE /\ rd_max' = max /\ rd_buf' = << >>
    /\ phase' = "edit"
    /\ UNCHANGED <<kbdVars, shift, krVars, screen, text>>

\* kr_pop() in edit() returns c.
Pops(c) ==
    /\ phase = "edit" /\ rd_active
    /\ kr_head # kr_tail
    /\ c = kr[kr_tail]
    /\ kr' = [kr EXCEPT ![kr_tail] = " "]
    /\ kr_tail' = (kr_tail + 1) % KRING
    /\ UNCHANGED <<kr_head, kbdVars, shift, rd_max, text>>

HasRoom == Len(rd_buf) + 1 < rd_max

\* The client is answered: it has rd_buf.
FinishLine ==
    /\ Pops("NL")
    /\ screen' = vga_putc(screen, "NL")
    /\ rd_active' = FALSE
    /\ phase' = "recv"
    /\ UNCHANGED rd_buf

EditKey(c) ==
    /\ c # "NL" /\ Pops(c)
    /\ \/ /\ c = "BS" /\ rd_buf # << >>
          /\ rd_buf' = SubSeq(rd_buf, 1, Len(rd_buf) - 1)
          /\ screen' = vga_putc(screen, c)
       \/ /\ c \notin {"BS", "TAB"} /\ HasRoom
          /\ rd_buf' = Append(rd_buf, c)
          /\ screen' = vga_putc(screen, c)
       \/ /\ IF c = "BS" THEN rd_buf = << >> ELSE c = "TAB" \/ ~HasRoom
          /\ UNCHANGED <<rd_buf, screen>>
    /\ UNCHANGED <<rd_active, phase>>

EditEnds ==
    /\ phase = "edit" /\ (~rd_active \/ kr_head = kr_tail)
    /\ phase' = "recv"
    /\ UNCHANGED <<kbdVars, shift, krVars, screen, rdVars, text>>

Chars == {"NL", "BS", "TAB"} \cup UNION {{Letters[k][1], Letters[k][2]} : k \in DOMAIN Letters}

Driver ==
    \/ PutNext \/ PutEnds \/ Registers \/ DrainPending \/ Irq
    \/ FinishLine \/ EditEnds \/ \E c \in Chars : EditKey(c)

VgaNext ==
    \/ Driver
    \/ \E k \in Pressed : Press(k)
    \/ \E t \in Texts : Write(t)
    \/ \E max \in MaxLens : Readline(max)

VgaSpec == VgaInit /\ [][VgaNext]_vgavars
-----------------------------------------------------------------------------
(* The driver's variables keep their types, and the cursor stays on the    *)
(* screen.                                                                 *)
VgaTypeOK ==
    /\ kbd.key \in Keys /\ irqs \in 0 .. 2
    /\ kr \in [0 .. KRING - 1 -> Chars \cup {" "}] /\ {kr_head, kr_tail} \subseteq 0 .. KRING - 1
    /\ DOMAIN screen.cells = Cells
    /\ screen.cur_r \in 0 .. ROWS - 1 /\ screen.cur_c \in 0 .. COLS - 1
    /\ phase \in {"banner", "go", "drain", "recv", "edit", "write"}

Here == screen.cur_r * COLS + screen.cur_c

(* Nothing before the cursor is ever changed, but for the character that   *)
(* is rubbed out: it stays, or all of it moves up by one row when the      *)
(* cursor would leave the screen (vga_putc, scroll).                       *)
TextKept ==
    [][ \E up \in {0, COLS} :
          LET rubs == /\ up = 0 /\ screen'.cur_r = screen.cur_r /\ screen'.cur_c = screen.cur_c - 1
                      /\ phase = "edit" \/ Head(text) = "BS" IN
          /\ up # 0 => screen.cur_r = ROWS - 1 /\ screen'.cur_r = ROWS - 1
          /\ \A i \in Cells :
                up <= i /\ i < Here =>
                    screen'.cells[i - up] = IF rubs /\ i = Here - 1 THEN " " ELSE screen.cells[i] ]_vgavars

\* The keys in the ring, oldest first.
Queue == [i \in 1 .. (kr_head - kr_tail + KRING) % KRING |-> kr[(kr_tail + i - 1) % KRING]]

(* Every key is decoded once, in order and as it was typed, shifted or     *)
(* not, even though the shift key itself arrives as a key (kbd_drain and   *)
(* the ring); one that finds the ring full is lost and disturbs no other.  *)
(* This is so if nobody types before the driver has started (~Early): a    *)
(* byte that main() drains is typed by the interrupt it left behind, and a *)
(* shift key among them is forgotten.                                      *)
KeysAsTyped ==
    [][ \/ Queue' = Queue
        \/ /\ kbd.full /\ ~kbd'.full /\ Len(Queue) < KRING - 1
           /\ \E c \in Decoded(kbd.key, kbd.down) : Queue' = Append(Queue, c)
        \/ phase = "edit" /\ Queue # << >> /\ Queue' = Tail(Queue) ]_vgavars

(* "Drain any pending byte" (main): what the driver has drained is not     *)
(* typed, so an interrupt always finds a key that was not yet read.  Not   *)
(* so if there is such a byte (Early).                                     *)
InterruptMeansKey == irqs > 0 /\ phase = "recv" => kbd.full

\* Interrupts on their way to the driver, less the key they are about.
Excess == irqs - (IF kbd.full THEN 1 ELSE 0)

(* Whoever types, and whenever: a key in the controller has an interrupt   *)
(* on its way, or the driver would never read it and the controller hold   *)
(* back all later keys; and from u_inb() in main() on no interrupt comes   *)
(* to be without a key, so that at most one, that of the byte drained      *)
(* there, ever finds the controller empty.                                 *)
KeysAnnounced ==
    /\ [](unmasked => Excess \in {0, 1})
    /\ [][unmasked /\ phase # "drain" => Excess' <= Excess]_vgavars

(* A client that waits for a line waits for keys, never for keys the       *)
(* driver already has (edit() after MSG_READLINE and after an interrupt).  *)
NoKeyWaits == rd_active /\ phase = "recv" => Queue = << >>

(* To the left of the cursor the screen shows the end of the line being    *)
(* edited, so far as it is in the same row.                                *)
EchoShowsLine ==
    rd_active =>
        \A i \in 1 .. Len(rd_buf) :
            LET back == Len(rd_buf) + 1 - i IN
            back <= screen.cur_c =>
                screen.cells[screen.cur_r * COLS + screen.cur_c - back] = rd_buf[i]
=============================================================================
