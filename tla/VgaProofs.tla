------------------------------ MODULE VgaProofs -------------------------------
(***************************************************************************)
(* Proofs about the VGA terminal, for every size of the screen and of the  *)
(* key ring, every text and every typist.                                  *)
(***************************************************************************)
EXTENDS Vga, SeqProofs

-----------------------------------------------------------------------------
(* The screen.                                                             *)
\* What may stand in a cell.
Glyphs == Chars \cup {" "} \cup UNION {{t[i] : i \in DOMAIN t} : t \in Texts}

Screens == [cells : [Cells -> Glyphs], cur_r : 0 .. ROWS - 1, cur_c : 0 .. COLS - 1]

LEMMA Blank == " " \in Glyphs
BY DEF Glyphs

LEMMA TextType == ASSUME NEW t \in Texts PROVE t \in Seq(Glyphs)
<1>1. t \in Seq(STRING)
  BY VgaAssumption
<1>2. Len(t) \in Nat /\ DOMAIN t = 1 .. Len(t) /\ t = [i \in 1 .. Len(t) |-> t[i]]
  BY <1>1
<1>3. ASSUME NEW i \in 1 .. Len(t) PROVE t[i] \in Glyphs
  <2>1. t[i] \in {t[j] : j \in DOMAIN t}
    BY <1>2
  <2>2. {t[j] : j \in DOMAIN t} \in {{u[j] : j \in DOMAIN u} : u \in Texts}
    OBVIOUS
  <2> QED
    BY <2>1, <2>2 DEF Glyphs
<1>4. t \in [1 .. Len(t) -> Glyphs]
  BY <1>2, <1>3
<1> QED
  BY <1>2, <1>4

LEMMA Sizes == COLS \in Nat \ {0} /\ ROWS \in Nat \ {0}
BY VgaAssumption

LEMMA Rows ==
    ASSUME NEW r \in 0 .. ROWS - 1
    PROVE  /\ r * COLS \in Nat /\ LastRow \in Nat /\ ROWS * COLS \in Nat
           /\ r * COLS <= LastRow
           /\ ROWS * COLS = LastRow + COLS
<1>1. PICK d \in Nat : r + d = ROWS - 1
  BY Sizes
<1>2. d * COLS \in Nat /\ r * COLS \in Nat /\ (ROWS - 1) * COLS \in Nat
  BY Sizes
<1>3. (r + d) * COLS = r * COLS + d * COLS
  BY Sizes
<1>4. ROWS * COLS = (ROWS - 1) * COLS + COLS
  BY Sizes
<1>5. r * COLS <= (ROWS - 1) * COLS
  BY <1>1, <1>2, <1>3
<1> QED
  BY Sizes, <1>2, <1>4, <1>5 DEF LastRow

At(s) == s.cur_r * COLS + s.cur_c

LEMMA CursorOnScreen == ASSUME NEW s \in Screens PROVE At(s) \in Cells
<1>1. s.cur_r \in 0 .. ROWS - 1 /\ s.cur_c \in 0 .. COLS - 1
  BY DEF Screens
<1>2. /\ s.cur_r * COLS \in Nat /\ LastRow \in Nat /\ ROWS * COLS \in Nat
      /\ s.cur_r * COLS <= LastRow /\ ROWS * COLS = LastRow + COLS
  BY <1>1, Rows
<1> QED
  BY <1>1, <1>2, Sizes DEF At, Cells

LEMMA AtFacts ==
    ASSUME NEW s \in Screens
    PROVE  /\ At(s) \in Nat /\ At(s) \in Cells /\ s.cur_c \in Nat /\ s.cur_c <= At(s)
           /\ \A j \in Nat : j <= At(s) => j \in Cells
<1>1. s.cur_r \in 0 .. ROWS - 1 /\ s.cur_c \in 0 .. COLS - 1
  BY DEF Screens
<1>2. s.cur_r * COLS \in Nat /\ ROWS * COLS \in Nat
  BY <1>1, Rows
<1>3. At(s) \in Cells
  BY CursorOnScreen
<1>4. At(s) \in Nat /\ s.cur_c \in Nat /\ s.cur_c <= At(s)
  BY <1>1, <1>2, Sizes DEF At
<1> QED
  BY <1>2, <1>3, <1>4 DEF Cells

LEMMA AtMoves ==
    ASSUME NEW s \in Screens, NEW n, n.cur_r = s.cur_r, n.cur_c \in Int
    PROVE  At(n) = At(s) + (n.cur_c - s.cur_c)
<1>1. s.cur_r * COLS \in Nat /\ s.cur_c \in Int
  BY Rows, Sizes DEF Screens
<1>2. At(n) = s.cur_r * COLS + n.cur_c
  BY DEF At
<1> QED
  BY <1>1, <1>2 DEF At

LEMMA PutKeeps ==
    ASSUME NEW s \in Screens, NEW ch \in Glyphs
    PROVE  /\ Put(s, ch) \in Screens
           /\ Put(s, ch).cur_r = s.cur_r /\ Put(s, ch).cur_c = s.cur_c
           /\ Put(s, ch).cells = [s.cells EXCEPT ![At(s)] = ch]
<1>1. Put(s, ch) = [s EXCEPT !.cells = [s.cells EXCEPT ![At(s)] = ch]]
  BY DEF Put, Screens, At
<1>2. [s.cells EXCEPT ![At(s)] = ch] \in [Cells -> Glyphs]
  BY DEF Screens
<1> QED
  BY <1>1, <1>2 DEF Screens

\* The rows move up by one, or stay.
LEMMA NextRowKeeps ==
    ASSUME NEW s \in Screens
    PROVE  /\ NextRow(s) \in Screens /\ NextRow(s).cur_c = 0
           /\ \/ NextRow(s).cells = s.cells /\ NextRow(s).cur_r # s.cur_r
              \/ /\ s.cur_r = ROWS - 1 /\ NextRow(s).cur_r = ROWS - 1
                 /\ \A i \in Cells : COLS <= i => NextRow(s).cells[i - COLS] = s.cells[i]
<1>1. CASE s.cur_r + 1 >= ROWS
  <2>1. NextRow(s) = [cells |-> scroll(s.cells), cur_r |-> ROWS - 1, cur_c |-> 0]
    BY <1>1 DEF NextRow
  <2>2. s.cur_r = ROWS - 1
    BY <1>1, Sizes DEF Screens
  <2>3. LastRow \in Nat /\ ROWS * COLS \in Nat /\ ROWS * COLS = LastRow + COLS
    BY <2>2, Rows DEF Screens
  <2>4. scroll(s.cells) \in [Cells -> Glyphs]
    <3>1. \A i \in Cells : i < LastRow => i + COLS \in Cells
      BY <2>3, Sizes DEF Cells
    <3>2. ASSUME NEW i \in Cells
          PROVE  (IF i < LastRow THEN s.cells[i + COLS] ELSE " ") \in Glyphs
      <4>1. s.cells \in [Cells -> Glyphs]
        BY DEF Screens
      <4>2. CASE i < LastRow
        BY <3>1, <4>1, <4>2
      <4>3. CASE ~(i < LastRow)
        BY <4>3, Blank
      <4> QED
        BY <4>2, <4>3
    <3> QED
      BY <3>2 DEF scroll
  <2>5. ASSUME NEW i \in Cells, COLS <= i PROVE scroll(s.cells)[i - COLS] = s.cells[i]
    <3>1. i - COLS \in Cells /\ i - COLS < LastRow /\ (i - COLS) + COLS = i
      BY <2>3, <2>5, Sizes DEF Cells
    <3> QED
      BY <3>1 DEF scroll
  <2> QED
    BY <2>1, <2>2, <2>4, <2>5, Sizes DEF Screens
<1>2. CASE ~(s.cur_r + 1 >= ROWS)
  <2>1. NextRow(s) = [cells |-> s.cells, cur_r |-> s.cur_r + 1, cur_c |-> 0]
    BY <1>2 DEF NextRow, Screens
  <2>2. s.cur_r + 1 \in 0 .. ROWS - 1
    BY <1>2, Sizes DEF Screens
  <2> QED
    BY <2>1, <2>2, Sizes DEF Screens
<1> QED
  BY <1>1, <1>2

\* What vga_putc() leaves of a screen; `may' if it may rub out.
Kept(s, new, may) ==
    \E up \in {0, COLS} :
        LET rubs == up = 0 /\ new.cur_r = s.cur_r /\ new.cur_c = s.cur_c - 1 /\ may IN
        /\ up # 0 => s.cur_r = ROWS - 1 /\ new.cur_r = ROWS - 1
        /\ \A i \in Cells :
              up <= i /\ i < At(s) =>
                  new.cells[i - up] = IF rubs /\ i = At(s) - 1 THEN " " ELSE s.cells[i]

LEMMA KeptStill ==
    ASSUME NEW s \in Screens, NEW new \in Screens, NEW may,
           \A i \in Cells : i < At(s) => new.cells[i] = s.cells[i],
           ~(new.cur_r = s.cur_r /\ new.cur_c = s.cur_c - 1 /\ may)
    PROVE  Kept(s, new, may)
<1>1. \A i \in Cells : i - 0 = i
  BY Sizes DEF Cells
<1> QED
  BY <1>1 DEF Kept

\* A character that may have filled the row.
LEMMA KeptRow ==
    ASSUME NEW s \in Screens, NEW p \in Screens, NEW may,
           p.cur_r = s.cur_r, \A i \in Cells : i < At(s) => p.cells[i] = s.cells[i]
    PROVE  NextRow(p) \in Screens /\ NextRow(p).cur_c = 0 /\ Kept(s, NextRow(p), may)
<1>1. /\ NextRow(p) \in Screens /\ NextRow(p).cur_c = 0
      /\ \/ NextRow(p).cells = p.cells /\ NextRow(p).cur_r # p.cur_r
         \/ /\ p.cur_r = ROWS - 1 /\ NextRow(p).cur_r = ROWS - 1
            /\ \A i \in Cells : COLS <= i => NextRow(p).cells[i - COLS] = p.cells[i]
  BY NextRowKeeps
<1>2. CASE NextRow(p).cells = p.cells /\ NextRow(p).cur_r # p.cur_r
  BY <1>1, <1>2, KeptStill
<1>3. CASE /\ p.cur_r = ROWS - 1 /\ NextRow(p).cur_r = ROWS - 1
           /\ \A i \in Cells : COLS <= i => NextRow(p).cells[i - COLS] = p.cells[i]
  <2>1. COLS # 0
    BY Sizes
  <2>2. \A i \in Cells : COLS <= i /\ i < At(s) => NextRow(p).cells[i - COLS] = s.cells[i]
    BY <1>3
  <2> QED
    BY <1>1, <1>3, <2>1, <2>2 DEF Kept
<1> QED
  BY <1>1, <1>2, <1>3

LEMMA PutcKeeps ==
    ASSUME NEW s \in Screens, NEW ch \in Glyphs, NEW may \in BOOLEAN,
           ch = "BS" => may, ch = "CR" => ~may
    PROVE  vga_putc(s, ch) \in Screens /\ Kept(s, vga_putc(s, ch), may)
<1>1. At(s) \in Cells /\ \A i \in Cells : i < At(s) => i # At(s)
  BY CursorOnScreen DEF Cells
<1>2. CASE ch = "NL"
  BY <1>2, KeptRow DEF vga_putc
<1>3. CASE ch = "BS"
  <2>1. vga_putc(s, ch) = Rubout(s)
    BY <1>3 DEF vga_putc
  <2>2. CASE ~(s.cur_c > 0)
    <3>1. vga_putc(s, ch) = s /\ s.cur_c # s.cur_c - 1
      BY <2>1, <2>2, Sizes DEF Rubout, Screens
    <3> QED
      BY <3>1, KeptStill
  <2>3. CASE s.cur_c > 0
    <3> DEFINE l == [s EXCEPT !.cur_c = @ - 1]
               p == Put(l, " ")
    <3>1. l \in Screens /\ l.cells = s.cells /\ l.cur_r = s.cur_r /\ l.cur_c = s.cur_c - 1
      BY <2>3, Sizes DEF Screens
    <3>2. vga_putc(s, ch) = p
      BY <2>1, <2>3 DEF Rubout
    <3> HIDE DEF l
    <3>3. At(l) = At(s) - 1
      BY <3>1, Rows, Sizes DEF At, Screens
    <3>4. /\ p \in Screens /\ p.cur_r = s.cur_r /\ p.cur_c = s.cur_c - 1
          /\ p.cells = [s.cells EXCEPT ![At(s) - 1] = " "]
      <4>1. /\ p \in Screens /\ p.cur_r = l.cur_r /\ p.cur_c = l.cur_c
            /\ p.cells = [l.cells EXCEPT ![At(l)] = " "]
        BY ONLY <3>1, PutKeeps, Blank
      <4> HIDE DEF p
      <4> QED
        BY ONLY <3>1, <3>3, <4>1
    <3> HIDE DEF p
    <3>5. \A i \in Cells : i < At(s) =>
              p.cells[i - 0] = IF i = At(s) - 1 THEN " " ELSE s.cells[i]
      <4>1. \A i \in Cells : i - 0 = i
        BY Sizes DEF Cells
      <4>2. s.cells \in [Cells -> Glyphs]
        BY DEF Screens
      <4> QED
        BY <3>4, <4>1, <4>2
    <3> QED
      BY <1>3, <3>2, <3>4, <3>5 DEF Kept
  <2> QED
    BY <2>2, <2>3
<1>4. CASE ch = "CR"
  <2> DEFINE n == [s EXCEPT !.cur_c = 0]
  <2>1. vga_putc(s, ch) = n /\ n \in Screens /\ n.cells = s.cells
    BY <1>4, Sizes DEF vga_putc, Screens
  <2> QED
    BY <1>4, <2>1, KeptStill
<1>5. CASE ch \notin {"NL", "BS", "CR"}
  <2> DEFINE p == Put(s, ch)
             n == [p EXCEPT !.cur_c = @ + 1]
  <2>1. /\ p \in Screens /\ p.cur_r = s.cur_r /\ p.cur_c = s.cur_c
        /\ p.cells = [s.cells EXCEPT ![At(s)] = ch]
    BY PutKeeps
  <2>2. \A i \in Cells : i < At(s) => p.cells[i] = s.cells[i]
    BY <1>1, <2>1 DEF Screens
  <2>3. vga_putc(s, ch) = IF s.cur_c + 1 >= COLS THEN NextRow(p) ELSE n
    BY <1>5 DEF vga_putc
  <2> HIDE DEF p
  <2>4. CASE s.cur_c + 1 >= COLS
    BY <1>5, <2>1, <2>2, <2>3, <2>4, KeptRow
  <2>5. CASE ~(s.cur_c + 1 >= COLS)
    <3>1. n \in Screens /\ n.cells = p.cells /\ n.cur_c # s.cur_c - 1
      BY <2>1, <2>5, Sizes DEF Screens
    <3> HIDE DEF n
    <3> QED
      BY <1>5, <2>2, <2>3, <2>5, <3>1, KeptStill
  <2> QED
    BY <2>4, <2>5
<1> QED
  BY <1>2, <1>3, <1>4, <1>5

LEMMA PutcType ==
    ASSUME NEW s \in Screens, NEW ch \in Glyphs
    PROVE  vga_putc(s, ch) \in Screens
<1>1. (ch = "BS") \in BOOLEAN /\ (ch = "CR" => ~(ch = "BS"))
  OBVIOUS
<1> QED
  BY <1>1, PutcKeeps

\* A character of the line under edit goes to the cell at the cursor.
LEMMA PutcPlain ==
    ASSUME NEW s \in Screens, NEW ch \in Glyphs, ch \notin {"NL", "BS", "CR"}
    PROVE  \/ vga_putc(s, ch).cur_c = 0
           \/ /\ vga_putc(s, ch).cur_r = s.cur_r /\ vga_putc(s, ch).cur_c = s.cur_c + 1
              /\ vga_putc(s, ch).cells = [s.cells EXCEPT ![At(s)] = ch]
<1> DEFINE p == Put(s, ch)
           n == [p EXCEPT !.cur_c = @ + 1]
<1>1. /\ p \in Screens /\ p.cur_r = s.cur_r /\ p.cur_c = s.cur_c
      /\ p.cells = [s.cells EXCEPT ![At(s)] = ch]
  BY PutKeeps
<1>2. vga_putc(s, ch) = IF s.cur_c + 1 >= COLS THEN NextRow(p) ELSE n
  BY DEF vga_putc
<1> HIDE DEF p
<1>3. n.cur_r = s.cur_r /\ n.cur_c = s.cur_c + 1 /\ n.cells = p.cells
  BY <1>1 DEF Screens
<1>4. NextRow(p).cur_c = 0
  BY <1>1, NextRowKeeps
<1> HIDE DEF n
<1> QED
  BY <1>1, <1>2, <1>3, <1>4

LEMMA PutcRubs ==
    ASSUME NEW s \in Screens
    PROVE  \/ vga_putc(s, "BS") = s /\ s.cur_c = 0
           \/ /\ vga_putc(s, "BS").cur_r = s.cur_r /\ vga_putc(s, "BS").cur_c = s.cur_c - 1
              /\ vga_putc(s, "BS").cells = [s.cells EXCEPT ![At(s) - 1] = " "]
<1>1. vga_putc(s, "BS") = Rubout(s)
  BY DEF vga_putc
<1>2. CASE ~(s.cur_c > 0)
  <2>1. s.cur_c = 0
    BY <1>2, AtFacts
  <2>2. Rubout(s) = s
    BY <1>2 DEF Rubout
  <2> QED
    BY <1>1, <2>1, <2>2
<1>3. CASE s.cur_c > 0
  <2> DEFINE l == [s EXCEPT !.cur_c = @ - 1]
  <2>1. l \in Screens /\ l.cells = s.cells /\ l.cur_r = s.cur_r /\ l.cur_c = s.cur_c - 1
    BY <1>3, Sizes DEF Screens
  <2>2. vga_putc(s, "BS") = Put(l, " ")
    BY <1>1, <1>3 DEF Rubout
  <2> HIDE DEF l
  <2>3. At(l) = At(s) - 1
    BY <2>1, Rows, Sizes DEF At, Screens
  <2>4. /\ Put(l, " ") \in Screens
        /\ Put(l, " ").cur_r = l.cur_r /\ Put(l, " ").cur_c = l.cur_c
        /\ Put(l, " ").cells = [l.cells EXCEPT ![At(l)] = " "]
    BY <2>1, PutKeeps, Blank
  <2> QED
    BY <2>1, <2>2, <2>3, <2>4
<1> QED
  BY <1>2, <1>3
-----------------------------------------------------------------------------
(* The line under edit, and what the screen shows of it.                   *)
Shows(s, buf) ==
    \A i \in 1 .. Len(buf) :
        LET back == Len(buf) + 1 - i IN
        back <= s.cur_c => s.cells[At(s) - back] = buf[i]

LEMMA ShowsAppended ==
    ASSUME NEW s \in Screens, NEW buf \in Seq(Glyphs), Shows(s, buf),
           NEW ch \in Glyphs, ch \notin {"NL", "BS", "CR"}
    PROVE  Shows(vga_putc(s, ch), Append(buf, ch))
<1> DEFINE n == vga_putc(s, ch)
           b == Append(buf, ch)
<1>1. Len(buf) \in Nat /\ Len(b) = Len(buf) + 1 /\ b[Len(buf) + 1] = ch
      /\ \A i \in 1 .. Len(buf) : b[i] = buf[i]
  OBVIOUS
<1>2. \/ n.cur_c = 0
      \/ /\ n.cur_r = s.cur_r /\ n.cur_c = s.cur_c + 1
         /\ n.cells = [s.cells EXCEPT ![At(s)] = ch]
  BY PutcPlain
<1> SUFFICES Shows(n, b)
  OBVIOUS
<1> HIDE DEF n, b
<1>3. CASE n.cur_c = 0
  BY <1>1, <1>3 DEF Shows
<1>4. CASE /\ n.cur_r = s.cur_r /\ n.cur_c = s.cur_c + 1
           /\ n.cells = [s.cells EXCEPT ![At(s)] = ch]
  <2>1. At(s) \in Cells /\ At(s) \in Nat /\ s.cur_c \in Nat /\ s.cur_c <= At(s)
    BY AtFacts
  <2>10. At(n) = At(s) + 1
    <3>1. n.cur_c \in Int /\ n.cur_c - s.cur_c = 1
      BY <1>4, <2>1
    <3> QED
      BY <1>4, <3>1, AtMoves
  <2>2. \A j \in Nat : j < At(s) => j \in Cells
    BY <2>1, AtFacts
  <2>3. s.cells \in [Cells -> Glyphs]
    BY DEF Screens
  <2> SUFFICES ASSUME NEW i \in 1 .. Len(b), Len(b) + 1 - i <= n.cur_c
               PROVE  n.cells[At(n) - (Len(b) + 1 - i)] = b[i]
    BY DEF Shows
  <2>4. CASE i = Len(buf) + 1
    <3>1. At(n) - (Len(b) + 1 - i) = At(s)
      BY <1>1, <2>1, <2>10, <2>4
    <3> QED
      BY <1>1, <1>4, <2>1, <2>3, <2>4, <3>1
  <2>5. CASE i # Len(buf) + 1
    <3>1. i \in 1 .. Len(buf) /\ Len(buf) + 1 - i \in 1 .. s.cur_c
      BY <1>1, <1>4, <2>1, <2>5
    <3>2. At(n) - (Len(b) + 1 - i) = At(s) - (Len(buf) + 1 - i)
      BY <1>1, <2>1, <2>10
    <3>3. s.cells[At(s) - (Len(buf) + 1 - i)] = buf[i]
      BY <3>1 DEF Shows
    <3>4. At(s) - (Len(buf) + 1 - i) \in Cells /\ At(s) - (Len(buf) + 1 - i) # At(s)
      BY <2>1, <2>2, <3>1
    <3> QED
      BY <1>1, <1>4, <2>3, <3>1, <3>2, <3>3, <3>4
  <2> QED
    BY <2>4, <2>5
<1> QED
  BY <1>2, <1>3, <1>4

LEMMA ShowsRubbed ==
    ASSUME NEW s \in Screens, NEW buf \in Seq(Glyphs), Shows(s, buf), buf # << >>
    PROVE  Shows(vga_putc(s, "BS"), SubSeq(buf, 1, Len(buf) - 1))
<1> DEFINE n == vga_putc(s, "BS")
           b == SubSeq(buf, 1, Len(buf) - 1)
<1>1. Len(buf) \in Nat \ {0}
  BY EmptySeq
<1>2. Len(b) = Len(buf) - 1 /\ \A i \in 1 .. Len(buf) - 1 : b[i] = buf[i]
  <2>1. \A i \in 1 .. Len(buf) - 1 : buf[i] \in Glyphs
    BY <1>1
  <2> DEFINE m == Len(buf) - 1
  <2>2. m \in Nat /\ 1 \in Int
    BY <1>1
  <2>3. \A i \in 1 .. m : buf[i] \in Glyphs
    BY <2>1
  <2> HIDE DEF m
  <2>4. /\ Len(SubSeq(buf, 1, m)) = IF 1 <= m THEN m - 1 + 1 ELSE 0
        /\ \A i \in 1 .. m - 1 + 1 : SubSeq(buf, 1, m)[i] = buf[1 + i - 1]
    BY <2>2, <2>3, SubSeqProperties
  <2>5. m - 1 + 1 = m /\ \A i \in 1 .. m : 1 + i - 1 = i
    BY <2>2
  <2>6. Len(SubSeq(buf, 1, m)) = m /\ \A i \in 1 .. m : SubSeq(buf, 1, m)[i] = buf[i]
    BY <2>2, <2>4, <2>5
  <2> QED
    BY <2>6 DEF m
<1>3. \/ n = s /\ s.cur_c = 0
      \/ /\ n.cur_r = s.cur_r /\ n.cur_c = s.cur_c - 1
         /\ n.cells = [s.cells EXCEPT ![At(s) - 1] = " "]
  BY PutcRubs
<1> SUFFICES Shows(n, b)
  OBVIOUS
<1> HIDE DEF n, b
<1>4. CASE n = s /\ s.cur_c = 0
  BY <1>1, <1>2, <1>4 DEF Shows
<1>5. CASE /\ n.cur_r = s.cur_r /\ n.cur_c = s.cur_c - 1
           /\ n.cells = [s.cells EXCEPT ![At(s) - 1] = " "]
  <2>1. At(s) \in Cells /\ At(s) \in Nat /\ s.cur_c \in Nat /\ s.cur_c <= At(s)
    BY AtFacts
  <2>10. At(n) = At(s) - 1
    <3>1. n.cur_r = s.cur_r /\ n.cur_c = s.cur_c - 1
      BY <1>5
    <3>2. n.cur_c \in Int
      BY <2>1, <3>1
    <3>3. At(n) = At(s) + (n.cur_c - s.cur_c)
      BY <3>1, <3>2, AtMoves
    <3> QED
      BY <2>1, <3>1, <3>3
  <2>2. \A j \in Nat : j < At(s) => j \in Cells
    BY <2>1, AtFacts
  <2>3. s.cells \in [Cells -> Glyphs]
    BY DEF Screens
  <2> SUFFICES ASSUME NEW i \in 1 .. Len(b), Len(b) + 1 - i <= n.cur_c
               PROVE  n.cells[At(n) - (Len(b) + 1 - i)] = b[i]
    BY DEF Shows
  <2>4. i \in 1 .. Len(buf) /\ i \in 1 .. Len(buf) - 1 /\ Len(buf) + 1 - i \in 2 .. s.cur_c
    <3>1. Len(b) = Len(buf) - 1 /\ n.cur_c = s.cur_c - 1
      BY <1>2, <1>5
    <3> QED
      BY <1>1, <2>1, <3>1
  <2>5. At(n) - (Len(b) + 1 - i) = At(s) - (Len(buf) + 1 - i)
    BY <1>1, <1>2, <2>1, <2>10
  <2>6. s.cells[At(s) - (Len(buf) + 1 - i)] = buf[i]
    BY <2>4 DEF Shows
  <2>7. At(s) - (Len(buf) + 1 - i) \in Cells /\ At(s) - (Len(buf) + 1 - i) # At(s) - 1
    BY <2>1, <2>2, <2>4
  <2> QED
    BY <1>2, <1>5, <2>3, <2>4, <2>5, <2>6, <2>7
<1> QED
  BY <1>3, <1>4, <1>5
-----------------------------------------------------------------------------
(* The driver.  NoKeyWaits and EchoShowsLine need to know only where a     *)
(* line can be pending, and what the variables hold.                       *)
RingChars == Chars \cup {" "}

DriverOK ==
    /\ screen \in Screens
    /\ text \in Seq(Glyphs)
    /\ kr \in [0 .. KRING - 1 -> RingChars]
    /\ kr_head \in 0 .. KRING - 1 /\ kr_tail \in 0 .. KRING - 1
    /\ rd_buf \in Seq(Glyphs)
    /\ phase \in {"banner", "go", "drain", "recv", "edit", "write"}
    /\ rd_active => phase \in {"recv", "edit"}
    /\ rd_active /\ phase = "recv" => kr_head = kr_tail
    /\ rd_active => Shows(screen, rd_buf)

LEMMA RingSize == KRING \in Nat \ {0} /\ KRING > 1 /\ 0 \in 0 .. KRING - 1
BY VgaAssumption

LEMMA CharSets ==
    /\ Chars = {"NL", "BS", "TAB", "a", "A", "b", "B"}
    /\ Chars \subseteq Glyphs /\ Chars \subseteq RingChars /\ " " \in RingChars /\ "CR" \notin Chars
<1>1. /\ DOMAIN Letters = {"a", "b"}
      /\ Letters["a"] = <<"a", "A">> /\ Letters["b"] = <<"b", "B">>
  BY DEF Letters
<1>2. UNION {{Letters[k][1], Letters[k][2]} : k \in DOMAIN Letters} = {"a", "A", "b", "B"}
  BY <1>1
<1> QED
  BY <1>2 DEF Chars, Glyphs, RingChars

\* A key gives at most one character.
LEMMA DecodedChars ==
    ASSUME NEW k, NEW up
    PROVE  Decoded(k, up) \subseteq Chars
<1>1. /\ DOMAIN Letters = {"a", "b"}
      /\ Letters["a"] = <<"a", "A">> /\ Letters["b"] = <<"b", "B">>
  BY DEF Letters
<1>2. CASE k \in DOMAIN Letters
  <2>1. Letters[k][IF up THEN 2 ELSE 1] \in {"a", "A", "b", "B"}
    BY <1>1, <1>2
  <2> QED
    BY <1>2, <2>1, CharSets DEF Decoded
<1>3. CASE k \notin DOMAIN Letters
  BY <1>3, CharSets DEF Decoded
<1> QED
  BY <1>2, <1>3

LEMMA VgaStarts == VgaInit => DriverOK
<1> SUFFICES ASSUME VgaInit PROVE DriverOK
  OBVIOUS
<1>1. screen \in Screens
  <2>1. [i \in Cells |-> " "] \in [Cells -> Glyphs]
    BY Blank
  <2> QED
    <3>1. screen = [cells |-> [i \in Cells |-> " "], cur_r |-> 0, cur_c |-> 0]
      BY DEF VgaInit, vga_clear
    <3>2. 0 \in 0 .. ROWS - 1 /\ 0 \in 0 .. COLS - 1
      BY Sizes
    <3> QED
      BY <2>1, <3>1, <3>2 DEF Screens
<1>2. text \in Seq(Glyphs) /\ rd_buf \in Seq(Glyphs)
  BY TextType, EmptySeq DEF VgaInit
<1>3. kr \in [0 .. KRING - 1 -> RingChars] /\ kr_head \in 0 .. KRING - 1 /\ kr_tail \in 0 .. KRING - 1
  BY RingSize, CharSets DEF VgaInit
<1> QED
  BY <1>1, <1>2, <1>3 DEF VgaInit, DriverOK

\* kr_push() keeps the ring a ring.
LEMMA PushOK ==
    ASSUME DriverOK, NEW c \in Chars, kr_push(c)
    PROVE  kr' \in [0 .. KRING - 1 -> RingChars] /\ kr_head' \in 0 .. KRING - 1
<1>1. (kr_head + 1) % KRING \in 0 .. KRING - 1
  BY RingSize, RingNext DEF DriverOK
<1> QED
  BY <1>1, CharSets DEF kr_push, DriverOK

LEMMA PopOK ==
    ASSUME DriverOK, NEW c, Pops(c)
    PROVE  /\ kr' \in [0 .. KRING - 1 -> RingChars] /\ kr_tail' \in 0 .. KRING - 1
           /\ UNCHANGED <<kr_head, text>>
<1>1. (kr_tail + 1) % KRING \in 0 .. KRING - 1
  BY RingSize, RingNext DEF DriverOK
<1> QED
  BY <1>1, CharSets DEF Pops, DriverOK

LEMMA FinishOK ==
    ASSUME DriverOK, FinishLine
    PROVE  DriverOK'
<1>1. /\ kr' \in [0 .. KRING - 1 -> RingChars] /\ kr_tail' \in 0 .. KRING - 1
      /\ UNCHANGED <<kr_head, text>>
  BY PopOK DEF FinishLine
<1>2. screen' \in Screens
  BY PutcType, CharSets DEF DriverOK, FinishLine
<1> QED
  BY <1>1, <1>2 DEF DriverOK, FinishLine

LEMMA EditKeyOK ==
    ASSUME DriverOK, NEW c \in Chars, EditKey(c)
    PROVE  DriverOK'
<1>1. /\ kr' \in [0 .. KRING - 1 -> RingChars] /\ kr_tail' \in 0 .. KRING - 1
      /\ UNCHANGED <<kr_head, text>>
  BY PopOK DEF EditKey
<1>2. c \in Glyphs /\ c \notin {"NL", "CR"}
  BY CharSets DEF EditKey
<1>3. /\ rd_active /\ phase = "edit" /\ UNCHANGED <<rd_active, phase>>
      /\ screen \in Screens /\ rd_buf \in Seq(Glyphs) /\ Shows(screen, rd_buf)
  BY DEF EditKey, Pops, DriverOK
<1>4. screen' \in Screens /\ rd_buf' \in Seq(Glyphs) /\ Shows(screen', rd_buf')
  <2>1. CASE /\ c = "BS" /\ rd_buf # << >>
             /\ rd_buf' = SubSeq(rd_buf, 1, Len(rd_buf) - 1)
             /\ screen' = vga_putc(screen, c)
    <3>1. rd_buf' \in Seq(Glyphs)
      BY <1>3, <2>1
    <3> QED
      BY <1>2, <1>3, <2>1, <3>1, ShowsRubbed, PutcType
  <2>2. CASE c # "BS" /\ rd_buf' = Append(rd_buf, c) /\ screen' = vga_putc(screen, c)
    BY <1>2, <1>3, <2>2, ShowsAppended, PutcType
  <2>3. CASE UNCHANGED <<rd_buf, screen>>
    BY <1>3, <2>3
  <2> QED
    BY <2>1, <2>2, <2>3 DEF EditKey
<1> QED
  BY <1>1, <1>3, <1>4 DEF DriverOK

LEMMA VgaStep == DriverOK /\ [VgaNext]_vgavars => DriverOK'
<1> SUFFICES ASSUME DriverOK, [VgaNext]_vgavars PROVE DriverOK'
  OBVIOUS
<1>1. CASE UNCHANGED vgavars
  BY <1>1 DEF vgavars, krVars, rdVars, DriverOK
<1>2. CASE PutNext
  <2>1. text # << >> /\ text' = Tail(text) /\ screen' = vga_putc(screen, Head(text))
    BY <1>2 DEF PutNext
  <2>2. Head(text) \in Glyphs /\ text' \in Seq(Glyphs)
    BY <2>1, HeadTailProperties DEF DriverOK
  <2>3. screen' \in Screens
    BY <2>1, <2>2, PutcType DEF DriverOK
  <2> QED
    BY <1>2, <2>2, <2>3 DEF PutNext, DriverOK, krVars, rdVars
<1>3. CASE PutEnds \/ Registers \/ DrainPending
  BY <1>3 DEF PutEnds, Registers, DrainPending, DriverOK, krVars, rdVars
<1>4. CASE Irq
  <2>1. /\ kr' \in [0 .. KRING - 1 -> RingChars] /\ kr_head' \in 0 .. KRING - 1
        /\ kr_tail' = kr_tail
    <3>1. CASE UNCHANGED <<kr, kr_head>>
      BY <1>4, <3>1 DEF Irq, kbd_drain, DriverOK
    <3>2. ASSUME NEW c \in Decoded(kbd.key, shift), kr_push(c)
          PROVE  kr' \in [0 .. KRING - 1 -> RingChars] /\ kr_head' \in 0 .. KRING - 1
      BY <3>2, PushOK, DecodedChars
    <3> QED
      BY <1>4, <3>1, <3>2 DEF Irq, kbd_drain
  <2> QED
    BY <1>4, <2>1 DEF Irq, DriverOK, rdVars
<1>5. CASE FinishLine
  BY <1>5, FinishOK
<1>6. ASSUME NEW c \in Chars, EditKey(c) PROVE DriverOK'
  BY <1>6, EditKeyOK
<1>7. CASE EditEnds
  BY <1>7 DEF EditEnds, DriverOK, krVars, rdVars
<1>8. ASSUME NEW k \in Pressed, Press(k) PROVE DriverOK'
  BY <1>8 DEF Press, DriverOK, krVars, rdVars
<1>9. ASSUME NEW t \in Texts, Write(t) PROVE DriverOK'
  BY <1>9, TextType DEF Write, DriverOK, krVars, rdVars
<1>10. ASSUME NEW max \in MaxLens, Readline(max) PROVE DriverOK'
  BY <1>10, EmptySeq DEF Readline, DriverOK, krVars, Shows
<1> QED
  BY <1>1, <1>2, <1>3, <1>4, <1>5, <1>6, <1>7, <1>8, <1>9, <1>10 DEF VgaNext, Driver

LEMMA DriverOKAlways == VgaSpec => []DriverOK
BY VgaStarts, VgaStep, PTL DEF VgaSpec

\* Keys that the driver has are in the line before it waits for more.
THEOREM VgaNoKeyWaits == VgaSpec => []NoKeyWaits
<1>1. DriverOK => NoKeyWaits
  <2> SUFFICES ASSUME DriverOK, rd_active, phase = "recv" PROVE Queue = << >>
    BY DEF NoKeyWaits
  <2>1. Queue = RingQueue(kr, KRING, kr_head, kr_tail)
    BY DEF Queue, RingQueue
  <2>2. KRING \in Nat \ {0} /\ kr \in [0 .. KRING - 1 -> RingChars]
    BY RingSize DEF DriverOK
  <2>3. kr_head \in 0 .. KRING - 1 /\ kr_tail \in 0 .. KRING - 1
    BY DEF DriverOK
  <2>4. Empties(kr, KRING, kr_head, kr_tail)
    BY <2>2, <2>3, RingEmpty
  <2>5. kr_head = kr_tail
    BY DEF DriverOK
  <2> QED
    BY <2>1, <2>4, <2>5 DEF Empties
<1> QED
  BY <1>1, DriverOKAlways, PTL

\* The echo and the line never disagree, however the line wraps or is rubbed
\* out.
THEOREM VgaEchoShowsLine == VgaSpec => []EchoShowsLine
<1>1. DriverOK => EchoShowsLine
  <2> SUFFICES ASSUME DriverOK, rd_active, NEW i \in 1 .. Len(rd_buf),
                      Len(rd_buf) + 1 - i <= screen.cur_c
               PROVE  screen.cells[screen.cur_r * COLS + screen.cur_c - (Len(rd_buf) + 1 - i)]
                          = rd_buf[i]
    BY DEF EchoShowsLine
  <2>1. screen.cells[At(screen) - (Len(rd_buf) + 1 - i)] = rd_buf[i]
    BY DEF DriverOK, Shows
  <2>2. screen.cur_r * COLS \in Nat /\ screen.cur_c \in Nat /\ Len(rd_buf) \in Nat
    BY Rows, AtFacts DEF DriverOK, Screens
  <2>3. At(screen) - (Len(rd_buf) + 1 - i)
            = screen.cur_r * COLS + screen.cur_c - (Len(rd_buf) + 1 - i)
    BY <2>2 DEF At
  <2> QED
    BY <2>1, <2>3
<1> QED
  BY <1>1, DriverOKAlways, PTL

\* vga_putc() and scroll() lose no text: what stands before the cursor stays,
\* or moves up by one row as a whole.
THEOREM VgaTextKept == VgaSpec => TextKept
<1> DEFINE Step ==
        \E up \in {0, COLS} :
          LET rubs == /\ up = 0 /\ screen'.cur_r = screen.cur_r /\ screen'.cur_c = screen.cur_c - 1
                      /\ phase = "edit" \/ Head(text) = "BS" IN
          /\ up # 0 => screen.cur_r = ROWS - 1 /\ screen'.cur_r = ROWS - 1
          /\ \A i \in Cells :
                up <= i /\ i < Here =>
                    screen'.cells[i - up] = IF rubs /\ i = Here - 1 THEN " " ELSE screen.cells[i]
<1>1. DriverOK /\ [VgaNext]_vgavars => [Step]_vgavars
  <2> SUFFICES ASSUME DriverOK, VgaNext PROVE Step
    BY DEF Step
  <2> DEFINE may == phase = "edit" \/ Head(text) = "BS"
  <2>1. ASSUME Kept(screen, screen', may) PROVE Step
    BY <2>1 DEF Kept, Here, At
  <2> HIDE DEF Step
  <2>2. ASSUME UNCHANGED screen PROVE Step
    <3>1. screen.cur_c # screen.cur_c - 1 /\ screen \in Screens
      BY Sizes DEF DriverOK, Screens
    <3>2. Kept(screen, screen', may)
      BY <2>2, <3>1, KeptStill
    <3> QED
      BY <2>1, <3>2
  <2>3. CASE PutNext
    <3>1. /\ Head(text) \in Glyphs /\ screen \in Screens /\ screen' = vga_putc(screen, Head(text))
          /\ phase # "edit"
      BY <2>3, HeadTailProperties DEF PutNext, DriverOK
    <3> DEFINE h == Head(text)
    <3>2. may \in BOOLEAN /\ (h = "BS" => may) /\ (h = "CR" => ~may)
      BY <3>1
    <3>3. h \in Glyphs /\ screen \in Screens /\ screen' = vga_putc(screen, h)
      BY <3>1
    <3> HIDE DEF may, h
    <3>4. Kept(screen, screen', may)
      BY <3>2, <3>3, PutcKeeps
    <3> QED
      BY <2>1, <3>4
  <2>4. ASSUME NEW c \in Chars, phase = "edit", screen' = vga_putc(screen, c) PROVE Step
    <3>1. c \in Glyphs /\ c # "CR" /\ screen \in Screens /\ may \in BOOLEAN /\ may
      BY <2>4, CharSets DEF DriverOK
    <3> HIDE DEF may
    <3>2. Kept(screen, screen', may)
      BY <2>4, <3>1, PutcKeeps
    <3> QED
      BY <2>1, <3>2
  <2>5. CASE FinishLine
    BY <2>4, <2>5, CharSets DEF FinishLine, Pops
  <2>6. ASSUME NEW c \in Chars, EditKey(c) PROVE Step
    BY <2>2, <2>4, <2>6 DEF EditKey, Pops
  <2> QED
    BY <2>2, <2>3, <2>5, <2>6 DEF VgaNext, Driver, PutEnds, Registers, DrainPending, Irq, EditEnds,
       Press, Write, Readline
<1> QED
  BY <1>1, DriverOKAlways, PTL DEF VgaSpec, TextKept
-----------------------------------------------------------------------------
(* The keyboard.  The driver tracks the shift key, and every interrupt     *)
(* finds its key, only if nobody types before it has started: a key that   *)
(* main() drains is lost to `shift', and its interrupt comes later.        *)
IsShift(k) == k \in {"SHIFT", "unshift"}

KeyInv ==
    /\ kbd \in [key : Keys, full : BOOLEAN, down : BOOLEAN]
    /\ irqs = IF kbd.full THEN 1 ELSE 0
    /\ phase \in {"banner", "go", "drain"} => ~kbd.full
    /\ phase \notin {"banner", "go"} => unmasked
    /\ IF kbd.full /\ IsShift(kbd.key) THEN kbd.down = (kbd.key = "SHIFT") ELSE shift = kbd.down

LEMMA KeyStarts == VgaInit => KeyInv
<1>1. "other" \in Keys
  BY DEF Keys
<1> SUFFICES ASSUME VgaInit PROVE KeyInv
  OBVIOUS
<1>2. /\ kbd = [key |-> "other", full |-> FALSE, down |-> FALSE] /\ irqs = 0
      /\ unmasked = FALSE /\ shift = FALSE /\ phase = "banner"
  BY DEF VgaInit
<1>3. /\ kbd \in [key : Keys, full : BOOLEAN, down : BOOLEAN]
      /\ kbd.full = FALSE /\ kbd.down = FALSE
  BY <1>1, <1>2
<1> QED
  BY <1>2, <1>3 DEF KeyInv

LEMMA KeyStep ==
    ASSUME ~Early, DriverOK, KeyInv, [VgaNext]_vgavars
    PROVE  KeyInv'
<1>1. CASE UNCHANGED vgavars
  BY <1>1 DEF vgavars, kbdVars, KeyInv
<1>2. CASE PutNext \/ PutEnds
  BY <1>2 DEF PutNext, PutEnds, kbdVars, KeyInv, DriverOK
<1>3. CASE Registers
  BY <1>3 DEF Registers, KeyInv
<1>4. CASE DrainPending
  BY <1>4 DEF DrainPending, KeyRead, KeyInv
<1>5. CASE Irq
  <2>1. /\ phase = "recv" /\ irqs > 0 /\ irqs' = irqs - 1 /\ phase' = "edit" /\ UNCHANGED unmasked
        /\ kbd' = [kbd EXCEPT !.full = FALSE]
        /\ shift' = IF IsShift(kbd.key) THEN kbd.key = "SHIFT" ELSE shift
    BY <1>5 DEF Irq, kbd_drain, KeyRead, IsShift
  <2>2. kbd.full
    BY <2>1 DEF KeyInv
  <2>3. /\ kbd' \in [key : Keys, full : BOOLEAN, down : BOOLEAN]
        /\ ~kbd'.full /\ kbd'.down = kbd.down
    BY <2>1 DEF KeyInv
  <2>4. shift' = kbd.down
    BY <2>1, <2>2 DEF KeyInv
  <2>5. irqs' = 0
    BY <2>1, <2>2 DEF KeyInv
  <2> QED
    BY <2>1, <2>3, <2>4, <2>5 DEF KeyInv
<1>6. CASE FinishLine \/ EditEnds \/ \E c \in Chars : EditKey(c)
  BY <1>6 DEF FinishLine, EditEnds, EditKey, Pops, kbdVars, KeyInv
<1>7. ASSUME NEW k \in Pressed, Press(k) PROVE KeyInv'
  <2>1. /\ ~kbd.full /\ phase \notin {"banner", "go", "drain"}
        /\ kbd' = [key |-> k, full |-> TRUE, down |-> UserShift(k)]
        /\ UNCHANGED <<unmasked, shift, phase>>
    BY <1>7 DEF Press
  <2>2. k \in Keys /\ UserShift(k) = (IF IsShift(k) THEN k = "SHIFT" ELSE shift)
    BY <2>1, VgaAssumption DEF UserShift, IsShift, KeyInv
  <2>3. UserShift(k) \in BOOLEAN
    BY <2>1 DEF UserShift, KeyInv
  <2>4. irqs' = 1
    BY <1>7, <2>1 DEF Press, KeyInv
  <2> QED
    BY <2>1, <2>2, <2>3, <2>4 DEF KeyInv
<1>8. ASSUME NEW t \in Texts, Write(t) PROVE KeyInv'
  BY <1>8 DEF Write, kbdVars, KeyInv
<1>9. ASSUME NEW max \in MaxLens, Readline(max) PROVE KeyInv'
  BY <1>9 DEF Readline, kbdVars, KeyInv
<1> QED
  BY <1>1, <1>2, <1>3, <1>4, <1>5, <1>6, <1>7, <1>8, <1>9 DEF VgaNext, Driver

LEMMA QueueIs ==
    /\ Queue = RingQueue(kr, KRING, kr_head, kr_tail)
    /\ Queue' = RingQueue(kr', KRING, kr_head', kr_tail')
BY DEF Queue, RingQueue

LEMMA PushAppends ==
    ASSUME DriverOK, NEW c \in Chars, kr_push(c), UNCHANGED kr_tail
    PROVE  Queue' = Queue \/ (Len(Queue) < KRING - 1 /\ Queue' = Append(Queue, c))
<1>1. CASE (kr_head + 1) % KRING = kr_tail
  <2>1. UNCHANGED <<kr, kr_head>>
    BY <1>1 DEF kr_push
  <2> QED
    BY <2>1, QueueIs
<1>2. CASE (kr_head + 1) % KRING # kr_tail
  <2>1. kr' = [kr EXCEPT ![kr_head] = c] /\ kr_head' = (kr_head + 1) % KRING
    BY <1>2 DEF kr_push
  <2>2. Pushes(kr, KRING, kr_head, kr_tail, c)
    BY <1>2, RingPush, RingSize, CharSets DEF DriverOK
  <2> QED
    BY <2>1, <2>2, QueueIs DEF Pushes
<1> QED
  BY <1>1, <1>2

LEMMA PopRemoves ==
    ASSUME DriverOK, NEW c, Pops(c)
    PROVE  phase = "edit" /\ Queue # << >> /\ Queue' = Tail(Queue)
<1>1. /\ phase = "edit" /\ kr_head # kr_tail /\ UNCHANGED kr_head
      /\ kr' = [kr EXCEPT ![kr_tail] = " "] /\ kr_tail' = (kr_tail + 1) % KRING
  BY DEF Pops
<1>2. Pulls(kr, KRING, kr_head, kr_tail, " ")
  BY <1>1, RingPop, RingSize, CharSets DEF DriverOK
<1> QED
  BY <1>1, <1>2, QueueIs DEF Pulls

\* What Registers leaves is about the key it finds; a key that is drained
\* leaves its interrupt behind.
AnnounceInv ==
    /\ kbd \in [key : Keys, full : BOOLEAN, down : BOOLEAN]
    /\ unmasked \in BOOLEAN /\ irqs \in Nat
    /\ phase \in {"banner", "go"} <=> ~unmasked
    /\ unmasked => Excess \in {0, 1}
    /\ phase = "drain" => Excess = 0

LEMMA AnnounceStarts == VgaInit => AnnounceInv
<1> SUFFICES ASSUME VgaInit PROVE AnnounceInv
  OBVIOUS
<1>1. irqs = 0 /\ unmasked = FALSE /\ phase = "banner"
  BY DEF VgaInit
<1>2. kbd \in [key : Keys, full : BOOLEAN, down : BOOLEAN]
  BY KeyStarts DEF KeyInv
<1> QED
  BY <1>1, <1>2 DEF AnnounceInv

LEMMA ExcessIs ==
    /\ kbd.full = TRUE => Excess = irqs - 1
    /\ kbd.full = FALSE => Excess = irqs - 0
    /\ kbd'.full = TRUE => Excess' = irqs' - 1
    /\ kbd'.full = FALSE => Excess' = irqs' - 0
BY DEF Excess

LEMMA AnnounceStep ==
    ASSUME AnnounceInv, DriverOK, VgaNext
    PROVE  /\ AnnounceInv'
           /\ unmasked /\ phase # "drain" => Excess' <= Excess
<1>1. ASSUME UNCHANGED <<kbdVars, phase>> PROVE AnnounceInv' /\ Excess' <= Excess
  <2>1. UNCHANGED <<kbd, irqs, unmasked, phase>>
    BY <1>1 DEF kbdVars
  <2>2. Excess' = Excess /\ Excess \in Int
    BY <2>1 DEF Excess, AnnounceInv
  <2> QED
    BY <2>1, <2>2 DEF AnnounceInv
<1>2. CASE Registers
  <2>1. /\ phase = "go" /\ phase' = "drain" /\ unmasked' = TRUE /\ UNCHANGED kbd
        /\ irqs' = IF kbd.full THEN 1 ELSE 0
    BY <1>2 DEF Registers
  <2>2. Excess' = 0 /\ irqs' \in Nat
    BY <2>1 DEF Excess
  <2> QED
    BY <2>1, <2>2 DEF AnnounceInv
<1>3. CASE DrainPending
  <2>1. phase = "drain" /\ phase' = "recv" /\ UNCHANGED <<irqs, unmasked>>
    BY <1>3 DEF DrainPending
  <2>2. kbd' \in [key : Keys, full : BOOLEAN, down : BOOLEAN] /\ kbd'.full = FALSE
    BY <1>3 DEF AnnounceInv, DrainPending, KeyRead
  <2>3. Excess = 0 /\ irqs \in {0, 1}
    BY <2>1, ExcessIs DEF AnnounceInv
  <2> QED
    BY <2>1, <2>2, <2>3, ExcessIs DEF AnnounceInv
<1>4. CASE Irq
  <2>1. phase = "recv" /\ irqs > 0 /\ irqs' = irqs - 1 /\ phase' = "edit" /\ UNCHANGED unmasked
    BY <1>4 DEF Irq
  <2>2. kbd' \in [key : Keys, full : BOOLEAN, down : BOOLEAN] /\ kbd'.full = FALSE
    BY <1>4 DEF AnnounceInv, Irq, kbd_drain, KeyRead
  <2>3. irqs' \in Nat /\ irqs \in Nat /\ unmasked = TRUE
    BY <2>1 DEF AnnounceInv
  <2>4. Excess' \in {0, 1} /\ Excess' <= Excess
    BY <2>1, <2>2, <2>3, ExcessIs DEF AnnounceInv
  <2> QED
    BY <2>1, <2>2, <2>3, <2>4 DEF AnnounceInv
<1>5. ASSUME NEW k \in Pressed, Press(k)
      PROVE  AnnounceInv' /\ Excess' <= Excess
  <2>1. /\ ~kbd.full /\ kbd' = [key |-> k, full |-> TRUE, down |-> UserShift(k)]
        /\ irqs' = (IF unmasked THEN irqs + 1 ELSE irqs) /\ UNCHANGED <<unmasked, phase>>
    BY <1>5 DEF Press
  <2>2. k \in Keys /\ UserShift(k) \in BOOLEAN
    BY VgaAssumption DEF UserShift, AnnounceInv
  <2>3. /\ kbd' \in [key : Keys, full : BOOLEAN, down : BOOLEAN]
        /\ kbd.full = FALSE /\ kbd'.full = TRUE
    BY <2>1, <2>2 DEF AnnounceInv
  <2>4. Excess' <= Excess /\ irqs' \in Nat /\ (unmasked => Excess' = Excess)
    BY <2>1, <2>3, ExcessIs DEF AnnounceInv
  <2>5. phase = "drain" => unmasked
    BY DEF AnnounceInv
  <2> QED
    BY <2>1, <2>3, <2>4, <2>5 DEF AnnounceInv
<1>6. CASE PutNext
  BY <1>1, <1>6 DEF PutNext
<1>7. CASE PutEnds \/ EditEnds \/ FinishLine \/ \E c \in Chars : EditKey(c)
  <2>1. UNCHANGED <<kbd, irqs, unmasked>> /\ phase' # "drain"
        /\ (phase' \in {"banner", "go"} <=> phase \in {"banner", "go"})
    BY <1>7 DEF PutEnds, EditEnds, FinishLine, EditKey, Pops, kbdVars
  <2>2. Excess' = Excess /\ Excess \in Int
    BY <2>1 DEF Excess, AnnounceInv
  <2> QED
    BY <2>1, <2>2 DEF AnnounceInv
<1>8. CASE (\E t \in Texts : Write(t)) \/ \E max \in MaxLens : Readline(max)
  <2>1. UNCHANGED <<kbd, irqs, unmasked>> /\ phase = "recv" /\ phase' \in {"write", "edit"}
    BY <1>8 DEF Write, Readline, kbdVars
  <2>2. Excess' = Excess /\ Excess \in Int
    BY <2>1 DEF Excess, AnnounceInv
  <2> QED
    BY <2>1, <2>2 DEF AnnounceInv
<1> QED
  BY <1>2, <1>3, <1>4, <1>5, <1>6, <1>7, <1>8 DEF VgaNext, Driver

\* No key waits in the controller without an interrupt, and interrupts without
\* a key are not made but by the byte drained at the start, whoever types when.
THEOREM VgaKeysAnnounced == VgaSpec => KeysAnnounced
<1>1. AnnounceInv /\ DriverOK /\ [VgaNext]_vgavars =>
          /\ AnnounceInv'
          /\ [unmasked /\ phase # "drain" => Excess' <= Excess]_vgavars
  <2>1. CASE UNCHANGED vgavars
    <3>1. UNCHANGED <<kbd, irqs, unmasked, phase>>
      BY <2>1 DEF vgavars, kbdVars
    <3>2. Excess' = Excess
      BY <3>1 DEF Excess
    <3> QED
      BY <2>1, <3>1, <3>2 DEF AnnounceInv
  <2>2. CASE VgaNext
    BY <2>2, AnnounceStep
  <2> QED
    BY <2>1, <2>2
<1>2. AnnounceInv => (unmasked => Excess \in {0, 1})
  BY DEF AnnounceInv
<1> QED
  BY <1>1, <1>2, AnnounceStarts, DriverOKAlways, PTL DEF VgaSpec, KeysAnnounced

\* What is read from the ring is what was typed, in order, with the shift key
\* as it was; only a full ring loses keys.
THEOREM VgaKeysAsTyped == ASSUME ~Early PROVE VgaSpec => KeysAsTyped
<1> DEFINE Step ==
        \/ Queue' = Queue
        \/ /\ kbd.full /\ ~kbd'.full /\ Len(Queue) < KRING - 1
           /\ \E c \in Decoded(kbd.key, kbd.down) : Queue' = Append(Queue, c)
        \/ phase = "edit" /\ Queue # << >> /\ Queue' = Tail(Queue)
<1>1. DriverOK /\ KeyInv /\ [VgaNext]_vgavars => [Step]_vgavars
  <2> SUFFICES ASSUME DriverOK, KeyInv, VgaNext PROVE Step
    BY DEF Step
  <2>1. ASSUME UNCHANGED <<kr, kr_head, kr_tail>> PROVE Step
    BY <2>1, QueueIs
  <2>2. CASE Irq
    <3>1. /\ irqs > 0 /\ kbd' = [kbd EXCEPT !.full = FALSE] /\ UNCHANGED kr_tail
          /\ IF Decoded(kbd.key, shift) = {} THEN UNCHANGED <<kr, kr_head>>
             ELSE \E c \in Decoded(kbd.key, shift) : kr_push(c)
      BY <2>2 DEF Irq, kbd_drain, KeyRead
    <3>2. kbd.full /\ ~kbd'.full
      BY <3>1 DEF KeyInv
    <3>3. CASE UNCHANGED <<kr, kr_head>>
      BY <2>1, <3>1, <3>3
    <3>4. ASSUME NEW c \in Decoded(kbd.key, shift), kr_push(c) PROVE Step
      <4>1. ~IsShift(kbd.key)
        BY <3>4 DEF Decoded, IsShift, Letters
      <4>2. c \in Decoded(kbd.key, kbd.down)
        BY <3>2, <3>4, <4>1 DEF KeyInv
      <4>3. c \in Chars
        BY <3>4, DecodedChars
      <4>4. Queue' = Queue \/ (Len(Queue) < KRING - 1 /\ Queue' = Append(Queue, c))
        BY <3>1, <3>4, <4>3, PushAppends
      <4> QED
        BY <3>2, <4>2, <4>4
    <3> QED
      BY <3>1, <3>3, <3>4
  <2>3. CASE FinishLine \/ \E c \in Chars : EditKey(c)
    BY <2>3, PopRemoves DEF FinishLine, EditKey
  <2> HIDE DEF Step
  <2> QED
    BY <2>1, <2>2, <2>3 DEF VgaNext, Driver, krVars, PutNext, PutEnds, Registers, DrainPending, EditEnds,
       Press, Write, Readline
<1>2. DriverOK /\ KeyInv /\ [VgaNext]_vgavars => KeyInv'
  BY KeyStep
<1> QED
  BY <1>1, <1>2, KeyStarts, DriverOKAlways, PTL DEF VgaSpec, KeysAsTyped
=============================================================================
