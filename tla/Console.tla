------------------------------ MODULE Console -------------------------------
(***************************************************************************)
(* The text console: x64/kernel/chr_drv/console.c (the copy under          *)
(* oskernel/ differs in the width of the pointers only).                   *)
(*                                                                         *)
(* Addresses are counted in cells of two bytes, a character and its        *)
(* attribute, from VID_MEM_BASE.  A step is one character of               *)
(* console_write; the registers of the display controller are set where    *)
(* the code sets them.                                                     *)
(***************************************************************************)
EXTENDS Integers

CONSTANTS
  SCREEN_WIDTH, SCREEN_HEIGHT,
  VID_MEM_END,   \* the number of cells of the video memory
  Glyphs,        \* the characters that are shown
  Blank,         \* 0x0720, a space
  FirmwareText,  \* what the firmware may have left in the video memory
  MaxCount       \* bound: the longest text written by a call

ASSUME ConsoleAssumption ==
  /\ SCREEN_WIDTH \in Nat \ {0}
  /\ SCREEN_HEIGHT \in Nat \ {0}
  /\ VID_MEM_END \in Nat
  /\ SCREEN_WIDTH * SCREEN_HEIGHT <= VID_MEM_END
  /\ Blank \notin Glyphs
  /\ MaxCount \in Nat

ROW_SIZE == SCREEN_WIDTH
SCREEN_SIZE == SCREEN_WIDTH * SCREEN_HEIGHT
Cells == 0 .. VID_MEM_END - 1

ASSUME FirmwareAssumption == FirmwareText \subseteq [Cells -> Glyphs \cup {Blank}]

VARIABLES
  con,         \* the video memory, the static variables, the start register
  crt_cursor,  \* the cursor register of the display controller
  count,       \* the characters that are left to write
  pc           \* "off", "idle" or "write"

conVars == <<con, crt_cursor, count, pc>>

State(vram, base, pos, x, y, start) ==
  [vram |-> vram, screen_base |-> base, cur_pos |-> pos, cur_x |-> x, cur_y |-> y,
   crt_start |-> start]

-----------------------------------------------------------------------------
BlankAt(vram, S) == [a \in Cells |-> IF a \in S THEN Blank ELSE vram[a]]

\* Room below the screen for one more line.
Room(c) == c.screen_base + SCREEN_SIZE + ROW_SIZE < VID_MEM_END

\* The line below the screen is made blank, the screen goes down over it.
LineBelow(c) == c.screen_base + SCREEN_SIZE .. c.screen_base + SCREEN_SIZE + ROW_SIZE - 1
SlideDown(c) ==
  State(BlankAt(c.vram, LineBelow(c)), c.screen_base + ROW_SIZE, c.cur_pos + ROW_SIZE,
        c.cur_x, c.cur_y, c.screen_base + ROW_SIZE)

\* The lines but the first are copied to the start of the memory, the rest of
\* it is made blank.
Bug_copies_first_line(c) ==
  State([a \in Cells |-> IF a < SCREEN_SIZE - ROW_SIZE
                         THEN c.vram[c.screen_base + a] ELSE Blank],
        0, c.cur_y * SCREEN_WIDTH + c.cur_x, c.cur_x, c.cur_y, 0)
Bug_pos_slides(c) ==
  State([a \in Cells |-> IF a < SCREEN_SIZE - ROW_SIZE
                         THEN c.vram[c.screen_base + ROW_SIZE + a] ELSE Blank],
        0, c.cur_pos + ROW_SIZE, c.cur_x, c.cur_y, 0)
Bug_start_kept(c) ==
  State([a \in Cells |-> IF a < SCREEN_SIZE - ROW_SIZE
                         THEN c.vram[c.screen_base + ROW_SIZE + a] ELSE Blank],
        0, c.cur_y * SCREEN_WIDTH + c.cur_x, c.cur_x, c.cur_y, c.crt_start)
MoveBack(c) ==
  State([a \in Cells |-> IF a < SCREEN_SIZE - ROW_SIZE
                         THEN c.vram[c.screen_base + ROW_SIZE + a] ELSE Blank],
        0, c.cur_y * SCREEN_WIDTH + c.cur_x, c.cur_x, c.cur_y, 0)

scroll_up(c) == IF Room(c) THEN SlideDown(c) ELSE MoveBack(c)

console_lf(c) ==
  IF c.cur_y + 1 < SCREEN_HEIGHT
  THEN State(c.vram, c.screen_base, c.cur_pos + ROW_SIZE, c.cur_x, c.cur_y + 1, c.crt_start)
  ELSE scroll_up(c)

console_cr(c) ==
  State(c.vram, c.screen_base, c.cur_pos - c.cur_x, 0, c.cur_y, c.crt_start)

console_bs(c) ==
  IF c.cur_x = 0 THEN c
  ELSE State(BlankAt(c.vram, {c.cur_pos - 1}), c.screen_base, c.cur_pos - 1,
             c.cur_x - 1, c.cur_y, c.crt_start)

console_del(c) ==
  State(BlankAt(c.vram, {c.cur_pos}), c.screen_base, c.cur_pos, c.cur_x, c.cur_y, c.crt_start)

\* A character that is shown: it is stored, and at the end of the line the
\* cursor goes to the start of the line and then a line down.
Stored(c, glyph) ==
  State([a \in Cells |-> IF a = c.cur_pos THEN glyph ELSE c.vram[a]],
        c.screen_base, c.cur_pos + 1, c.cur_x + 1, c.cur_y, c.crt_start)
LineStart(c) ==
  State(c.vram, c.screen_base, c.cur_pos - ROW_SIZE, c.cur_x - SCREEN_WIDTH, c.cur_y,
        c.crt_start)
put(c, glyph) ==
  LET s == Stored(c, glyph)
  IN  IF s.cur_x >= SCREEN_WIDTH THEN console_lf(LineStart(s)) ELSE s

-----------------------------------------------------------------------------
console_init ==
  /\ pc = "off"
  /\ con' = State([a \in Cells |-> Blank], 0, 0, 0, 0, 0)
  /\ crt_cursor' = 0
  /\ pc' = "idle"
  /\ UNCHANGED count

console_write ==
  /\ pc = "idle"
  /\ count' \in 1 .. MaxCount
  /\ pc' = "write"
  /\ UNCHANGED <<con, crt_cursor>>

\* One turn of the loop of console_write.
Turn(after) ==
  /\ pc = "write" /\ count > 0
  /\ con' = after
  /\ count' = count - 1
  /\ UNCHANGED <<crt_cursor, pc>>

WriteBackspace == Turn(console_bs(con))
WriteNewLine == Turn(console_cr(console_lf(con)))
WriteReturn == Turn(console_cr(con))
WriteDelete == Turn(console_del(con))
WriteGlyph == \E glyph \in Glyphs : Turn(put(con, glyph))

set_cursor ==
  /\ pc = "write" /\ count = 0
  /\ crt_cursor' = con.cur_pos
  /\ pc' = "idle"
  /\ UNCHANGED <<con, count>>

Init ==
  /\ \E vram \in FirmwareText : con = State(vram, 0, 0, 0, 0, 0)
  /\ crt_cursor = 0
  /\ count = 0
  /\ pc = "off"

Next ==
  \/ console_init \/ console_write
  \/ WriteBackspace \/ WriteNewLine \/ WriteReturn \/ WriteDelete \/ WriteGlyph
  \/ set_cursor

Spec == Init /\ [][Next]_conVars

-----------------------------------------------------------------------------
Rows == 0 .. SCREEN_HEIGHT - 1
Columns == 0 .. SCREEN_WIDTH - 1

ConsoleTypes ==
  /\ con \in [vram : [Cells -> Glyphs \cup {Blank}], screen_base : Nat, cur_pos : Nat,
              cur_x : Columns, cur_y : Rows, crt_start : Nat]
  /\ crt_cursor \in Nat
  /\ count \in 0 .. MaxCount
  /\ pc \in {"off", "idle", "write"}

\* The two ways in which the cursor is kept, as an address and as a column and
\* a row, agree after any text, and the whole screen lies in the video memory:
\* nothing is ever stored outside of it.
CursorInPlace ==
  /\ con.cur_pos = con.screen_base + con.cur_y * SCREEN_WIDTH + con.cur_x
  /\ con.screen_base + SCREEN_SIZE <= VID_MEM_END

\* The display controller shows the screen that the code writes to, also in
\* the middle of a text, and between the calls its cursor is where the next
\* character goes.
HardwareFollows ==
  /\ con.crt_start = con.screen_base
  /\ pc = "idle" => crt_cursor = con.cur_pos

\* What is on the display behaves as a page of a terminal does: although the
\* screen wanders through the video memory and is copied back at its end, only
\* the line at the top is lost and only blank lines come in.
Shown ==
  [p \in Rows \X Columns |-> con.vram[con.crt_start + p[1] * SCREEN_WIDTH + p[2]]]
Page == INSTANCE Terminal WITH page <- Shown, x <- con.cur_x, y <- con.cur_y
ImplementsTerminal == Page!Spec
=============================================================================
