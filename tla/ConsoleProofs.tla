--------------------------- MODULE ConsoleProofs ----------------------------
(***************************************************************************)
(* For a screen and a video memory of any size: the cursor and the screen  *)
(* stay in place, and the console implements the terminal.                 *)
(***************************************************************************)
EXTENDS Console, TLAPS

-----------------------------------------------------------------------------
(***************************************************************************)
(* Lines in a memory without lines.                                        *)
(***************************************************************************)

\* Multiplication by a natural number keeps the order.
LEMMA Monotone ==
  ASSUME NEW a \in Int, NEW b \in Int, NEW w \in Nat, a <= b
  PROVE  a * w <= b * w
<1>1. (b - a) * w >= 0
  BY b - a >= 0
<1>2. b * w = a * w + (b - a) * w
  OBVIOUS
<1> QED BY <1>1, <1>2

\* A place in line r is found below the end of line r, and not before its
\* start.
LEMMA Line ==
  ASSUME NEW w \in Nat \ {0}, NEW r \in Int, NEW k \in 0 .. w - 1
  PROVE  /\ r * w \in Int
         /\ (r + 1) * w = r * w + w
         /\ r * w <= r * w + k /\ r * w + k < (r + 1) * w
OBVIOUS

\* Two places with one address are one place.
LEMMA OnePlace ==
  ASSUME NEW w \in Nat \ {0},
         NEW r \in Int, NEW s \in Int, NEW k \in 0 .. w - 1, NEW l \in 0 .. w - 1,
         r * w + k = s * w + l
  PROVE  r = s /\ k = l
<1>1. ~(r < s)
  <2> SUFFICES ASSUME r < s PROVE FALSE
    OBVIOUS
  <2>1. (r + 1) * w <= s * w
    BY Monotone
  <2> QED BY <2>1, Line
<1>2. ~(s < r)
  <2> SUFFICES ASSUME s < r PROVE FALSE
    OBVIOUS
  <2>1. (s + 1) * w <= r * w
    BY Monotone
  <2> QED BY <2>1, Line
<1> QED BY <1>1, <1>2

\* The places of the screen are its cells, and those of its last line are the
\* last ROW_SIZE of them.
LEMMA InScreen ==
  ASSUME NEW r \in Rows, NEW k \in Columns
  PROVE  /\ r * SCREEN_WIDTH + k \in 0 .. SCREEN_SIZE - 1
         /\ r = SCREEN_HEIGHT - 1 <=> r * SCREEN_WIDTH + k >= SCREEN_SIZE - ROW_SIZE
<1> DEFINE W == SCREEN_WIDTH  H == SCREEN_HEIGHT
<1>1. W \in Nat \ {0} /\ H \in Nat \ {0} /\ r \in 0 .. H - 1 /\ k \in 0 .. W - 1
  BY ConsoleAssumption DEF Rows, Columns
<1>2. SCREEN_SIZE = H * W /\ ROW_SIZE = W
  BY <1>1 DEF SCREEN_SIZE, ROW_SIZE
<1>3. (H - 1) * W + W = H * W
  BY <1>1
<1> HIDE DEF W, H
<1>4. 0 * W <= r * W /\ r * W <= (H - 1) * W /\ 0 * W = 0
  BY <1>1, Monotone
<1>5. r # H - 1 => (r + 1) * W <= (H - 1) * W
  BY <1>1, Monotone
<1>6. (r + 1) * W = r * W + W /\ r * W \in Int /\ (H - 1) * W \in Int
  BY <1>1, Line
<1>7. r * W + k \in 0 .. SCREEN_SIZE - 1
  BY <1>1, <1>2, <1>3, <1>4, <1>6
<1>8. r = H - 1 <=> r * W + k >= SCREEN_SIZE - ROW_SIZE
  BY <1>1, <1>2, <1>3, <1>5, <1>6
<1> QED BY <1>7, <1>8 DEF W, H

-----------------------------------------------------------------------------
(***************************************************************************)
(* The invariant, for the state of the console alone.                      *)
(***************************************************************************)
Memories == [Cells -> Glyphs \cup {Blank}]

Good(c) ==
  /\ c \in [vram : Memories, screen_base : Nat, cur_pos : Nat,
            cur_x : Columns, cur_y : Rows, crt_start : Nat]
  /\ c.cur_pos = c.screen_base + c.cur_y * SCREEN_WIDTH + c.cur_x
  /\ c.screen_base + SCREEN_SIZE <= VID_MEM_END
  /\ c.crt_start = c.screen_base

\* The sizes are numbers.
LEMMA Sizes ==
  /\ SCREEN_WIDTH \in Nat \ {0} /\ SCREEN_HEIGHT \in Nat \ {0}
  /\ ROW_SIZE = SCREEN_WIDTH /\ SCREEN_SIZE \in Nat /\ VID_MEM_END \in Nat
  /\ SCREEN_SIZE <= VID_MEM_END
BY ConsoleAssumption DEF ROW_SIZE, SCREEN_SIZE

\* A state put together from parts that are in place is in place.
LEMMA GoodState ==
  ASSUME NEW v \in Memories, NEW b \in Nat, NEW p,
         NEW x \in Columns, NEW y \in Rows,
         p = b + y * SCREEN_WIDTH + x,
         b + SCREEN_SIZE <= VID_MEM_END
  PROVE  Good(State(v, b, p, x, y, b))
<1>1. y * SCREEN_WIDTH + x \in 0 .. SCREEN_SIZE - 1
  BY InScreen
<1>2. y * SCREEN_WIDTH \in Int
  BY Sizes DEF Rows
<1>3. p \in Nat
  BY <1>1, <1>2, Sizes DEF Columns
<1> QED BY <1>3 DEF Good, State

\* What is in place, in parts.
LEMMA GoodParts ==
  ASSUME NEW c, Good(c)
  PROVE  /\ c = State(c.vram, c.screen_base, c.cur_pos, c.cur_x, c.cur_y, c.crt_start)
         /\ c.vram \in Memories
         /\ c.screen_base \in Nat /\ c.cur_pos \in Nat
         /\ c.cur_x \in Columns /\ c.cur_y \in Rows
         /\ c.cur_pos = c.screen_base + c.cur_y * SCREEN_WIDTH + c.cur_x
         /\ c.screen_base + SCREEN_SIZE <= VID_MEM_END
         /\ c.crt_start = c.screen_base
BY DEF Good, State

\* The fields of a state.
LEMMA Fields ==
  ASSUME NEW v, NEW b, NEW p, NEW x, NEW y, NEW s
  PROVE  LET c == State(v, b, p, x, y, s)
         IN  /\ c.vram = v /\ c.screen_base = b /\ c.cur_pos = p
             /\ c.cur_x = x /\ c.cur_y = y /\ c.crt_start = s
BY DEF State

\* Making cells blank gives a memory.
LEMMA BlankMemory ==
  ASSUME NEW v \in Memories, NEW S
  PROVE  BlankAt(v, S) \in Memories
BY DEF BlankAt, Memories

\* Sliding down keeps the screen in the video memory.
LEMMA GoodSlide ==
  ASSUME NEW c, Good(c), Room(c)
  PROVE  Good(SlideDown(c))
<1> DEFINE b == c.screen_base + ROW_SIZE
           p == c.cur_pos + ROW_SIZE
<1>1. b \in Nat /\ b + SCREEN_SIZE <= VID_MEM_END
  BY GoodParts, Sizes DEF Room
<1>2. c.cur_y * SCREEN_WIDTH \in Int
  BY GoodParts, Sizes DEF Rows
<1>3. p = b + c.cur_y * SCREEN_WIDTH + c.cur_x
  BY <1>2, GoodParts, Sizes DEF Columns
<1>4. BlankAt(c.vram, LineBelow(c)) \in Memories
  BY BlankMemory, GoodParts
<1>5. c.cur_x \in Columns /\ c.cur_y \in Rows
  BY GoodParts
<1>6. SlideDown(c) = State(BlankAt(c.vram, LineBelow(c)), b, p, c.cur_x, c.cur_y, b)
  BY DEF SlideDown
<1> HIDE DEF b, p
<1> QED BY <1>1, <1>3, <1>4, <1>5, <1>6, GoodState

\* So does copying it back to the start.
LEMMA GoodMove ==
  ASSUME NEW c, Good(c)
  PROVE  Good(MoveBack(c))
<1> DEFINE v == [a \in Cells |-> IF a < SCREEN_SIZE - ROW_SIZE
                                 THEN c.vram[c.screen_base + ROW_SIZE + a] ELSE Blank]
           p == c.cur_y * SCREEN_WIDTH + c.cur_x
<1>1. v \in Memories
  <2> SUFFICES ASSUME NEW a \in Cells, a < SCREEN_SIZE - ROW_SIZE
               PROVE  c.vram[c.screen_base + ROW_SIZE + a] \in Glyphs \cup {Blank}
    BY DEF Memories
  <2>1. c.screen_base + ROW_SIZE + a \in Cells
    BY GoodParts, Sizes DEF Cells
  <2> QED BY <2>1, GoodParts DEF Memories
<1>2. p = 0 + c.cur_y * SCREEN_WIDTH + c.cur_x
  BY GoodParts, Sizes DEF Rows, Columns
<1>3. 0 \in Nat /\ 0 + SCREEN_SIZE <= VID_MEM_END
  BY Sizes
<1>4. c.cur_x \in Columns /\ c.cur_y \in Rows
  BY GoodParts
<1>5. MoveBack(c) = State(v, 0, p, c.cur_x, c.cur_y, 0)
  BY DEF MoveBack
<1> HIDE DEF v, p
<1> QED BY <1>1, <1>2, <1>3, <1>4, <1>5, GoodState

\* A line feed, with or without scrolling.
LEMMA GoodLineFeed ==
  ASSUME NEW c, Good(c)
  PROVE  Good(console_lf(c))
<1>1. CASE c.cur_y + 1 < SCREEN_HEIGHT
  <2>1. c.cur_y + 1 \in Rows
    BY <1>1, GoodParts, Sizes DEF Rows
  <2>2. (c.cur_y + 1) * SCREEN_WIDTH = c.cur_y * SCREEN_WIDTH + SCREEN_WIDTH
        /\ c.cur_y * SCREEN_WIDTH \in Int
    BY GoodParts, Sizes DEF Rows
  <2>3. c.cur_pos + ROW_SIZE = c.screen_base + (c.cur_y + 1) * SCREEN_WIDTH + c.cur_x
    BY <2>2, GoodParts, Sizes DEF Columns
  <2>4. console_lf(c) = State(c.vram, c.screen_base, c.cur_pos + ROW_SIZE, c.cur_x,
                              c.cur_y + 1, c.screen_base)
    BY <1>1, GoodParts DEF console_lf
  <2> QED BY <2>1, <2>3, <2>4, GoodParts, GoodState
<1>2. CASE ~(c.cur_y + 1 < SCREEN_HEIGHT)
  BY <1>2, GoodSlide, GoodMove DEF console_lf, scroll_up
<1> QED BY <1>1, <1>2

\* A carriage return goes back by cur_x cells.
LEMMA GoodReturn ==
  ASSUME NEW c, Good(c)
  PROVE  Good(console_cr(c))
<1>1. c.cur_y * SCREEN_WIDTH \in Int
  BY GoodParts, Sizes DEF Rows
<1>2. c.cur_pos - c.cur_x = c.screen_base + c.cur_y * SCREEN_WIDTH + 0
  BY <1>1, GoodParts DEF Columns
<1>3. 0 \in Columns
  BY Sizes DEF Columns
<1>4. console_cr(c) = State(c.vram, c.screen_base, c.cur_pos - c.cur_x, 0, c.cur_y,
                            c.screen_base)
  BY GoodParts DEF console_cr
<1> QED BY <1>2, <1>3, <1>4, GoodParts, GoodState

\* A backspace stays in the line.
LEMMA GoodBackspace ==
  ASSUME NEW c, Good(c)
  PROVE  Good(console_bs(c))
<1>1. CASE c.cur_x = 0
  BY <1>1 DEF console_bs
<1>2. CASE c.cur_x # 0
  <2>1. c.cur_x - 1 \in Columns
    BY <1>2, GoodParts, Sizes DEF Columns
  <2>2. c.cur_y * SCREEN_WIDTH \in Int
    BY GoodParts, Sizes DEF Rows
  <2>3. c.cur_pos - 1 = c.screen_base + c.cur_y * SCREEN_WIDTH + (c.cur_x - 1)
    BY <2>2, GoodParts DEF Columns
  <2>4. BlankAt(c.vram, {c.cur_pos - 1}) \in Memories
    BY GoodParts, BlankMemory
  <2>5. console_bs(c) = State(BlankAt(c.vram, {c.cur_pos - 1}), c.screen_base,
                              c.cur_pos - 1, c.cur_x - 1, c.cur_y, c.screen_base)
    BY <1>2, GoodParts DEF console_bs
  <2> QED BY <2>1, <2>3, <2>4, <2>5, GoodParts, GoodState
<1> QED BY <1>1, <1>2

\* A delete moves nothing.
LEMMA GoodDelete ==
  ASSUME NEW c, Good(c)
  PROVE  Good(console_del(c))
<1>1. BlankAt(c.vram, {c.cur_pos}) \in Memories
  BY GoodParts, BlankMemory
<1>2. console_del(c) = State(BlankAt(c.vram, {c.cur_pos}), c.screen_base, c.cur_pos,
                             c.cur_x, c.cur_y, c.screen_base)
  BY GoodParts DEF console_del
<1> QED BY <1>1, <1>2, GoodParts, GoodState

\* A character in the last column: the cursor goes back to the start of the
\* line before it goes down.
Filled(c, glyph) == [a \in Cells |-> IF a = c.cur_pos THEN glyph ELSE c.vram[a]]

\* The two cases of a character that is shown: within the line, at its end.
LEMMA PutCases ==
  ASSUME NEW c, Good(c), NEW glyph \in Glyphs
  PROVE  /\ Filled(c, glyph) \in Memories
         /\ c.cur_x # SCREEN_WIDTH - 1 =>
              put(c, glyph) = State(Filled(c, glyph), c.screen_base, c.cur_pos + 1,
                                    c.cur_x + 1, c.cur_y, c.screen_base)
         /\ c.cur_x = SCREEN_WIDTH - 1 =>
              put(c, glyph) = console_lf(State(Filled(c, glyph), c.screen_base,
                                               c.cur_pos - c.cur_x, 0, c.cur_y,
                                               c.screen_base))
<1> DEFINE s == Stored(c, glyph)
<1>1. Filled(c, glyph) \in Memories
  BY GoodParts DEF Filled, Memories
<1>2. s = State(Filled(c, glyph), c.screen_base, c.cur_pos + 1, c.cur_x + 1, c.cur_y,
                c.screen_base)
  BY GoodParts DEF Stored, Filled
<1>3. put(c, glyph) = IF s.cur_x >= SCREEN_WIDTH THEN console_lf(LineStart(s)) ELSE s
  BY DEF put
<1> HIDE DEF s
<1>4. s.cur_x = c.cur_x + 1 /\ c.cur_x \in 0 .. SCREEN_WIDTH - 1
  BY <1>2, GoodParts, Fields DEF Columns
<1>5. ASSUME c.cur_x # SCREEN_WIDTH - 1
      PROVE  put(c, glyph) = s
  BY <1>3, <1>4, <1>5, Sizes
<1>6. ASSUME c.cur_x = SCREEN_WIDTH - 1
      PROVE  LineStart(s) = State(Filled(c, glyph), c.screen_base, c.cur_pos - c.cur_x, 0,
                                  c.cur_y, c.screen_base)
             /\ put(c, glyph) = console_lf(LineStart(s))
  <2>1. (c.cur_pos + 1) - ROW_SIZE = c.cur_pos - c.cur_x /\ (c.cur_x + 1) - SCREEN_WIDTH = 0
    BY <1>6, GoodParts, Sizes
  <2>2. LineStart(s) = State(Filled(c, glyph), c.screen_base, (c.cur_pos + 1) - ROW_SIZE,
                             (c.cur_x + 1) - SCREEN_WIDTH, c.cur_y, c.screen_base)
    <3>1. /\ s.vram = Filled(c, glyph) /\ s.screen_base = c.screen_base
          /\ s.cur_pos = c.cur_pos + 1 /\ s.cur_x = c.cur_x + 1
          /\ s.cur_y = c.cur_y /\ s.crt_start = c.screen_base
      BY <1>2 DEF State
    <3>2. LineStart(s) = State(s.vram, s.screen_base, s.cur_pos - ROW_SIZE,
                               s.cur_x - SCREEN_WIDTH, s.cur_y, s.crt_start)
      BY DEF LineStart
    <3> QED BY <3>1, <3>2
  <2>3. s.cur_x >= SCREEN_WIDTH
    BY <1>4, <1>6, Sizes
  <2> QED BY <1>3, <2>1, <2>2, <2>3
<1> QED BY <1>1, <1>2, <1>5, <1>6

\* The state in which put goes down a line.
LEMMA GoodLineStart ==
  ASSUME NEW c, Good(c), NEW v \in Memories
  PROVE  Good(State(v, c.screen_base, c.cur_pos - c.cur_x, 0, c.cur_y, c.screen_base))
<1>1. c.cur_y * SCREEN_WIDTH \in Int
  BY GoodParts, Sizes DEF Rows
<1>2. c.cur_pos - c.cur_x = c.screen_base + c.cur_y * SCREEN_WIDTH + 0
  BY <1>1, GoodParts DEF Columns
<1>3. 0 \in Columns
  BY Sizes DEF Columns
<1> QED BY <1>2, <1>3, GoodParts, GoodState

\* The wrap at the end of a line.
LEMMA GoodPut ==
  ASSUME NEW c, Good(c), NEW glyph \in Glyphs
  PROVE  Good(put(c, glyph))
<1>1. CASE c.cur_x = SCREEN_WIDTH - 1
  BY <1>1, PutCases, GoodLineStart, GoodLineFeed
<1>2. CASE c.cur_x # SCREEN_WIDTH - 1
  <2>1. c.cur_x + 1 \in Columns
    BY <1>2, GoodParts, Sizes DEF Columns
  <2>2. c.cur_y * SCREEN_WIDTH \in Int
    BY GoodParts, Sizes DEF Rows
  <2>3. c.cur_pos + 1 = c.screen_base + c.cur_y * SCREEN_WIDTH + (c.cur_x + 1)
    BY <2>2, GoodParts DEF Columns
  <2> QED BY <1>2, <2>1, <2>3, PutCases, GoodParts, GoodState
<1> QED BY <1>1, <1>2

-----------------------------------------------------------------------------
(***************************************************************************)
(* The inductive invariant is the conjunction of those that TLC checks.    *)
(***************************************************************************)
IInv == ConsoleTypes /\ CursorInPlace /\ HardwareFollows

\* The invariant in terms of Good.
LEMMA InvIsGood ==
  IInv <=> /\ Good(con)
           /\ crt_cursor \in Nat /\ count \in 0 .. MaxCount /\ pc \in {"off", "idle", "write"}
           /\ pc = "idle" => crt_cursor = con.cur_pos
BY DEF IInv, ConsoleTypes, CursorInPlace, HardwareFollows, Good, Memories

\* The first cell of a memory is in place for the cursor.
LEMMA GoodHome ==
  ASSUME NEW v \in Memories
  PROVE  Good(State(v, 0, 0, 0, 0, 0))
<1>1. 0 \in Rows /\ 0 \in Columns /\ 0 = 0 + 0 * SCREEN_WIDTH + 0
  BY Sizes DEF Rows, Columns
<1> QED BY <1>1, Sizes, GoodState

\* A turn of the loop keeps the invariant if the character it handles does.
LEMMA TurnInv ==
  ASSUME NEW after, Turn(after), IInv, Good(con) => Good(after)
  PROVE  IInv'
<1>1. Good(con') /\ crt_cursor' \in Nat /\ count' \in 0 .. MaxCount /\ pc' = "write"
  BY InvIsGood, ConsoleAssumption DEF Turn
<1>2. ConsoleTypes' /\ CursorInPlace' /\ HardwareFollows'
  BY <1>1 DEF ConsoleTypes, CursorInPlace, HardwareFollows, Good, Memories
<1> QED BY <1>2 DEF IInv

\* console_init has not run yet, the static variables are 0.
LEMMA InitInv == Init => IInv
<1> SUFFICES ASSUME Init PROVE IInv
  OBVIOUS
<1>1. PICK v \in FirmwareText : con = State(v, 0, 0, 0, 0, 0)
  BY DEF Init
<1>2. v \in Memories
  BY FirmwareAssumption DEF Memories
<1>3. Good(con)
  BY <1>1, <1>2, GoodHome
<1> QED BY <1>3, InvIsGood, ConsoleAssumption DEF Init

\* Every step keeps the invariant.
LEMMA NextInv == IInv /\ [Next]_conVars => IInv'
<1> SUFFICES ASSUME IInv, [Next]_conVars PROVE IInv'
  OBVIOUS
<1>1. CASE console_init
  <2>1. [a \in Cells |-> Blank] \in Memories
    BY DEF Memories
  <2>2. Good(con') /\ con'.cur_pos = 0
    BY <1>1, <2>1, GoodHome, Fields DEF console_init
  <2>3. crt_cursor' = 0 /\ pc' = "idle" /\ count' \in 0 .. MaxCount
    BY <1>1, InvIsGood DEF console_init
  <2>4. ConsoleTypes' /\ CursorInPlace' /\ HardwareFollows'
    BY <2>2, <2>3 DEF ConsoleTypes, CursorInPlace, HardwareFollows, Good, Memories
  <2> QED BY <2>4 DEF IInv
<1>2. CASE console_write
  BY <1>2, ConsoleAssumption
     DEF console_write, IInv, ConsoleTypes, CursorInPlace, HardwareFollows
<1>3. CASE WriteBackspace
  BY <1>3, TurnInv, GoodBackspace DEF WriteBackspace
<1>4. CASE WriteNewLine
  BY <1>4, TurnInv, GoodLineFeed, GoodReturn DEF WriteNewLine
<1>5. CASE WriteReturn
  BY <1>5, TurnInv, GoodReturn DEF WriteReturn
<1>6. CASE WriteDelete
  BY <1>6, TurnInv, GoodDelete DEF WriteDelete
<1>7. CASE WriteGlyph
  BY <1>7, TurnInv, GoodPut DEF WriteGlyph
<1>8. CASE set_cursor
  BY <1>8 DEF set_cursor, IInv, ConsoleTypes, CursorInPlace, HardwareFollows
<1>9. CASE UNCHANGED conVars
  BY <1>9 DEF conVars, IInv, ConsoleTypes, CursorInPlace, HardwareFollows
<1> QED BY <1>1, <1>2, <1>3, <1>4, <1>5, <1>6, <1>7, <1>8, <1>9 DEF Next

\* Every state of the console satisfies the invariant: the values have their
\* types, nothing is stored outside of the video memory, the address of the
\* cursor is that of its column and row, and the controller shows the screen
\* (console.c:44-150).
THEOREM ConsoleInvariance == Spec => []IInv
<1> QED BY InitInv, NextInv, PTL DEF Spec

\* The cursor and the screen stay in the video memory, for every size of them.
THEOREM CursorStaysInPlace == Spec => []CursorInPlace
<1>1. IInv => CursorInPlace
  BY DEF IInv
<1> QED BY <1>1, ConsoleInvariance, PTL

\* The registers of the controller follow the variables of the driver.
THEOREM HardwareAlwaysFollows == Spec => []HardwareFollows
<1>1. IInv => HardwareFollows
  BY DEF IInv
<1> QED BY <1>1, ConsoleInvariance, PTL

-----------------------------------------------------------------------------
(***************************************************************************)
(* The page that a part of the memory holds, and what the operations of    *)
(* the console do to it.                                                   *)
(***************************************************************************)
Spot(b, p) == b + p[1] * SCREEN_WIDTH + p[2]
PageOf(v, b) == [p \in Rows \X Columns |-> v[Spot(b, p)]]

\* A place has a line and a column, and a cell.
LEMMA Places ==
  ASSUME NEW p \in Rows \X Columns, NEW b \in Nat
  PROVE  /\ p = <<p[1], p[2]>> /\ p[1] \in Rows /\ p[2] \in Columns
         /\ p[1] \in 0 .. SCREEN_HEIGHT - 1 /\ p[2] \in 0 .. SCREEN_WIDTH - 1
         /\ p[1] * SCREEN_WIDTH \in Int
         /\ Spot(b, p) = b + (p[1] * SCREEN_WIDTH + p[2])
         /\ p[1] * SCREEN_WIDTH + p[2] \in 0 .. SCREEN_SIZE - 1
<1>1. p = <<p[1], p[2]>> /\ p[1] \in Rows /\ p[2] \in Columns
  OBVIOUS
<1>2. p[1] \in 0 .. SCREEN_HEIGHT - 1 /\ p[2] \in 0 .. SCREEN_WIDTH - 1
  BY <1>1 DEF Rows, Columns
<1>3. p[1] * SCREEN_WIDTH \in Int
  BY <1>2, Sizes
<1>4. Spot(b, p) = b + (p[1] * SCREEN_WIDTH + p[2])
  BY <1>2, <1>3 DEF Spot
<1> QED BY <1>1, <1>2, <1>3, <1>4, InScreen

\* Storing into the cell of a place changes the page in that place.
LEMMA StorePage ==
  ASSUME NEW v \in Memories, NEW b \in Nat, b + SCREEN_SIZE <= VID_MEM_END,
         NEW q \in Rows \X Columns, NEW g,
         NEW w, w = [a \in Cells |-> IF a = Spot(b, q) THEN g ELSE v[a]]
  PROVE  PageOf(w, b) = [PageOf(v, b) EXCEPT ![q] = g]
<1> SUFFICES ASSUME NEW p \in Rows \X Columns
             PROVE  w[Spot(b, p)] = IF p = q THEN g ELSE v[Spot(b, p)]
  BY DEF PageOf
<1> DEFINE o == p[1] * SCREEN_WIDTH + p[2]
           n == q[1] * SCREEN_WIDTH + q[2]
<1>a. Spot(b, p) = b + o /\ o \in 0 .. SCREEN_SIZE - 1
  BY Places
<1>b. Spot(b, q) = b + n /\ n \in 0 .. SCREEN_SIZE - 1
  BY Places
<1>c. /\ p[1] \in Int /\ q[1] \in Int
      /\ p[2] \in 0 .. SCREEN_WIDTH - 1 /\ q[2] \in 0 .. SCREEN_WIDTH - 1
  BY Places
<1>1. Spot(b, p) \in Cells
  <2> HIDE DEF o
  <2> QED BY <1>a, Sizes DEF Cells
<1>2. ASSUME Spot(b, p) = Spot(b, q)
      PROVE  p = q
  <2>1. o = n
    <3> HIDE DEF o, n
    <3>1. b + o = b + n
      BY <1>2, <1>a, <1>b, Zenon
    <3>2. o \in Int /\ n \in Int
      BY <1>a, <1>b, Sizes
    <3> QED BY <3>1, <3>2
  <2>2. \A r, s \in Int, k, l \in 0 .. SCREEN_WIDTH - 1 :
          r * SCREEN_WIDTH + k = s * SCREEN_WIDTH + l => r = s /\ k = l
    BY OnePlace, Sizes
  <2>3. p[1] = q[1] /\ p[2] = q[2]
    BY <2>1, <2>2, <1>c
  <2> QED BY <2>3, Places
<1> QED BY <1>1, <1>2

\* A line fed into the last line of the screen moves the page up, both when
\* the screen slides down and when it is moved back.
LEMMA SlidePage ==
  ASSUME NEW c, Good(c), Room(c)
  PROVE  PageOf(BlankAt(c.vram, LineBelow(c)), c.screen_base + ROW_SIZE)
           = Page!MovedUp(PageOf(c.vram, c.screen_base))
<1> DEFINE b == c.screen_base
           w == BlankAt(c.vram, LineBelow(c))
<1> SUFFICES ASSUME NEW p \in Rows \X Columns
             PROVE  w[Spot(b + ROW_SIZE, p)] =
                      IF p[1] = SCREEN_HEIGHT - 1 THEN Blank
                      ELSE PageOf(c.vram, b)[<<p[1] + 1, p[2]>>]
  BY DEF PageOf, Page!MovedUp, Page!Places, Page!Rows, Page!Columns, Rows, Columns
<1>1. b \in Nat /\ b + ROW_SIZE \in Nat /\ b + SCREEN_SIZE + ROW_SIZE < VID_MEM_END
  BY GoodParts, Sizes DEF Room
<1> DEFINE o == p[1] * SCREEN_WIDTH + p[2]
<1>2. o \in 0 .. SCREEN_SIZE - 1 /\ Spot(b + ROW_SIZE, p) = b + ROW_SIZE + o
  BY <1>1, Places
<1>3. p[1] = SCREEN_HEIGHT - 1 <=> o >= SCREEN_SIZE - ROW_SIZE
  BY Places, InScreen, <1>1
<1>4. LineBelow(c) = b + SCREEN_SIZE .. b + SCREEN_SIZE + ROW_SIZE - 1
  BY DEF LineBelow
<1>5. p[1] # SCREEN_HEIGHT - 1 =>
        /\ <<p[1] + 1, p[2]>> \in Rows \X Columns
        /\ Spot(b, <<p[1] + 1, p[2]>>) = b + ROW_SIZE + o
  <2> SUFFICES ASSUME p[1] # SCREEN_HEIGHT - 1
               PROVE  /\ <<p[1] + 1, p[2]>> \in Rows \X Columns
                      /\ Spot(b, <<p[1] + 1, p[2]>>) = b + ROW_SIZE + o
    OBVIOUS
  <2>1. p[1] \in 0 .. SCREEN_HEIGHT - 1 /\ p[2] \in Columns /\ p[2] \in Int
        /\ p[1] * SCREEN_WIDTH \in Int
    BY Places, <1>1
  <2>2. p[1] + 1 \in Rows
    BY <2>1, Sizes DEF Rows
  <2>3. (p[1] + 1) * SCREEN_WIDTH = p[1] * SCREEN_WIDTH + ROW_SIZE
    BY <2>1, Sizes
  <2>4. Spot(b, <<p[1] + 1, p[2]>>) = b + (p[1] + 1) * SCREEN_WIDTH + p[2]
    BY DEF Spot
  <2> QED BY <2>1, <2>2, <2>3, <2>4, <1>1, Sizes
<1> HIDE DEF o, b
<1>6. b + ROW_SIZE + o \in Cells
  BY <1>1, <1>2, Sizes DEF Cells
<1>7. b + ROW_SIZE + o \in LineBelow(c) <=> o >= SCREEN_SIZE - ROW_SIZE
  BY <1>1, <1>2, <1>4, Sizes
<1>8. w[b + ROW_SIZE + o] = IF o >= SCREEN_SIZE - ROW_SIZE THEN Blank
                            ELSE c.vram[b + ROW_SIZE + o]
  BY <1>6, <1>7 DEF BlankAt
<1>9. p[1] # SCREEN_HEIGHT - 1 =>
        PageOf(c.vram, b)[<<p[1] + 1, p[2]>>] = c.vram[b + ROW_SIZE + o]
  BY <1>5 DEF PageOf
<1> QED BY <1>2, <1>3, <1>8, <1>9

\* Copying the lines back moves the page up by one line.
LEMMA MovePage ==
  ASSUME NEW c, Good(c)
  PROVE  PageOf(MoveBack(c).vram, 0) = Page!MovedUp(PageOf(c.vram, c.screen_base))
<1> DEFINE b == c.screen_base
           w == [a \in Cells |-> IF a < SCREEN_SIZE - ROW_SIZE
                                 THEN c.vram[b + ROW_SIZE + a] ELSE Blank]
<1>0. MoveBack(c).vram = w
  BY Fields DEF MoveBack
<1> HIDE DEF w
<1> SUFFICES ASSUME NEW p \in Rows \X Columns
             PROVE  w[Spot(0, p)] =
                      IF p[1] = SCREEN_HEIGHT - 1 THEN Blank
                      ELSE PageOf(c.vram, b)[<<p[1] + 1, p[2]>>]
  BY <1>0 DEF PageOf, Page!MovedUp, Page!Places, Page!Rows, Page!Columns, Rows, Columns
<1>1. b \in Nat /\ b + SCREEN_SIZE <= VID_MEM_END
  BY GoodParts, Sizes
<1> DEFINE o == p[1] * SCREEN_WIDTH + p[2]
<1>2. o \in 0 .. SCREEN_SIZE - 1 /\ Spot(0, p) = o
  BY <1>1, Places
<1>3. p[1] = SCREEN_HEIGHT - 1 <=> o >= SCREEN_SIZE - ROW_SIZE
  BY Places, InScreen, <1>1
<1>5. p[1] # SCREEN_HEIGHT - 1 =>
        /\ <<p[1] + 1, p[2]>> \in Rows \X Columns
        /\ Spot(b, <<p[1] + 1, p[2]>>) = b + ROW_SIZE + o
  <2> SUFFICES ASSUME p[1] # SCREEN_HEIGHT - 1
               PROVE  /\ <<p[1] + 1, p[2]>> \in Rows \X Columns
                      /\ Spot(b, <<p[1] + 1, p[2]>>) = b + ROW_SIZE + o
    OBVIOUS
  <2>1. p[1] \in 0 .. SCREEN_HEIGHT - 1 /\ p[2] \in Columns /\ p[2] \in Int
        /\ p[1] * SCREEN_WIDTH \in Int
    BY Places, <1>1
  <2>2. p[1] + 1 \in Rows
    BY <2>1, Sizes DEF Rows
  <2>3. (p[1] + 1) * SCREEN_WIDTH = p[1] * SCREEN_WIDTH + ROW_SIZE
    BY <2>1, Sizes
  <2>4. Spot(b, <<p[1] + 1, p[2]>>) = b + (p[1] + 1) * SCREEN_WIDTH + p[2]
    BY DEF Spot
  <2> QED BY <2>1, <2>2, <2>3, <2>4, <1>1, Sizes
<1> HIDE DEF o, b
<1>6. o \in Cells
  BY <1>1, <1>2, Sizes DEF Cells
<1>8. w[o] = IF o < SCREEN_SIZE - ROW_SIZE THEN c.vram[b + ROW_SIZE + o] ELSE Blank
  BY <1>6 DEF w
<1>9. p[1] # SCREEN_HEIGHT - 1 =>
        PageOf(c.vram, b)[<<p[1] + 1, p[2]>>] = c.vram[b + ROW_SIZE + o]
  BY <1>5 DEF PageOf
<1>10. o < SCREEN_SIZE - ROW_SIZE <=> ~(o >= SCREEN_SIZE - ROW_SIZE)
  BY <1>2, Sizes
<1> QED BY <1>2, <1>3, <1>8, <1>9, <1>10

-----------------------------------------------------------------------------
(***************************************************************************)
(* Every step of the console is a step of the terminal, or none.           *)
(***************************************************************************)
Held(c) == PageOf(c.vram, c.screen_base)

\* The display shows the part of the memory where the screen is.
LEMMA ShownIsHeld ==
  ASSUME IInv
  PROVE  Shown = Held(con)
BY DEF IInv, HardwareFollows, Shown, Held, PageOf, Spot

\* The places of the terminal are those of the screen.
LEMMA SamePlaces ==
  /\ Page!Places = Rows \X Columns
  /\ Page!Rows = Rows /\ Page!Columns = Columns
BY DEF Page!Places, Page!Rows, Page!Columns, Rows, Columns

\* A line feed is one of the terminal, at the column where the cursor is.
LEMMA FeedStep ==
  ASSUME NEW c, Good(c)
  PROVE  /\ console_lf(c).cur_x = c.cur_x
         /\ IF c.cur_y = SCREEN_HEIGHT - 1
            THEN Held(console_lf(c)) = Page!MovedUp(Held(c)) /\ console_lf(c).cur_y = c.cur_y
            ELSE Held(console_lf(c)) = Held(c) /\ console_lf(c).cur_y = c.cur_y + 1
<1>0. c.cur_y + 1 < SCREEN_HEIGHT <=> c.cur_y # SCREEN_HEIGHT - 1
  BY GoodParts, Sizes DEF Rows
<1>1. CASE c.cur_y # SCREEN_HEIGHT - 1
  <2> DEFINE d == console_lf(c)
  <2>1. d.vram = c.vram /\ d.screen_base = c.screen_base /\ d.cur_x = c.cur_x
        /\ d.cur_y = c.cur_y + 1
    BY <1>0, <1>1 DEF console_lf, State
  <2> HIDE DEF d
  <2>2. Held(d) = Held(c)
    BY <2>1 DEF Held
  <2> QED BY <1>1, <2>1, <2>2 DEF d
<1>2. CASE c.cur_y = SCREEN_HEIGHT - 1 /\ Room(c)
  <2> DEFINE d == console_lf(c)
  <2>1. d.vram = BlankAt(c.vram, LineBelow(c)) /\ d.screen_base = c.screen_base + ROW_SIZE
        /\ d.cur_x = c.cur_x /\ d.cur_y = c.cur_y
    BY <1>0, <1>2 DEF console_lf, scroll_up, SlideDown, State
  <2> HIDE DEF d
  <2>2. Held(d) = Page!MovedUp(Held(c))
    BY <1>2, <2>1, SlidePage DEF Held
  <2> QED BY <1>2, <2>1, <2>2 DEF d
<1>3. CASE c.cur_y = SCREEN_HEIGHT - 1 /\ ~Room(c)
  <2> DEFINE d == console_lf(c)
  <2>1. d = MoveBack(c)
    BY <1>0, <1>3 DEF console_lf, scroll_up
  <2> HIDE DEF d
  <2>2. d.screen_base = 0 /\ d.cur_x = c.cur_x /\ d.cur_y = c.cur_y
    BY <2>1, Fields DEF MoveBack
  <2>3. Held(d) = Page!MovedUp(Held(c))
    BY <2>1, <2>2, MovePage DEF Held
  <2> QED BY <1>3, <2>2, <2>3 DEF d
<1> QED BY <1>1, <1>2, <1>3

\* The cell under the cursor is that of its place.
LEMMA UnderCursor ==
  ASSUME NEW c, Good(c)
  PROVE  /\ <<c.cur_y, c.cur_x>> \in Rows \X Columns
         /\ c.cur_pos = Spot(c.screen_base, <<c.cur_y, c.cur_x>>)
BY GoodParts DEF Spot

\* Blanking the cell of a place blanks the place.
LEMMA BlankPlace ==
  ASSUME NEW c, Good(c), NEW q \in Rows \X Columns
  PROVE  PageOf(BlankAt(c.vram, {Spot(c.screen_base, q)}), c.screen_base)
           = [Held(c) EXCEPT ![q] = Blank]
<1> DEFINE v == c.vram
           b == c.screen_base
           w == BlankAt(v, {Spot(b, q)})
<1>1. w = [a \in Cells |-> IF a = Spot(b, q) THEN Blank ELSE v[a]]
  BY DEF BlankAt
<1>2. v \in Memories /\ b \in Nat /\ b + SCREEN_SIZE <= VID_MEM_END
  BY GoodParts
<1> HIDE DEF v, b, w
<1>3. PageOf(w, b) = [PageOf(v, b) EXCEPT ![q] = Blank]
  BY <1>1, <1>2, StorePage
<1> QED BY <1>3 DEF Held, v, b, w

\* console_bs is a backspace of the page, or nothing.
LEMMA BackspaceStep ==
  ASSUME IInv, Turn(console_bs(con)), Shown = Held(con), Shown' = Held(con')
  PROVE  [Page!Next]_(Page!termVars)
<1>0. Good(con) /\ con' = console_bs(con)
  BY InvIsGood DEF Turn
<1>1. CASE con.cur_x = 0
  BY <1>0, <1>1 DEF console_bs, Page!termVars
<1>2. CASE con.cur_x # 0
  <2>1. /\ con'.vram = BlankAt(con.vram, {con.cur_pos - 1})
        /\ con'.screen_base = con.screen_base
        /\ con'.cur_x = con.cur_x - 1 /\ con'.cur_y = con.cur_y
    <3> DEFINE w == BlankAt(con.vram, {con.cur_pos - 1})
    <3>1. con' = State(w, con.screen_base, con.cur_pos - 1, con.cur_x - 1, con.cur_y,
                       con.crt_start)
      BY <1>0, <1>2 DEF console_bs
    <3> HIDE DEF w
    <3>2. /\ con'.vram = w /\ con'.screen_base = con.screen_base
          /\ con'.cur_x = con.cur_x - 1 /\ con'.cur_y = con.cur_y
      BY <3>1 DEF State
    <3> QED BY <3>2 DEF w
  <2>2. con.cur_x > 0 /\ con.cur_x - 1 \in Columns
    BY <1>0, <1>2, GoodParts, Sizes DEF Columns
  <2>3. con.cur_pos - 1 = Spot(con.screen_base, <<con.cur_y, con.cur_x - 1>>)
    <3>1. con.cur_y * SCREEN_WIDTH \in Int
      BY <1>0, GoodParts, Sizes DEF Rows
    <3> QED BY <1>0, <3>1, GoodParts DEF Spot, Columns
  <2>4. <<con.cur_y, con.cur_x - 1>> \in Rows \X Columns
    BY <1>0, <2>2, GoodParts
  <2>5. Held(con') = [Held(con) EXCEPT ![<<con.cur_y, con.cur_x - 1>>] = Blank]
    BY <1>0, <2>1, <2>3, <2>4, BlankPlace DEF Held
  <2>6. Page!Backspace
    BY <2>1, <2>2, <2>5 DEF Page!Backspace, Page!Written
  <2> QED BY <2>6 DEF Page!Next
<1> QED BY <1>1, <1>2

\* console_del is a delete of the page.
LEMMA DeleteStep ==
  ASSUME IInv, Turn(console_del(con)), Shown = Held(con), Shown' = Held(con')
  PROVE  [Page!Next]_(Page!termVars)
<1>0. Good(con) /\ con' = console_del(con)
  BY InvIsGood DEF Turn
<1>1. /\ con'.vram = BlankAt(con.vram, {con.cur_pos})
      /\ con'.screen_base = con.screen_base
      /\ con'.cur_x = con.cur_x /\ con'.cur_y = con.cur_y
  BY <1>0 DEF console_del, State
<1>2. Held(con') = [Held(con) EXCEPT ![<<con.cur_y, con.cur_x>>] = Blank]
  BY <1>0, <1>1, UnderCursor, BlankPlace DEF Held
<1>3. Page!Delete
  BY <1>1, <1>2 DEF Page!Delete, Page!Written
<1> QED BY <1>3 DEF Page!Next

\* console_cr is a return of the page.
LEMMA ReturnStep ==
  ASSUME IInv, Turn(console_cr(con)), Shown = Held(con), Shown' = Held(con')
  PROVE  [Page!Next]_(Page!termVars)
<1>1. con' = console_cr(con)
  BY DEF Turn
<1>2. /\ con'.vram = con.vram /\ con'.screen_base = con.screen_base
      /\ con'.cur_x = 0 /\ con'.cur_y = con.cur_y
  BY <1>1 DEF console_cr, State
<1>3. Held(con') = Held(con)
  BY <1>2 DEF Held
<1>4. Page!Return
  BY <1>2, <1>3 DEF Page!Return
<1> QED BY <1>4 DEF Page!Next

\* console_lf and console_cr together are a new line of the page.
LEMMA NewLineStep ==
  ASSUME IInv, Turn(console_cr(console_lf(con))), Shown = Held(con), Shown' = Held(con')
  PROVE  [Page!Next]_(Page!termVars)
<1> DEFINE d == console_lf(con)
<1>0. Good(con) /\ con' = console_cr(d)
  BY InvIsGood DEF Turn
<1>1. /\ con'.vram = d.vram /\ con'.screen_base = d.screen_base
      /\ con'.cur_x = 0 /\ con'.cur_y = d.cur_y
  <2> HIDE DEF d
  <2> QED BY <1>0 DEF console_cr, State
<1>2. Held(con') = Held(d)
  <2> HIDE DEF d
  <2> QED BY <1>1 DEF Held
<1>3. IF con.cur_y = SCREEN_HEIGHT - 1
      THEN Held(d) = Page!MovedUp(Held(con)) /\ d.cur_y = con.cur_y
      ELSE Held(d) = Held(con) /\ d.cur_y = con.cur_y + 1
  BY <1>0, FeedStep
<1>4. Page!NewLine
  <2> HIDE DEF d
  <2> QED BY <1>1, <1>2, <1>3 DEF Page!NewLine, Page!NextLine
<1> QED BY <1>4 DEF Page!Next

\* A character that is shown is put on the page, which may move up.
LEMMA GlyphStep ==
  ASSUME IInv, NEW glyph \in Glyphs, Turn(put(con, glyph)),
         Shown = Held(con), Shown' = Held(con')
  PROVE  [Page!Next]_(Page!termVars)
<1> DEFINE v == Filled(con, glyph)
           q == <<con.cur_y, con.cur_x>>
           pg == [Held(con) EXCEPT ![q] = glyph]
<1>0. Good(con) /\ con' = put(con, glyph)
  BY InvIsGood DEF Turn
<1>1. PageOf(v, con.screen_base) = pg
  <2>1. q \in Rows \X Columns /\ con.cur_pos = Spot(con.screen_base, q)
    BY <1>0, UnderCursor
  <2>2. v = [a \in Cells |-> IF a = Spot(con.screen_base, q) THEN glyph ELSE con.vram[a]]
    BY <2>1 DEF Filled
  <2> HIDE DEF v, q
  <2>3. PageOf(v, con.screen_base) = [PageOf(con.vram, con.screen_base) EXCEPT ![q] = glyph]
    <3>1. /\ con.vram \in Memories /\ con.screen_base \in Nat
          /\ con.screen_base + SCREEN_SIZE <= VID_MEM_END
      BY <1>0, GoodParts
    <3> QED BY <2>1, <2>2, <3>1, StorePage
  <2> QED BY <2>3 DEF Held
<1>2. CASE con.cur_x # SCREEN_WIDTH - 1
  <2>1. /\ con'.vram = v /\ con'.screen_base = con.screen_base
        /\ con'.cur_x = con.cur_x + 1 /\ con'.cur_y = con.cur_y
    <3>1. con' = State(v, con.screen_base, con.cur_pos + 1, con.cur_x + 1, con.cur_y,
                       con.screen_base)
      BY <1>0, <1>2, PutCases
    <3> HIDE DEF v
    <3> QED BY <3>1 DEF State
  <2>2. Held(con') = pg
    BY <1>1, <2>1 DEF Held
  <2>3. Page!Put(glyph)
    BY <1>2, <2>1, <2>2 DEF Page!Put, Page!Written
  <2> QED BY <2>3 DEF Page!Next
<1>3. CASE con.cur_x = SCREEN_WIDTH - 1
  <2> DEFINE c == State(v, con.screen_base, con.cur_pos - con.cur_x, 0, con.cur_y,
                        con.screen_base)
             d == console_lf(c)
  <2>1. con' = d
    BY <1>0, <1>3, PutCases
  <2>2. Good(c)
    BY <1>0, PutCases, GoodLineStart
  <2>3. c.vram = v /\ c.screen_base = con.screen_base /\ c.cur_x = 0 /\ c.cur_y = con.cur_y
    BY DEF State
  <2> HIDE DEF c
  <2>4. Held(c) = pg
    BY <1>1, <2>3 DEF Held
  <2>5. /\ d.cur_x = 0
        /\ IF con.cur_y = SCREEN_HEIGHT - 1
           THEN Held(d) = Page!MovedUp(pg) /\ d.cur_y = con.cur_y
           ELSE Held(d) = pg /\ d.cur_y = con.cur_y + 1
    BY <2>2, <2>3, <2>4, FeedStep
  <2> HIDE DEF d
  <2>6. Page!Put(glyph)
    BY <1>3, <2>1, <2>5 DEF Page!Put, Page!NextLine, Page!Written
  <2> QED BY <2>6 DEF Page!Next
<1> QED BY <1>2, <1>3

\* console_init clears the page.
LEMMA ClearStep ==
  ASSUME console_init, Shown' = Held(con')
  PROVE  Page!Clear
<1> DEFINE w == [a \in Cells |-> Blank]
<1>1. con'.vram = w /\ con'.screen_base = 0 /\ con'.cur_x = 0 /\ con'.cur_y = 0
  BY DEF console_init, State
<1>2. \A p \in Rows \X Columns : w[Spot(0, p)] = Blank
  <2> TAKE p \in Rows \X Columns
  <2>1. Spot(0, p) \in Cells
    <3> DEFINE o == p[1] * SCREEN_WIDTH + p[2]
    <3>1. Spot(0, p) = 0 + o /\ o \in 0 .. SCREEN_SIZE - 1
      BY Places
    <3> HIDE DEF o
    <3> QED BY <3>1, Sizes DEF Cells
  <2> QED BY <2>1
<1> HIDE DEF w
<1>3. Held(con') = Page!BlankPage
  BY <1>1, <1>2, SamePlaces DEF Held, PageOf, Page!BlankPage
<1> QED BY <1>1, <1>3 DEF Page!Clear

\* A state of the console shows a page.
LEMMA PageTypes ==
  ASSUME NEW c, Good(c)
  PROVE  Held(c) \in [Page!Places -> Glyphs \cup {Blank}]
<1> SUFFICES ASSUME NEW p \in Rows \X Columns
             PROVE  c.vram[Spot(c.screen_base, p)] \in Glyphs \cup {Blank}
  BY SamePlaces DEF Held, PageOf
<1> DEFINE o == p[1] * SCREEN_WIDTH + p[2]
<1>1. Spot(c.screen_base, p) = c.screen_base + o /\ o \in 0 .. SCREEN_SIZE - 1
  BY GoodParts, Places
<1> HIDE DEF o
<1>2. Spot(c.screen_base, p) \in Cells
  BY <1>1, GoodParts, Sizes DEF Cells
<1> QED BY <1>2, GoodParts DEF Memories

\* The console implements the terminal (console.c:44-150): for every size of
\* the screen and of the video memory, what is on the display behaves as a page
\* that loses its top line, and only that, when the cursor leaves it below.
THEOREM ConsoleImplementsTerminal == Spec => ImplementsTerminal
<1>1. IInv /\ Init => Page!Init
  <2> SUFFICES ASSUME IInv, Init PROVE Page!Init
    OBVIOUS
  <2>1. con.cur_x = 0 /\ con.cur_y = 0
    BY DEF Init, State
  <2>2. Shown \in [Page!Places -> Glyphs \cup {Blank}]
    BY ShownIsHeld, InvIsGood, PageTypes
  <2> QED BY <2>1, <2>2 DEF Page!Init
<1>2. IInv /\ IInv' /\ [Next]_conVars => [Page!Next]_(Page!termVars)
  <2> SUFFICES ASSUME IInv, IInv', [Next]_conVars
               PROVE  [Page!Next]_(Page!termVars)
    OBVIOUS
  <2>1. Shown = Held(con)
    BY ShownIsHeld
  <2>2. Shown' = Held(con')
    BY DEF IInv, HardwareFollows, Shown, Held, PageOf, Spot
  <2>3. CASE console_init
    BY <2>2, <2>3, ClearStep DEF Page!Next
  <2>4. CASE con' = con
    <3>1. Shown' = Shown /\ con'.cur_x = con.cur_x /\ con'.cur_y = con.cur_y
      BY <2>1, <2>2, <2>4
    <3> QED BY <3>1 DEF Page!termVars
  <2>5. CASE WriteBackspace
    BY <2>1, <2>2, <2>5, BackspaceStep DEF WriteBackspace
  <2>6. CASE WriteNewLine
    BY <2>1, <2>2, <2>6, NewLineStep DEF WriteNewLine
  <2>7. CASE WriteReturn
    BY <2>1, <2>2, <2>7, ReturnStep DEF WriteReturn
  <2>8. CASE WriteDelete
    BY <2>1, <2>2, <2>8, DeleteStep DEF WriteDelete
  <2>9. CASE WriteGlyph
    BY <2>1, <2>2, <2>9, GlyphStep DEF WriteGlyph
  <2>10. CASE console_write \/ set_cursor \/ UNCHANGED conVars
    BY <2>4, <2>10 DEF console_write, set_cursor, conVars
  <2> QED BY <2>3, <2>5, <2>6, <2>7, <2>8, <2>9, <2>10 DEF Next
<1> QED BY <1>1, <1>2, InitInv, ConsoleInvariance, PTL
        DEF Spec, ImplementsTerminal, Page!Spec
=============================================================================
