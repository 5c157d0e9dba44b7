------------------------------ MODULE Terminal ------------------------------
(***************************************************************************)
(* What the console promises: a page of characters with a cursor, that is  *)
(* moved up by a line when the cursor leaves it at the bottom.             *)
(***************************************************************************)
EXTENDS Integers

CONSTANTS SCREEN_WIDTH, SCREEN_HEIGHT, Glyphs, Blank

VARIABLES
  page,   \* the character at every place of the page
  x, y    \* the column and the row of the cursor

termVars == <<page, x, y>>

Columns == 0 .. SCREEN_WIDTH - 1
Rows == 0 .. SCREEN_HEIGHT - 1
Places == Rows \X Columns
BlankPage == [p \in Places |-> Blank]

Written(pg, p, glyph) == [pg EXCEPT ![p] = glyph]

MovedUp(pg) ==
  [p \in Places |-> IF p[1] = SCREEN_HEIGHT - 1 THEN Blank ELSE pg[<<p[1] + 1, p[2]>>]]

\* The cursor goes to column col of the next line; pg is the page by then.
NextLine(pg, col) ==
  /\ x' = col
  /\ IF y = SCREEN_HEIGHT - 1 THEN page' = MovedUp(pg) /\ y' = y
                              ELSE page' = pg /\ y' = y + 1

Clear == page' = BlankPage /\ x' = 0 /\ y' = 0

Put(glyph) ==
  LET pg == Written(page, <<y, x>>, glyph)
  IN  IF x = SCREEN_WIDTH - 1 THEN NextLine(pg, 0)
                              ELSE page' = pg /\ x' = x + 1 /\ y' = y

NewLine == NextLine(page, 0)

Return == x' = 0 /\ UNCHANGED <<page, y>>

Backspace ==
  /\ x > 0
  /\ x' = x - 1
  /\ page' = Written(page, <<y, x - 1>>, Blank)
  /\ UNCHANGED y

Delete == page' = Written(page, <<y, x>>, Blank) /\ UNCHANGED <<x, y>>

Init == page \in [Places -> Glyphs \cup {Blank}] /\ x = 0 /\ y = 0

Next ==
  \/ Clear
  \/ \E glyph \in Glyphs : Put(glyph)
  \/ NewLine \/ Return \/ Backspace \/ Delete

Spec == Init /\ [][Next]_termVars
=============================================================================
