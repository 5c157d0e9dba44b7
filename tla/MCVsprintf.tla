----------------------------- MODULE MCVsprintf -----------------------------
(* Bytes of three kinds, strings of different lengths, ranges that overlap   *)
(* in all ways; integers of 8 bits.                                          *)
EXTENDS Vsprintf

\* No two neighbours are equal; some characters are negative.
Filled(zeros) ==
  [a \in Addr |-> IF a \in zeros THEN 0 ELSE IF a % 5 = 3 THEN 200 + a ELSE 65 + (a % 3)]
SomeMemories == {Filled({2, 5}), Filled({0, 5, ADDRS - 1})}

\* None of the texts has the second length.
AnyCount == {1, 255}

Conversion(conv, width, word) == [conv |-> conv, width |-> width, word |-> word]

Words == 0 .. WORD - 1
Numbers == {Conversion(c, w, v) : c \in {ConvD, ConvU, ConvX}, w \in {0, 3}, v \in Words}
Edges == {Conversion(c, w, v) : c \in {ConvD, ConvX}, w \in {0, 1, 10}, v \in {0, 16, 255}}
Others == {Conversion(ConvC, 0, 65), Conversion(ConvS, 0, 1), Conversion(ConvS, 0, 5),
           Conversion(ConvC, 3, 0), Conversion(Percent, 0, 0), Conversion(90, 0, 0)}

Lists == {<<q>> : q \in Numbers} \cup {<<q, r>> : q, r \in Edges \cup Others}
           \cup {<<q, Conversion(ConvX, 2, 9), r>> : q, r \in Others}
=============================================================================
