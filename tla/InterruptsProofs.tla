-------------------------- MODULE InterruptsProofs --------------------------
(* The interrupts are under control, and the keyboard driver prints what was *)
(* typed, for every keyboard, every way of typing and every moment at which  *)
(* the devices raise their requests.                                         *)
EXTENDS Interrupts, SequenceTheorems, TLAPS

Lines == 0 .. 7
ChipType ==
  [icw : 0 .. 4, base : Nat, imr : SUBSET Lines, irr : SUBSET Lines, isr : SUBSET Lines,
   aeoi : BOOLEAN]

\* Which word the controllers wait for after k bytes of pic_init.
MasterWord == <<0, 2, 2, 3, 3, 4, 4, 0, 0, 0, 0>>
SlaveWord == <<0, 0, 2, 2, 3, 3, 4, 4, 0, 0, 0>>

ChipInv ==
  /\ DOMAIN chip = Chips
  /\ chip["master"] \in ChipType /\ chip["slave"] \in ChipType
  /\ outs \in 0 .. 10
  /\ chip["master"].icw = MasterWord[outs + 1]
  /\ chip["slave"].icw = SlaveWord[outs + 1]
  /\ outs >= 3 => chip["master"].base = 32
  /\ outs >= 4 => chip["slave"].base = 40
  /\ outs >= 9 => chip["master"].imr = Lines \ {1}
  /\ outs >= 10 => chip["slave"].imr = Lines

\* main_x64 and the one handler that may be in it: the keyboard's out of HLT,
\* or the test's, which never returns.
MainInv ==
  /\ test \in (0 .. 31) \cup {NoTest}
  /\ main \in {"memory", "pic", "idt", "test", "sti", "hlt"}
  /\ main = "memory" => outs = 0
  /\ main = "pic" => outs < 10
  /\ main \in {"idt", "test", "sti", "hlt"} => outs = 10
  /\ main \in {"test", "sti", "hlt"} => idtr

KeyFrame(at) == <<[vector |-> IRQ_KEYBOARD, at |-> at, flag |-> TRUE]>>
TestFrame(at) == <<[vector |-> test, at |-> at, flag |-> FALSE]>>

FrameInv ==
  /\ IF_flag \in BOOLEAN
  /\ IF_flag => main = "hlt" /\ frames = <<>>
  /\ \/ frames = <<>> /\ (test # NoTest => main \notin {"sti", "hlt"})
     \/ test = NoTest /\ main = "hlt" /\ \E at \in {"body", "iretq"} : frames = KeyFrame(at)
     \/ test # NoTest /\ main = "sti" /\ \E at \in {"body", "dead"} : frames = TestFrame(at)
  /\ test # NoTest => printed = <<INV, INV>>

IntInv == ChipInv /\ MainInv /\ FrameInv /\ EdgeKept

-----------------------------------------------------------------------------
(***************************************************************************)
(* The bytes that pic_init writes.                                         *)
(***************************************************************************)
LEMMA BitsOfWords ==
  /\ 4 \in Bits(17)
  /\ 4 \notin Bits(32)
  /\ Bits(253) = Lines \ {1}
  /\ Bits(255) = Lines
  BY DEF Bits, Weight, Lines

LEMMA BitsAreLines == ASSUME NEW v \in Nat PROVE Bits(v) \in SUBSET Lines
  BY DEF Bits, Lines

\* A byte goes to one of the controllers, as a command or as data.
LEMMA ToMasterCommand ==
  ASSUME NEW v, out_byte(32, v)
  PROVE  /\ DOMAIN chip' = Chips
         /\ chip'["master"] = WriteCommand(chip["master"], v)
         /\ chip'["slave"] = chip["slave"]
  BY DEF out_byte, Chips, CommandPort

LEMMA ToSlaveCommand ==
  ASSUME NEW v, out_byte(160, v)
  PROVE  /\ DOMAIN chip' = Chips
         /\ chip'["slave"] = WriteCommand(chip["slave"], v)
         /\ chip'["master"] = chip["master"]
  BY DEF out_byte, Chips, CommandPort

LEMMA ToMaster ==
  ASSUME NEW v, out_byte(33, v)
  PROVE  /\ DOMAIN chip' = Chips
         /\ chip'["master"] = WriteData(chip["master"], v)
         /\ chip'["slave"] = chip["slave"]
  BY DEF out_byte, Chips, CommandPort

LEMMA ToSlave ==
  ASSUME NEW v, out_byte(161, v)
  PROVE  /\ DOMAIN chip' = Chips
         /\ chip'["slave"] = WriteData(chip["slave"], v)
         /\ chip'["master"] = chip["master"]
  BY DEF out_byte, Chips, CommandPort

\* ICW1, and the words behind it in their turn.
LEMMA FirstWord ==
  ASSUME NEW c \in ChipType
  PROVE  WriteCommand(c, 17) \in ChipType /\ WriteCommand(c, 17).icw = 2
<1>1. WriteCommand(c, 17) = [c EXCEPT !.icw = 2, !.imr = {}, !.irr = {}, !.isr = {}]
  BY BitsOfWords DEF WriteCommand
<1>2. {} \in SUBSET Lines /\ 2 \in 0 .. 4
  OBVIOUS
<1> QED  BY <1>1, <1>2 DEF ChipType

LEMMA EndOfInterrupt ==
  ASSUME NEW c \in ChipType
  PROVE  LET e == WriteCommand(c, 32)
         IN  /\ e \in ChipType
             /\ e.icw = c.icw /\ e.base = c.base /\ e.imr = c.imr /\ e.irr = c.irr
  BY BitsOfWords DEF WriteCommand, ChipType, Lines

LEMMA NextWord ==
  ASSUME NEW c \in ChipType, NEW v \in Nat, c.icw # 1
  PROVE  LET w == WriteData(c, v)
         IN  /\ w \in ChipType
             /\ w.irr = c.irr
             /\ c.icw = 2 => w.icw = 3 /\ w.base = 8 * (v \div 8)
             /\ c.icw = 3 => w.icw = 4 /\ w.base = c.base
             /\ c.icw = 4 => w.icw = 0 /\ w.base = c.base
             /\ c.icw = 0 => w.icw = 0 /\ w.base = c.base /\ w.imr = Bits(v)
<1>1. Bits(v) \in SUBSET Lines
  BY BitsAreLines
<1>2. CASE c.icw = 2
  <2> DEFINE first == 8 * (v \div 8)
  <2>1. WriteData(c, v) = [c EXCEPT !.icw = 3, !.base = first]
    BY <1>2 DEF WriteData
  <2>2. first \in Nat
    OBVIOUS
  <2> HIDE DEF first
  <2>3. [c EXCEPT !.icw = 3, !.base = first] \in ChipType
    <3>1. [c EXCEPT !.icw = 3] \in ChipType
      BY DEF ChipType
    <3>2. [[c EXCEPT !.icw = 3] EXCEPT !.base = first] \in ChipType
      BY <2>2, <3>1 DEF ChipType
    <3> QED  BY <3>2, Zenon
  <2>4. LET w == [c EXCEPT !.icw = 3, !.base = first]
        IN  w.irr = c.irr /\ w.icw = 3 /\ w.base = first
    BY DEF ChipType
  <2> QED  BY <1>2, <2>1, <2>3, <2>4 DEF first
<1>3. CASE c.icw = 3
  BY <1>3 DEF WriteData, ChipType
<1>4. CASE c.icw = 4
  <2> DEFINE automatic == 1 \in Bits(v)
  <2>1. WriteData(c, v) = [c EXCEPT !.icw = 0, !.aeoi = automatic]
    BY <1>4 DEF WriteData
  <2>2. automatic \in BOOLEAN
    OBVIOUS
  <2> HIDE DEF automatic
  <2>3. [c EXCEPT !.icw = 0, !.aeoi = automatic] \in ChipType
    <3>1. [c EXCEPT !.icw = 0] \in ChipType
      BY DEF ChipType
    <3>2. [[c EXCEPT !.icw = 0] EXCEPT !.aeoi = automatic] \in ChipType
      BY <2>2, <3>1 DEF ChipType
    <3> QED  BY <3>2, Zenon
  <2>4. LET w == [c EXCEPT !.icw = 0, !.aeoi = automatic]
        IN  w.irr = c.irr /\ w.icw = 0 /\ w.base = c.base
    BY DEF ChipType
  <2> QED  BY <1>4, <2>1, <2>3, <2>4
<1>5. CASE c.icw = 0
  BY <1>1, <1>5 DEF WriteData, ChipType
<1>6. c.icw \in 0 .. 4
  BY DEF ChipType
<1> QED  BY <1>2, <1>3, <1>4, <1>5, <1>6
\* What is known of the controllers when the byte k is written.
LEMMA PicWord ==
  ASSUME ChipInv, NEW k \in 0 .. 9, outs = k, outs' = k + 1,
         out_byte(init_8259a[k + 1][1], init_8259a[k + 1][2])
  PROVE  ChipInv' /\ (k > 0 => chip'["master"].irr = chip["master"].irr)
<1> DEFINE m == chip["master"]
           s == chip["slave"]
<1>0. /\ m \in ChipType /\ s \in ChipType
      /\ m.icw = MasterWord[k + 1] /\ s.icw = SlaveWord[k + 1]
      /\ k >= 3 => m.base = 32
      /\ k >= 4 => s.base = 40
      /\ k >= 9 => m.imr = Lines \ {1}
  BY DEF ChipInv
<1>1. CASE k = 0
  <2>1. out_byte(32, 17)
    BY <1>1 DEF init_8259a
  <2>2. DOMAIN chip' = Chips /\ chip'["master"] = WriteCommand(m, 17) /\ chip'["slave"] = s
    BY <2>1, ToMasterCommand
  <2>3. chip'["master"] \in ChipType /\ chip'["master"].icw = 2
    BY <1>0, <2>2, FirstWord
  <2> QED  BY <1>0, <1>1, <2>2, <2>3 DEF ChipInv, MasterWord, SlaveWord
<1>2. CASE k = 1
  <2>1. out_byte(160, 17)
    BY <1>2 DEF init_8259a
  <2>2. DOMAIN chip' = Chips /\ chip'["slave"] = WriteCommand(s, 17) /\ chip'["master"] = m
    BY <2>1, ToSlaveCommand
  <2>3. chip'["slave"] \in ChipType /\ chip'["slave"].icw = 2
    BY <1>0, <2>2, FirstWord
  <2> QED  BY <1>0, <1>2, <2>2, <2>3 DEF ChipInv, MasterWord, SlaveWord
<1>3. CASE k = 2
  <2>1. out_byte(33, 32) /\ m.icw = 2
    BY <1>0, <1>3 DEF init_8259a, MasterWord
  <2>2. DOMAIN chip' = Chips /\ chip'["master"] = WriteData(m, 32) /\ chip'["slave"] = s
    BY <2>1, ToMaster
  <2>3. /\ chip'["master"] \in ChipType /\ chip'["master"].irr = m.irr
        /\ chip'["master"].icw = 3 /\ chip'["master"].base = 32
    BY <1>0, <2>1, <2>2, NextWord
  <2> QED  BY <1>0, <1>3, <2>2, <2>3 DEF ChipInv, MasterWord, SlaveWord
<1>4. CASE k = 3
  <2>1. out_byte(161, 40) /\ s.icw = 2
    BY <1>0, <1>4 DEF init_8259a, SlaveWord
  <2>2. DOMAIN chip' = Chips /\ chip'["slave"] = WriteData(s, 40) /\ chip'["master"] = m
    BY <2>1, ToSlave
  <2>3. /\ chip'["slave"] \in ChipType /\ chip'["slave"].irr = s.irr
        /\ chip'["slave"].icw = 3 /\ chip'["slave"].base = 40
    BY <1>0, <2>1, <2>2, NextWord
  <2> QED  BY <1>0, <1>4, <2>2, <2>3 DEF ChipInv, MasterWord, SlaveWord
<1>5. CASE k = 4
  <2>1. out_byte(33, 4) /\ m.icw = 3
    BY <1>0, <1>5 DEF init_8259a, MasterWord
  <2>2. DOMAIN chip' = Chips /\ chip'["master"] = WriteData(m, 4) /\ chip'["slave"] = s
    BY <2>1, ToMaster
  <2>3. /\ chip'["master"] \in ChipType /\ chip'["master"].irr = m.irr
        /\ chip'["master"].icw = 4 /\ chip'["master"].base = m.base
    BY <1>0, <2>1, <2>2, NextWord
  <2> QED  BY <1>0, <1>5, <2>2, <2>3 DEF ChipInv, MasterWord, SlaveWord
<1>6. CASE k = 5
  <2>1. out_byte(161, 2) /\ s.icw = 3
    BY <1>0, <1>6 DEF init_8259a, SlaveWord
  <2>2. DOMAIN chip' = Chips /\ chip'["slave"] = WriteData(s, 2) /\ chip'["master"] = m
    BY <2>1, ToSlave
  <2>3. /\ chip'["slave"] \in ChipType /\ chip'["slave"].irr = s.irr
        /\ chip'["slave"].icw = 4 /\ chip'["slave"].base = s.base
    BY <1>0, <2>1, <2>2, NextWord
  <2> QED  BY <1>0, <1>6, <2>2, <2>3 DEF ChipInv, MasterWord, SlaveWord
<1>7. CASE k = 6
  <2>1. out_byte(33, 3) /\ m.icw = 4
    BY <1>0, <1>7 DEF init_8259a, MasterWord
  <2>2. DOMAIN chip' = Chips /\ chip'["master"] = WriteData(m, 3) /\ chip'["slave"] = s
    BY <2>1, ToMaster
  <2>3. /\ chip'["master"] \in ChipType /\ chip'["master"].irr = m.irr
        /\ chip'["master"].icw = 0 /\ chip'["master"].base = m.base
    BY <1>0, <2>1, <2>2, NextWord
  <2> QED  BY <1>0, <1>7, <2>2, <2>3 DEF ChipInv, MasterWord, SlaveWord
<1>8. CASE k = 7
  <2>1. out_byte(161, 3) /\ s.icw = 4
    BY <1>0, <1>8 DEF init_8259a, SlaveWord
  <2>2. DOMAIN chip' = Chips /\ chip'["slave"] = WriteData(s, 3) /\ chip'["master"] = m
    BY <2>1, ToSlave
  <2>3. /\ chip'["slave"] \in ChipType /\ chip'["slave"].irr = s.irr
        /\ chip'["slave"].icw = 0 /\ chip'["slave"].base = s.base
    BY <1>0, <2>1, <2>2, NextWord
  <2> QED  BY <1>0, <1>8, <2>2, <2>3 DEF ChipInv, MasterWord, SlaveWord
<1>9. CASE k = 8
  <2>1. out_byte(33, 253) /\ m.icw = 0
    BY <1>0, <1>9 DEF init_8259a, MasterWord
  <2>2. DOMAIN chip' = Chips /\ chip'["master"] = WriteData(m, 253) /\ chip'["slave"] = s
    BY <2>1, ToMaster
  <2>3. /\ chip'["master"] \in ChipType /\ chip'["master"].irr = m.irr
        /\ chip'["master"].icw = 0 /\ chip'["master"].base = m.base /\ chip'["master"].imr = Lines \ {1}
    BY <1>0, <2>1, <2>2, NextWord, BitsOfWords
  <2> QED  BY <1>0, <1>9, <2>2, <2>3 DEF ChipInv, MasterWord, SlaveWord
<1>10. CASE k = 9
  <2>1. out_byte(161, 255) /\ s.icw = 0
    BY <1>0, <1>10 DEF init_8259a, SlaveWord
  <2>2. DOMAIN chip' = Chips /\ chip'["slave"] = WriteData(s, 255) /\ chip'["master"] = m
    BY <2>1, ToSlave
  <2>3. /\ chip'["slave"] \in ChipType /\ chip'["slave"].irr = s.irr
        /\ chip'["slave"].icw = 0 /\ chip'["slave"].base = s.base /\ chip'["slave"].imr = Lines
    BY <1>0, <2>1, <2>2, NextWord, BitsOfWords
  <2> QED  BY <1>0, <1>10, <2>2, <2>3 DEF ChipInv, MasterWord, SlaveWord
<1> QED  BY <1>1, <1>2, <1>3, <1>4, <1>5, <1>6, <1>7, <1>8, <1>9, <1>10
-----------------------------------------------------------------------------
(***************************************************************************)
(* The other steps.                                                        *)
(***************************************************************************)
\* Once main_x64 is past pic_init only line 1 of the master gets through.
LEMMA OnlyLineOne ==
  ASSUME ChipInv, outs = 10, Pending # {}
  PROVE  /\ 1 \in chip["master"].irr /\ Least(Pending) = 1
         /\ ~Slaved /\ Vector = IRQ_KEYBOARD
<1>1. /\ chip["master"].irr \in SUBSET Lines /\ chip["master"].imr = Lines \ {1}
      /\ chip["slave"].irr \in SUBSET Lines /\ chip["slave"].imr = Lines
      /\ chip["master"].base = 32
  BY DEF ChipInv, ChipType
<1>2. Requests("slave") = {}
  BY <1>1 DEF Requests
<1>3. Cascade = {}
  BY <1>2 DEF Cascade
<1>4. Requests("master") \subseteq chip["master"].irr \cap {1}
  BY <1>1 DEF Requests
<1>5. Pending = {1} /\ 1 \in chip["master"].irr
  BY <1>3, <1>4 DEF Pending
<1>6. Least({1}) = 1
  BY DEF Least
<1> QED  BY <1>1, <1>5, <1>6 DEF Slaved, Vector, IRQ_KEYBOARD

\* What a controller keeps when it is acknowledged or a line rises.
LEMMA Accepted ==
  ASSUME NEW c \in ChipType, NEW l \in Lines
  PROVE  LET a == Accept(c, l)
         IN  a \in ChipType /\ a.icw = c.icw /\ a.base = c.base /\ a.imr = c.imr
<1>1. CASE c.aeoi
  <2>1. Accept(c, l) = [c EXCEPT !.irr = @ \ {l}, !.isr = @]
    BY <1>1 DEF Accept
  <2>2. [c EXCEPT !.irr = @ \ {l}, !.isr = @] = [c EXCEPT !.irr = c.irr \ {l}]
    BY DEF ChipType
  <2> QED  BY <2>1, <2>2 DEF ChipType, Lines
<1>2. CASE ~c.aeoi
  <2> DEFINE inService == c.isr \cup {l}
  <2>1. Accept(c, l) = [[c EXCEPT !.irr = c.irr \ {l}] EXCEPT !.isr = inService]
    BY <1>2 DEF Accept, ChipType
  <2>2. inService \in SUBSET Lines
    BY DEF ChipType
  <2> HIDE DEF inService
  <2>3. [c EXCEPT !.irr = c.irr \ {l}] \in ChipType
    BY DEF ChipType, Lines
  <2>4. [[c EXCEPT !.irr = c.irr \ {l}] EXCEPT !.isr = inService] \in ChipType
    BY <2>2, <2>3 DEF ChipType
  <2> QED  BY <2>1, <2>4 DEF ChipType
<1> QED  BY <1>1, <1>2

LEMMA LineRises ==
  ASSUME ChipInv, NEW l \in Lines, chip' = Rises(l), outs' = outs
  PROVE  ChipInv' /\ chip["master"].irr \subseteq chip'["master"].irr /\ l \in chip'["master"].irr
<1> DEFINE m == chip["master"]
<1>1. m \in ChipType
  BY DEF ChipInv
<1>2. chip'["slave"] = chip["slave"] /\ chip'["master"] = [m EXCEPT !.irr = @ \cup {l}]
  BY DEF Rises, ChipInv, Chips
<1>3. [m EXCEPT !.irr = @ \cup {l}] = [m EXCEPT !.irr = m.irr \cup {l}]
  BY <1>1 DEF ChipType
<1>4. m.irr \cup {l} \in SUBSET Lines
  BY <1>1 DEF ChipType
<1>5. LET r == [m EXCEPT !.irr = m.irr \cup {l}]
      IN  r \in ChipType /\ r.irr = m.irr \cup {l}
            /\ r.icw = m.icw /\ r.base = m.base /\ r.imr = m.imr
  BY <1>1, <1>4 DEF ChipType
<1>6. DOMAIN chip' = DOMAIN chip
  BY DEF Rises
<1>7. /\ chip'["master"] \in ChipType /\ chip'["master"].irr = m.irr \cup {l}
      /\ chip'["master"].icw = m.icw /\ chip'["master"].base = m.base
      /\ chip'["master"].imr = m.imr
  BY <1>2, <1>3, <1>5
<1> QED  BY <1>2, <1>6, <1>7 DEF ChipInv
\* The initial states satisfy the inductive invariant.
THEOREM IntInvInit == IntInit => IntInv
<1> SUFFICES ASSUME IntInit PROVE IntInv
  OBVIOUS
<1>1. ChipInv
  BY DEF IntInit, AfterBoot, ChipInv, Chips, ChipType, Lines, MasterWord, SlaveWord
<1>2. MainInv
  BY TestsAssumption DEF IntInit, MainInv
<1>3. FrameInv
  BY DEF IntInit, Init, FrameInv
<1>4. EdgeKept
  BY DEF IntInit, EdgeKept
<1> QED  BY <1>1, <1>2, <1>3, <1>4 DEF IntInv

LEMMA ChipUnchanged == ChipInv /\ UNCHANGED <<chip, outs>> => ChipInv'
  BY DEF ChipInv

LEMMA EdgeUnchanged ==
  EdgeKept /\ UNCHANGED <<chip, outs, obf, early, frames>> => EdgeKept'
  BY DEF EdgeKept

LEMMA PicInitKeeps == IntInv /\ pic_init => IntInv'
<1> SUFFICES ASSUME IntInv, pic_init PROVE IntInv'
  OBVIOUS
<1>1. /\ frames = <<>> /\ main = "pic" /\ outs \in 0 .. 9 /\ outs' = outs + 1
      /\ out_byte(init_8259a[outs + 1][1], init_8259a[outs + 1][2])
      /\ main' = IF outs' = 10 THEN "idt" ELSE "pic"
      /\ early' = IF outs = 0 THEN obf ELSE early
      /\ UNCHANGED <<test, idtr, IF_flag, frames, obf, printed>>
  BY DEF IntInv, ChipInv, MainInv, pic_init, InMain, init_8259a, vars
<1>2. ChipInv' /\ (outs > 0 => chip'["master"].irr = chip["master"].irr)
  BY <1>1, PicWord DEF IntInv
<1>3. MainInv'
  BY <1>1 DEF IntInv, MainInv
<1>4. FrameInv'
  BY <1>1 DEF IntInv, FrameInv
<1>5. EdgeKept'
  BY <1>1, <1>2 DEF IntInv, EdgeKept
<1> QED  BY <1>2, <1>3, <1>4, <1>5 DEF IntInv

\* The other calls of main_x64.
LEMMA MainKeeps == IntInv /\ (SetUpMemory \/ idt_init \/ STI) => IntInv'
<1> SUFFICES ASSUME IntInv, SetUpMemory \/ idt_init \/ STI PROVE IntInv'
  OBVIOUS
<1>1. /\ frames = <<>>
      /\ UNCHANGED <<test, outs, frames, chip, obf, early, printed>>
  BY DEF SetUpMemory, idt_init, STI, InMain, vars
<1>2. ChipInv' /\ EdgeKept'
  BY <1>1, ChipUnchanged, EdgeUnchanged DEF IntInv
<1>3. MainInv'
  BY <1>1 DEF IntInv, MainInv, SetUpMemory, idt_init, STI, InMain
<1>4. /\ IF_flag \in BOOLEAN
      /\ IF_flag => main = "hlt"
      /\ test # NoTest => main \notin {"sti", "hlt"} /\ printed = <<INV, INV>>
  <2>1. frames # KeyFrame("body") /\ frames # KeyFrame("iretq")
          /\ frames # TestFrame("body") /\ frames # TestFrame("dead")
    BY <1>1 DEF KeyFrame, TestFrame
  <2> QED  BY <2>1 DEF IntInv, FrameInv
<1>5. /\ IF_flag' \in BOOLEAN
      /\ IF_flag' => main' = "hlt"
      /\ test' # NoTest => main' \notin {"sti", "hlt"}
  <2>1. CASE SetUpMemory
    BY <1>1, <1>4, <2>1 DEF SetUpMemory, InMain
  <2>2. CASE idt_init
    BY <1>1, <1>4, <2>2 DEF idt_init, InMain
  <2>3. CASE STI
    <3>1. IF_flag' = TRUE /\ main = "sti" /\ main' = "hlt"
      BY <2>3 DEF STI, InMain
    <3> QED  BY <1>1, <1>4, <3>1
  <2> QED  BY <2>1, <2>2, <2>3
<1>6. FrameInv'
  <2>1. /\ frames' = <<>> /\ IF_flag' \in BOOLEAN /\ (IF_flag' => main' = "hlt")
        /\ (test' # NoTest => main' \notin {"sti", "hlt"})
        /\ (test' # NoTest => printed' = <<INV, INV>>)
    <3>1. frames' = <<>>
      BY <1>1
    <3>2. test' # NoTest => printed' = <<INV, INV>>
      BY <1>1, <1>4, Zenon
    <3> QED  BY <1>5, <3>1, <3>2, Zenon
  <2> QED  BY ONLY <2>1 DEF FrameInv
<1> QED  BY <1>2, <1>3, <1>6 DEF IntInv

LEMMA RaiseTestKeeps == IntInv /\ RaiseTest => IntInv'
<1> SUFFICES ASSUME IntInv, RaiseTest PROVE IntInv'
  OBVIOUS
<1>1. /\ frames = <<>> /\ main = "test" /\ main' = "sti" /\ IF_flag = FALSE
      /\ UNCHANGED <<test, outs, idtr, chip, obf, early, printed>>
  BY DEF IntInv, FrameInv, RaiseTest, InMain, vars
<1>2. ChipInv' /\ MainInv'
  BY <1>1, ChipUnchanged DEF IntInv, MainInv
<1>3. CASE test = NoTest
  <2>1. frames' = frames /\ IF_flag' = IF_flag
    BY <1>3 DEF RaiseTest
  <2>2. FrameInv'
    BY <1>1, <1>3, <2>1 DEF IntInv, FrameInv
  <2>3. EdgeKept'
    BY <1>1, <2>1, EdgeUnchanged DEF IntInv
  <2> QED  BY <1>2, <2>2, <2>3 DEF IntInv
<1>4. CASE test # NoTest
  <2>1. frames' = TestFrame("body")' /\ IF_flag' = FALSE
    BY <1>1, <1>4 DEF RaiseTest, Enter, FlagInHandler, TestFrame
  <2>2. FrameInv'
    BY <1>1, <1>4, <2>1 DEF IntInv, FrameInv
  <2>3. EdgeKept'
    BY <1>1 DEF IntInv, EdgeKept
  <2> QED  BY <1>2, <2>2, <2>3 DEF IntInv
<1> QED  BY <1>3, <1>4

LEMMA InterruptKeeps == IntInv /\ Interrupt => IntInv'
<1> SUFFICES ASSUME IntInv, Interrupt PROVE IntInv'
  OBVIOUS
<1>1. /\ IF_flag = TRUE /\ main = "hlt" /\ frames = <<>> /\ test = NoTest /\ outs = 10
      /\ Pending # {}
      /\ UNCHANGED <<test, main, outs, idtr, obf, early, printed>>
  BY DEF IntInv, FrameInv, MainInv, Interrupt, vars
<1>2. Least(Pending) = 1 /\ ~Slaved /\ Vector = IRQ_KEYBOARD
  BY <1>1, OnlyLineOne DEF IntInv
<1>3. chip' = [master |-> Accept(chip["master"], 1), slave |-> chip["slave"]]
  BY <1>2 DEF Interrupt, Acknowledge
<1>4. frames' = KeyFrame("body") /\ IF_flag' = FALSE
  BY <1>1, <1>2 DEF Interrupt, Enter, FlagInHandler, KeyFrame
<1>5. LET a == Accept(chip["master"], 1) m == chip["master"]
      IN  a \in ChipType /\ a.icw = m.icw /\ a.base = m.base /\ a.imr = m.imr
  BY Accepted DEF IntInv, ChipInv, Lines
<1>6. ChipInv'
  BY <1>1, <1>3, <1>5 DEF IntInv, ChipInv, Chips
<1>7. MainInv'
  BY <1>1 DEF IntInv, MainInv
<1>8. FrameInv'
  BY <1>1, <1>4 DEF IntInv, FrameInv, KeyFrame
<1>9. EdgeKept'
  BY <1>4 DEF EdgeKept, KeyFrame
<1> QED  BY <1>6, <1>7, <1>8, <1>9 DEF IntInv
\* The frame that runs: the driver's or the test's.
LEMMA OneFrame ==
  ASSUME NEW f
  PROVE  Head(<<f>>) = f /\ Tail(<<f>>) = <<>> /\ <<f>> # <<>> /\ DOMAIN <<f>> = {1}
  OBVIOUS

LEMMA FrameGoesTo ==
  ASSUME NEW v, NEW at, NEW flag, NEW place
  PROVE  [[vector |-> v, at |-> at, flag |-> flag] EXCEPT !.at = place]
           = [vector |-> v, at |-> place, flag |-> flag]
  OBVIOUS

LEMMA KeyRuns ==
  ASSUME NEW at, frames = KeyFrame(at)
  PROVE  /\ Head(frames).vector = IRQ_KEYBOARD /\ Head(frames).at = at /\ Head(frames).flag = TRUE
         /\ Tail(frames) = <<>> /\ DOMAIN frames = {1} /\ frames[1].at = at
         /\ \A place : <<[Head(frames) EXCEPT !.at = place]>> \o Tail(frames) = KeyFrame(place)
<1> DEFINE f == [vector |-> IRQ_KEYBOARD, at |-> at, flag |-> TRUE]
<1>1. frames = <<f>> /\ Head(frames) = f /\ Tail(frames) = <<>> /\ DOMAIN frames = {1}
  BY OneFrame DEF KeyFrame
<1>2. \A place : [f EXCEPT !.at = place] = [vector |-> IRQ_KEYBOARD, at |-> place, flag |-> TRUE]
  <2> TAKE place
  <2> DEFINE v == IRQ_KEYBOARD
  <2> DEFINE y == TRUE
  <2> HIDE DEF v, y
  <2>1. [[vector |-> v, at |-> at, flag |-> y] EXCEPT !.at = place]
           = [vector |-> v, at |-> place, flag |-> y]
    BY FrameGoesTo
  <2> QED  BY <2>1 DEF v, y
<1>3. \A x : <<x>> \o <<>> = <<x>>
  OBVIOUS
<1>4. \A place : <<[Head(frames) EXCEPT !.at = place]>> \o Tail(frames) = KeyFrame(place)
  <2> TAKE place
  <2>1. [Head(frames) EXCEPT !.at = place] = [vector |-> IRQ_KEYBOARD, at |-> place, flag |-> TRUE]
    BY <1>1, <1>2, Zenon
  <2> QED  BY <1>1, <1>3, <2>1, Zenon DEF KeyFrame
<1>5. /\ f.vector = IRQ_KEYBOARD /\ f.at = at /\ f.flag = TRUE
      /\ frames[1] = f
  BY DEF KeyFrame
<1> QED  BY <1>1, <1>4, <1>5, Zenon

LEMMA TestRuns ==
  ASSUME NEW at, frames = TestFrame(at)
  PROVE  /\ Head(frames).vector = test /\ Head(frames).at = at /\ Head(frames).flag = FALSE
         /\ Tail(frames) = <<>> /\ DOMAIN frames = {1} /\ frames[1].vector = test
         /\ \A place : <<[Head(frames) EXCEPT !.at = place]>> \o Tail(frames) = TestFrame(place)
<1> DEFINE f == [vector |-> test, at |-> at, flag |-> FALSE]
<1>1. frames = <<f>> /\ Head(frames) = f /\ Tail(frames) = <<>> /\ DOMAIN frames = {1}
  BY OneFrame DEF TestFrame
<1>2. \A place : [f EXCEPT !.at = place] = [vector |-> test, at |-> place, flag |-> FALSE]
  <2> TAKE place
  <2> DEFINE v == test
  <2> DEFINE y == FALSE
  <2> HIDE DEF v, y
  <2>1. [[vector |-> v, at |-> at, flag |-> y] EXCEPT !.at = place]
           = [vector |-> v, at |-> place, flag |-> y]
    BY FrameGoesTo
  <2> QED  BY <2>1 DEF v, y
<1>3. \A x : <<x>> \o <<>> = <<x>>
  OBVIOUS
<1>4. \A place : <<[Head(frames) EXCEPT !.at = place]>> \o Tail(frames) = TestFrame(place)
  <2> TAKE place
  <2>1. [Head(frames) EXCEPT !.at = place] = [vector |-> test, at |-> place, flag |-> FALSE]
    BY <1>1, <1>2, Zenon
  <2> QED  BY <1>1, <1>3, <2>1, Zenon DEF TestFrame
<1>5. /\ f.vector = test /\ f.at = at /\ f.flag = FALSE
      /\ frames[1] = f
  BY DEF TestFrame
<1> QED  BY <1>1, <1>4, <1>5, Zenon

LEMMA WhoRuns ==
  ASSUME FrameInv, frames # <<>>
  PROVE  /\ IF_flag = FALSE
         /\ \/ test = NoTest /\ main = "hlt" /\ \E at \in {"body", "iretq"} : frames = KeyFrame(at)
            \/ test # NoTest /\ main = "sti" /\ \E at \in {"body", "dead"} : frames = TestFrame(at)
  BY DEF FrameInv

LEMMA KeyboardKeeps == IntInv /\ KeyboardBody => IntInv'
<1> SUFFICES ASSUME IntInv, KeyboardBody PROVE IntInv'
  OBVIOUS
<1>1. /\ frames # <<>> /\ Head(frames).at = "body"
      /\ Handler(Head(frames).vector) = "keyboard"
      /\ UNCHANGED <<test, main, outs, idtr, IF_flag, early>>
      /\ obf' = FALSE
      /\ out_byte(32, 32)
      /\ frames' = <<[Head(frames) EXCEPT !.at = "iretq"]>> \o Tail(frames)
  BY DEF KeyboardBody, InBody, GoTo, send_eoi
<1>2. FrameInv /\ test \in (0 .. 31) \cup {NoTest}
  BY DEF IntInv, MainInv
<1>3. /\ IF_flag = FALSE /\ test = NoTest /\ main = "hlt"
      /\ \E at \in {"body", "iretq"} : frames = KeyFrame(at)
  <2>1. ~\E at \in {"body", "dead"} : test # NoTest /\ frames = TestFrame(at)
    <3> SUFFICES ASSUME NEW at \in {"body", "dead"}, test # NoTest, frames = TestFrame(at)
                 PROVE  FALSE
      OBVIOUS
    <3>1. Head(frames).vector = test
      BY TestRuns
    <3>2. test \in 0 .. 31
      BY <1>2
    <3>3. Handler(test) = "exception"
      BY <3>2 DEF Handler, IRQ_KEYBOARD
    <3> QED  BY <1>1, <3>1, <3>3
  <2> QED  BY <1>1, <1>2, <2>1, WhoRuns
<1>4. frames' = KeyFrame("iretq")
  BY <1>1, <1>3, KeyRuns
<1>5. ChipInv'
  <2>1. DOMAIN chip' = Chips /\ chip'["master"] = WriteCommand(chip["master"], 32)
          /\ chip'["slave"] = chip["slave"]
    BY <1>1, ToMasterCommand
  <2>2. LET e == WriteCommand(chip["master"], 32) m == chip["master"]
        IN  e \in ChipType /\ e.icw = m.icw /\ e.base = m.base /\ e.imr = m.imr
    BY EndOfInterrupt DEF IntInv, ChipInv
  <2> QED  BY <1>1, <2>1, <2>2 DEF IntInv, ChipInv
<1>6. MainInv'
  BY <1>1 DEF IntInv, MainInv
<1>7. FrameInv'
  <2>1. IF_flag' = FALSE /\ test' = NoTest /\ main' = "hlt" /\ frames' = KeyFrame("iretq")'
    BY <1>1, <1>3, <1>4 DEF KeyFrame
  <2> QED  BY ONLY <2>1 DEF FrameInv
<1>8. EdgeKept'
  BY <1>1 DEF EdgeKept
<1> QED  BY <1>5, <1>6, <1>7, <1>8 DEF IntInv

LEMMA ExceptionKeeps == IntInv /\ ExceptionBody => IntInv'
<1> SUFFICES ASSUME IntInv, ExceptionBody PROVE IntInv'
  OBVIOUS
<1>1. /\ frames # <<>>
      /\ Handler(Head(frames).vector) = "exception"
      /\ UNCHANGED <<test, main, outs, idtr, IF_flag, chip, obf, early, printed>>
      /\ frames' = <<[Head(frames) EXCEPT !.at = "dead"]>> \o Tail(frames)
  BY DEF ExceptionBody, InBody, GoTo, vars
<1>2. FrameInv /\ test \in (0 .. 31) \cup {NoTest}
  BY DEF IntInv, MainInv
<1>3. /\ IF_flag = FALSE /\ test # NoTest /\ main = "sti"
      /\ \E at \in {"body", "dead"} : frames = TestFrame(at)
  <2>1. ~\E at \in {"body", "iretq"} : frames = KeyFrame(at)
    <3> SUFFICES ASSUME NEW at \in {"body", "iretq"}, frames = KeyFrame(at)
                 PROVE  FALSE
      OBVIOUS
    <3>1. Head(frames).vector = IRQ_KEYBOARD
      BY KeyRuns
    <3> QED  BY <1>1, <3>1 DEF Handler, IRQ_KEYBOARD
  <2> QED  BY <1>1, <1>2, <2>1, WhoRuns
<1>4. frames' = TestFrame("dead")
  BY <1>1, <1>3, TestRuns
<1>5. ChipInv' /\ MainInv'
  BY <1>1, ChipUnchanged DEF IntInv, MainInv
<1>6. FrameInv'
  <2>1. /\ IF_flag' = FALSE /\ test' # NoTest /\ main' = "sti" /\ frames' = TestFrame("dead")'
        /\ printed' = <<INV, INV>>
    BY <1>1, <1>2, <1>3, <1>4 DEF TestFrame, FrameInv
  <2> QED  BY ONLY <2>1 DEF FrameInv
<1>7. EdgeKept'
  <2>1. \A n \in DOMAIN frames : frames[n].vector # IRQ_KEYBOARD
    <3>1. DOMAIN frames = {1} /\ frames[1].vector = test
      BY <1>3, TestRuns
    <3> QED  BY <1>2, <3>1 DEF IRQ_KEYBOARD, NoTest
  <2> QED  BY <1>1, <2>1 DEF IntInv, EdgeKept
<1> QED  BY <1>5, <1>6, <1>7 DEF IntInv

LEMMA IretqKeeps == IntInv /\ iretq => IntInv'
<1> SUFFICES ASSUME IntInv, iretq PROVE IntInv'
  OBVIOUS
<1>1. /\ frames # <<>> /\ Head(frames).at = "iretq"
      /\ IF_flag' = Head(frames).flag /\ frames' = Tail(frames)
      /\ UNCHANGED <<test, main, outs, idtr, chip, obf, early, printed>>
  BY DEF iretq, vars
<1>2. FrameInv
  BY DEF IntInv
<1>3. test = NoTest /\ main = "hlt" /\ frames = KeyFrame("iretq")
  <2>1. ~\E at \in {"body", "dead"} : frames = TestFrame(at)
    BY <1>1, TestRuns
  <2>2. frames # KeyFrame("body")
    <3> SUFFICES ASSUME frames = KeyFrame("body") PROVE FALSE
      OBVIOUS
    <3>1. Head(frames).at = "body"
      BY KeyRuns
    <3> QED  BY <1>1, <3>1
  <2> QED  BY <1>1, <1>2, <2>1, <2>2, WhoRuns
<1>4. frames' = <<>> /\ IF_flag' = TRUE
  BY <1>1, <1>3, KeyRuns
<1>5. ChipInv' /\ MainInv'
  BY <1>1, ChipUnchanged DEF IntInv, MainInv
<1>6. FrameInv'
  <2>1. IF_flag' = TRUE /\ test' = NoTest /\ main' = "hlt" /\ frames' = <<>>
    BY <1>1, <1>3, <1>4
  <2> QED  BY ONLY <2>1 DEF FrameInv
<1>7. EdgeKept'
  <2>1. \A n \in DOMAIN frames : frames[n].at # "body"
    BY <1>3, KeyRuns
  <2> QED  BY <1>1, <2>1 DEF IntInv, EdgeKept
<1> QED  BY <1>5, <1>6, <1>7 DEF IntInv

\* The devices and the person who types.
LEMMA DevicesKeep == IntInv /\ (Present \/ Tick \/ Type) => IntInv'
<1> SUFFICES ASSUME IntInv, Present \/ Tick \/ Type PROVE IntInv'
  OBVIOUS
<1>1. UNCHANGED <<test, main, outs, idtr, IF_flag, frames, early, printed>>
  BY DEF Present, Tick, Type, Press, Repeat, Release, vars, cpu
<1>2. MainInv' /\ FrameInv'
  BY <1>1 DEF IntInv, MainInv, FrameInv, KeyFrame, TestFrame
<1>3. CASE Present
  <2>1. ChipInv' /\ 1 \in chip'["master"].irr
    BY <1>1, <1>3, LineRises DEF Present, IntInv, Lines
  <2> QED  BY <1>2, <2>1 DEF IntInv, EdgeKept
<1>4. CASE Tick
  <2>1. ChipInv' /\ chip["master"].irr \subseteq chip'["master"].irr
    BY <1>1, <1>4, LineRises DEF Tick, IntInv, Lines
  <2>2. EdgeKept'
    BY <1>1, <1>4, <2>1 DEF Tick, IntInv, EdgeKept
  <2> QED  BY <1>2, <2>1, <2>2 DEF IntInv
<1>5. CASE Type
  BY <1>1, <1>2, <1>5, ChipUnchanged, EdgeUnchanged DEF Type, IntInv
<1> QED  BY <1>3, <1>4, <1>5

\* Every step keeps the inductive invariant.
THEOREM IntInvStep == IntInv /\ [IntNext]_int_vars => IntInv'
<1> SUFFICES ASSUME IntInv, [IntNext]_int_vars PROVE IntInv'
  OBVIOUS
<1>1. CASE IntNext
  BY <1>1, PicInitKeeps, MainKeeps, RaiseTestKeeps, InterruptKeeps, KeyboardKeeps,
     ExceptionKeeps, IretqKeeps, DevicesKeep DEF IntNext, CpuStep
<1>2. CASE UNCHANGED int_vars
  <2>1. UNCHANGED <<test, main, outs, idtr, IF_flag, frames, chip, obf, early, printed>>
    BY <1>2 DEF int_vars, vars, cpu
  <2>2. MainInv' /\ FrameInv'
    BY <2>1 DEF IntInv, MainInv, FrameInv, KeyFrame, TestFrame
  <2> QED  BY <2>1, <2>2, ChipUnchanged, EdgeUnchanged DEF IntInv
<1> QED  BY <1>1, <1>2

LEMMA IntInvAlways == IntSpec => []IntInv
  BY IntInvInit, IntInvStep, PTL DEF IntSpec

-----------------------------------------------------------------------------
(***************************************************************************)
(* What follows.                                                           *)
(***************************************************************************)
\* Interrupts are on only when the controllers and the table are ready.
THEOREM ReadyFirst == IntSpec => []ReadyBeforeSTI
<1>1. IntInv => ReadyBeforeSTI
  <2> SUFFICES ASSUME IntInv, IF_flag PROVE
        idtr /\ \A n \in Chips : chip[n].icw = 0 /\ chip[n].base >= 32 /\ chip[n].base % 8 = 0
    BY DEF ReadyBeforeSTI
  <2>1. main = "hlt" /\ outs = 10 /\ idtr
    BY DEF IntInv, FrameInv, MainInv
  <2>2. /\ chip["master"].icw = 0 /\ chip["master"].base = 32
        /\ chip["slave"].icw = 0 /\ chip["slave"].base = 40
    BY <2>1 DEF IntInv, ChipInv, MasterWord, SlaveWord
  <2> QED  BY <2>1, <2>2 DEF Chips
<1> QED  BY <1>1, IntInvAlways, PTL

\* No request of another device runs a handler.
THEOREM OnlyTheKeyboard == IntSpec => []OnlyKeys
<1>1. IntInv => OnlyKeys
  <2> SUFFICES ASSUME IntInv, NEW n \in DOMAIN frames
               PROVE  frames[n].vector \in {IRQ_KEYBOARD, test}
    BY DEF OnlyKeys
  <2>1. frames # <<>> /\ FrameInv
    BY DEF IntInv
  <2>2. CASE \E at \in {"body", "iretq"} : frames = KeyFrame(at)
    BY <2>2 DEF KeyFrame
  <2>3. CASE \E at \in {"body", "dead"} : frames = TestFrame(at)
    BY <2>3 DEF TestFrame
  <2> QED  BY <2>1, <2>2, <2>3, WhoRuns
<1> QED  BY <1>1, IntInvAlways, PTL

\* Never two of the main program and the handlers inside printk.
THEOREM PrintersAlone == IntSpec => []OnePrinter
<1>1. IntInv => OnePrinter
  <2> SUFFICES ASSUME IntInv PROVE OnePrinter
    OBVIOUS
  <2>1. CASE frames = <<>>
    BY <2>1 DEF OnePrinter
  <2>2. CASE frames # <<>>
    <3>1. main \in {"hlt", "sti"}
      BY <2>2, WhoRuns DEF IntInv
    <3>2. Len(frames) = 1
      BY <2>2, WhoRuns DEF IntInv, KeyFrame, TestFrame
    <3> QED  BY <3>1, <3>2 DEF OnePrinter
  <2> QED  BY <2>1, <2>2
<1> QED  BY <1>1, IntInvAlways, PTL

\* Behind pic_init the request of a waiting byte is never lost.
THEOREM EdgesAreKept == IntSpec => []EdgeKept
<1>1. IntInv => EdgeKept
  BY DEF IntInv
<1> QED  BY <1>1, IntInvAlways, PTL

\* With a test in main_x64 interrupts stay off and no key is printed.
THEOREM TestsAreLast == IntSpec => []TestIsLast
<1>1. IntInv => TestIsLast
  BY DEF IntInv, FrameInv, TestIsLast
<1> QED  BY <1>1, IntInvAlways, PTL
\* The sequences of words on the stack.
LEMMA StackParts ==
  ASSUME NEW a, NEW b, NEW c, NEW e
  PROVE  <<>> \o <<a, b, c>> = <<a, b, c>> /\ <<e>> \o <<a, b, c>> = <<e, a, b, c>>
<1>1. <<>> \o <<a, b, c>> = <<a, b, c>>
  OBVIOUS
<1> DEFINE p == <<a, b, c>>
           q == <<e, a, b, c>>
<1>2. Len(<<e>>) = 1 /\ Len(p) = 3 /\ p[1] = a /\ p[2] = b /\ p[3] = c
  OBVIOUS
<1>3. <<e>> \o p = [k \in 1 .. 4 |-> IF k <= 1 THEN <<e>>[k] ELSE p[k - 1]]
  OBVIOUS
<1>4. q = [k \in 1 .. 4 |-> q[k]] /\ q[1] = e /\ q[2] = a /\ q[3] = b /\ q[4] = c
  OBVIOUS
<1>5. \A k \in 1 .. 4 : (IF k <= 1 THEN <<e>>[k] ELSE p[k - 1]) = q[k]
  BY <1>2, <1>4
<1>6. <<e>> \o p = q
  BY <1>3, <1>4, <1>5
<1> QED  BY <1>1, <1>6

LEMMA FirstThree == ASSUME NEW a, NEW b, NEW c PROVE SubSeq(<<a, b, c>>, 1, 3) = <<a, b, c>>
<1> DEFINE p == <<a, b, c>>
<1>1. p = [k \in 1 .. 3 |-> p[k]]
  OBVIOUS
<1>2. SubSeq(p, 1, 3) = [k \in 1 .. 3 |-> p[k]]
  OBVIOUS
<1> QED  BY <1>1, <1>2

LEMMA FirstFour ==
  ASSUME NEW a, NEW b, NEW c, NEW e PROVE SubSeq(<<a, b, c, e>>, 1, 4) = <<a, b, c, e>>
<1> DEFINE p == <<a, b, c, e>>
<1>1. p = [k \in 1 .. 4 |-> p[k]]
  OBVIOUS
<1>2. SubSeq(p, 1, 4) = [k \in 1 .. 4 |-> p[k]]
  OBVIOUS
<1> QED  BY <1>1, <1>2

\* What the entry of the handler reads for an exception of the processor.
LEMMA EntryReadsTheFault ==
  ASSUME NEW v \in 0 .. 31
  PROVE  interrupt_handler_entry(v)
           = <<IF v \in PushError THEN "error code" ELSE "0", "EIP", "CS", "EFLAGS">>
<1>1. CASE v \in PushError
  <2>1. Stack(v) = <<"error code", "EIP", "CS", "EFLAGS">>
    BY <1>1, StackParts DEF Stack
  <2>2. SubSeq(Stack(v), 1, 4) = <<"error code", "EIP", "CS", "EFLAGS">>
    BY <2>1, FirstFour
  <2>3. v \in DO_ERRCODE
    BY <1>1 DEF PushError, DO_ERRCODE
  <2> QED  BY <1>1, <2>2, <2>3, Zenon DEF interrupt_handler_entry
<1>2. CASE v \notin PushError
  <2>1. Stack(v) = <<"EIP", "CS", "EFLAGS">>
    BY <1>2, StackParts DEF Stack
  <2>2. <<"0">> \o SubSeq(Stack(v), 1, 3) = <<"0", "EIP", "CS", "EFLAGS">>
    <3>1. SubSeq(Stack(v), 1, 3) = <<"EIP", "CS", "EFLAGS">>
      BY <2>1, FirstThree
    <3> QED  BY <3>1, StackParts
  <2>3. v \notin DO_ERRCODE
    BY <1>2 DEF PushError, DO_ERRCODE
  <2> QED  BY <1>2, <2>2, <2>3, Zenon DEF interrupt_handler_entry
<1> QED  BY <1>1, <1>2

\* The exception handler runs for the test alone.
LEMMA ReportOfTest ==
  ASSUME IntInv, ExceptionBody
  PROVE  ReportIsTrue'
<1>1. /\ frames # <<>>
      /\ Handler(Head(frames).vector) = "exception"
      /\ report' = interrupt_handler_entry(Head(frames).vector)
      /\ test' = test
  BY DEF ExceptionBody, InBody
<1>2. ~\E at \in {"body", "iretq"} : frames = KeyFrame(at)
  <2> SUFFICES ASSUME NEW at \in {"body", "iretq"}, frames = KeyFrame(at)
               PROVE  FALSE
    OBVIOUS
  <2>1. Head(frames).vector = IRQ_KEYBOARD
    BY KeyRuns
  <2> QED  BY <1>1, <2>1 DEF Handler, IRQ_KEYBOARD
<1>3. test # NoTest /\ \E at \in {"body", "dead"} : frames = TestFrame(at)
  BY <1>1, <1>2, WhoRuns DEF IntInv
<1>4. Head(frames).vector = test /\ test \in 0 .. 31
  BY <1>3, TestRuns DEF IntInv, MainInv
<1> QED  BY <1>1, <1>4, EntryReadsTheFault DEF ReportIsTrue

LEMMA ReportStep == IntInv /\ ReportIsTrue /\ [IntNext]_int_vars => ReportIsTrue'
<1> SUFFICES ASSUME IntInv, ReportIsTrue, [IntNext]_int_vars PROVE ReportIsTrue'
  OBVIOUS
<1>1. CASE ExceptionBody
  BY <1>1, ReportOfTest
<1>2. CASE ~ExceptionBody
  <2>1. test' = test /\ report' = report
    BY <1>2 DEF IntNext, CpuStep, SetUpMemory, pic_init, idt_init, RaiseTest, STI, Interrupt,
       KeyboardBody, iretq, Present, Tick, Type, int_vars, cpu
  <2> QED  BY <2>1 DEF ReportIsTrue
<1> QED  BY <1>1, <1>2

\* The handler reports the error code and the registers of the fault, for every
\* exception of the processor.
THEOREM ReportsAreTrue == IntSpec => []ReportIsTrue
<1>1. IntInit => ReportIsTrue
  BY DEF IntInit, ReportIsTrue
<1> QED  BY <1>1, IntInvAlways, ReportStep, PTL DEF IntSpec

-----------------------------------------------------------------------------
(***************************************************************************)
(* The keyboard driver.  Its state is the set of the flags that are on;    *)
(* the handler takes it from one to the next.                              *)
(***************************************************************************)
Flag(name, on) == IF on THEN {name} ELSE {}
Flags(ext, shift, ctrl, alt, caps) ==
  Flag("ext", ext) \cup Flag("shift", shift) \cup Flag("ctrl", ctrl) \cup Flag("alt", alt)
    \cup Flag("caps", caps)

Driver == Flags(extcode_state, shift_state, ctrl_state, alt_state, capslock_state)

\* What the driver has to come to: the modifiers that the codes tell.
Board == Flags(FALSE, Told(Shifts), Told({KEY_CTRL_L}), Told({KEY_ALT_L}), Upper)

\* The flag of a make code, and the flags when the key goes down or up.
FlagOf(m) ==
  CASE m \in Shifts -> {"shift"} [] m = KEY_CTRL_L -> {"ctrl"} [] m = KEY_ALT_L -> {"alt"}
    [] OTHER -> {}
Toggled(d, m) ==
  IF m # KEY_CAPSLOCK THEN d ELSE IF "caps" \in d THEN d \ {"caps"} ELSE d \cup {"caps"}
Made(d, m) == Toggled(d, m) \cup FlagOf(m)

\* The state after a byte, and the character that the byte prints.
After(d, b) ==
  IF b = EXTENDED THEN d \cup {"ext"}
  ELSE IF b \div 128 = 1 THEN (d \ {"ext"}) \ FlagOf(b % 128)
  ELSE Made(d \ {"ext"}, b % 128)

ColumnOf(d, m) ==
  IF "ext" \in d THEN IF m = KEY_SLASH THEN 0 ELSE 1
  ELSE IF ("shift" \in Made(d, m)) # ("caps" \in Made(d, m)) THEN 1 ELSE 0
CharOf(d, b) ==
  IF b = EXTENDED \/ b \div 128 = 1 THEN INV ELSE keymap(b % 128, ColumnOf(d, b % 128))

(***************************************************************************)
(* The driver in state d prints the characters o when it takes the bytes   *)
(* q, and ends in state e: at and cnt are its state and the number of its  *)
(* characters after each byte.                                             *)
(***************************************************************************)
Steps(q, o, at, cnt) ==
  \A i \in 1 .. Len(q) :
    /\ at[i] = After(at[i - 1], q[i])
    /\ CharOf(at[i - 1], q[i]) = INV => cnt[i] = cnt[i - 1]
    /\ CharOf(at[i - 1], q[i]) # INV =>
         cnt[i] = cnt[i - 1] + 1 /\ o[cnt[i]] = CharOf(at[i - 1], q[i])
Grows(q, cnt) == \A i, j \in 0 .. Len(q) : i <= j => cnt[i] <= cnt[j]
Run(d, q, o, e, at, cnt) ==
  /\ DOMAIN at = 0 .. Len(q) /\ cnt \in [0 .. Len(q) -> 0 .. Len(o)]
  /\ at[0] = d /\ at[Len(q)] = e
  /\ cnt[0] = 0 /\ cnt[Len(q)] = Len(o)
  /\ Steps(q, o, at, cnt) /\ Grows(q, cnt)
Prints(d, q, o, e) == \E at, cnt : Run(d, q, o, e, at, cnt)

Then(o, ch) == IF ch = INV THEN o ELSE Append(o, ch)

LEMMA PrintsNothing == ASSUME NEW d PROVE Prints(d, <<>>, <<>>, d)
<1> DEFINE at == [i \in 0 .. 0 |-> d]
           cnt == [i \in 0 .. 0 |-> 0]
<1>1. Run(d, <<>>, <<>>, d, at, cnt)
  BY DEF Run, Steps, Grows
<1> QED  BY <1>1 DEF Prints

\* With no byte to take it prints nothing and stays where it is.
LEMMA PrintsEnd ==
  ASSUME NEW d, NEW e, NEW C, NEW o \in Seq(C), Prints(d, <<>>, o, e)
  PROVE  d = e /\ o = <<>>
<1>1. PICK at, cnt : Run(d, <<>>, o, e, at, cnt)
  BY DEF Prints
<1>2. d = e /\ Len(o) = 0
  BY <1>1 DEF Run
<1> QED  BY <1>2, EmptySeq

\* One byte more.
LEMMA PrintsMore ==
  ASSUME NEW d, NEW e, NEW B, NEW C, NEW q \in Seq(B), NEW o \in Seq(C), NEW b \in B,
         CharOf(e, b) \in C, Prints(d, q, o, e)
  PROVE  /\ Prints(d, Append(q, b), Then(o, CharOf(e, b)), After(e, b))
         /\ Then(o, CharOf(e, b)) \in Seq(C)
<1>1. PICK at, cnt : Run(d, q, o, e, at, cnt)
  BY DEF Prints
<1> DEFINE n == Len(q)
           ch == CharOf(e, b)
           f == After(e, b)
           q2 == Append(q, b)
           o2 == Then(o, ch)
<1>2. /\ n \in Nat /\ Len(q2) = n + 1
      /\ \A i \in 1 .. n : q2[i] = q[i]
      /\ q2[n + 1] = b
  BY AppendProperties
<1>3. /\ o2 \in Seq(C) /\ Len(o) \in Nat
      /\ \A i \in 1 .. Len(o) : o2[i] = o[i]
      /\ Len(o2) = IF ch = INV THEN Len(o) ELSE Len(o) + 1
      /\ ch # INV => o2[Len(o) + 1] = ch
  BY AppendProperties DEF Then
<1> DEFINE at2 == [i \in 0 .. n + 1 |-> IF i = n + 1 THEN f ELSE at[i]]
           cnt2 == [i \in 0 .. n + 1 |-> IF i = n + 1 THEN Len(o2) ELSE cnt[i]]
<1>4. /\ DOMAIN at2 = 0 .. n + 1 /\ at2[n + 1] = f
      /\ \A i \in 0 .. n : at2[i] = at[i]
      /\ DOMAIN cnt2 = 0 .. n + 1 /\ cnt2[n + 1] = Len(o2)
      /\ \A i \in 0 .. n : cnt2[i] = cnt[i]
      /\ cnt2 = [i \in 0 .. n + 1 |-> cnt2[i]]
  BY <1>2
<1>5. /\ cnt \in [0 .. n -> 0 .. Len(o)]
      /\ at[0] = d /\ at[n] = e /\ cnt[0] = 0 /\ cnt[n] = Len(o)
      /\ Steps(q, o, at, cnt) /\ Grows(q, cnt)
  BY <1>1 DEF Run
<1> HIDE DEF n, ch, f, q2, o2, at2, cnt2
<1>6. cnt2 \in [0 .. n + 1 -> 0 .. Len(o2)]
  <2>1. \A i \in 0 .. n + 1 : cnt2[i] \in 0 .. Len(o2)
    <3> SUFFICES ASSUME NEW i \in 0 .. n + 1 PROVE cnt2[i] \in 0 .. Len(o2)
      OBVIOUS
    <3>1. CASE i = n + 1
      BY <1>3, <1>4, <3>1
    <3>2. CASE i \in 0 .. n
      <4>1. cnt2[i] = cnt[i] /\ cnt[i] \in 0 .. Len(o)
        BY <1>4, <1>5, <3>2
      <4> QED  BY <1>3, <4>1
    <3> QED  BY <1>2, <3>1, <3>2
  <2> QED  BY <1>4, <2>1
<1>7. Steps(q2, o2, at2, cnt2)
  <2> SUFFICES ASSUME NEW i \in 1 .. n + 1
               PROVE  /\ at2[i] = After(at2[i - 1], q2[i])
                      /\ CharOf(at2[i - 1], q2[i]) = INV => cnt2[i] = cnt2[i - 1]
                      /\ CharOf(at2[i - 1], q2[i]) # INV =>
                           cnt2[i] = cnt2[i - 1] + 1 /\ o2[cnt2[i]] = CharOf(at2[i - 1], q2[i])
    BY <1>2 DEF Steps
  <2>1. CASE i = n + 1
    <3>1. at2[i - 1] = e /\ q2[i] = b /\ cnt2[i - 1] = Len(o)
      <4>1. i - 1 = n /\ n \in 0 .. n
        BY <1>2, <2>1
      <4>2. at2[n] = at[n] /\ cnt2[n] = cnt[n]
        BY <1>4, <4>1
      <4> QED  BY <1>2, <1>5, <2>1, <4>1, <4>2
    <3>2. at2[i] = f /\ cnt2[i] = Len(o2)
      BY <1>4, <2>1
    <3>3. f = After(e, b) /\ ch = CharOf(e, b)
      BY DEF f, ch
    <3> QED  BY <1>3, <3>1, <3>2, <3>3
  <2>2. CASE i \in 1 .. n
    <3>1. i \in 0 .. n /\ i - 1 \in 0 .. n
      BY <1>2, <2>2
    <3>2. /\ at2[i] = at[i] /\ at2[i - 1] = at[i - 1] /\ q2[i] = q[i]
          /\ cnt2[i] = cnt[i] /\ cnt2[i - 1] = cnt[i - 1]
      BY <1>2, <1>4, <2>2, <3>1
    <3>3. /\ at[i] = After(at[i - 1], q[i])
          /\ CharOf(at[i - 1], q[i]) = INV => cnt[i] = cnt[i - 1]
          /\ CharOf(at[i - 1], q[i]) # INV =>
               cnt[i] = cnt[i - 1] + 1 /\ o[cnt[i]] = CharOf(at[i - 1], q[i])
      BY <1>5, <2>2 DEF Steps, n
    <3>4. cnt[i] \in 0 .. Len(o) /\ cnt[i - 1] \in 0 .. Len(o)
      BY <1>5, <3>1
    <3>5. CharOf(at[i - 1], q[i]) # INV => o2[cnt[i]] = o[cnt[i]]
      BY <1>3, <3>3, <3>4
    <3> QED  BY <3>2, <3>3, <3>5
  <2> QED  BY <1>2, <2>1, <2>2
<1>8. Grows(q2, cnt2)
  <2> SUFFICES ASSUME NEW i \in 0 .. n + 1, NEW j \in 0 .. n + 1, i <= j
               PROVE  cnt2[i] <= cnt2[j]
    BY <1>2 DEF Grows
  <2>1. CASE j = n + 1
    BY <1>3, <1>4, <1>6, <2>1
  <2>2. CASE j \in 0 .. n
    <3>1. i \in 0 .. n
      BY <1>2, <2>2
    <3>2. cnt[i] <= cnt[j]
      BY <1>5, <2>2, <3>1 DEF Grows, n
    <3> QED  BY <1>4, <2>2, <3>1, <3>2
  <2> QED  BY <1>2, <2>1, <2>2
<1>9. Run(d, q2, o2, f, at2, cnt2)
  <2>1. at2[0] = d /\ at2[n + 1] = f /\ cnt2[0] = 0 /\ cnt2[n + 1] = Len(o2)
    <3>1. 0 \in 0 .. n
      BY <1>2
    <3>2. at2[0] = at[0] /\ cnt2[0] = cnt[0]
      BY <1>4, <3>1
    <3> QED  BY <1>4, <1>5, <3>2
  <2> QED  BY <1>2, <1>4, <1>6, <1>7, <1>8, <2>1 DEF Run
<1> QED  BY <1>3, <1>9 DEF Prints, q2, o2, f, ch

\* The first byte taken.
LEMMA PrintsFirst ==
  ASSUME NEW d, NEW e, NEW B, NEW C, NEW q \in Seq(B), NEW o \in Seq(C), q # <<>>,
         Prints(d, q, o, e)
  PROVE  /\ CharOf(d, Head(q)) = INV => Prints(After(d, Head(q)), Tail(q), o, e)
         /\ CharOf(d, Head(q)) # INV =>
              /\ o # <<>> /\ Head(o) = CharOf(d, Head(q))
              /\ Prints(After(d, Head(q)), Tail(q), Tail(o), e)
<1>1. PICK at, cnt : Run(d, q, o, e, at, cnt)
  BY DEF Prints
<1> DEFINE n == Len(q) - 1
           b == Head(q)
           ch == CharOf(d, b)
           k == IF ch = INV THEN 0 ELSE 1
           q2 == Tail(q)
           o2 == IF ch = INV THEN o ELSE Tail(o)
<1>2. /\ n \in Nat /\ Len(q) = n + 1 /\ Len(q2) = n /\ b = q[1]
      /\ \A i \in 1 .. n : q2[i] = q[i + 1]
  BY EmptySeq, HeadTailProperties
<1>3. /\ cnt \in [0 .. n + 1 -> 0 .. Len(o)]
      /\ at[0] = d /\ at[n + 1] = e /\ cnt[0] = 0 /\ cnt[n + 1] = Len(o)
      /\ Steps(q, o, at, cnt) /\ Grows(q, cnt)
  BY <1>1, <1>2 DEF Run
<1>4. at[1] = After(d, b) /\ cnt[1] = k /\ (ch # INV => o[1] = ch)
  <2>1. /\ at[1] = After(at[0], q[1])
        /\ CharOf(at[0], q[1]) = INV => cnt[1] = cnt[0]
        /\ CharOf(at[0], q[1]) # INV =>
             cnt[1] = cnt[0] + 1 /\ o[cnt[1]] = CharOf(at[0], q[1])
    <3>1. 1 \in 1 .. Len(q) /\ 1 - 1 = 0
      BY <1>2
    <3> QED  BY <1>3, <3>1 DEF Steps
  <2> QED  BY <1>2, <1>3, <2>1
<1>5. k \in 0 .. 1 /\ k <= Len(o) /\ Len(o) \in Nat
  <2>1. cnt[1] \in 0 .. Len(o)
    BY <1>2, <1>3
  <2> QED  BY <1>4, <2>1
<1>6. ch # INV => o # <<>> /\ Head(o) = ch
  BY <1>4, <1>5
<1>7. /\ o2 \in Seq(C) /\ Len(o2) = Len(o) - k
      /\ \A i \in 1 .. Len(o2) : o2[i] = o[i + k]
  <2>1. CASE ch = INV
    BY <2>1
  <2>2. CASE ch # INV
    BY <1>6, <2>2, HeadTailProperties
  <2> QED  BY <2>1, <2>2
<1> DEFINE at2 == [i \in 0 .. n |-> at[i + 1]]
           cnt2 == [i \in 0 .. n |-> cnt[i + 1] - k]
<1>8. /\ DOMAIN at2 = 0 .. n /\ \A i \in 0 .. n : at2[i] = at[i + 1]
      /\ DOMAIN cnt2 = 0 .. n /\ \A i \in 0 .. n : cnt2[i] = cnt[i + 1] - k
      /\ cnt2 = [i \in 0 .. n |-> cnt2[i]]
  OBVIOUS
<1>9. ch = CharOf(d, Head(q)) /\ b = Head(q) /\ q2 = Tail(q)
      /\ o2 = IF ch = INV THEN o ELSE Tail(o)
  OBVIOUS
<1> HIDE DEF n, b, ch, k, q2, o2, at2, cnt2
<1>10. \A i \in 0 .. n : cnt[i + 1] \in k .. Len(o)
  <2> SUFFICES ASSUME NEW i \in 0 .. n PROVE cnt[i + 1] \in k .. Len(o)
    OBVIOUS
  <2>1. i + 1 \in 0 .. Len(q) /\ 1 \in 0 .. Len(q) /\ 1 <= i + 1
    BY <1>2
  <2>2. cnt[1] <= cnt[i + 1]
    BY <1>3, <2>1 DEF Grows
  <2>3. cnt[i + 1] \in 0 .. Len(o)
    BY <1>2, <1>3, <2>1
  <2> QED  BY <1>4, <1>5, <2>2, <2>3
<1>11. cnt2 \in [0 .. n -> 0 .. Len(o2)]
  <2>1. \A i \in 0 .. n : cnt2[i] \in 0 .. Len(o2)
    BY <1>5, <1>7, <1>8, <1>10
  <2> QED  BY <1>8, <2>1
<1>12. Steps(q2, o2, at2, cnt2)
  <2> SUFFICES ASSUME NEW i \in 1 .. n
               PROVE  /\ at2[i] = After(at2[i - 1], q2[i])
                      /\ CharOf(at2[i - 1], q2[i]) = INV => cnt2[i] = cnt2[i - 1]
                      /\ CharOf(at2[i - 1], q2[i]) # INV =>
                           cnt2[i] = cnt2[i - 1] + 1 /\ o2[cnt2[i]] = CharOf(at2[i - 1], q2[i])
    BY <1>2 DEF Steps
  <2>1. i \in 0 .. n /\ i - 1 \in 0 .. n /\ (i - 1) + 1 = i /\ i + 1 \in 1 .. Len(q)
        /\ (i + 1) - 1 = i
    BY <1>2
  <2>2. /\ at2[i] = at[i + 1] /\ at2[i - 1] = at[i] /\ q2[i] = q[i + 1]
        /\ cnt2[i] = cnt[i + 1] - k /\ cnt2[i - 1] = cnt[i] - k
    BY <1>2, <1>8, <2>1
  <2>3. /\ at[i + 1] = After(at[i], q[i + 1])
        /\ CharOf(at[i], q[i + 1]) = INV => cnt[i + 1] = cnt[i]
        /\ CharOf(at[i], q[i + 1]) # INV =>
             cnt[i + 1] = cnt[i] + 1 /\ o[cnt[i + 1]] = CharOf(at[i], q[i + 1])
    BY <1>3, <2>1 DEF Steps
  <2>4. cnt[i + 1] \in k .. Len(o) /\ cnt[i] \in k .. Len(o)
    <3>1. cnt[(i - 1) + 1] \in k .. Len(o)
      BY <1>10, <2>1
    <3> QED  BY <1>10, <2>1, <3>1
  <2>5. CharOf(at[i], q[i + 1]) # INV => o2[cnt2[i]] = o[cnt[i + 1]]
    <3> SUFFICES ASSUME CharOf(at[i], q[i + 1]) # INV PROVE o2[cnt2[i]] = o[cnt[i + 1]]
      OBVIOUS
    <3>1. cnt2[i] \in 1 .. Len(o2) /\ cnt2[i] + k = cnt[i + 1]
      <4>1. cnt2[i] = cnt[i + 1] - k /\ cnt[i + 1] = cnt[i] + 1 /\ Len(o2) = Len(o) - k
        BY <1>7, <2>2, <2>3
      <4> QED  BY <1>5, <2>4, <4>1
    <3> QED  BY <1>7, <3>1
  <2>6. CharOf(at[i], q[i + 1]) # INV => cnt2[i] = cnt2[i - 1] + 1
    <3> SUFFICES ASSUME CharOf(at[i], q[i + 1]) # INV PROVE cnt2[i] = cnt2[i - 1] + 1
      OBVIOUS
    <3>1. cnt2[i] = (cnt[i] + 1) - k /\ cnt2[i - 1] = cnt[i] - k
      BY <2>2, <2>3
    <3>2. cnt[i] \in Nat /\ k \in Nat
      BY <1>5, <2>4
    <3> QED  BY <3>1, <3>2
  <2> QED  BY <2>2, <2>3, <2>5, <2>6
<1>13. Grows(q2, cnt2)
  <2> SUFFICES ASSUME NEW i \in 0 .. n, NEW j \in 0 .. n, i <= j
               PROVE  cnt2[i] <= cnt2[j]
    BY <1>2 DEF Grows
  <2>1. i + 1 \in 0 .. Len(q) /\ j + 1 \in 0 .. Len(q) /\ i + 1 <= j + 1
    BY <1>2
  <2>2. cnt[i + 1] <= cnt[j + 1]
    BY <1>3, <2>1 DEF Grows
  <2>3. cnt[i + 1] \in k .. Len(o) /\ cnt[j + 1] \in k .. Len(o)
    BY <1>10
  <2>4. cnt2[i] = cnt[i + 1] - k /\ cnt2[j] = cnt[j + 1] - k
    BY <1>8
  <2> QED  BY <1>5, <2>2, <2>3, <2>4
<1>14. Run(After(d, b), q2, o2, e, at2, cnt2)
  <2>1. at2[0] = After(d, b) /\ at2[n] = e /\ cnt2[0] = 0 /\ cnt2[n] = Len(o2)
    <3>1. 0 \in 0 .. n /\ n \in 0 .. n /\ 0 + 1 = 1
      BY <1>2
    <3>2. at2[0] = at[1] /\ cnt2[0] = cnt[1] - k /\ at2[n] = at[n + 1]
          /\ cnt2[n] = cnt[n + 1] - k
      BY <1>8, <3>1
    <3> QED  BY <1>3, <1>4, <1>5, <1>7, <3>2
  <2> QED  BY <1>2, <1>8, <1>11, <1>12, <1>13, <2>1 DEF Run
<1>15. Prints(After(d, b), q2, o2, e)
  BY <1>14 DEF Prints
<1> QED  BY <1>6, <1>9, <1>15
-----------------------------------------------------------------------------
(***************************************************************************)
(* The flags one by one.                                                   *)
(***************************************************************************)
Names == {"ext", "shift", "ctrl", "alt", "caps"}

LEMMA FlagsOn ==
  ASSUME NEW a \in BOOLEAN, NEW b \in BOOLEAN, NEW c \in BOOLEAN, NEW d \in BOOLEAN,
         NEW e \in BOOLEAN
  PROVE  /\ Flags(a, b, c, d, e) \subseteq Names
         /\ "ext" \in Flags(a, b, c, d, e) <=> a
         /\ "shift" \in Flags(a, b, c, d, e) <=> b
         /\ "ctrl" \in Flags(a, b, c, d, e) <=> c
         /\ "alt" \in Flags(a, b, c, d, e) <=> d
         /\ "caps" \in Flags(a, b, c, d, e) <=> e
  BY DEF Flags, Flag, Names

LEMMA SameFlags ==
  ASSUME NEW S \in SUBSET Names, NEW T \in SUBSET Names,
         "ext" \in S <=> "ext" \in T,
         "shift" \in S <=> "shift" \in T,
         "ctrl" \in S <=> "ctrl" \in T,
         "alt" \in S <=> "alt" \in T,
         "caps" \in S <=> "caps" \in T
  PROVE  S = T
<1>1. \A f \in Names : f \in S <=> f \in T
  BY DEF Names
<1>2. \A f : f \in S <=> f \in T
  BY <1>1
<1> QED  BY <1>2

\* What a byte does to each flag.
LEMMA AfterFlags ==
  ASSUME NEW d \in SUBSET Names, NEW b, b # EXTENDED
  PROVE  /\ After(d, b) \subseteq Names
         /\ "ext" \notin After(d, b)
         /\ b \div 128 = 1 =>
              /\ "shift" \in After(d, b) <=> "shift" \in d /\ b % 128 \notin Shifts
              /\ "ctrl" \in After(d, b) <=> "ctrl" \in d /\ b % 128 # KEY_CTRL_L
              /\ "alt" \in After(d, b) <=> "alt" \in d /\ b % 128 # KEY_ALT_L
              /\ "caps" \in After(d, b) <=> "caps" \in d
         /\ b \div 128 # 1 =>
              /\ "shift" \in After(d, b) <=> "shift" \in d \/ b % 128 \in Shifts
              /\ "ctrl" \in After(d, b) <=> "ctrl" \in d \/ b % 128 = KEY_CTRL_L
              /\ "alt" \in After(d, b) <=> "alt" \in d \/ b % 128 = KEY_ALT_L
              /\ "caps" \in After(d, b) <=> ~("caps" \in d <=> b % 128 = KEY_CAPSLOCK)
<1> DEFINE m == b % 128
<1>1. /\ FlagOf(m) \subseteq Names
      /\ "ext" \notin FlagOf(m) /\ "caps" \notin FlagOf(m)
      /\ "shift" \in FlagOf(m) <=> m \in Shifts
      /\ "ctrl" \in FlagOf(m) <=> m = KEY_CTRL_L
      /\ "alt" \in FlagOf(m) <=> m = KEY_ALT_L
  <2> HIDE DEF m
  <2>1. /\ m \in Shifts => FlagOf(m) = {"shift"} /\ m # KEY_CTRL_L /\ m # KEY_ALT_L
        /\ m = KEY_CTRL_L => FlagOf(m) = {"ctrl"} /\ m # KEY_ALT_L
        /\ m = KEY_ALT_L => FlagOf(m) = {"alt"}
        /\ m \notin Shifts /\ m # KEY_CTRL_L /\ m # KEY_ALT_L => FlagOf(m) = {}
    BY DEF FlagOf, Shifts, KEY_SHIFT_L, KEY_SHIFT_R, KEY_CTRL_L, KEY_ALT_L
  <2> QED  BY <2>1 DEF Names
<1>2. CASE b \div 128 = 1
  <2>1. After(d, b) = (d \ {"ext"}) \ FlagOf(m)
    BY <1>2 DEF After
  <2> HIDE DEF m
  <2>2. /\ After(d, b) \subseteq Names /\ "ext" \notin After(d, b)
        /\ "shift" \in After(d, b) <=> "shift" \in d /\ m \notin Shifts
        /\ "ctrl" \in After(d, b) <=> "ctrl" \in d /\ m # KEY_CTRL_L
        /\ "alt" \in After(d, b) <=> "alt" \in d /\ m # KEY_ALT_L
        /\ "caps" \in After(d, b) <=> "caps" \in d
    BY <1>1, <2>1
  <2> QED  BY <1>2, <2>2 DEF m
<1>3. CASE b \div 128 # 1
  <2>1. After(d, b) = Made(d \ {"ext"}, m)
    BY <1>3 DEF After
  <2> HIDE DEF m
  <2>2. /\ Toggled(d \ {"ext"}, m) \subseteq Names
        /\ \A f \in {"shift", "ctrl", "alt"} : f \in Toggled(d \ {"ext"}, m) <=> f \in d
        /\ "ext" \notin Toggled(d \ {"ext"}, m)
        /\ "caps" \in Toggled(d \ {"ext"}, m) <=> ~("caps" \in d <=> m = KEY_CAPSLOCK)
    BY DEF Toggled, Names
  <2>3. /\ After(d, b) \subseteq Names /\ "ext" \notin After(d, b)
        /\ "shift" \in After(d, b) <=> "shift" \in d \/ m \in Shifts
        /\ "ctrl" \in After(d, b) <=> "ctrl" \in d \/ m = KEY_CTRL_L
        /\ "alt" \in After(d, b) <=> "alt" \in d \/ m = KEY_ALT_L
        /\ "caps" \in After(d, b) <=> ~("caps" \in d <=> m = KEY_CAPSLOCK)
    BY <1>1, <2>1, <2>2 DEF Made
  <2> QED  BY <1>3, <2>3 DEF m
<1> QED  BY <1>2, <1>3

\* The keys with a character are none of the modifiers, nor above KEY_MAX.
LEMMA VisibleCodes ==
  ASSUME NEW m, NEW col
  PROVE  /\ keymap(m, col) # INV =>
              /\ m \in 1 .. KEY_MAX /\ m \notin Shifts /\ m # KEY_CTRL_L /\ m # KEY_ALT_L
              /\ m # KEY_CAPSLOCK
         /\ m \in Nat => keymap(m, col) \in Nat \X Nat
<1>1. keymap(m, col) # INV => <<m, col>> \in Visible
  BY DEF keymap
<1>2. <<m, col>> \in Visible =>
        /\ m \in Plain \cup PadSigns \cup {PadDelete} \cup Pad
        /\ col \in {0, 1}
  BY DEF Visible
<1>3. m \in Plain \cup PadSigns \cup {PadDelete} \cup Pad =>
        /\ m \in 1 .. KEY_MAX /\ m \notin Shifts /\ m # KEY_CTRL_L /\ m # KEY_ALT_L
        /\ m # KEY_CAPSLOCK
  BY DEF Plain, Pad, PadSigns, PadDelete, Shifts, KEY_MAX, KEY_SHIFT_L, KEY_SHIFT_R,
     KEY_CTRL_L, KEY_ALT_L, KEY_CAPSLOCK
<1>4. m \in Nat => keymap(m, col) \in Nat \X Nat
  BY <1>2 DEF keymap, INV
<1> QED  BY <1>1, <1>2, <1>3, <1>4

\* The character of a make code, by the flags before it.
LEMMA CharByFlags ==
  ASSUME NEW d \in SUBSET Names, NEW b, b # EXTENDED, b \div 128 # 1
  PROVE  CharOf(d, b) = keymap(b % 128, IF "ext" \in d THEN IF b % 128 = KEY_SLASH THEN 0 ELSE 1
                                        ELSE IF "shift" \in d <=> "caps" \in d THEN 0 ELSE 1)
<1> DEFINE m == b % 128
           simple == IF "ext" \in d THEN IF m = KEY_SLASH THEN 0 ELSE 1
                     ELSE IF "shift" \in d <=> "caps" \in d THEN 0 ELSE 1
<1>1. CharOf(d, b) = keymap(m, ColumnOf(d, m))
  BY DEF CharOf
<1> HIDE DEF m
<1>2. CASE m \notin Shifts /\ m # KEY_CTRL_L /\ m # KEY_ALT_L /\ m # KEY_CAPSLOCK
  <2>1. Made(d, m) = d
    BY <1>2 DEF Made, Toggled, FlagOf
  <2>2. ColumnOf(d, m) = simple
    BY <2>1 DEF ColumnOf
  <2> QED  BY <1>1, <2>2 DEF m
<1>3. CASE ~(m \notin Shifts /\ m # KEY_CTRL_L /\ m # KEY_ALT_L /\ m # KEY_CAPSLOCK)
  <2>1. keymap(m, ColumnOf(d, m)) = INV /\ keymap(m, simple) = INV
    <3> HIDE DEF simple
    <3> QED  BY <1>3, VisibleCodes
  <2> QED  BY <1>1, <2>1 DEF m
<1> QED  BY <1>2, <1>3

LEMMA CharIsChar == ASSUME NEW d, NEW b \in Nat PROVE CharOf(d, b) \in Nat \X Nat
<1>1. INV \in Nat \X Nat /\ b % 128 \in Nat
  BY DEF INV
<1>2. keymap(b % 128, ColumnOf(d, b % 128)) \in Nat \X Nat
  BY <1>1, VisibleCodes
<1> QED  BY <1>1, <1>2 DEF CharOf

-----------------------------------------------------------------------------
(***************************************************************************)
(* The inductive invariant: the bytes that wait make the driver print what *)
(* is due, and leave it with the modifiers of the keyboard.                *)
(***************************************************************************)
Bytes == 0 .. 255
Chars == Nat \X Nat

KeyTypes ==
  /\ extcode_state \in BOOLEAN /\ shift_state \in BOOLEAN /\ ctrl_state \in BOOLEAN
  /\ alt_state \in BOOLEAN /\ capslock_state \in BOOLEAN
  /\ locked \in BOOLEAN /\ turned \in BOOLEAN
  /\ queue \in Seq(Bytes) /\ due \in Seq(Chars)

KeyInv ==
  /\ KeyTypes
  /\ Prints(Driver, queue, due, Board)
  /\ printed[1] = printed[2]

LEMMA DriverOn ==
  ASSUME KeyTypes
  PROVE  /\ Driver \in SUBSET Names
         /\ "ext" \in Driver <=> extcode_state
         /\ "shift" \in Driver <=> shift_state
         /\ "ctrl" \in Driver <=> ctrl_state
         /\ "alt" \in Driver <=> alt_state
         /\ "caps" \in Driver <=> capslock_state
<1>1. /\ extcode_state \in BOOLEAN /\ shift_state \in BOOLEAN /\ ctrl_state \in BOOLEAN
      /\ alt_state \in BOOLEAN /\ capslock_state \in BOOLEAN
  BY DEF KeyTypes
<1>2. Driver = Flags(extcode_state, shift_state, ctrl_state, alt_state, capslock_state)
  BY DEF Driver
<1> QED  BY ONLY <1>1, <1>2, FlagsOn

LEMMA BoardOn ==
  ASSUME KeyTypes
  PROVE  /\ Board \in SUBSET Names
         /\ "ext" \notin Board
         /\ "shift" \in Board <=> Told(Shifts)
         /\ "ctrl" \in Board <=> Told({KEY_CTRL_L})
         /\ "alt" \in Board <=> Told({KEY_ALT_L})
         /\ "caps" \in Board <=> Upper
<1> DEFINE s == Told(Shifts)
           c == Told({KEY_CTRL_L})
           a == Told({KEY_ALT_L})
<1>1. s \in BOOLEAN /\ c \in BOOLEAN /\ a \in BOOLEAN /\ Upper \in BOOLEAN /\ FALSE \in BOOLEAN
  BY DEF Told, Down, Upper, KeyTypes
<1>2. Board = Flags(FALSE, s, c, a, Upper)
  BY DEF Board
<1> HIDE DEF s, c, a
<1>3. /\ Board \in SUBSET Names
      /\ "ext" \notin Board
      /\ "shift" \in Board <=> s
      /\ "ctrl" \in Board <=> c
      /\ "alt" \in Board <=> a
      /\ "caps" \in Board <=> Upper
  BY <1>1, <1>2 DEF Flags, Flag, Names
<1> QED  BY <1>3 DEF s, c, a

-----------------------------------------------------------------------------
(***************************************************************************)
(* The driver takes a byte.                                                *)
(***************************************************************************)
\* The handler takes the driver from one state to the next, and prints the
\* character of the byte.
LEMMA HandlerIsAfter ==
  ASSUME KeyTypes, keyboard_interrupt_handler
  PROVE  /\ queue # <<>> /\ queue' = Tail(queue) /\ UNCHANGED typist
         /\ KeyTypes'
         /\ Driver' = After(Driver, Byte)
         /\ PrintCh(CharOf(Driver, Byte))
<1>1. queue # <<>> /\ queue' = Tail(queue) /\ UNCHANGED <<held, locked, turned, lifted>>
  BY DEF keyboard_interrupt_handler, ExtendedByte, Unsupported, Break, Make, KeyByte, Take, typist
<1>2. queue' \in Seq(Bytes) /\ Byte \in Bytes
  BY <1>1, HeadTailProperties DEF KeyTypes, Byte
<1>3. Makecode \in 0 .. 127 /\ Byte \div 128 \in 0 .. 1
  BY <1>2 DEF Makecode, Bytes
<1>4. PrintCh(CharOf(Driver, Byte)) => due' \in Seq(Chars)
  <2>1. due # <<>> => Tail(due) \in Seq(Chars)
    BY HeadTailProperties DEF KeyTypes
  <2> QED  BY <2>1 DEF PrintCh, KeyTypes
<1> DEFINE OnAre(e, s, c, a, l) ==
             /\ extcode_state' \in BOOLEAN /\ shift_state' \in BOOLEAN
             /\ ctrl_state' \in BOOLEAN /\ alt_state' \in BOOLEAN /\ capslock_state' \in BOOLEAN
             /\ extcode_state' <=> e
             /\ shift_state' <=> s
             /\ ctrl_state' <=> c
             /\ alt_state' <=> a
             /\ capslock_state' <=> l
           X == After(Driver, Byte)
<1>5. /\ OnAre("ext" \in X, "shift" \in X, "ctrl" \in X, "alt" \in X, "caps" \in X)
      /\ X \in SUBSET Names
      /\ PrintCh(CharOf(Driver, Byte))
  <2>1. CASE ExtendedByte
    <3>1. Byte = EXTENDED /\ extcode_state' = TRUE
          /\ UNCHANGED <<ctrl_state, alt_state, shift_state, capslock_state, due, printed>>
      BY <2>1 DEF ExtendedByte, modifiers, locks
    <3>2. X = Driver \cup {"ext"} /\ CharOf(Driver, Byte) = INV
      BY <3>1 DEF After, CharOf
    <3>3. X \in SUBSET Names
      BY <3>2, DriverOn DEF Names
    <3>4. OnAre("ext" \in X, "shift" \in X, "ctrl" \in X, "alt" \in X, "caps" \in X)
      BY <3>1, <3>2, DriverOn DEF KeyTypes
    <3> QED  BY <3>1, <3>2, <3>3, <3>4 DEF PrintCh
  <2>2. CASE Unsupported
    <3>1. /\ Byte # EXTENDED /\ extcode_state' = FALSE /\ Byte % 128 > KEY_MAX
          /\ UNCHANGED <<ctrl_state, alt_state, shift_state, capslock_state, due, printed>>
      BY <2>2 DEF Unsupported, KeyByte, modifiers, locks, Makecode
    <3>2. Byte % 128 \notin Shifts /\ Byte % 128 # KEY_CTRL_L /\ Byte % 128 # KEY_ALT_L
          /\ Byte % 128 # KEY_CAPSLOCK /\ Byte % 128 \notin 1 .. KEY_MAX
      BY <1>3, <3>1 DEF Makecode, Shifts, KEY_MAX, KEY_SHIFT_L, KEY_SHIFT_R, KEY_CTRL_L,
         KEY_ALT_L, KEY_CAPSLOCK
    <3>3. CharOf(Driver, Byte) = INV
      BY <3>2, VisibleCodes DEF CharOf
    <3>4. OnAre("ext" \in X, "shift" \in X, "ctrl" \in X, "alt" \in X, "caps" \in X)
          /\ X \in SUBSET Names
      <4>1. /\ X \in SUBSET Names /\ "ext" \notin X
            /\ "shift" \in X <=> "shift" \in Driver
            /\ "ctrl" \in X <=> "ctrl" \in Driver
            /\ "alt" \in X <=> "alt" \in Driver
            /\ "caps" \in X <=> "caps" \in Driver
        BY <3>1, <3>2, DriverOn, AfterFlags
      <4> HIDE DEF X
      <4> QED  BY <3>1, <4>1, DriverOn DEF KeyTypes
    <3> QED  BY <3>1, <3>3, <3>4 DEF PrintCh
  <2>3. CASE Break
    <3>1. /\ Byte # EXTENDED /\ extcode_state' = FALSE /\ Byte \div 128 = 1
          /\ UNCHANGED <<capslock_state, due, printed>>
          /\ ctrl_state' = IF Byte % 128 = KEY_CTRL_L THEN FALSE ELSE ctrl_state
          /\ shift_state' = IF Byte % 128 \in Shifts THEN FALSE ELSE shift_state
          /\ alt_state' = IF Byte % 128 = KEY_ALT_L THEN FALSE ELSE alt_state
      BY <2>3 DEF Break, KeyByte, Modify, locks, Makecode, Breakcode, Shifts
    <3>2. CharOf(Driver, Byte) = INV
      BY <3>1 DEF CharOf
    <3>3. /\ X \in SUBSET Names /\ "ext" \notin X
          /\ "shift" \in X <=> "shift" \in Driver /\ Byte % 128 \notin Shifts
          /\ "ctrl" \in X <=> "ctrl" \in Driver /\ Byte % 128 # KEY_CTRL_L
          /\ "alt" \in X <=> "alt" \in Driver /\ Byte % 128 # KEY_ALT_L
          /\ "caps" \in X <=> "caps" \in Driver
      BY <3>1, DriverOn, AfterFlags
    <3> HIDE DEF X
    <3>4. OnAre("ext" \in X, "shift" \in X, "ctrl" \in X, "alt" \in X, "caps" \in X)
      BY <3>1, <3>3, DriverOn DEF KeyTypes
    <3> QED  BY <3>1, <3>2, <3>3, <3>4 DEF PrintCh
  <2>4. CASE Make
    <3>1. /\ Byte # EXTENDED /\ extcode_state' = FALSE /\ Byte \div 128 # 1
          /\ capslock_state' = (capslock_state # (Byte % 128 = KEY_CAPSLOCK))
          /\ ctrl_state' = IF Byte % 128 = KEY_CTRL_L THEN TRUE ELSE ctrl_state
          /\ shift_state' = IF Byte % 128 \in Shifts THEN TRUE ELSE shift_state
          /\ alt_state' = IF Byte % 128 = KEY_ALT_L THEN TRUE ELSE alt_state
          /\ PrintCh(keymap(Byte % 128, Column))
      BY <2>4 DEF Make, KeyByte, Modify, Makecode, Breakcode, Shifts
    <3>2. /\ X \in SUBSET Names /\ "ext" \notin X
          /\ "shift" \in X <=> "shift" \in Driver \/ Byte % 128 \in Shifts
          /\ "ctrl" \in X <=> "ctrl" \in Driver \/ Byte % 128 = KEY_CTRL_L
          /\ "alt" \in X <=> "alt" \in Driver \/ Byte % 128 = KEY_ALT_L
          /\ "caps" \in X <=> ~("caps" \in Driver <=> Byte % 128 = KEY_CAPSLOCK)
      BY <3>1, DriverOn, AfterFlags
    <3>3. keymap(Byte % 128, Column) = CharOf(Driver, Byte)
      <4>1. CASE keymap(Byte % 128, Column) = INV /\ CharOf(Driver, Byte) = INV
        BY <4>1
      <4>2. CASE ~(keymap(Byte % 128, Column) = INV /\ CharOf(Driver, Byte) = INV)
        <5>1. Byte % 128 \notin Shifts /\ Byte % 128 # KEY_CAPSLOCK
          BY <3>1, <4>2, VisibleCodes, CharByFlags, DriverOn
        <5>2. shift_state' = shift_state /\ (capslock_state' <=> capslock_state)
              /\ capslock_state' \in BOOLEAN
          BY <3>1, <5>1 DEF KeyTypes
        <5>3. Column = IF "ext" \in Driver THEN IF Byte % 128 = KEY_SLASH THEN 0 ELSE 1
                       ELSE IF "shift" \in Driver <=> "caps" \in Driver THEN 0 ELSE 1
          BY <5>2, DriverOn DEF Column, Makecode, KeyTypes
        <5> QED  BY <3>1, <5>3, CharByFlags, DriverOn
      <4> QED  BY <4>1, <4>2
    <3> HIDE DEF X
    <3>4. OnAre("ext" \in X, "shift" \in X, "ctrl" \in X, "alt" \in X, "caps" \in X)
      <4>1. /\ extcode_state' \in BOOLEAN /\ shift_state' \in BOOLEAN
            /\ ctrl_state' \in BOOLEAN /\ alt_state' \in BOOLEAN /\ capslock_state' \in BOOLEAN
        BY <3>1 DEF KeyTypes
      <4>2. ~extcode_state' /\ (shift_state' <=> "shift" \in X)
        BY <3>1, <3>2, DriverOn DEF KeyTypes
      <4>3. (ctrl_state' <=> "ctrl" \in X) /\ (alt_state' <=> "alt" \in X)
        BY <3>1, <3>2, DriverOn DEF KeyTypes
      <4>4. capslock_state' <=> "caps" \in X
        BY <3>1, <3>2, DriverOn DEF KeyTypes
      <4> QED  BY <3>2, <4>1, <4>2, <4>3, <4>4
    <3> QED  BY <3>1, <3>2, <3>3, <3>4
  <2> QED  BY <2>1, <2>2, <2>3, <2>4 DEF keyboard_interrupt_handler
<1>6. KeyTypes'
  BY <1>1, <1>2, <1>4, <1>5 DEF KeyTypes
<1>7. /\ Driver' \in SUBSET Names
      /\ "ext" \in Driver' <=> extcode_state'
      /\ "shift" \in Driver' <=> shift_state'
      /\ "ctrl" \in Driver' <=> ctrl_state'
      /\ "alt" \in Driver' <=> alt_state'
      /\ "caps" \in Driver' <=> capslock_state'
  <2>1. /\ extcode_state' \in BOOLEAN /\ shift_state' \in BOOLEAN /\ ctrl_state' \in BOOLEAN
        /\ alt_state' \in BOOLEAN /\ capslock_state' \in BOOLEAN
    BY <1>6 DEF KeyTypes
  <2>2. Driver' = Flags(extcode_state', shift_state', ctrl_state', alt_state', capslock_state')
    BY DEF Driver
  <2> QED  BY ONLY <2>1, <2>2 DEF Flags, Flag, Names
<1> HIDE DEF X
<1>8. Driver' = X
  BY <1>5, <1>7, SameFlags
<1> QED  BY <1>1, <1>5, <1>6, <1>8 DEF X, typist

LEMMA HandlerKeeps == KeyInv /\ keyboard_interrupt_handler => KeyInv'
<1> SUFFICES ASSUME KeyInv, keyboard_interrupt_handler PROVE KeyInv'
  OBVIOUS
<1>1. /\ queue # <<>> /\ queue' = Tail(queue) /\ UNCHANGED <<held, locked, turned, lifted>>
      /\ KeyTypes'
      /\ Driver' = After(Driver, Byte)
      /\ PrintCh(CharOf(Driver, Byte))
  BY HandlerIsAfter DEF KeyInv, typist
<1>2. Board' = Board
  BY <1>1 DEF Board, Told, Down, Upper
<1>3. queue \in Seq(Bytes) /\ due \in Seq(Chars) /\ Prints(Driver, queue, due, Board)
  BY DEF KeyInv, KeyTypes
<1>4. /\ CharOf(Driver, Byte) = INV => Prints(After(Driver, Byte), Tail(queue), due, Board)
      /\ CharOf(Driver, Byte) # INV =>
           /\ due # <<>> /\ Head(due) = CharOf(Driver, Byte)
           /\ Prints(After(Driver, Byte), Tail(queue), Tail(due), Board)
  BY <1>1, <1>3, PrintsFirst DEF Byte
<1>5. Prints(Driver', queue', due', Board') /\ printed'[1] = printed'[2]
  <2>1. CASE CharOf(Driver, Byte) = INV
    <3>1. due' = due /\ printed' = printed
      BY <1>1, <2>1 DEF PrintCh
    <3> QED  BY <1>1, <1>2, <1>4, <2>1, <3>1 DEF KeyInv
  <2>2. CASE CharOf(Driver, Byte) # INV
    <3>1. due' = Tail(due) /\ printed' = <<CharOf(Driver, Byte), Head(due)>>
      BY <1>1, <1>4, <2>2 DEF PrintCh
    <3>2. printed'[1] = CharOf(Driver, Byte) /\ printed'[2] = Head(due)
      BY <3>1
    <3> QED  BY <1>1, <1>2, <1>4, <2>2, <3>1, <3>2
  <2> QED  BY <2>1, <2>2
<1> QED  BY <1>1, <1>2, <1>5 DEF KeyInv

-----------------------------------------------------------------------------
(***************************************************************************)
(* The keyboard sends the bytes of a key.                                  *)
(***************************************************************************)
\* The driver in state d behind the first byte of an extended key.
Behind(d, k) == IF k.ext THEN d \cup {"ext"} ELSE d

LEMMA SentPrints ==
  ASSUME NEW d, NEW e, NEW q \in Seq(Bytes), NEW o \in Seq(Chars), NEW k, NEW c \in Bytes,
         Prints(d, q, o, e)
  PROVE  /\ q \o Sent(k, c) \in Seq(Bytes)
         /\ Then(o, CharOf(Behind(e, k), c)) \in Seq(Chars)
         /\ Prints(d, q \o Sent(k, c), Then(o, CharOf(Behind(e, k), c)), After(Behind(e, k), c))
<1>1. CASE ~k.ext
  <2>1. q \o Sent(k, c) = Append(q, c) /\ Behind(e, k) = e
    BY <1>1 DEF Sent, Behind
  <2>2. CharOf(e, c) \in Chars
    BY CharIsChar DEF Bytes, Chars
  <2>3. Append(q, c) \in Seq(Bytes)
    OBVIOUS
  <2>4. /\ Prints(d, Append(q, c), Then(o, CharOf(e, c)), After(e, c))
        /\ Then(o, CharOf(e, c)) \in Seq(Chars)
    BY <2>2, PrintsMore
  <2> QED  BY <2>1, <2>3, <2>4
<1>2. CASE k.ext
  <2> DEFINE p == Append(q, EXTENDED)
             f == e \cup {"ext"}
  <2>1. EXTENDED \in Bytes
    BY DEF EXTENDED, Bytes
  <2>2. Behind(e, k) = f /\ After(e, EXTENDED) = f /\ CharOf(e, EXTENDED) = INV
    BY <1>2 DEF Behind, After, CharOf
  <2>3. INV \in Chars
    BY DEF INV, Chars
  <2>4. Prints(d, p, Then(o, INV), f)
    <3>1. CharOf(e, EXTENDED) \in Chars
      BY <2>2, <2>3
    <3>2. Prints(d, Append(q, EXTENDED), Then(o, CharOf(e, EXTENDED)), After(e, EXTENDED))
      BY <2>1, <3>1, PrintsMore
    <3> QED  BY <2>2, <3>2
  <2>5. Then(o, INV) = o
    BY DEF Then
  <2>6. p \in Seq(Bytes) /\ Append(p, c) \in Seq(Bytes)
    BY <2>1
  <2>7. q \o Sent(k, c) = Append(p, c)
    <3>1. Sent(k, c) = <<EXTENDED, c>>
      BY <1>2 DEF Sent
    <3>2. q \o <<EXTENDED, c>> = Append(Append(q, EXTENDED), c)
      BY <2>1
    <3> QED  BY <3>1, <3>2
  <2>8. CharOf(f, c) \in Chars
    BY CharIsChar DEF Bytes, Chars
  <2>9. Prints(d, p, o, f)
    BY <2>4, <2>5
  <2> HIDE DEF p, f
  <2>10. /\ Prints(d, Append(p, c), Then(o, CharOf(f, c)), After(f, c))
         /\ Then(o, CharOf(f, c)) \in Seq(Chars)
    BY <2>6, <2>8, <2>9, PrintsMore
  <2> QED  BY <2>2, <2>6, <2>7, <2>10
<1> QED  BY <1>1, <1>2

\* A make code prints the character of the key's column, a break code none.
LEMMA CodeOfKey ==
  ASSUME KeyTypes, NEW k \in Keys
  PROVE  /\ k.code \in 1 .. 95 /\ k.code \in Bytes /\ k.code # EXTENDED
         /\ k.code \div 128 # 1 /\ k.code % 128 = k.code
         /\ k.code + 128 \in Bytes /\ k.code + 128 # EXTENDED
         /\ (k.code + 128) \div 128 = 1 /\ (k.code + 128) % 128 = k.code
         /\ CharOf(Behind(Board, k), k.code) = Typed(k)
         /\ CharOf(Behind(Board, k), k.code + 128) = INV
         /\ Behind(Board, k) \in SUBSET Names
         /\ \A f \in Names \ {"ext"} : f \in Behind(Board, k) <=> f \in Board
<1> DEFINE c == k.code
           b == Behind(Board, k)
<1>1. c \in 1 .. 95
  BY KeyboardAssumption
<1>2. /\ c \in Bytes /\ c # EXTENDED /\ c \div 128 # 1 /\ c % 128 = c
      /\ c + 128 \in Bytes /\ c + 128 # EXTENDED
      /\ (c + 128) \div 128 = 1 /\ (c + 128) % 128 = c
  <2> HIDE DEF c
  <2> QED  BY <1>1 DEF Bytes, EXTENDED
<1>3. /\ b \in SUBSET Names
      /\ \A f \in Names \ {"ext"} : f \in b <=> f \in Board
      /\ "ext" \in b <=> k.ext
  BY BoardOn DEF Behind, Names
<1>4. CharOf(b, c + 128) = INV
  BY <1>2 DEF CharOf
<1>5. CharOf(b, c) = Typed(k)
  <2>1. CharOf(b, c) = keymap(c, IF "ext" \in b THEN IF c = KEY_SLASH THEN 0 ELSE 1
                                 ELSE IF "shift" \in b <=> "caps" \in b THEN 0 ELSE 1)
    <3> HIDE DEF b, c
    <3> QED  BY <1>2, <1>3, CharByFlags
  <2>2. ("shift" \in b <=> Told(Shifts)) /\ ("caps" \in b <=> Upper)
    <3> HIDE DEF b
    <3> QED  BY <1>3, BoardOn DEF Names
  <2>3. Told(Shifts) \in BOOLEAN /\ Upper \in BOOLEAN
    BY DEF Told, Down, Upper, KeyTypes
  <2>4. (IF Told(Shifts) # Upper THEN 1 ELSE 0) = (IF "shift" \in b <=> "caps" \in b THEN 0 ELSE 1)
    <3> HIDE DEF b
    <3> QED  BY <2>2, <2>3
  <2> HIDE DEF b
  <2>5. Typed(k) = keymap(c, IF k.ext THEN IF c = KEY_SLASH THEN 0 ELSE 1
                             ELSE IF Told(Shifts) # Upper THEN 1 ELSE 0)
    BY DEF Typed
  <2>6. CASE k.ext
    BY <1>3, <2>1, <2>5, <2>6
  <2>7. CASE ~k.ext
    BY <1>3, <2>1, <2>4, <2>5, <2>7
  <2> QED  BY <2>6, <2>7
<1> QED  BY <1>1, <1>2, <1>3, <1>4, <1>5

\* It is enough that the bytes sent make the driver follow the keys.
LEMMA SendsKeep ==
  ASSUME KeyInv, NEW k \in Keys, NEW c \in Bytes,
         queue' = queue \o Sent(k, c),
         due' = Then(due, CharOf(Behind(Board, k), c)),
         Board' = After(Behind(Board, k), c),
         locked' \in BOOLEAN, turned' \in BOOLEAN,
         UNCHANGED <<modifiers, locks, extcode_state, printed>>
  PROVE  KeyInv'
<1>1. queue \in Seq(Bytes) /\ due \in Seq(Chars) /\ Prints(Driver, queue, due, Board)
  BY DEF KeyInv, KeyTypes
<1>2. /\ queue' \in Seq(Bytes) /\ due' \in Seq(Chars)
      /\ Prints(Driver, queue', due', Board')
  BY <1>1, SentPrints
<1>3. Driver' = Driver
  BY DEF Driver, modifiers, locks
<1>4. KeyTypes'
  BY <1>2 DEF KeyInv, KeyTypes, modifiers, locks
<1> QED  BY <1>2, <1>3, <1>4 DEF KeyInv

\* The flags of the keyboard after a key has sent its code.
LEMMA BoardFollows ==
  ASSUME KeyTypes, NEW k \in Keys, NEW b, b # EXTENDED, b % 128 = k.code,
         Upper' \in BOOLEAN,
         b \div 128 = 1 =>
           /\ Told(Shifts)' <=> Told(Shifts) /\ k.code \notin Shifts
           /\ Told({KEY_CTRL_L})' <=> Told({KEY_CTRL_L}) /\ k.code # KEY_CTRL_L
           /\ Told({KEY_ALT_L})' <=> Told({KEY_ALT_L}) /\ k.code # KEY_ALT_L
           /\ Upper' <=> Upper,
         b \div 128 # 1 =>
           /\ Told(Shifts)' <=> Told(Shifts) \/ k.code \in Shifts
           /\ Told({KEY_CTRL_L})' <=> Told({KEY_CTRL_L}) \/ k.code = KEY_CTRL_L
           /\ Told({KEY_ALT_L})' <=> Told({KEY_ALT_L}) \/ k.code = KEY_ALT_L
           /\ Upper' <=> ~(Upper <=> k.code = KEY_CAPSLOCK)
  PROVE  Board' = After(Behind(Board, k), b)
<1> DEFINE d == Behind(Board, k)
           X == After(d, b)
           s == Told(Shifts)'
           c == Told({KEY_CTRL_L})'
           a == Told({KEY_ALT_L})'
<1>1. d \in SUBSET Names /\ \A f \in Names \ {"ext"} : f \in d <=> f \in Board
  BY CodeOfKey
<1>2. s \in BOOLEAN /\ c \in BOOLEAN /\ a \in BOOLEAN
  BY DEF Told, Down
<1>3. Board' = Flags(FALSE, s, c, a, Upper')
  BY DEF Board
<1>4. /\ "shift" \in d <=> Told(Shifts)
      /\ "ctrl" \in d <=> Told({KEY_CTRL_L})
      /\ "alt" \in d <=> Told({KEY_ALT_L})
      /\ "caps" \in d <=> Upper
  <2> HIDE DEF d
  <2> QED  BY <1>1, BoardOn DEF Names
<1>5. /\ X \in SUBSET Names /\ "ext" \notin X
      /\ "shift" \in X <=> s
      /\ "ctrl" \in X <=> c
      /\ "alt" \in X <=> a
      /\ "caps" \in X <=> Upper'
  <2> HIDE DEF d
  <2>1. CASE b \div 128 = 1
    BY <1>1, <1>4, <2>1, AfterFlags
  <2>2. CASE b \div 128 # 1
    BY <1>1, <1>4, <2>2, AfterFlags
  <2> QED  BY <2>1, <2>2
<1> HIDE DEF X, s, c, a
<1>6. /\ Board' \in SUBSET Names /\ "ext" \notin Board'
      /\ "shift" \in Board' <=> s
      /\ "ctrl" \in Board' <=> c
      /\ "alt" \in Board' <=> a
      /\ "caps" \in Board' <=> Upper'
  BY <1>2, <1>3 DEF Flags, Flag, Names
<1>7. Board' = X
  BY <1>5, <1>6, SameFlags
<1> QED  BY <1>7 DEF X

\* A make code puts its pair on, and changes no other.
LEMMA MakeTells ==
  ASSUME NEW k \in Keys, k \in held', held' \in {held, held \cup {k}}, lifted' = Raised(k)
  PROVE  /\ Told(Shifts)' <=> Told(Shifts) \/ k.code \in Shifts
         /\ Told({KEY_CTRL_L})' <=> Told({KEY_CTRL_L}) \/ k.code = KEY_CTRL_L
         /\ Told({KEY_ALT_L})' <=> Told({KEY_ALT_L}) \/ k.code = KEY_ALT_L
<1>1. ASSUME NEW pair
      PROVE  (\E j \in held' : j.code \in pair) /\ pair \notin lifted'
               <=> Told(pair) \/ k.code \in pair
  <2>1. (\E j \in held' : j.code \in pair) <=> Down(pair) \/ k.code \in pair
    BY DEF Down
  <2>2. pair \notin lifted' <=> pair \notin lifted \/ k.code \in pair
    BY DEF Raised
  <2> QED  BY <2>1, <2>2 DEF Told
<1>2. /\ Told(Shifts)' <=> (\E j \in held' : j.code \in Shifts) /\ Shifts \notin lifted'
      /\ Told({KEY_CTRL_L})' <=>
           (\E j \in held' : j.code \in {KEY_CTRL_L}) /\ {KEY_CTRL_L} \notin lifted'
      /\ Told({KEY_ALT_L})' <=>
           (\E j \in held' : j.code \in {KEY_ALT_L}) /\ {KEY_ALT_L} \notin lifted'
  BY DEF Told, Down, Shifts
<1>3. (k.code \in {KEY_CTRL_L} <=> k.code = KEY_CTRL_L) /\ (k.code \in {KEY_ALT_L} <=> k.code = KEY_ALT_L)
  OBVIOUS
<1> QED  BY <1>1, <1>2, <1>3

\* A break code puts its pair off, and changes no other.
LEMMA BreakTells ==
  ASSUME NEW k \in Keys, Release(k)
  PROVE  /\ Told(Shifts)' <=> Told(Shifts) /\ k.code \notin Shifts
         /\ Told({KEY_CTRL_L})' <=> Told({KEY_CTRL_L}) /\ k.code # KEY_CTRL_L
         /\ Told({KEY_ALT_L})' <=> Told({KEY_ALT_L}) /\ k.code # KEY_ALT_L
<1> DEFINE Left(pair) == \E j \in held \ {k} : j.code \in pair
<1>1. lifted' = {pair \in Pairs : Left(pair) /\ (pair \in lifted \/ k.code \in pair)}
  BY DEF Release, Down
<1>2. ASSUME NEW pair \in Pairs
      PROVE  Left(pair) /\ pair \notin lifted' <=> Told(pair) /\ k.code \notin pair
  <2>1. k.code \notin pair => (Left(pair) <=> Down(pair))
    BY DEF Down
  <2> HIDE DEF Left
  <2> QED  BY <1>1, <2>1 DEF Told
<1>3. /\ Told(Shifts)' <=> Left(Shifts) /\ Shifts \notin lifted'
      /\ Told({KEY_CTRL_L})' <=> Left({KEY_CTRL_L}) /\ {KEY_CTRL_L} \notin lifted'
      /\ Told({KEY_ALT_L})' <=> Left({KEY_ALT_L}) /\ {KEY_ALT_L} \notin lifted'
  BY DEF Release, Told, Down, Shifts
<1>4. Shifts \in Pairs /\ {KEY_CTRL_L} \in Pairs /\ {KEY_ALT_L} \in Pairs
  BY DEF Pairs
<1>5. (k.code \in {KEY_CTRL_L} <=> k.code = KEY_CTRL_L) /\ (k.code \in {KEY_ALT_L} <=> k.code = KEY_ALT_L)
  OBVIOUS
<1> HIDE DEF Left
<1> QED  BY <1>2, <1>3, <1>4, <1>5

\* A key goes down.
LEMMA PressKeeps ==
  ASSUME KeyInv, NEW k \in Keys, Press(k)
  PROVE  KeyInv'
<1>1. /\ queue' = queue \o Sent(k, k.code)
      /\ held' = held \cup {k} /\ lifted' = Raised(k)
      /\ locked' = (locked # (k.code = KEY_CAPSLOCK)) /\ turned' = turned
      /\ due' = Owed(k)
      /\ UNCHANGED <<modifiers, locks, extcode_state, printed>>
  BY DEF Press, Sends
<1>2. KeyTypes
  BY DEF KeyInv
<1>3. due' = Then(due, CharOf(Behind(Board, k), k.code))
  BY <1>1, <1>2, CodeOfKey DEF Owed, Then
<1>4. locked' \in BOOLEAN /\ turned' \in BOOLEAN /\ Upper' \in BOOLEAN
      /\ (Upper' <=> ~(Upper <=> k.code = KEY_CAPSLOCK))
  BY <1>1, <1>2 DEF KeyTypes, Upper
<1>5. /\ Told(Shifts)' <=> Told(Shifts) \/ k.code \in Shifts
      /\ Told({KEY_CTRL_L})' <=> Told({KEY_CTRL_L}) \/ k.code = KEY_CTRL_L
      /\ Told({KEY_ALT_L})' <=> Told({KEY_ALT_L}) \/ k.code = KEY_ALT_L
  BY <1>1, MakeTells
<1>6. Board' = After(Behind(Board, k), k.code)
  <2>1. k.code # EXTENDED /\ k.code % 128 = k.code /\ k.code \div 128 # 1
    BY <1>2, CodeOfKey
  <2> QED  BY <1>2, <1>4, <1>5, <2>1, BoardFollows
<1> QED  BY <1>1, <1>2, <1>3, <1>4, <1>6, CodeOfKey, SendsKeep

\* A key repeats.
LEMMA RepeatKeeps ==
  ASSUME KeyInv, NEW k \in Keys, Repeat(k)
  PROVE  KeyInv'
<1>1. /\ k \in held /\ held' = held /\ lifted' = Raised(k)
      /\ queue' = queue \o Sent(k, k.code)
      /\ locked' = locked /\ turned' = (turned # (k.code = KEY_CAPSLOCK))
      /\ due' = Owed(k)
      /\ UNCHANGED <<modifiers, locks, extcode_state, printed>>
  BY DEF Repeat, Sends
<1>2. KeyTypes
  BY DEF KeyInv
<1>3. due' = Then(due, CharOf(Behind(Board, k), k.code))
  BY <1>1, <1>2, CodeOfKey DEF Owed, Then
<1>4. locked' \in BOOLEAN /\ turned' \in BOOLEAN /\ Upper' \in BOOLEAN
      /\ (Upper' <=> ~(Upper <=> k.code = KEY_CAPSLOCK))
  BY <1>1, <1>2 DEF KeyTypes, Upper
<1>5. /\ Told(Shifts)' <=> Told(Shifts) \/ k.code \in Shifts
      /\ Told({KEY_CTRL_L})' <=> Told({KEY_CTRL_L}) \/ k.code = KEY_CTRL_L
      /\ Told({KEY_ALT_L})' <=> Told({KEY_ALT_L}) \/ k.code = KEY_ALT_L
  BY <1>1, MakeTells
<1>6. Board' = After(Behind(Board, k), k.code)
  <2>1. k.code # EXTENDED /\ k.code % 128 = k.code /\ k.code \div 128 # 1
    BY <1>2, CodeOfKey
  <2> QED  BY <1>2, <1>4, <1>5, <2>1, BoardFollows
<1> QED  BY <1>1, <1>2, <1>3, <1>4, <1>6, CodeOfKey, SendsKeep

\* A key goes up.
LEMMA ReleaseKeeps ==
  ASSUME KeyInv, NEW k \in Keys, Release(k)
  PROVE  KeyInv'
<1>1. /\ queue' = queue \o Sent(k, k.code + 128)
      /\ locked' = locked /\ turned' = turned /\ due' = due
      /\ UNCHANGED <<modifiers, locks, extcode_state, printed>>
  BY DEF Release, Sends
<1>2. KeyTypes
  BY DEF KeyInv
<1>3. due' = Then(due, CharOf(Behind(Board, k), k.code + 128))
  BY <1>1, <1>2, CodeOfKey DEF Then
<1>4. locked' \in BOOLEAN /\ turned' \in BOOLEAN /\ Upper' \in BOOLEAN /\ (Upper' <=> Upper)
  BY <1>1, <1>2 DEF KeyTypes, Upper
<1>5. /\ Told(Shifts)' <=> Told(Shifts) /\ k.code \notin Shifts
      /\ Told({KEY_CTRL_L})' <=> Told({KEY_CTRL_L}) /\ k.code # KEY_CTRL_L
      /\ Told({KEY_ALT_L})' <=> Told({KEY_ALT_L}) /\ k.code # KEY_ALT_L
  BY BreakTells
<1>6. Board' = After(Behind(Board, k), k.code + 128)
  <2>1. k.code + 128 # EXTENDED /\ (k.code + 128) % 128 = k.code /\ (k.code + 128) \div 128 = 1
    BY <1>2, CodeOfKey
  <2> QED  BY <1>2, <1>4, <1>5, <2>1, BoardFollows
<1> QED  BY <1>1, <1>2, <1>3, <1>4, <1>6, CodeOfKey, SendsKeep

-----------------------------------------------------------------------------
(***************************************************************************)
(* The keyboard together with the main program.                            *)
(***************************************************************************)
LEMMA KeyInvInit == IntInit => KeyInv
<1> SUFFICES ASSUME IntInit PROVE KeyInv
  OBVIOUS
<1>1. KeyTypes /\ printed[1] = printed[2]
  BY EmptySeq DEF IntInit, Init, KeyTypes
<1>2. Driver = Board
  <2>1. ~Told(Shifts) /\ ~Told({KEY_CTRL_L}) /\ ~Told({KEY_ALT_L}) /\ ~Upper
    BY DEF IntInit, Init, Told, Down, Upper
  <2> QED  BY <1>1, <2>1, DriverOn, BoardOn, SameFlags DEF IntInit, Init
<1>3. Prints(Driver, queue, due, Board)
  BY <1>2, PrintsNothing DEF IntInit, Init
<1> QED  BY <1>1, <1>3 DEF KeyInv

\* Every step of the machine keeps the invariant of the keyboard.
THEOREM KeyInvStep == KeyInv /\ [IntNext]_int_vars => KeyInv'
<1> SUFFICES ASSUME KeyInv, [IntNext]_int_vars PROVE KeyInv'
  OBVIOUS
<1>1. CASE KeyboardBody
  BY <1>1, HandlerKeeps DEF KeyboardBody
<1>2. CASE Type
  BY <1>2, PressKeeps, RepeatKeeps, ReleaseKeeps DEF Type
<1>3. CASE UNCHANGED vars
  <2>1. UNCHANGED <<ctrl_state, alt_state, shift_state, capslock_state, extcode_state, queue,
                    held, locked, turned, lifted, due, printed>>
    BY <1>3 DEF vars, modifiers, locks, typist
  <2>2. Driver' = Driver /\ Board' = Board /\ KeyTypes'
    BY <2>1 DEF Driver, Board, Told, Down, Upper, KeyInv, KeyTypes
  <2> QED  BY <2>1, <2>2 DEF KeyInv
<1> QED
  BY <1>1, <1>2, <1>3 DEF IntNext, CpuStep, SetUpMemory, pic_init, idt_init, RaiseTest, STI,
     Interrupt, ExceptionBody, iretq, Present, Tick, int_vars

\* The characters are printed as the codes told them, in order and each once,
\* whatever the keys, in whatever order they go down, repeat and go up, both of a
\* pair and the lock keys too, and however late the interrupts are taken.
THEOREM TypingIsPrinted == IntSpec => []PrintedAsTyped
<1>1. KeyInv => PrintedAsTyped
  BY PrintsEnd DEF KeyInv, KeyTypes, PrintedAsTyped
<1> QED  BY <1>1, KeyInvInit, KeyInvStep, PTL DEF IntSpec

\* When no byte waits the driver has the modifiers of the keyboard, but for a pair
\* of which one key went up, and for the repeated codes of caps lock.
THEOREM ModifiersAreFollowed == IntSpec => []ModifiersFollow
<1>1. KeyInv => ModifiersFollow
  <2> SUFFICES ASSUME KeyInv, queue = <<>>
               PROVE  /\ ~extcode_state
                      /\ shift_state = Told(Shifts)
                      /\ ctrl_state = Told({KEY_CTRL_L})
                      /\ alt_state = Told({KEY_ALT_L})
                      /\ capslock_state = Upper
    BY DEF ModifiersFollow, Told, Upper
  <2>1. Driver = Board
    BY PrintsEnd DEF KeyInv, KeyTypes
  <2>2. /\ ~extcode_state
        /\ shift_state <=> Told(Shifts)
        /\ ctrl_state <=> Told({KEY_CTRL_L})
        /\ alt_state <=> Told({KEY_ALT_L})
        /\ capslock_state <=> Upper
    BY <2>1, DriverOn, BoardOn DEF KeyInv
  <2>3. /\ Told(Shifts) \in BOOLEAN /\ Told({KEY_CTRL_L}) \in BOOLEAN
        /\ Told({KEY_ALT_L}) \in BOOLEAN /\ Upper \in BOOLEAN
    BY DEF Told, Down, Upper
  <2> QED  BY <2>2, <2>3 DEF KeyInv, KeyTypes
<1> QED  BY <1>1, KeyInvInit, KeyInvStep, PTL DEF IntSpec
=============================================================================
