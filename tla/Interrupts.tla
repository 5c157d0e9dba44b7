----------------------------- MODULE Interrupts -----------------------------
(***************************************************************************)
(* The main program and its interrupts: x64/init/main64.c, pic.c, idt.c,   *)
(* exception.c and asm/interrupt.asm around the keyboard driver.  One      *)
(* action per write to the interrupt controllers, per call of main_x64 and *)
(* for the entry, the body and the iretq of a handler.                     *)
(*                                                                         *)
(* The two 8259A, the keyboard controller, the timer and what the          *)
(* processor does when it takes an interrupt are external.  A byte of the  *)
(* keyboard is put into the output buffer, which makes line 1 rise; the    *)
(* next byte comes only after it was read from port 0x60.                  *)
(***************************************************************************)
EXTENDS Keyboard

CONSTANT Tests   \* the vectors that main raises to test; NoTest for none

NoTest == -1
NoReport == <<>>
IRQ_KEYBOARD == 33   \* 0x21

ASSUME TestsAssumption == Tests \subseteq (0 .. 31) \cup {NoTest}

VARIABLES
  test,     \* the test that is compiled into main_x64
  main,     \* where main_x64 is
  outs,     \* the bytes that pic_init has written
  chip,     \* the controllers, [icw, base, imr, irr, isr, aeoi]
  idtr,     \* whether the interrupt table is loaded
  IF_flag,  \* EFLAGS.IF
  frames,   \* the handlers that have not returned, [vector, at, saved IF]
  report,   \* what the exception handler has printed, or NoReport
  obf,      \* a byte waits in the output buffer of the keyboard
  early     \* history: it waited when pic_init began

cpu == <<test, main, outs, idtr, IF_flag, frames>>
int_vars == <<vars, cpu, chip, report, obf, early>>

-----------------------------------------------------------------------------
(***************************************************************************)
(* The 8259A (external): ICW1 on the first port starts the initialisation, *)
(* forgets the requests that wait and opens the mask; the other words      *)
(* follow on the second port, then OCW1.                                   *)
(***************************************************************************)
Chips == {"master", "slave"}
CommandPort == [master |-> 32, slave |-> 160]
Weight == <<1, 2, 4, 8, 16, 32, 64, 128>>
Bits(v) == {b \in 0 .. 7 : (v \div Weight[b + 1]) % 2 = 1}

WriteCommand(c, v) ==
  IF 4 \in Bits(v) THEN [c EXCEPT !.icw = 2, !.imr = {}, !.irr = {}, !.isr = {}]
  ELSE [c EXCEPT !.isr = {n \in @ : \E m \in @ : m < n}]   \* EOI

WriteData(c, v) ==
  CASE c.icw = 2 -> [c EXCEPT !.icw = 3, !.base = 8 * (v \div 8)]
    [] c.icw = 3 -> [c EXCEPT !.icw = 4]
    [] c.icw = 4 -> [c EXCEPT !.icw = 0, !.aeoi = 1 \in Bits(v)]
    [] OTHER -> [c EXCEPT !.imr = Bits(v)]

out_byte(port, v) ==
  chip' = [n \in Chips |->
    CASE port = CommandPort[n] -> WriteCommand(chip[n], v)
      [] port = CommandPort[n] + 1 -> WriteData(chip[n], v)
      [] OTHER -> chip[n]]

\* The requests that get through; those of the slave come in on line 2.
Requests(n) ==
  {l \in chip[n].irr \ chip[n].imr : chip[n].icw = 0 /\ \A s \in chip[n].isr : l < s}
Least(lines) == CHOOSE l \in lines : \A m \in lines : l <= m
Cascade == IF Requests("slave") # {} /\ 2 \notin chip["master"].imr THEN {2} ELSE {}
Pending == Requests("master") \cup Cascade

\* The most urgent request: its vector, and the controllers after it.
Slaved == Least(Pending) = 2
Vector == IF Slaved THEN chip["slave"].base + Least(Requests("slave"))
          ELSE chip["master"].base + Least(Pending)
Accept(c, l) ==
  [c EXCEPT !.irr = @ \ {l}, !.isr = IF c.aeoi THEN @ ELSE @ \cup {l}]
Acknowledge ==
  chip' = [master |-> Accept(chip["master"], Least(Pending)),
           slave |-> IF Slaved THEN Accept(chip["slave"], Least(Requests("slave")))
                     ELSE chip["slave"]]

Rises(line) == [chip EXCEPT !["master"].irr = @ \cup {line}]

-----------------------------------------------------------------------------
(***************************************************************************)
(* main_x64.                                                               *)
(***************************************************************************)
InMain(from) == frames = <<>> /\ main = from

\* console_init, e820__memory_setup, e820__memblock_setup: they print.
SetUpMemory ==
  /\ InMain("memory")
  /\ main' = "pic"
  /\ UNCHANGED <<vars, test, outs, idtr, IF_flag, frames, chip, obf, report, early>>

Bug_timer_open == <<
  <<32, 17>>, <<160, 17>>, <<33, 32>>, <<161, 40>>, <<33, 4>>, <<161, 2>>,
  <<33, 3>>, <<161, 3>>, <<33, 252>>, <<161, 255>> >>
init_8259a == <<
  <<32, 17>>, <<160, 17>>,     \* ICW1
  <<33, 32>>, <<161, 40>>,     \* ICW2: vectors from 0x20 and 0x28 on
  <<33, 4>>, <<161, 2>>,       \* ICW3
  <<33, 3>>, <<161, 3>>,       \* ICW4: automatic EOI
  <<33, 253>>, <<161, 255>> >> \* OCW1: only the keyboard

Bug_idt_forgotten ==
  /\ InMain("pic")
  /\ LET out == init_8259a[outs + 1] IN out_byte(out[1], out[2])
  /\ outs' = outs + 1
  /\ main' = IF outs' = Len(init_8259a) THEN "test" ELSE "pic"
  /\ early' = IF outs = 0 THEN obf ELSE early
  /\ UNCHANGED <<vars, test, idtr, IF_flag, frames, obf, report>>
pic_init ==
  /\ InMain("pic")
  /\ LET out == init_8259a[outs + 1] IN out_byte(out[1], out[2])
  /\ outs' = outs + 1
  /\ main' = IF outs' = Len(init_8259a) THEN "idt" ELSE "pic"
  /\ early' = IF outs = 0 THEN obf ELSE early
  /\ UNCHANGED <<vars, test, idtr, IF_flag, frames, obf, report>>

idt_init ==
  /\ InMain("idt")
  /\ idtr' = TRUE
  /\ main' = "test"
  /\ UNCHANGED <<vars, test, outs, IF_flag, frames, chip, obf, report, early>>

\* The handler of a vector.
Bug_keyboard_general(v) ==
  CASE v < 32 -> "exception"
    [] v = 32 -> "clock"
    [] OTHER -> "general"
Handler(v) ==
  CASE v < 32 -> "exception"
    [] v = 32 -> "clock"
    [] v = IRQ_KEYBOARD -> "keyboard"
    [] OTHER -> "general"

\* All gates are interrupt gates (idt.c:37): entry clears the flag.
Bug_trap_gate == IF_flag
FlagInHandler == FALSE

Enter(v) ==
  /\ frames' = <<[vector |-> v, at |-> "body", flag |-> IF_flag]>> \o frames
  /\ IF_flag' = FlagInHandler

\* The test is raised before the flag is set.
RaiseTest ==
  /\ InMain("test")
  /\ main' = "sti"
  /\ IF test = NoTest THEN UNCHANGED <<frames, IF_flag>> ELSE Enter(test)
  /\ UNCHANGED <<vars, test, outs, idtr, chip, obf, report, early>>

STI ==
  /\ InMain("sti")
  /\ IF_flag' = TRUE
  /\ main' = "hlt"
  /\ UNCHANGED <<vars, test, outs, idtr, frames, chip, obf, report, early>>

-----------------------------------------------------------------------------
(***************************************************************************)
(* The handlers.                                                           *)
(***************************************************************************)
Interrupt ==
  /\ IF_flag /\ Pending # {}
  /\ Enter(Vector)
  /\ Acknowledge
  /\ UNCHANGED <<vars, test, main, outs, idtr, obf, report, early>>

InBody(handler) ==
  /\ frames # <<>>
  /\ Head(frames).at = "body" /\ Handler(Head(frames).vector) = handler

GoTo(place) == frames' = <<[Head(frames) EXCEPT !.at = place]>> \o Tail(frames)

send_eoi == out_byte(32, 32)

\* The driver takes the byte, which empties the output buffer.
Bug_prefix_unread ==
  /\ InBody("keyboard")
  /\ keyboard_interrupt_handler
  /\ obf' = (Byte = EXTENDED)
  /\ send_eoi
  /\ GoTo("iretq")
  /\ UNCHANGED <<test, main, outs, idtr, IF_flag, report, early>>
KeyboardBody ==
  /\ InBody("keyboard")
  /\ keyboard_interrupt_handler
  /\ obf' = FALSE
  /\ send_eoi
  /\ GoTo("iretq")
  /\ UNCHANGED <<test, main, outs, idtr, IF_flag, report, early>>

\* The stack on entry, from its top (external): some exceptions push an error
\* code on top.
PushError == {8, 10, 11, 12, 13, 14, 17, 21}
Stack(v) == (IF v \in PushError THEN <<"error code">> ELSE <<>>) \o <<"EIP", "CS", "EFLAGS">>

\* The entry of each vector expects an error code or not (interrupt.asm:52).
Bug_no_code_at_GP == {8, 10, 11, 12, 14, 17, 21}
DO_ERRCODE == {8, 10, 11, 12, 13, 14, 17, 21}
interrupt_handler_entry(v) ==   \* error code, EIP, CS and EFLAGS as it reads them
  IF v \in DO_ERRCODE THEN SubSeq(Stack(v), 1, 4) ELSE <<"0">> \o SubSeq(Stack(v), 1, 3)

\* exception_interrupt_handler prints and never returns; the flag stays as it is
\* on entry.  (The handlers of the timer and of the other vectors are not
\* modelled: OnlyKeys says that they never run.)
Bug_returns ==
  /\ InBody("exception")
  /\ report' = interrupt_handler_entry(Head(frames).vector)
  /\ GoTo("iretq")
  /\ UNCHANGED <<vars, test, main, outs, idtr, IF_flag, chip, obf, early>>
ExceptionBody ==
  /\ InBody("exception")
  /\ report' = interrupt_handler_entry(Head(frames).vector)
  /\ GoTo("dead")
  /\ UNCHANGED <<vars, test, main, outs, idtr, IF_flag, chip, obf, early>>

iretq ==
  /\ frames # <<>> /\ Head(frames).at = "iretq"
  /\ IF_flag' = Head(frames).flag
  /\ frames' = Tail(frames)
  /\ UNCHANGED <<vars, test, main, outs, idtr, chip, obf, report, early>>

-----------------------------------------------------------------------------
(***************************************************************************)
(* The devices (external).                                                 *)
(***************************************************************************)
Present ==
  /\ queue # <<>> /\ ~obf
  /\ obf' = TRUE
  /\ chip' = Rises(1)
  /\ UNCHANGED <<vars, cpu, report, early>>

Tick ==
  /\ 0 \notin chip["master"].irr
  /\ chip' = Rises(0)
  /\ UNCHANGED <<vars, cpu, obf, report, early>>

Type ==
  /\ \E k \in Keys : Press(k) \/ Repeat(k) \/ Release(k)
  /\ UNCHANGED <<cpu, chip, obf, report, early>>

-----------------------------------------------------------------------------
\* As the boot loader leaves the machine: interrupts off since setup.asm:102,
\* the controllers as the BIOS set them up, requests waiting.
AfterBoot(base, waiting) ==
  [icw |-> 0, base |-> base, imr |-> {}, irr |-> waiting, isr |-> {}, aeoi |-> FALSE]

IntInit ==
  /\ Init
  /\ test \in Tests
  /\ main = "memory" /\ outs = 0 /\ idtr = FALSE
  /\ IF_flag = FALSE /\ frames = <<>>
  /\ chip = [master |-> AfterBoot(8, {0}), slave |-> AfterBoot(112, {6})]
  /\ report = NoReport /\ obf = FALSE /\ early = FALSE

CpuStep ==
  \/ SetUpMemory \/ pic_init \/ idt_init \/ RaiseTest \/ STI
  \/ Interrupt \/ KeyboardBody \/ ExceptionBody \/ iretq

IntNext == CpuStep \/ Present \/ Tick \/ Type

\* The processor runs, and the keyboard hands over its bytes.  Nobody has to
\* press a key.
IntSpec == IntInit /\ [][IntNext]_int_vars /\ WF_int_vars(CpuStep) /\ WF_int_vars(Present)

-----------------------------------------------------------------------------
\* Interrupts are on only when both controllers have had all their words, the
\* vectors are clear of the exceptions and the table is loaded.
ReadyBeforeSTI ==
  IF_flag =>
    /\ idtr
    /\ \A n \in Chips : chip[n].icw = 0 /\ chip[n].base >= 32 /\ chip[n].base % 8 = 0

\* Whatever requests the devices raise, also before and while the controllers
\* are set up, only the keyboard's handler and the test's ever run.
OnlyKeys == \A n \in DOMAIN frames : frames[n].vector \in {IRQ_KEYBOARD, test}

\* printk has one buffer (printk.c:3) and the console one cursor: at no time are
\* two of the main program and the handlers inside of them.
OnePrinter ==
  /\ Len(frames) <= 1
  /\ frames # <<>> => main \notin {"memory", "pic", "idt"}

\* Once the controllers are set up, a byte in the output buffer has its request
\* waiting or its handler about to read it: the edge is never lost, so that the
\* keyboard does not fall silent.
EdgeKept ==
  obf /\ outs > 0 /\ ~early =>
    \/ 1 \in chip["master"].irr
    \/ \E n \in DOMAIN frames : frames[n].vector = IRQ_KEYBOARD /\ frames[n].at = "body"

\* Without a test in main_x64 every byte of the keyboard is read in the end,
\* unless one came before pic_init: ICW1 forgets its request.
KeysServed == (test = NoTest /\ obf) ~> (~obf \/ early)

\* The exception handler prints the registers and the error code of the fault,
\* not their neighbours on the stack (exception.c:35).
ReportIsTrue ==
  report # NoReport =>
    report = <<IF test \in PushError THEN "error code" ELSE "0", "EIP", "CS", "EFLAGS">>

\* With the test, which is raised before STI (main64.c:21), no key is served.
TestIsLast == test # NoTest => ~IF_flag /\ printed = <<INV, INV>>
=============================================================================
