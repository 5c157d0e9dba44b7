------------------------------ MODULE Keyboard ------------------------------
(***************************************************************************)
(* The keyboard driver: x64/kernel/chr_drv/keyboard.c.                     *)
(*                                                                         *)
(* keyboard_interrupt_handler runs once for every byte of the keyboard,    *)
(* behind an interrupt gate, so that one byte is one step.  The keyboard   *)
(* and the person who types are external: a key, a lock key too, sends its *)
(* make code when it goes down, again while it repeats, and its break code *)
(* when it goes up, with 0xe0 in front for the keys of the extended block; *)
(* the bytes wait until the processor takes the interrupt.                 *)
(***************************************************************************)
EXTENDS Integers, SequencesExt

CONSTANTS
  Keys,      \* the keys, [ext |-> whether it sends 0xe0, code |-> its make code]
  MaxHeld,   \* bound: the keys that are down at once
  MaxQueue   \* bound: the bytes that wait

KEY_CTRL_L == 29
KEY_SHIFT_L == 42
KEY_SLASH == 53
KEY_SHIFT_R == 54
KEY_ALT_L == 56
KEY_CAPSLOCK == 58
KEY_NUMLOCK == 69
KEY_SCRLOCK == 70
KEY_MAX == 89
EXTENDED == 224   \* 0xe0

ASSUME KeyboardAssumption ==
  /\ Keys \subseteq [ext : BOOLEAN, code : 1 .. 95]
  /\ MaxHeld \in Nat /\ MaxQueue \in Nat

VARIABLES
  ctrl_state, alt_state, shift_state, capslock_state, scrlock_state, numlock_state,
  extcode_state,  \* the last byte was 0xe0
  queue,          \* the bytes of the keyboard that wait
  held,           \* the keys that are down
  locked,         \* whether the person has locked the upper case
  turned,         \* history: whether caps lock has repeated an odd number of times
  lifted,         \* history: the pairs one key of which went up and one stayed down
  due,            \* history: the characters typed and not yet printed
  printed         \* history: the character last printed, and the one then due

modifiers == <<ctrl_state, alt_state, shift_state>>
locks == <<capslock_state, scrlock_state, numlock_state>>
typist == <<held, locked, turned, lifted>>
vars == <<modifiers, locks, extcode_state, queue, typist, due, printed>>

-----------------------------------------------------------------------------
(***************************************************************************)
(* keymap: the character in a column of the table, as the place it is in.  *)
(***************************************************************************)
INV == <<0, 0>>   \* no character
Plain == (1 .. 28) \cup (30 .. 41) \cup (43 .. 53) \cup {55, 57}
Pad == 71 .. 83
PadSigns == {74, 78}
PadDelete == 83
Visible ==
  ((Plain \cup PadSigns \cup {PadDelete}) \X {0, 1}) \cup (Pad \X {0})

keymap(makecode, col) ==
  IF <<makecode, col>> \in Visible THEN <<makecode, col>> ELSE INV

-----------------------------------------------------------------------------
(***************************************************************************)
(* The person and the keyboard (external).                                 *)
(***************************************************************************)
Sent(k, code) == IF k.ext THEN <<EXTENDED, code>> ELSE <<code>>
Sends(k, code) ==
  /\ Len(queue) + 2 <= MaxQueue
  /\ queue' = queue \o Sent(k, code)

Shifts == {KEY_SHIFT_L, KEY_SHIFT_R}
Pairs == {Shifts, {KEY_CTRL_L}, {KEY_ALT_L}}
Down(codes) == \E k \in held : k.code \in codes

\* The modifiers as the codes tell them, which is less than what the person
\* does: the break code of one key of a pair is also that of the pair, until one
\* of them repeats; and a code of caps lock that repeats is one more press.
Told(pair) == Down(pair) /\ pair \notin lifted
Upper == locked # turned

\* What the table says of a key: the second column when a shift key is down,
\* the other way round when the upper case is locked; the remarks at lines 268
\* and 270 for the extended block.
Typed(k) ==
  keymap(k.code,
         IF k.ext THEN IF k.code = KEY_SLASH THEN 0 ELSE 1
         ELSE IF Told(Shifts) # Upper THEN 1 ELSE 0)
Owed(k) == IF Typed(k) = INV THEN due ELSE Append(due, Typed(k))

Raised(k) == {pair \in lifted : k.code \notin pair}

Press(k) ==
  /\ k \notin held /\ Cardinality(held) < MaxHeld
  /\ Sends(k, k.code)
  /\ held' = held \cup {k}
  /\ locked' = (locked # (k.code = KEY_CAPSLOCK))
  /\ lifted' = Raised(k)
  /\ due' = Owed(k)
  /\ UNCHANGED <<modifiers, locks, extcode_state, turned, printed>>

Repeat(k) ==
  /\ k \in held
  /\ Sends(k, k.code)
  /\ turned' = (turned # (k.code = KEY_CAPSLOCK))
  /\ lifted' = Raised(k)
  /\ due' = Owed(k)
  /\ UNCHANGED <<modifiers, locks, extcode_state, held, locked, printed>>

Release(k) ==
  /\ k \in held
  /\ Sends(k, k.code + 128)
  /\ held' = held \ {k}
  /\ lifted' = {pair \in Pairs : Down(pair)' /\ (pair \in lifted \/ k.code \in pair)}
  /\ UNCHANGED <<modifiers, locks, extcode_state, locked, turned, due, printed>>

-----------------------------------------------------------------------------
(***************************************************************************)
(* keyboard_interrupt_handler.  The 0xe000 or'ed into the byte at line 222 *)
(* does not fit in it and is lost.                                         *)
(***************************************************************************)
Byte == Head(queue)
Makecode == Byte % 128
Breakcode == Byte \div 128 = 1

Take ==
  /\ queue # <<>>
  /\ queue' = Tail(queue)
  /\ UNCHANGED typist

ExtendedByte ==
  /\ Take
  /\ Byte = EXTENDED
  /\ extcode_state' = TRUE
  /\ UNCHANGED <<modifiers, locks, due, printed>>

KeyByte ==
  /\ Take
  /\ Byte # EXTENDED
  /\ extcode_state' = FALSE

Unsupported ==
  /\ KeyByte
  /\ Makecode > KEY_MAX
  /\ UNCHANGED <<modifiers, locks, due, printed>>

\* The modifiers after a make (down) or a break code.
Bug_right_shift(down) ==
  /\ ctrl_state' = IF Makecode = KEY_CTRL_L THEN down ELSE ctrl_state
  /\ shift_state' = IF Makecode = KEY_SHIFT_L \/ (down /\ Makecode = KEY_SHIFT_R)
                    THEN down ELSE shift_state
  /\ alt_state' = IF Makecode = KEY_ALT_L THEN down ELSE alt_state
Modify(down) ==
  /\ ctrl_state' = IF Makecode = KEY_CTRL_L THEN down ELSE ctrl_state
  /\ shift_state' = IF Makecode \in {KEY_SHIFT_L, KEY_SHIFT_R} THEN down ELSE shift_state
  /\ alt_state' = IF Makecode = KEY_ALT_L THEN down ELSE alt_state

Break ==
  /\ KeyByte
  /\ Makecode <= KEY_MAX /\ Breakcode
  /\ Modify(FALSE)
  /\ UNCHANGED <<locks, due, printed>>

\* The column of the table for an ordinary and for an extended make code.
Bug_ext_forgotten == IF shift_state' # capslock_state' THEN 1 ELSE 0
Column ==
  IF extcode_state THEN IF Makecode = KEY_SLASH THEN 0 ELSE 1
  ELSE IF shift_state' # capslock_state' THEN 1 ELSE 0

PrintCh(ch) ==
  IF ch = INV THEN UNCHANGED <<printed, due>>
  ELSE /\ printed' = <<ch, IF due = <<>> THEN INV ELSE Head(due)>>
       /\ due' = IF due = <<>> THEN due ELSE Tail(due)

Make ==
  /\ KeyByte
  /\ Makecode <= KEY_MAX /\ ~Breakcode
  /\ Modify(TRUE)
  /\ numlock_state' = (numlock_state # (Makecode = KEY_NUMLOCK))
  /\ capslock_state' = (capslock_state # (Makecode = KEY_CAPSLOCK))
  /\ scrlock_state' = (scrlock_state # (Makecode = KEY_SCRLOCK))
  /\ PrintCh(keymap(Makecode, Column))

keyboard_interrupt_handler == ExtendedByte \/ Unsupported \/ Break \/ Make

-----------------------------------------------------------------------------
Init ==
  /\ ctrl_state = FALSE /\ alt_state = FALSE /\ shift_state = FALSE
  /\ capslock_state = FALSE /\ scrlock_state = FALSE /\ numlock_state = FALSE
  /\ extcode_state = FALSE
  /\ queue = <<>>
  /\ held = {} /\ locked = FALSE /\ turned = FALSE /\ lifted = {}
  /\ due = <<>>
  /\ printed = <<INV, INV>>

Next ==
  \/ \E k \in Keys : Press(k) \/ Repeat(k) \/ Release(k)
  \/ ExtendedByte \/ Unsupported \/ Break \/ Make

Spec == Init /\ [][Next]_vars

-----------------------------------------------------------------------------
\* Each character is printed once, in the order in which the codes were sent, and
\* is the one that the modifiers told so far gave the key when it sent its code,
\* however late the bytes are taken and whatever lies between them: what the
\* person meant, but for the two losses that Told and Upper name.
PrintedAsTyped ==
  /\ printed[1] = printed[2]
  /\ queue = <<>> => due = <<>>

\* When no byte waits the driver is not inside of a code, and its modifiers are
\* those of the keyboard: all of the keys that are down, except that a pair one
\* key of which went up is off although the other is down (keyboard.c:236), and
\* that the lock is not the person's after an odd number of repeated codes of
\* caps lock (keyboard.c:247).
ModifiersFollow ==
  queue = <<>> =>
    /\ ~extcode_state
    /\ shift_state = (Down(Shifts) /\ Shifts \notin lifted)
    /\ ctrl_state = (Down({KEY_CTRL_L}) /\ {KEY_CTRL_L} \notin lifted)
    /\ alt_state = (Down({KEY_ALT_L}) /\ {KEY_ALT_L} \notin lifted)
    /\ capslock_state = (locked # turned)
=============================================================================
