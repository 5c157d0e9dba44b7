---------------------------- MODULE MCInterrupts ----------------------------
(* Keys of the kinds that the handler tells apart, and main_x64 without a    *)
(* test, with the one that is called and with those that are commented out.  *)
EXTENDS Interrupts

Key(ext, code) == [ext |-> ext, code |-> code]

SomeKeys == {
  Key(FALSE, KEY_SHIFT_L), Key(FALSE, KEY_SHIFT_R),      \* two pairs
  Key(FALSE, KEY_CTRL_L), Key(TRUE, KEY_CTRL_L),
  Key(FALSE, KEY_ALT_L), Key(FALSE, KEY_CAPSLOCK),
  Key(FALSE, 30),                         \* a letter
  Key(FALSE, 71), Key(TRUE, 71),          \* 7 of the pad, Home
  Key(TRUE, 83), Key(TRUE, KEY_SLASH),    \* Delete, / of the pad
  Key(TRUE, 91)                           \* a code above KEY_MAX
}
AllTests == {NoTest, 0, 13, 14, 31}
=============================================================================
