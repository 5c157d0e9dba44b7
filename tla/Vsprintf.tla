------------------------------ MODULE Vsprintf ------------------------------
(***************************************************************************)
(* Formatted output: vsprintf.c and printk of both kernels.  The kernel    *)
(* that loads works with int and knows no width, the other one (x64) with  *)
(* long long.                                                              *)
(*                                                                         *)
(* Characters are their codes; register d of Strings is str here.  A step  *)
(* is a turn of the loop over the format, or of the loop of %s; number()   *)
(* is one step.  What console_write does with the text is in Console.      *)
(* Register ret has what vsprintf returns, and then what printk does.      *)
(***************************************************************************)
EXTENDS Strings, SequencesExt

CONSTANTS
  WORD,         \* the number of values of the machine's integers
  LEN,          \* 36, the buffer of number()
  printk_buff,  \* the address of the buffer, up to the end of the memory
  Leftovers,    \* what console_write, which returns nothing, may leave in rax
  Directives    \* the lists of conversions that callers ask for

ASSUME FormatAssumption ==
  /\ WORD \in Nat /\ WORD % 2 = 0 /\ WORD > 0
  /\ LEN \in Nat
  /\ printk_buff \in Addr
  /\ Leftovers # {} /\ Leftovers \subseteq 0 .. WORD - 1
  /\ Directives \subseteq Seq([conv : 1 .. 255, width : Nat, word : 0 .. WORD - 1])

VARIABLES
  x64,        \* which of the two kernels runs
  fmt,        \* the format from the current character on, with its 0
  args,       \* the words that are left on the stack
  fill_zero,  \* the width read so far
  wanted      \* history: the text that the caller has asked for

fmtVars == <<x64, fmt, args, fill_zero, wanted>>
libVars == <<strVars, fmtVars>>

Zero == 48
Minus == 45
Percent == 37
ConvC == 99   \* the letters c, d, s, u and x
ConvD == 100
ConvS == 115
ConvU == 117
ConvX == 120

-----------------------------------------------------------------------------
(***************************************************************************)
(* number                                                                  *)
(***************************************************************************)
Signed(word) == IF word < WORD \div 2 THEN word ELSE word - WORD
Base(conv) == IF conv = ConvX THEN 16 ELSE 10
Glyph(digit) == IF digit < 10 THEN Zero + digit ELSE 55 + digit

\* The loop fills the buffer from its end.
DigitsOf(value, base) ==
  LET from[v \in Nat] ==
        IF v < base THEN <<Glyph(v)>> ELSE Append(from[v \div base], Glyph(v % base))
  IN  from[value]

Negative(word, conv) == conv = ConvD /\ Signed(word) < 0

\* -num is computed in the same width: the least number is its own negative.
Magnitude(word, conv) == IF Negative(word, conv) THEN (WORD - word) % WORD ELSE word

number(word, conv) ==
  (IF Negative(word, conv) THEN <<Minus>> ELSE <<>>)
    \o DigitsOf(Magnitude(word, conv), Base(conv))

\* The 64-bit kernel: d and u forget the width, and the buffer was filled with
\* zeros in front of the digits.
Fill(conv) == IF conv = ConvX THEN fill_zero ELSE 0
number_filled(word, conv) ==
  LET text == number(word, conv)
      k == Max({Fill(conv), Len(text)})
      zeros == k - Len(text)
  IN  [i \in 1 .. k |-> IF i <= zeros THEN Zero ELSE text[i - zeros]]

-----------------------------------------------------------------------------
(***************************************************************************)
(* vsprintf: the text goes to str, which is register d.                    *)
(***************************************************************************)
Put(text) ==
  /\ mem' = [a \in Addr |-> IF a \in d .. d + Len(text) - 1 THEN text[a - d + 1] ELSE mem[a]]
  /\ d' = d + Len(text)

\* The end of the switch: on to the next character.
Bug_width_kept ==
  fmt' = Tail(fmt) /\ pc' = "format" /\ UNCHANGED fill_zero
NextChar ==
  fmt' = Tail(fmt) /\ pc' = "format" /\ fill_zero' = 0

Reading(where) == pc = where /\ UNCHANGED <<n, call, was, x64, wanted>>

plain_char ==
  /\ Reading("format") /\ Head(fmt) \notin {0, Percent}
  /\ Put(<<Head(fmt)>>)
  /\ fmt' = Tail(fmt)
  /\ UNCHANGED <<s, ret, pc, args, fill_zero>>

percent ==
  /\ Reading("format") /\ Head(fmt) = Percent
  /\ fmt' = Tail(fmt)
  /\ pc' = "conversion"
  /\ UNCHANGED <<mem, d, s, ret, args, fill_zero>>

IsWidth == x64 /\ Head(fmt) \in Zero .. Zero + 9
width_digit ==
  /\ Reading("conversion") /\ IsWidth
  /\ fill_zero' = fill_zero * 10 + Head(fmt) - Zero
  /\ fmt' = Tail(fmt)
  /\ UNCHANGED <<mem, d, s, ret, pc, args>>

convert_char ==
  /\ Reading("conversion") /\ Head(fmt) = ConvC
  /\ Put(<<Head(args) % 256>>)
  /\ args' = Tail(args)
  /\ NextChar
  /\ UNCHANGED <<s, ret>>

convert_string ==
  /\ Reading("conversion") /\ Head(fmt) = ConvS
  /\ s' = Head(args)
  /\ args' = Tail(args)
  /\ pc' = "string"
  /\ UNCHANGED <<mem, d, ret, fmt, fill_zero>>

string_turn ==
  /\ Reading("string") /\ mem[s] # 0
  /\ Put(<<mem[s]>>)
  /\ s' = s + 1
  /\ UNCHANGED <<ret, pc, fmt, args, fill_zero>>

string_end ==
  /\ Reading("string") /\ mem[s] = 0
  /\ NextChar
  /\ UNCHANGED <<mem, d, s, ret, args>>

convert_number ==
  /\ Reading("conversion") /\ ~x64 /\ Head(fmt) \in {ConvD, ConvU, ConvX}
  /\ Put(number(Head(args), Head(fmt)))
  /\ args' = Tail(args)
  /\ NextChar
  /\ UNCHANGED <<s, ret>>

convert_number_filled ==
  /\ Reading("conversion") /\ x64 /\ Head(fmt) \in {ConvD, ConvU, ConvX}
  /\ Put(number_filled(Head(args), Head(fmt)))
  /\ args' = Tail(args)
  /\ NextChar
  /\ UNCHANGED <<s, ret>>

\* Any other character stands for itself and takes no argument.
convert_other ==
  /\ Reading("conversion") /\ ~IsWidth
  /\ Head(fmt) \notin {ConvC, ConvS, ConvD, ConvU, ConvX}
  /\ Put(<<Head(fmt)>>)
  /\ NextChar
  /\ UNCHANGED <<s, ret, args>>

vsprintf_end ==
  /\ Reading("format") /\ Head(fmt) = 0
  /\ Store(d, 0)
  /\ ret' = d - call.dest
  /\ pc' = "console"
  /\ UNCHANGED <<d, s, fmt, args, fill_zero>>

\* The rest of printk: console_write gets the buffer and the count.  The 32-bit
\* printk has kept the count and returns it, the other one does not: rax is as
\* console_write leaves it.
console_written ==
  /\ Reading("console")
  /\ ret' \in IF x64 THEN Leftovers ELSE {ret}
  /\ pc' = "returned"
  /\ UNCHANGED <<mem, d, s, fmt, args, fill_zero>>

-----------------------------------------------------------------------------
(***************************************************************************)
(* A caller asks for a list of conversions, [conv, width, word], where a   *)
(* conversion that is no letter above is a character to be written.        *)
(***************************************************************************)
Lettered(q) == q.conv \in {ConvC, ConvS, ConvD, ConvU, ConvX}

WidthChars(width) == IF width = 0 THEN <<>> ELSE DigitsOf(width, 10)
Rendered(q) ==
  IF Lettered(q) THEN <<Percent>> \o WidthChars(q.width) \o <<q.conv>>
  ELSE IF q.conv = Percent THEN <<Percent, Percent>> ELSE <<q.conv>>

\* The word that it pushes.
Taken(q) == IF Lettered(q) THEN <<q.word>> ELSE <<>>

\* The string at an address, without its 0.
TextAt(m, a) ==
  LET len == CHOOSE k \in Addr : StringAt(m, a, k)
  IN  [i \in 1 .. len |-> m[a + i - 1]]

(***************************************************************************)
(* What a conversion promises.  A numeral of base b with k digits has the  *)
(* digit v \div b^(k-i) % b at its place i.                                *)
(***************************************************************************)
Power(base) ==
  LET power[k \in Nat] == IF k = 0 THEN 1 ELSE base * power[k - 1]
  IN  power

HasSize(value, base, k) ==
  /\ Power(base)[k] > value
  /\ k = 1 \/ Power(base)[k - 1] <= value
Numeral(value, base, width) ==
  LET least == CHOOSE k \in 1 .. WORD : HasSize(value, base, k)
      k == Max({width, least})
  IN  [i \in 1 .. k |-> IF k - i >= least THEN Zero
                         ELSE Glyph((value \div Power(base)[k - i]) % base)]

Promised(q) ==
  CASE q.conv = ConvC -> <<q.word % 256>>
    [] q.conv = ConvS -> TextAt(was, q.word)
    [] q.conv = ConvU -> Numeral(q.word, 10, 0)
    [] q.conv = ConvX -> Numeral(q.word, 16, q.width)
    [] q.conv = ConvD -> IF Signed(q.word) < 0
                         THEN <<Minus>> \o Numeral(-Signed(q.word), 10, 0)
                         ELSE Numeral(Signed(q.word), 10, 0)
    [] OTHER -> <<q.conv>>

PromisedBy(list) == FlattenSeq([k \in DOMAIN list |-> Promised(list[k])])

\* Only the widths that number() has room for, only strings outside of the
\* buffer, and only texts that fit into it.
Proper(list) ==
  \A k \in DOMAIN list :
    /\ list[k].width < LEN
    /\ ~x64 => list[k].width = 0
    /\ list[k].conv = ConvS =>
         \E len \in Addr : StringAt(mem, list[k].word, len)
                             /\ list[k].word + len < printk_buff

printk(list) ==
  /\ Enter("printk", printk_buff, 0, 0, "format")
  /\ Proper(list)
  /\ wanted' = PromisedBy(list)
  /\ printk_buff + Len(wanted') < ADDRS
  /\ fmt' = FlattenSeq([k \in DOMAIN list |-> Rendered(list[k])]) \o <<0>>
  /\ args' = FlattenSeq([k \in DOMAIN list |-> Taken(list[k])])
  /\ fill_zero' = 0
  /\ UNCHANGED <<n, x64>>

Init ==
  /\ StringsInit
  /\ x64 \in BOOLEAN
  /\ fmt = <<0>> /\ args = <<>> /\ wanted = <<>>
  /\ fill_zero = 0

vsprintf ==
  \/ plain_char \/ percent \/ width_digit
  \/ convert_char \/ convert_string \/ string_turn \/ string_end
  \/ convert_number \/ convert_number_filled \/ convert_other
  \/ vsprintf_end

Next ==
  \/ pc = "caller" /\ \E list \in Directives : printk(list)
  \/ vsprintf \/ console_written
  \/ (Calls \/ Turns) /\ UNCHANGED fmtVars
  \/ /\ caller
     /\ fmt' = <<0>> /\ args' = <<>> /\ wanted' = <<>>
     /\ UNCHANGED <<x64, fill_zero>>

\* A loop goes on until it ends; who calls, and whether, is open.
Spec == Init /\ [][Next]_libVars /\ WF_libVars(vsprintf \/ console_written)
             /\ WF_libVars(Turns /\ UNCHANGED fmtVars)

-----------------------------------------------------------------------------
\* When console_write is called the buffer has what the caller asked for and the
\* count is that of its characters: each conversion takes its own argument, numbers
\* are right up to the least negative one, a width is for the one number it stands
\* before, and nothing else in memory is touched. The memory is the same when
\* printk returns; the count is what printk returns in the 32-bit kernel only.
PrintedAsAsked ==
  pc \in {"console", "returned"} /\ call.fn = "printk" =>
    /\ pc = "console" \/ ~x64 => ret = Len(wanted)
    /\ mem = [a \in Addr |->
                IF a < printk_buff \/ a > printk_buff + Len(wanted) THEN was[a]
                ELSE (wanted \o <<0>>)[a - printk_buff + 1]]

\* In the middle of a call nothing outside of the range it may write has
\* changed.
Target ==
  CASE call.fn \in {"memcpy", "memmove", "memset"} -> call.dest .. call.dest + call.n - 1
    [] call.fn = "strcpy" -> call.dest .. call.dest + call.n
    [] call.fn = "printk" -> call.dest .. call.dest + Len(wanted)
    [] OTHER -> {}
NothingElse == {a \in Addr : mem[a] # was[a]} \subseteq Target

\* Every call returns.
CallsReturn == []<>(pc \in {"caller", "returned"})
=============================================================================
