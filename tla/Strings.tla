------------------------------ MODULE Strings -------------------------------
(***************************************************************************)
(* The functions on strings and memory: x64/lib/string.c, whose first five *)
(* functions are also oskernel/lib/string.c.                               *)
(*                                                                         *)
(* One call runs at a time, on the memory its caller has prepared; a step  *)
(* is a turn of its loop.  The locals of the functions are the registers   *)
(* d (p, d, s1), s (src, s2) and n.                                        *)
(***************************************************************************)
EXTENDS Integers

CONSTANTS
  ADDRS,     \* the number of bytes of the memory
  Memories   \* what callers may have put into it

Addr == 0 .. ADDRS - 1
Byte == 0 .. 255

ASSUME MemoryAssumption ==
  /\ ADDRS \in Nat
  /\ Memories \subseteq [Addr -> Byte]

VARIABLES
  mem,       \* the memory
  d, s, n,   \* the registers
  ret,       \* the value returned
  pc,        \* "caller", the loop that runs, or "returned"
  call,      \* history: the function and its arguments
  was        \* history: the memory when the call was made

strVars == <<mem, d, s, n, ret, pc, call, was>>

\* char is signed.
char(byte) == IF byte < 128 THEN byte ELSE byte - 256

\* At address a of memory m there is a string of len characters.
StringAt(m, a, len) ==
  /\ a + len \in Addr /\ m[a + len] = 0
  /\ \A k \in a .. (a + len - 1) : m[k] # 0

Apart(a, b, len) == a + len <= b \/ b + len <= a

-----------------------------------------------------------------------------
(***************************************************************************)
(* The calls.  In the history the n of a function on strings is the length *)
(* of the first string it reads, without its 0.                            *)
(***************************************************************************)
Enter(fn, dest, src, len, loop) ==
  /\ call' = [fn |-> fn, dest |-> dest, src |-> src, n |-> len]
  /\ d' = dest /\ s' = src
  /\ pc' = loop
  /\ UNCHANGED <<mem, ret, was>>

strcpy(dest, src, len) ==
  /\ dest + len \in Addr /\ Apart(dest, src, len + 1)
  /\ Enter("strcpy", dest, src, len, "strcpy")
  /\ StringAt(mem, src, len)
  /\ UNCHANGED n

strlen(str, len) ==
  /\ Enter("strlen", str, str, len, "strlen")
  /\ StringAt(mem, str, len)
  /\ UNCHANGED n

strcmp(s1, s2, len) ==
  /\ Enter("strcmp", s1, s2, len, "strcmp")
  /\ StringAt(mem, s1, len)
  /\ \E len2 \in Addr : StringAt(mem, s2, len2)
  /\ UNCHANGED n

memset(dest, byte, len) ==
  /\ dest + len <= ADDRS
  /\ Enter("memset", dest, byte, len, "memset")
  /\ n' = len

\* The callers copy downwards or between ranges that lie apart.
memcpy(dest, src, len) ==
  /\ dest + len <= ADDRS /\ src + len <= ADDRS
  /\ dest <= src \/ Apart(dest, src, len)
  /\ Enter("memcpy", dest, src, len, "forward")
  /\ n' = len

\* Which of the two loops of memmove runs.
Bug_wrong_way(dest, src, len) == IF dest <= src THEN "backward" ELSE "forward"
Direction(dest, src, len) ==
  IF dest <= src \/ dest >= src + len THEN "forward" ELSE "backward"

memmove(dest, src, len) ==
  /\ dest + len <= ADDRS /\ src + len <= ADDRS
  /\ Enter("memmove", dest, src, len, Direction(dest, src, len))
  /\ n' = len

-----------------------------------------------------------------------------
(***************************************************************************)
(* The loops.                                                              *)
(***************************************************************************)
Store(a, byte) == mem' = [mem EXCEPT ![a] = byte]

Return(value) ==
  /\ ret' = value
  /\ pc' = "returned"
  /\ UNCHANGED <<d, s, n, call, was>>

strcpy_turn ==
  /\ pc = "strcpy" /\ mem[s] # 0
  /\ Store(d, mem[s])
  /\ d' = d + 1 /\ s' = s + 1
  /\ UNCHANGED <<n, ret, pc, call, was>>

strcpy_end ==
  /\ pc = "strcpy" /\ mem[s] = 0
  /\ Store(d, 0)
  /\ Return(call.dest)

Bug_stands_still ==
  pc = "strlen" /\ mem[d] # 0 /\ UNCHANGED strVars
strlen_turn ==
  /\ pc = "strlen" /\ mem[d] # 0
  /\ d' = d + 1
  /\ UNCHANGED <<mem, s, n, ret, pc, call, was>>

Bug_counts_zero ==
  pc = "strlen" /\ mem[d] = 0 /\ UNCHANGED mem /\ Return(d + 1 - call.dest)
strlen_end ==
  /\ pc = "strlen" /\ mem[d] = 0
  /\ Return(d - call.dest)
  /\ UNCHANGED mem

SameChar == mem[d] = mem[s] /\ mem[d] # 0 /\ mem[s] # 0

strcmp_turn ==
  /\ pc = "strcmp" /\ SameChar
  /\ d' = d + 1 /\ s' = s + 1
  /\ UNCHANGED <<mem, n, ret, pc, call, was>>

strcmp_end ==
  /\ pc = "strcmp" /\ ~SameChar
  /\ Return(char(mem[d]) - char(mem[s]))
  /\ UNCHANGED mem

\* The pointer is never moved: every turn stores into the first byte.
memset_turn ==
  /\ pc = "memset" /\ n > 0
  /\ Store(d, call.src)
  /\ n' = n - 1
  /\ UNCHANGED <<d, s, ret, pc, call, was>>

copy_forward ==
  /\ pc = "forward" /\ n > 0
  /\ Store(d, mem[s])
  /\ d' = d + 1 /\ s' = s + 1 /\ n' = n - 1
  /\ UNCHANGED <<ret, pc, call, was>>

Bug_one_too_high ==
  /\ pc = "backward" /\ n > 0
  /\ Store(d + n, mem[s + n])
  /\ n' = n - 1
  /\ UNCHANGED <<d, s, ret, pc, call, was>>
copy_backward ==
  /\ pc = "backward" /\ n > 0
  /\ Store(d + n - 1, mem[s + n - 1])
  /\ n' = n - 1
  /\ UNCHANGED <<d, s, ret, pc, call, was>>

loop_end ==
  /\ pc \in {"memset", "forward", "backward"} /\ n = 0
  /\ Return(call.dest)
  /\ UNCHANGED mem

-----------------------------------------------------------------------------
NoCall == [fn |-> "none", dest |-> 0, src |-> 0, n |-> 0]

StringsInit ==
  /\ mem \in Memories /\ was = mem
  /\ d = 0 /\ s = 0 /\ n = 0
  /\ ret = 0
  /\ pc = "caller"
  /\ call = NoCall

\* The caller goes on, with the registers and the memory to itself.
caller ==
  /\ pc = "returned"
  /\ mem' \in Memories /\ was' = mem'
  /\ d' = 0 /\ s' = 0 /\ n' = 0
  /\ ret' = 0
  /\ pc' = "caller"
  /\ call' = NoCall

Calls ==
  /\ pc = "caller"
  /\ \/ \E a, b, len \in Addr :
          strcpy(a, b, len) \/ strlen(a, len) \/ strcmp(a, b, len)
     \/ \E a, b, len \in 0 .. ADDRS : memcpy(a, b, len) \/ memmove(a, b, len)
     \/ \E a, len \in 0 .. ADDRS, byte \in {0, 255} : memset(a, byte, len)

Turns ==
  \/ strcpy_turn \/ strcpy_end \/ strlen_turn \/ strlen_end
  \/ strcmp_turn \/ strcmp_end
  \/ memset_turn \/ copy_forward \/ copy_backward \/ loop_end

StringsNext == Calls \/ Turns \/ caller

StringsSpec == StringsInit /\ [][StringsNext]_strVars

-----------------------------------------------------------------------------
\* What a copy leaves behind: the bytes the source held when the call was made,
\* and everything else as it was.
Copied(len) ==
  [a \in Addr |-> IF a \in call.dest .. (call.dest + len - 1)
                  THEN was[call.src + (a - call.dest)] ELSE was[a]]

\* memmove copies right however the two ranges overlap, memcpy and strcpy
\* wherever their callers may use them; strcpy copies the 0 too.
CopyIsExact ==
  pc = "returned" =>
    /\ call.fn \in {"memcpy", "memmove"} => mem = Copied(call.n)
    /\ call.fn = "strcpy" => mem = Copied(call.n + 1)

\* What strlen and strcmp find: the length; 0 for equal strings only, otherwise
\* the sign of the first difference of two signed characters.
Compared(s1, s2, k) ==
  /\ \A i \in 0 .. k - 1 : was[s1 + i] = was[s2 + i] /\ was[s1 + i] # 0
  /\ ret = char(was[s1 + k]) - char(was[s2 + k])
  /\ ret = 0 => was[s1 + k] = 0
StringsMeasured ==
  pc = "returned" =>
    /\ call.fn = "strlen" => ret = call.n
    /\ call.fn = "strcmp" =>
         \E k \in 0 .. call.n : Compared(call.dest, call.src, k)
=============================================================================
