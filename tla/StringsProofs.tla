---------------------------- MODULE StringsProofs ----------------------------
(* For every memory: the copies of the string functions are exact, and the   *)
(* length and the comparison are those of the strings that lie there. For    *)
(* every list of conversions that a caller of printk writes: the text on the *)
(* screen is the one that was asked for, and nothing else is written.        *)
EXTENDS Vsprintf, SequenceTheorems, WellFoundedInduction, TLAPS

\* The bytes from .. upto - 1 of the range have been copied.
Partly(from, upto) ==
  [a \in Addr |-> IF a \in call.dest + from .. call.dest + upto - 1
                  THEN was[call.src + (a - call.dest)] ELSE was[a]]

Within(len) == call.dest + len <= ADDRS /\ call.src + len <= ADDRS

\* What holds in the loop that copies upwards: the bytes it still has to read
\* are not among those it has written.
InForward ==
  pc = "forward" =>
    /\ call.fn \in {"memcpy", "memmove"}
    /\ Within(call.n)
    /\ call.dest <= call.src \/ call.dest >= call.src + call.n
    /\ n \in 0 .. call.n
    /\ d = call.dest + (call.n - n) /\ s = call.src + (call.n - n)
    /\ mem = Partly(0, call.n - n)

\* The same for the loop that copies downwards.
InBackward ==
  pc = "backward" =>
    /\ call.fn = "memmove"
    /\ Within(call.n)
    /\ call.dest > call.src
    /\ n \in 0 .. call.n
    /\ d = call.dest /\ s = call.src
    /\ mem = Partly(n, call.n)

\* The same for strcpy, whose source is a string when it is called.
InStrcpy ==
  pc = "strcpy" =>
    /\ call.fn = "strcpy"
    /\ Within(call.n + 1)
    /\ Apart(call.dest, call.src, call.n + 1)
    /\ StringAt(was, call.src, call.n)
    /\ s - call.src \in 0 .. call.n
    /\ s = call.src + (s - call.src)
    /\ d = call.dest + (s - call.src)
    /\ mem = Partly(0, s - call.src)

Copies == {"memcpy", "memmove", "strcpy"}

CopyInv ==
  /\ ADDRS \in Nat
  /\ call.dest \in Nat /\ call.src \in Nat /\ call.n \in Nat
  /\ pc = "caller" => was = mem /\ mem \in [Addr -> Byte]
  /\ pc \in {"caller", "strlen", "strcmp", "memset"} => call.fn \notin Copies
  /\ InForward /\ InBackward /\ InStrcpy
  /\ CopyIsExact

-----------------------------------------------------------------------------
\* One more byte at the upper end of what has been copied.
LEMMA OneMoreUp ==
  ASSUME ADDRS \in Nat, call.dest \in Nat, NEW k \in Nat, call.dest + k \in Addr,
         NEW m, m = Partly(0, k)
  PROVE  [m EXCEPT ![call.dest + k] = was[call.src + k]] = Partly(0, k + 1)
<1>1. [m EXCEPT ![call.dest + k] = was[call.src + k]]
        = [a \in Addr |-> IF a = call.dest + k THEN was[call.src + k] ELSE m[a]]
  BY DEF Partly, Addr
<1>2. ASSUME NEW a \in Addr
      PROVE  (IF a = call.dest + k THEN was[call.src + k] ELSE m[a])
               = (IF a \in call.dest .. call.dest + k
                  THEN was[call.src + (a - call.dest)] ELSE was[a])
  <2>1. CASE a = call.dest + k
    <3>1. a - call.dest = k /\ a \in call.dest .. call.dest + k
      BY <2>1 DEF Addr
    <3> QED  BY <2>1, <3>1
  <2>2. CASE a # call.dest + k
    <3>1. a \in call.dest .. call.dest + k <=> a \in call.dest + 0 .. call.dest + k - 1
      BY <2>2 DEF Addr
    <3> QED  BY <2>2, <3>1 DEF Partly
  <2> QED  BY <2>1, <2>2
<1>3. call.dest + 0 = call.dest /\ call.dest + (k + 1) - 1 = call.dest + k
  OBVIOUS
<1> QED  BY <1>1, <1>2, <1>3 DEF Partly

\* One more byte at its lower end.
LEMMA OneMoreDown ==
  ASSUME ADDRS \in Nat, call.dest \in Nat, call.n \in Nat, NEW k \in 1 .. call.n,
         call.dest + call.n <= ADDRS, NEW m, m = Partly(k, call.n)
  PROVE  [m EXCEPT ![call.dest + k - 1] = was[call.src + k - 1]] = Partly(k - 1, call.n)
<1> DEFINE top == call.dest + k - 1
<1>0. top \in Addr
  BY DEF Addr
<1>1. [m EXCEPT ![top] = was[call.src + k - 1]]
        = [a \in Addr |-> IF a = top THEN was[call.src + k - 1] ELSE m[a]]
  BY <1>0 DEF Partly
<1>2. ASSUME NEW a \in Addr
      PROVE  (IF a = top THEN was[call.src + k - 1] ELSE m[a])
               = (IF a \in top .. call.dest + call.n - 1
                  THEN was[call.src + (a - call.dest)] ELSE was[a])
  <2>1. CASE a = top
    <3>1. call.src + (a - call.dest) = call.src + k - 1
            /\ a \in top .. call.dest + call.n - 1
      BY <2>1 DEF Addr
    <3> QED  BY <2>1, <3>1
  <2>2. CASE a # top
    <3>1. a \in top .. call.dest + call.n - 1
            <=> a \in call.dest + k .. call.dest + call.n - 1
      BY <2>2 DEF Addr
    <3> QED  BY <2>2, <3>1 DEF Partly
  <2> QED  BY <2>1, <2>2
<1>3. call.dest + (k - 1) = top
  OBVIOUS
<1> QED  BY <1>1, <1>2, <1>3 DEF Partly

\* The initial states satisfy the inductive invariant.
THEOREM CopyInvInit == StringsInit => CopyInv
  BY MemoryAssumption
  DEF StringsInit, CopyInv, NoCall, Copies, InForward, InBackward, InStrcpy, CopyIsExact

-----------------------------------------------------------------------------
(***************************************************************************)
(* The calls.                                                              *)
(***************************************************************************)
LEMMA EnterStrings ==
  ASSUME CopyInv, pc = "caller",
         NEW a \in Addr, NEW b \in Addr, NEW len \in Addr,
         strcpy(a, b, len) \/ strlen(a, len) \/ strcmp(a, b, len)
  PROVE  CopyInv'
<1>1. ADDRS \in Nat /\ a \in Nat /\ b \in Nat /\ len \in Nat
  BY DEF CopyInv, Addr
<1>2. was = mem /\ mem \in [Addr -> Byte]
  BY DEF CopyInv
<1>3. CASE strcpy(a, b, len)
  <2>1. InStrcpy'
    <3>1. mem' = Partly(0, 0)'
      BY <1>1, <1>2, <1>3 DEF strcpy, Enter, Partly, Addr
    <3>2. Within(call.n + 1)' /\ Apart(call.dest, call.src, call.n + 1)'
      BY <1>1, <1>3 DEF strcpy, Enter, Apart, Within, StringAt, Addr
    <3>3. StringAt(was, call.src, call.n)'
      BY <1>2, <1>3 DEF strcpy, Enter, StringAt
    <3>4. call'.dest = a /\ call'.src = b /\ call'.n = len /\ call'.fn = "strcpy"
            /\ d' = a /\ s' = b
      BY <1>3 DEF strcpy, Enter
    <3>5. s' - call'.src = 0 /\ s' = call'.src + 0 /\ d' = call'.dest + 0
      BY <1>1, <3>4
    <3> QED  BY <1>1, <3>1, <3>2, <3>3, <3>4, <3>5 DEF InStrcpy
  <2> QED
    BY <1>1, <1>3, <2>1
    DEF strcpy, Enter, CopyInv, Copies, InForward, InBackward, CopyIsExact
<1>4. CASE strlen(a, len)
  BY <1>1, <1>4
  DEF strlen, Enter, CopyInv, Copies, InForward, InBackward, InStrcpy, CopyIsExact
<1>5. CASE strcmp(a, b, len)
  BY <1>1, <1>5
  DEF strcmp, Enter, CopyInv, Copies, InForward, InBackward, InStrcpy, CopyIsExact
<1> QED  BY <1>3, <1>4, <1>5

LEMMA EnterForward ==
  ASSUME ADDRS \in Nat, was = mem, mem \in [Addr -> Byte],
         NEW a \in Nat, NEW b \in Nat, NEW len \in Nat, NEW fn \in {"memcpy", "memmove"},
         a + len <= ADDRS, b + len <= ADDRS, a <= b \/ a >= b + len,
         Enter(fn, a, b, len, "forward"), n' = len
  PROVE  CopyInv'
<1>1. call'.dest = a /\ call'.src = b /\ call'.n = len /\ call'.fn = fn
        /\ d' = a /\ s' = b /\ pc' = "forward" /\ was' = was /\ mem' = mem
  BY DEF Enter
<1>2. mem' = Partly(0, 0)'
  BY <1>1 DEF Partly, Addr
<1>3. call'.n - n' = 0
  BY <1>1
<1>4. InForward'
  BY <1>1, <1>2, <1>3 DEF InForward, Within
<1> QED  BY <1>1, <1>4 DEF CopyInv, Copies, InBackward, InStrcpy, CopyIsExact

LEMMA EnterBackward ==
  ASSUME ADDRS \in Nat, was = mem, mem \in [Addr -> Byte],
         NEW a \in Nat, NEW b \in Nat, NEW len \in Nat,
         a + len <= ADDRS, b + len <= ADDRS, a > b,
         Enter("memmove", a, b, len, "backward"), n' = len
  PROVE  CopyInv'
<1>1. call'.dest = a /\ call'.src = b /\ call'.n = len /\ call'.fn = "memmove"
        /\ d' = a /\ s' = b /\ pc' = "backward" /\ was' = was /\ mem' = mem
  BY DEF Enter
<1>2. mem' = Partly(len, len)'
  BY <1>1 DEF Partly, Addr
<1>3. InBackward'
  BY <1>1, <1>2 DEF InBackward, Within
<1> QED  BY <1>1, <1>3 DEF CopyInv, Copies, InForward, InStrcpy, CopyIsExact

LEMMA EnterMemory ==
  ASSUME CopyInv, pc = "caller",
         NEW a \in 0 .. ADDRS, NEW b \in 0 .. ADDRS, NEW len \in 0 .. ADDRS,
         memcpy(a, b, len) \/ memmove(a, b, len)
  PROVE  CopyInv'
<1>1. ADDRS \in Nat /\ a \in Nat /\ b \in Nat /\ len \in Nat
        /\ was = mem /\ mem \in [Addr -> Byte]
  BY DEF CopyInv
<1>2. CASE memcpy(a, b, len)
  <2>1. a + len <= ADDRS /\ b + len <= ADDRS /\ (a <= b \/ a >= b + len)
          /\ Enter("memcpy", a, b, len, "forward") /\ n' = len
    BY <1>1, <1>2 DEF memcpy, Apart
  <2> QED  BY <1>1, <2>1, EnterForward
<1>3. CASE memmove(a, b, len)
  <2>1. a + len <= ADDRS /\ b + len <= ADDRS /\ n' = len
          /\ Enter("memmove", a, b, len, Direction(a, b, len))
    BY <1>3 DEF memmove
  <2>2. CASE a <= b \/ a >= b + len
    <3>1. Direction(a, b, len) = "forward"
      BY <2>2 DEF Direction
    <3> QED  BY <1>1, <2>1, <2>2, <3>1, EnterForward
  <2>3. CASE ~(a <= b \/ a >= b + len)
    <3>1. Direction(a, b, len) = "backward" /\ a > b
      BY <1>1, <2>3 DEF Direction
    <3> QED  BY <1>1, <2>1, <3>1, EnterBackward
  <2> QED  BY <2>2, <2>3
<1> QED  BY <1>2, <1>3

-----------------------------------------------------------------------------
(***************************************************************************)
(* The loops.                                                              *)
(***************************************************************************)
LEMMA ForwardKeeps == CopyInv /\ copy_forward => CopyInv'
<1> SUFFICES ASSUME CopyInv, copy_forward PROVE CopyInv'
  OBVIOUS
<1> DEFINE k == call.n - n
<1>1. /\ ADDRS \in Nat /\ call.dest \in Nat /\ call.src \in Nat /\ call.n \in Nat
      /\ n \in 1 .. call.n /\ Within(call.n)
      /\ call.dest <= call.src \/ call.dest >= call.src + call.n
      /\ d = call.dest + k /\ s = call.src + k
      /\ mem = Partly(0, k)
      /\ call.fn \in {"memcpy", "memmove"}
  BY DEF CopyInv, InForward, copy_forward
<1>2. k \in Nat /\ call.dest + k \in Addr /\ call.src + k \in Addr
  BY <1>1 DEF Within, Addr
<1>3. mem[s] = was[call.src + k]
  <2>1. call.src + k \notin call.dest + 0 .. call.dest + k - 1
    BY <1>1, <1>2
  <2> QED  BY <1>1, <1>2, <2>1 DEF Partly
<1>4. mem' = Partly(0, k + 1)
  <2>1. mem' = [mem EXCEPT ![call.dest + k] = was[call.src + k]]
    BY <1>1, <1>3 DEF copy_forward, Store
  <2>2. [mem EXCEPT ![call.dest + k] = was[call.src + k]] = Partly(0, k + 1)
    BY <1>1, <1>2, OneMoreUp
  <2> QED  BY <2>1, <2>2
<1>5. /\ call' = call /\ was' = was /\ pc' = "forward"
      /\ n' = n - 1 /\ d' = d + 1 /\ s' = s + 1
  BY DEF copy_forward
<1>6. call.n - (n - 1) = k + 1
  BY <1>1
<1>7. InForward'
  <2>1. mem' = Partly(0, call.n - n)'
    BY <1>4, <1>5, <1>6 DEF Partly
  <2>2. n' \in 0 .. call'.n /\ d' = call'.dest + (call'.n - n')
          /\ s' = call'.src + (call'.n - n')
    BY <1>1, <1>5
  <2> QED  BY <1>1, <1>5, <2>1, <2>2 DEF InForward, Within
<1> QED  BY <1>1, <1>5, <1>7 DEF CopyInv, Copies, InBackward, InStrcpy, CopyIsExact

LEMMA BackwardKeeps == CopyInv /\ copy_backward => CopyInv'
<1> SUFFICES ASSUME CopyInv, copy_backward PROVE CopyInv'
  OBVIOUS
<1>1. /\ ADDRS \in Nat /\ call.dest \in Nat /\ call.src \in Nat /\ call.n \in Nat
      /\ n \in 1 .. call.n /\ Within(call.n) /\ call.dest > call.src
      /\ d = call.dest /\ s = call.src
      /\ mem = Partly(n, call.n)
      /\ call.fn = "memmove"
  BY DEF CopyInv, InBackward, copy_backward
<1>2. call.src + n - 1 \in Addr
  BY <1>1 DEF Within, Addr
<1>3. mem[s + n - 1] = was[call.src + n - 1]
  <2>1. call.src + n - 1 \notin call.dest + n .. call.dest + call.n - 1
    BY <1>1
  <2> QED  BY <1>1, <1>2, <2>1 DEF Partly
<1>4. mem' = Partly(n - 1, call.n)
  <2>1. mem' = [mem EXCEPT ![call.dest + n - 1] = was[call.src + n - 1]]
    BY <1>1, <1>3 DEF copy_backward, Store
  <2>2. call.dest + call.n <= ADDRS
    BY <1>1 DEF Within
  <2>3. [mem EXCEPT ![call.dest + n - 1] = was[call.src + n - 1]] = Partly(n - 1, call.n)
    BY <1>1, <2>2, OneMoreDown
  <2> QED  BY <2>1, <2>3
<1>5. /\ call' = call /\ was' = was /\ pc' = "backward"
      /\ n' = n - 1 /\ d' = d /\ s' = s
  BY DEF copy_backward
<1>6. InBackward'
  <2>1. mem' = Partly(n, call.n)'
    BY <1>4, <1>5 DEF Partly
  <2>2. n' \in 0 .. call'.n
    BY <1>1, <1>5
  <2> QED  BY <1>1, <1>5, <2>1, <2>2 DEF InBackward, Within
<1> QED  BY <1>1, <1>5, <1>6 DEF CopyInv, Copies, InForward, InStrcpy, CopyIsExact
LEMMA StrcpyKeeps == CopyInv /\ strcpy_turn => CopyInv'
<1> SUFFICES ASSUME CopyInv, strcpy_turn PROVE CopyInv'
  OBVIOUS
<1> DEFINE k == s - call.src
<1>1. /\ ADDRS \in Nat /\ call.dest \in Nat /\ call.src \in Nat /\ call.n \in Nat
      /\ Within(call.n + 1) /\ Apart(call.dest, call.src, call.n + 1)
      /\ StringAt(was, call.src, call.n)
      /\ k \in 0 .. call.n /\ s = call.src + k /\ d = call.dest + k
      /\ mem = Partly(0, k)
      /\ call.fn = "strcpy"
  BY DEF CopyInv, InStrcpy, strcpy_turn
<1>2. call.dest + k \in Addr /\ call.src + k \in Addr
  BY <1>1 DEF Within, Addr
<1>3. mem[s] = was[call.src + k]
  <2>1. call.src + k \notin call.dest + 0 .. call.dest + k - 1
    BY <1>1 DEF Apart
  <2> QED  BY <1>1, <1>2, <2>1 DEF Partly
<1>4. k # call.n
  BY <1>1, <1>3 DEF strcpy_turn, StringAt
<1>5. mem' = Partly(0, k + 1)
  <2>1. mem' = [mem EXCEPT ![call.dest + k] = was[call.src + k]]
    BY <1>1, <1>3 DEF strcpy_turn, Store
  <2>2. [mem EXCEPT ![call.dest + k] = was[call.src + k]] = Partly(0, k + 1)
    BY <1>1, <1>2, OneMoreUp
  <2> QED  BY <2>1, <2>2
<1>6. /\ call' = call /\ was' = was /\ pc' = "strcpy"
      /\ d' = d + 1 /\ s' = s + 1
  BY DEF strcpy_turn
<1>7. s' - call'.src = k + 1
  BY <1>1, <1>6
<1>8. InStrcpy'
  <2>1. mem' = Partly(0, s - call.src)'
    BY <1>5, <1>6, <1>7 DEF Partly
  <2>2. s' - call'.src \in 0 .. call'.n /\ s' = call'.src + (s' - call'.src)
          /\ d' = call'.dest + (s' - call'.src)
    BY <1>1, <1>4, <1>6, <1>7
  <2>3. Within(call.n + 1)' /\ Apart(call.dest, call.src, call.n + 1)'
          /\ StringAt(was, call.src, call.n)'
    BY <1>1, <1>6 DEF Within, Apart, StringAt
  <2> QED  BY <1>1, <1>6, <2>1, <2>2, <2>3 DEF InStrcpy
<1> QED  BY <1>1, <1>6, <1>8 DEF CopyInv, Copies, InForward, InBackward, CopyIsExact

\* The loop of strcpy ends at the 0 that ends the source, which is then copied.
LEMMA StrcpyEnds == CopyInv /\ strcpy_end => CopyInv'
<1> SUFFICES ASSUME CopyInv, strcpy_end PROVE CopyInv'
  OBVIOUS
<1> DEFINE k == s - call.src
<1>1. /\ ADDRS \in Nat /\ call.dest \in Nat /\ call.src \in Nat /\ call.n \in Nat
      /\ Within(call.n + 1) /\ Apart(call.dest, call.src, call.n + 1)
      /\ StringAt(was, call.src, call.n)
      /\ k \in 0 .. call.n /\ s = call.src + k /\ d = call.dest + k
      /\ mem = Partly(0, k)
      /\ call.fn = "strcpy"
  BY DEF CopyInv, InStrcpy, strcpy_end
<1>2. call.dest + k \in Addr /\ call.src + k \in Addr
  BY <1>1 DEF Within, Addr
<1>3. mem[s] = was[call.src + k]
  <2>1. call.src + k \notin call.dest + 0 .. call.dest + k - 1
    BY <1>1 DEF Apart
  <2> QED  BY <1>1, <1>2, <2>1 DEF Partly
<1>4. was[call.src + k] = 0
  BY <1>3 DEF strcpy_end
<1>5. k = call.n
  <2> SUFFICES ASSUME k # call.n PROVE FALSE
    OBVIOUS
  <2>1. call.src + k \in call.src .. call.src + call.n - 1
    BY <1>1
  <2> QED  BY <1>1, <1>4, <2>1 DEF StringAt
<1>6. mem' = Partly(0, call.n + 1)
  <2>1. mem' = [mem EXCEPT ![call.dest + k] = was[call.src + k]]
    BY <1>1, <1>4 DEF strcpy_end, Store
  <2>2. [mem EXCEPT ![call.dest + k] = was[call.src + k]] = Partly(0, k + 1)
    BY <1>1, <1>2, OneMoreUp
  <2> QED  BY <1>5, <2>1, <2>2
<1>7. call' = call /\ was' = was /\ pc' = "returned"
  BY DEF strcpy_end, Return
<1>8. mem' = Copied(call.n + 1)'
  BY <1>1, <1>6, <1>7 DEF Partly, Copied
<1> QED
  BY <1>1, <1>7, <1>8
  DEF CopyInv, Copies, InForward, InBackward, InStrcpy, CopyIsExact

LEMMA LoopEnds == CopyInv /\ loop_end => CopyInv'
<1> SUFFICES ASSUME CopyInv, loop_end PROVE CopyInv'
  OBVIOUS
<1>1. /\ n = 0 /\ mem' = mem /\ call' = call /\ was' = was /\ pc' = "returned"
      /\ ADDRS \in Nat /\ call.dest \in Nat /\ call.src \in Nat /\ call.n \in Nat
  BY DEF loop_end, Return, CopyInv
<1>2. CopyIsExact'
  <2>1. CASE pc = "memset"
    BY <1>1, <2>1 DEF CopyInv, Copies, CopyIsExact
  <2>2. CASE pc = "forward"
    <3>1. mem = Partly(0, call.n) /\ call.fn \in {"memcpy", "memmove"}
      BY <1>1, <2>2 DEF CopyInv, InForward
    <3>2. mem' = Copied(call.n)'
      BY <1>1, <3>1 DEF Partly, Copied
    <3> QED  BY <1>1, <3>1, <3>2 DEF CopyIsExact
  <2>3. CASE pc = "backward"
    <3>1. mem = Partly(0, call.n) /\ call.fn = "memmove"
      BY <1>1, <2>3 DEF CopyInv, InBackward
    <3>2. mem' = Copied(call.n)'
      BY <1>1, <3>1 DEF Partly, Copied
    <3> QED  BY <1>1, <3>1, <3>2 DEF CopyIsExact
  <2> QED  BY <2>1, <2>2, <2>3 DEF loop_end
<1> QED  BY <1>1, <1>2 DEF CopyInv, InForward, InBackward, InStrcpy

\* The functions that copy nothing, and what the caller does between calls.
LEMMA OthersKeep ==
  CopyInv /\ (strlen_turn \/ strlen_end \/ strcmp_turn \/ strcmp_end \/ memset_turn)
    => CopyInv'
<1> SUFFICES ASSUME CopyInv,
                    strlen_turn \/ strlen_end \/ strcmp_turn \/ strcmp_end \/ memset_turn
             PROVE  CopyInv'
  OBVIOUS
<1>1. /\ call' = call /\ pc \in {"strlen", "strcmp", "memset"}
      /\ pc' = pc \/ pc' = "returned"
  BY DEF strlen_turn, strlen_end, strcmp_turn, strcmp_end, memset_turn, Return
<1>2. call.fn \notin Copies
  BY <1>1 DEF CopyInv
<1> QED
  BY <1>1, <1>2 DEF CopyInv, Copies, InForward, InBackward, InStrcpy, CopyIsExact

LEMMA CallerKeeps == CopyInv /\ caller => CopyInv'
  BY MemoryAssumption
  DEF caller, CopyInv, NoCall, Copies, InForward, InBackward, InStrcpy, CopyIsExact

LEMMA MemsetEntered ==
  ASSUME CopyInv, NEW a \in 0 .. ADDRS, NEW len \in 0 .. ADDRS, NEW byte \in {0, 255},
         memset(a, byte, len)
  PROVE  CopyInv'
<1>1. ADDRS \in Nat /\ a \in Nat /\ len \in Nat /\ byte \in Nat
  BY DEF CopyInv
<1> QED
  BY <1>1
  DEF memset, Enter, CopyInv, Copies, InForward, InBackward, InStrcpy, CopyIsExact

\* Every step of a function or of its callers keeps the inductive invariant.
THEOREM CopyInvStep == CopyInv /\ [StringsNext]_strVars => CopyInv'
<1> SUFFICES ASSUME CopyInv, [StringsNext]_strVars PROVE CopyInv'
  OBVIOUS
<1>1. CASE Calls
  <2> USE <1>1
  <2>1. CASE \E a, b, len \in Addr :
               strcpy(a, b, len) \/ strlen(a, len) \/ strcmp(a, b, len)
    BY <2>1, EnterStrings DEF Calls
  <2>2. CASE \E a, b, len \in 0 .. ADDRS : memcpy(a, b, len) \/ memmove(a, b, len)
    BY <2>2, EnterMemory DEF Calls
  <2>3. CASE \E a, len \in 0 .. ADDRS, byte \in {0, 255} : memset(a, byte, len)
    BY <2>3, MemsetEntered
  <2> QED  BY <2>1, <2>2, <2>3 DEF Calls
<1>2. CASE Turns
  <2>1. CASE copy_forward
    BY <2>1, ForwardKeeps
  <2>2. CASE copy_backward
    BY <2>2, BackwardKeeps
  <2>3. CASE strcpy_turn \/ strcpy_end
    BY <2>3, StrcpyKeeps, StrcpyEnds
  <2>4. CASE loop_end
    BY <2>4, LoopEnds
  <2>5. CASE strlen_turn \/ strlen_end \/ strcmp_turn \/ strcmp_end \/ memset_turn
    BY <2>5, OthersKeep
  <2> QED  BY <1>2, <2>1, <2>2, <2>3, <2>4, <2>5 DEF Turns
<1>3. CASE caller
  BY <1>3, CallerKeeps
<1>4. CASE UNCHANGED strVars
  <2>1. mem' = mem /\ was' = was /\ call' = call /\ pc' = pc /\ d' = d /\ s' = s /\ n' = n
    BY <1>4 DEF strVars
  <2> QED
    BY <2>1
    DEF CopyInv, InForward, InBackward, InStrcpy, CopyIsExact, Within, Apart, StringAt,
        Partly, Copied
<1> QED  BY <1>1, <1>2, <1>3, <1>4 DEF StringsNext

\* memcpy, memmove and strcpy are exact in every memory, for ranges of every
\* length that overlap in every way their callers may let them.
THEOREM CopiesAreExact == StringsSpec => []CopyIsExact
<1>1. StringsInit => CopyInv
  BY CopyInvInit
<1>2. CopyInv /\ [StringsNext]_strVars => CopyInv'
  BY CopyInvStep
<1>3. CopyInv => CopyIsExact
  BY DEF CopyInv
<1> QED  BY <1>1, <1>2, <1>3, PTL DEF StringsSpec
-----------------------------------------------------------------------------
(***************************************************************************)
(* strlen and strcmp.                                                      *)
(***************************************************************************)
InStrlen ==
  pc = "strlen" =>
    /\ call.fn = "strlen" /\ mem = was
    /\ StringAt(was, call.dest, call.n)
    /\ d \in call.dest .. call.dest + call.n

\* The characters before those under comparison are the same, so that neither
\* string has ended before them.
Alike(k) ==
  \A i \in 0 .. k - 1 : was[call.dest + i] = was[call.src + i] /\ was[call.dest + i] # 0
InStrcmp ==
  pc = "strcmp" =>
    /\ call.fn = "strcmp" /\ mem = was
    /\ StringAt(was, call.dest, call.n)
    /\ \E len2 \in Addr : StringAt(was, call.src, len2) /\ d - call.dest <= len2
    /\ d \in call.dest .. call.dest + call.n
    /\ s = call.src + (d - call.dest)
    /\ Alike(d - call.dest)

Measures == {"strlen", "strcmp"}

MeasureInv ==
  /\ ADDRS \in Nat
  /\ was \in [Addr -> Byte]
  /\ call.dest \in Nat /\ call.src \in Nat /\ call.n \in Nat
  /\ pc = "caller" => mem = was
  /\ pc \notin {"strlen", "strcmp", "returned"} => call.fn \notin Measures
  /\ InStrlen /\ InStrcmp
  /\ StringsMeasured

LEMMA MeasureInvInit == StringsInit => MeasureInv
  BY MemoryAssumption
  DEF StringsInit, MeasureInv, NoCall, Measures, InStrlen, InStrcmp, StringsMeasured

LEMMA MeasureBegins ==
  ASSUME MeasureInv, Calls
  PROVE  MeasureInv'
<1>1. pc = "caller" /\ mem = was
  BY DEF Calls, MeasureInv
<1>2. ASSUME NEW a \in Addr, NEW b \in Addr, NEW len \in Addr,
             strcpy(a, b, len) \/ strlen(a, len) \/ strcmp(a, b, len)
      PROVE  MeasureInv'
  <2>1. a \in Nat /\ b \in Nat /\ len \in Nat
    BY DEF Addr
  <2>2. CASE strcpy(a, b, len)
    BY <1>1, <2>1, <2>2
    DEF strcpy, Enter, MeasureInv, Measures, InStrlen, InStrcmp, StringsMeasured
  <2>3. CASE strlen(a, len)
    BY <1>1, <2>1, <2>3
    DEF strlen, Enter, MeasureInv, Measures, InStrlen, InStrcmp, StringsMeasured, StringAt
  <2>4. CASE strcmp(a, b, len)
    <3>1. /\ call' = [fn |-> "strcmp", dest |-> a, src |-> b, n |-> len]
          /\ d' = a /\ s' = b /\ pc' = "strcmp" /\ mem' = mem /\ was' = was
          /\ StringAt(mem, a, len)
          /\ \E len2 \in Addr : StringAt(mem, b, len2)
      BY <2>4 DEF strcmp, Enter
    <3>2. d' - call'.dest = 0 /\ d' \in call'.dest .. call'.dest + call'.n
      BY <2>1, <3>1
    <3>3. \A len2 \in Addr : 0 <= len2
      BY DEF Addr
    <3>4. InStrcmp'
      BY <1>1, <2>1, <3>1, <3>2, <3>3 DEF InStrcmp, StringAt, Alike
    <3> QED  BY <1>1, <2>1, <3>1, <3>4 DEF MeasureInv, Measures, InStrlen, StringsMeasured
  <2> QED  BY <1>2, <2>2, <2>3, <2>4
<1>3. ASSUME NEW a \in 0 .. ADDRS, NEW b \in 0 .. ADDRS, NEW len \in 0 .. ADDRS,
             memcpy(a, b, len) \/ memmove(a, b, len)
      PROVE  MeasureInv'
  <2>1. a \in Nat /\ b \in Nat /\ len \in Nat
    BY DEF MeasureInv
  <2> QED
    BY <1>1, <1>3, <2>1
    DEF memcpy, memmove, Enter, Direction, MeasureInv, Measures, InStrlen, InStrcmp,
        StringsMeasured
<1>4. ASSUME NEW a \in 0 .. ADDRS, NEW len \in 0 .. ADDRS, NEW byte \in {0, 255},
             memset(a, byte, len)
      PROVE  MeasureInv'
  <2>1. a \in Nat /\ byte \in Nat /\ len \in Nat
    BY DEF MeasureInv
  <2> QED
    BY <1>1, <1>4, <2>1
    DEF memset, Enter, MeasureInv, Measures, InStrlen, InStrcmp, StringsMeasured
<1> QED  BY <1>2, <1>3, <1>4 DEF Calls

\* strlen is at its end exactly at the 0 behind the string.
LEMMA StrlenMeasures ==
  ASSUME MeasureInv, strlen_turn \/ strlen_end
  PROVE  MeasureInv'
<1>1. /\ pc = "strlen" /\ call' = call /\ was' = was /\ mem' = mem
      /\ \/ pc' = "strlen" /\ mem[d] # 0 /\ d' = d + 1
         \/ pc' = "returned" /\ mem[d] = 0 /\ ret' = d - call.dest
  <2>1. CASE strlen_turn
    BY <2>1 DEF strlen_turn
  <2>2. CASE strlen_end
    BY <2>2 DEF strlen_end, Return
  <2> QED  BY <2>1, <2>2
<1>2. /\ call.fn = "strlen" /\ mem = was /\ StringAt(was, call.dest, call.n)
      /\ d \in call.dest .. call.dest + call.n
      /\ call.dest \in Nat /\ call.n \in Nat
  BY <1>1 DEF MeasureInv, InStrlen
<1>3. mem[d] = 0 <=> d = call.dest + call.n
  BY <1>2 DEF StringAt
<1>4. InStrlen'
  BY <1>1, <1>2, <1>3 DEF InStrlen, StringAt
<1>5. StringsMeasured'
  BY <1>1, <1>2, <1>3 DEF StringsMeasured
<1> QED  BY <1>1, <1>2, <1>4, <1>5 DEF MeasureInv, InStrcmp

LEMMA StrcmpTurns ==
  ASSUME MeasureInv, strcmp_turn
  PROVE  MeasureInv'
<1> DEFINE k == d - call.dest
<1>1. /\ pc = "strcmp" /\ call' = call /\ was' = was /\ mem' = mem /\ pc' = pc
      /\ mem[d] = mem[s] /\ mem[d] # 0 /\ mem[s] # 0
      /\ d' = d + 1 /\ s' = s + 1
  BY DEF strcmp_turn, SameChar
<1>2. /\ call.fn = "strcmp" /\ mem = was /\ StringAt(was, call.dest, call.n)
      /\ d \in call.dest .. call.dest + call.n
      /\ call.dest \in Nat /\ call.n \in Nat /\ call.src \in Nat
      /\ s = call.src + k /\ Alike(k)
  BY <1>1 DEF MeasureInv, InStrcmp
<1>3. PICK len2 \in Addr : StringAt(was, call.src, len2) /\ k <= len2
  BY <1>1 DEF MeasureInv, InStrcmp
<1>4. k \in Nat /\ len2 \in Nat /\ d = call.dest + k /\ d' = call.dest + (k + 1)
  BY <1>1, <1>2 DEF Addr
<1>5. k # call.n /\ k # len2
  BY <1>1, <1>2, <1>3, <1>4 DEF StringAt
<1>6. k + 1 <= call.n /\ k + 1 <= len2
  BY <1>2, <1>3, <1>4, <1>5
<1>7. Alike(k + 1)
  <2>1. \A i \in 0 .. (k + 1) - 1 : i \in 0 .. k - 1 \/ i = k
    BY <1>4
  <2>2. was[call.dest + k] = was[call.src + k] /\ was[call.dest + k] # 0
    BY <1>1, <1>2, <1>4
  <2> QED  BY <1>2, <2>1, <2>2 DEF Alike
<1>8. d' - call.dest = k + 1
  BY <1>2, <1>4
<1>9. InStrcmp'
  <2>1. \E l \in Addr : StringAt(was, call.src, l) /\ k + 1 <= l
    BY <1>3, <1>6
  <2>2. d' \in call.dest .. call.dest + call.n /\ s' = call.src + (k + 1)
    BY <1>1, <1>2, <1>4, <1>6
  <2>3. /\ Addr' = Addr
        /\ \A l : StringAt(was, call.src, l)' <=> StringAt(was, call.src, l)
        /\ StringAt(was, call.dest, call.n)' <=> StringAt(was, call.dest, call.n)
        /\ Alike(d - call.dest)' <=> Alike(k + 1)
    BY <1>1, <1>8 DEF StringAt, Alike
  <2> QED  BY <1>1, <1>2, <1>7, <1>8, <2>1, <2>2, <2>3 DEF InStrcmp
<1> QED  BY <1>1, <1>2, <1>9 DEF MeasureInv, InStrlen, StringsMeasured

\* Two bytes are the same when they are the same as signed characters.
LEMMA SignedChars ==
  ASSUME NEW x \in Byte, NEW y \in Byte, char(x) - char(y) = 0
  PROVE  x = y
  BY DEF char, Byte

LEMMA StrcmpEnds ==
  ASSUME MeasureInv, strcmp_end
  PROVE  MeasureInv'
<1> DEFINE k == d - call.dest
<1>1. /\ pc = "strcmp" /\ call' = call /\ was' = was /\ mem' = mem /\ d' = d
      /\ pc' = "returned"
      /\ ~(mem[d] = mem[s] /\ mem[d] # 0 /\ mem[s] # 0)
      /\ ret' = char(mem[d]) - char(mem[s])
  BY DEF strcmp_end, SameChar, Return
<1>2. /\ call.fn = "strcmp" /\ mem = was /\ StringAt(was, call.dest, call.n)
      /\ d \in call.dest .. call.dest + call.n
      /\ call.dest \in Nat /\ call.n \in Nat /\ call.src \in Nat
      /\ s = call.src + k /\ Alike(k) /\ was \in [Addr -> Byte] /\ ADDRS \in Nat
  BY <1>1 DEF MeasureInv, InStrcmp
<1>3. PICK len2 \in Addr : StringAt(was, call.src, len2) /\ k <= len2
  BY <1>1 DEF MeasureInv, InStrcmp
<1>4. k \in 0 .. call.n /\ d = call.dest + k /\ d \in Addr /\ s \in Addr
  <2>1. k \in 0 .. call.n /\ d = call.dest + k /\ s = call.src + k
    BY <1>2
  <2>2. len2 \in Nat /\ call.src + len2 \in Addr /\ call.dest + call.n \in Addr
    BY <1>2, <1>3 DEF Addr, StringAt
  <2>3. d \in Nat /\ d <= call.dest + call.n /\ s \in Nat /\ s <= call.src + len2
    <3>1. /\ call.dest \in Nat /\ call.n \in Nat /\ call.src \in Nat /\ k <= len2
          /\ d \in call.dest .. call.dest + call.n
      BY <1>2, <1>3
    <3> HIDE DEF k
    <3> QED  BY <2>1, <2>2, <3>1
  <2>4. d \in Addr /\ s \in Addr
    <3> HIDE DEF k
    <3> QED  BY <1>2, <2>2, <2>3 DEF Addr
  <2> QED  BY <2>1, <2>4
<1>5. was[d] \in Byte /\ was[s] \in Byte
  BY <1>2, <1>4
<1>6. ret' = 0 => was[d] = 0
  <2> SUFFICES ASSUME ret' = 0 PROVE was[d] = 0
    OBVIOUS
  <2>1. was[d] = was[s]
    BY <1>1, <1>2, <1>5, SignedChars
  <2> QED  BY <1>1, <1>2, <2>1
<1>7. /\ \A i \in 0 .. k - 1 : was[call.dest + i] = was[call.src + i] /\ was[call.dest + i] # 0
      /\ ret' = char(was[call.dest + k]) - char(was[call.src + k])
      /\ ret' = 0 => was[call.dest + k] = 0
  BY <1>1, <1>2, <1>4, <1>6, Zenon DEF Alike
<1> HIDE DEF k
<1>8. StringsMeasured'
  BY <1>1, <1>2, <1>4, <1>7 DEF StringsMeasured, Compared
<1> QED  BY <1>1, <1>2, <1>8 DEF MeasureInv, InStrlen, InStrcmp

LEMMA MeasureInvStep == MeasureInv /\ [StringsNext]_strVars => MeasureInv'
<1> SUFFICES ASSUME MeasureInv, [StringsNext]_strVars PROVE MeasureInv'
  OBVIOUS
<1>1. CASE Calls
  BY <1>1, MeasureBegins
<1>2. CASE strlen_turn \/ strlen_end
  BY <1>2, StrlenMeasures
<1>3. CASE strcmp_turn
  BY <1>3, StrcmpTurns
<1>4. CASE strcmp_end
  BY <1>4, StrcmpEnds
<1>5. CASE strcpy_turn \/ strcpy_end \/ memset_turn \/ copy_forward \/ copy_backward \/ loop_end
  <2>1. /\ pc \in {"strcpy", "memset", "forward", "backward"}
        /\ call' = call /\ was' = was /\ pc' \in {pc, "returned"}
    BY <1>5 DEF strcpy_turn, strcpy_end, memset_turn, copy_forward, copy_backward, loop_end,
                Return
  <2>2. call.fn \notin Measures
    BY <2>1 DEF MeasureInv
  <2> QED  BY <2>1, <2>2 DEF MeasureInv, Measures, InStrlen, InStrcmp, StringsMeasured
<1>6. CASE caller
  BY <1>6, MemoryAssumption
  DEF caller, MeasureInv, NoCall, Measures, InStrlen, InStrcmp, StringsMeasured
<1>7. CASE UNCHANGED strVars
  BY <1>7
  DEF strVars, MeasureInv, InStrlen, InStrcmp, StringsMeasured, Compared, StringAt, Alike
<1> QED  BY <1>1, <1>2, <1>3, <1>4, <1>5, <1>6, <1>7 DEF StringsNext, Turns

\* strlen and strcmp measure and compare right, for every memory.
THEOREM MeasuresAreRight == StringsSpec => []StringsMeasured
<1>1. MeasureInv => StringsMeasured
  BY DEF MeasureInv
<1> QED  BY <1>1, MeasureInvInit, MeasureInvStep, PTL DEF StringsSpec

-----------------------------------------------------------------------------
(***************************************************************************)
(* Induction over the natural numbers in terms of sets.                    *)
(***************************************************************************)
\* A set of natural numbers that is not empty has a least element.
LEMMA LeastNat ==
  ASSUME NEW T, T \subseteq Nat, T # {}
  PROVE  \E x \in T : \A y \in T : x <= y
<1> DEFINE R == OpToRel(<, Nat)
<1>1. IsWellFoundedOn(R, Nat)
  BY NatLessThanWellFounded
<1>2. \A x, y \in Nat : x < y => <<x, y>> \in R
  BY DEF OpToRel
<1> HIDE DEF R
<1>3. PICK x \in T : \A y \in T : ~(<<y, x>> \in R)
  BY <1>1, WFMin
<1>4. \A y \in T : x <= y
  <2> TAKE y \in T
  <2>1. x \in Nat /\ y \in Nat
    OBVIOUS
  <2>2. ~(y < x)
    BY <2>1, <1>2, <1>3
  <2> QED BY <2>1, <2>2
<1> QED BY <1>4

\* A set with 0 that holds k + 1 when it holds k has all natural numbers.
LEMMA Induct ==
  ASSUME NEW S, 0 \in S, \A k \in Nat : k \in S => k + 1 \in S
  PROVE  Nat \subseteq S
<1> SUFFICES ASSUME NEW m \in Nat, m \notin S PROVE FALSE
  OBVIOUS
<1> DEFINE T == Nat \ S
<1>1. PICK x \in T : \A y \in T : x <= y
  BY LeastNat
<1>2. x \in Nat /\ x # 0 /\ x \notin S
  OBVIOUS
<1>3. x - 1 \in Nat /\ (x - 1) + 1 = x
  BY <1>2
<1>4. x - 1 \in S
  BY <1>1, <1>3
<1> QED BY <1>2, <1>3, <1>4

-----------------------------------------------------------------------------
(***************************************************************************)
(* Powers.                                                                 *)
(***************************************************************************)
PowersUpTo(p, b, top) == p = [i \in 0 .. top |-> IF i = 0 THEN 1 ELSE b * p[i - 1]]

LEMMA PowersTo ==
  ASSUME NEW b \in Nat, NEW top \in Nat
  PROVE  \E p : PowersUpTo(p, b, top) /\ \A i \in 0 .. top : p[i] \in Nat
<1> DEFINE S == {k \in Nat : \E p : PowersUpTo(p, b, k) /\ \A i \in 0 .. k : p[i] \in Nat}
<1>1. 0 \in S
  <2> DEFINE p == [i \in 0 .. 0 |-> 1]
  <2>1. p = [i \in 0 .. 0 |-> IF i = 0 THEN 1 ELSE b * p[i - 1]]
    OBVIOUS
  <2>2. PowersUpTo(p, b, 0) /\ \A i \in 0 .. 0 : p[i] \in Nat
    BY <2>1 DEF PowersUpTo
  <2> QED  BY <2>2
<1>2. ASSUME NEW k \in Nat, k \in S PROVE k + 1 \in S
  <2>1. PICK p : PowersUpTo(p, b, k) /\ \A i \in 0 .. k : p[i] \in Nat
    BY <1>2
  <2> DEFINE g == [i \in 0 .. k + 1 |-> IF i <= k THEN p[i] ELSE b * p[k]]
  <2>2. /\ g = [i \in 0 .. k + 1 |-> g[i]]
        /\ \A i \in 0 .. k : g[i] = p[i]
        /\ g[k + 1] = b * p[k]
    OBVIOUS
  <2>3. \A i \in 0 .. k : p[i] = IF i = 0 THEN 1 ELSE b * p[i - 1]
    BY <2>1 DEF PowersUpTo
  <2> HIDE DEF g
  <2>4. ASSUME NEW i \in 0 .. k + 1 PROVE g[i] = IF i = 0 THEN 1 ELSE b * g[i - 1]
    <3>1. CASE i = 0
      <4>1. 0 \in 0 .. k
        OBVIOUS
      <4>2. g[0] = p[0] /\ p[0] = 1
        BY <2>2, <2>3, <4>1
      <4> QED  BY <3>1, <4>2
    <3>2. CASE i \in 1 .. k
      <4>1. i \in 0 .. k /\ i - 1 \in 0 .. k /\ i # 0
        BY <3>2
      <4>2. g[i] = p[i] /\ g[i - 1] = p[i - 1]
        BY <2>2, <4>1
      <4>3. p[i] = b * p[i - 1]
        BY <2>3, <4>1
      <4> QED  BY <4>1, <4>2, <4>3
    <3>3. CASE i = k + 1
      <4>1. i - 1 = k /\ i # 0 /\ k \in 0 .. k
        BY <3>3
      <4> QED  BY <2>2, <3>3, <4>1
    <3> QED  BY <3>1, <3>2, <3>3
  <2>5. g = [i \in 0 .. k + 1 |-> IF i = 0 THEN 1 ELSE b * g[i - 1]]
    BY <2>2, <2>4
  <2>6. \A i \in 0 .. k + 1 : g[i] \in Nat
    <3>1. p[k] \in Nat
      BY <2>1
    <3>2. b * p[k] \in Nat
      BY <3>1
    <3>3. \A i \in 0 .. k + 1 : i \in 0 .. k \/ i = k + 1
      OBVIOUS
    <3> QED  BY <2>1, <2>2, <3>2, <3>3
  <2>7. PowersUpTo(g, b, k + 1)
    BY <2>5 DEF PowersUpTo
  <2> QED  BY <2>6, <2>7
<1>3. top \in S
  BY <1>1, <1>2, Induct
<1> QED  BY <1>3

\* One with all the powers.
LEMMA PowersExist ==
  ASSUME NEW b \in Nat
  PROVE  \E p : /\ p = [k \in Nat |-> IF k = 0 THEN 1 ELSE b * p[k - 1]]
                /\ \A k \in Nat : p[k] \in Nat
<1> DEFINE Up(k) == CHOOSE p : PowersUpTo(p, b, k) /\ \A i \in 0 .. k : p[i] \in Nat
           p == [k \in Nat |-> Up(k)[k]]
<1>1. \A k \in Nat : PowersUpTo(Up(k), b, k) /\ \A i \in 0 .. k : Up(k)[i] \in Nat
  BY PowersTo
<1> HIDE DEF Up
<1>2. \A k \in Nat : \A i \in 0 .. k : Up(k)[i] = IF i = 0 THEN 1 ELSE b * Up(k)[i - 1]
  BY <1>1 DEF PowersUpTo
<1>3. ASSUME NEW k \in Nat PROVE \A i \in 0 .. k : Up(k + 1)[i] = Up(k)[i]
  <2> DEFINE S == {i \in Nat : i <= k => Up(k + 1)[i] = Up(k)[i]}
  <2>1. 0 \in S
    <3>1. Up(k + 1)[0] = 1
      <4>1. k + 1 \in Nat /\ 0 \in 0 .. k + 1
        OBVIOUS
      <4> QED  BY <1>2, <4>1
    <3>2. Up(k)[0] = 1
      BY <1>2
    <3> QED  BY <3>1, <3>2
  <2>2. ASSUME NEW i \in Nat, i \in S PROVE i + 1 \in S
    <3> SUFFICES ASSUME i + 1 <= k PROVE Up(k + 1)[i + 1] = Up(k)[i + 1]
      OBVIOUS
    <3>1. i + 1 \in 0 .. k /\ i + 1 \in 0 .. k + 1 /\ (i + 1) - 1 = i /\ i + 1 # 0 /\ k + 1 \in Nat
      OBVIOUS
    <3>2. Up(k + 1)[i] = Up(k)[i]
      BY <2>2, <3>1
    <3>3. Up(k + 1)[i + 1] = b * Up(k + 1)[i]
      BY <1>2, <3>1
    <3>4. Up(k)[i + 1] = b * Up(k)[i]
      BY <1>2, <3>1
    <3> QED  BY <3>2, <3>3, <3>4
  <2> HIDE DEF S
  <2>3. Nat \subseteq S
    BY <2>1, <2>2, Induct
  <2> QED  BY <2>3 DEF S
<1>4. \A k \in Nat : p[k] \in Nat
  BY <1>1
<1>5. ASSUME NEW k \in Nat PROVE p[k] = IF k = 0 THEN 1 ELSE b * p[k - 1]
  <2>1. CASE k = 0
    BY <1>2, <2>1
  <2>2. CASE k # 0
    <3>1. k - 1 \in Nat /\ (k - 1) + 1 = k /\ k - 1 \in 0 .. k - 1 /\ k \in 0 .. k
      BY <2>2
    <3>2. Up(k)[k] = b * Up(k)[k - 1]
      BY <1>2, <2>2, <3>1
    <3>3. Up(k)[k - 1] = Up(k - 1)[k - 1]
      BY <1>3, <3>1
    <3> QED  BY <2>2, <3>1, <3>2, <3>3
  <2> QED  BY <2>1, <2>2
<1>6. p = [k \in Nat |-> p[k]]
  OBVIOUS
<1> HIDE DEF p
<1>7. p = [k \in Nat |-> IF k = 0 THEN 1 ELSE b * p[k - 1]]
  BY <1>5, <1>6
<1> QED  BY <1>4, <1>7

LEMMA PowerFacts ==
  ASSUME NEW b \in Nat, b >= 2
  PROVE  /\ Power(b)[0] = 1
         /\ \A k \in Nat : Power(b)[k + 1] = b * Power(b)[k]
         /\ \A k \in Nat : Power(b)[k] \in Nat /\ Power(b)[k] > k
<1> DEFINE Is(p) == p = [k \in Nat |-> IF k = 0 THEN 1 ELSE b * p[k - 1]]
           p == CHOOSE f : Is(f)
<1>1. Power(b) = p
  BY DEF Power
<1>2. Is(p)
  <2>1. \E f : Is(f)
    BY PowersExist
  <2> HIDE DEF Is
  <2> QED  BY <2>1
<1>3. /\ p[0] = 1
      /\ \A k \in Nat : p[k + 1] = b * p[k]
  <2>1. \A k \in Nat : p[k] = IF k = 0 THEN 1 ELSE b * p[k - 1]
    <3> HIDE DEF p
    <3> QED  BY <1>2
  <2> HIDE DEF p
  <2>2. \A k \in Nat : k + 1 \in Nat /\ k + 1 # 0 /\ (k + 1) - 1 = k
    OBVIOUS
  <2> QED  BY <2>1, <2>2
<1> HIDE DEF p, Is
<1> DEFINE S == {k \in Nat : p[k] \in Nat /\ p[k] > k}
<1>4. 0 \in S
  BY <1>3
<1>5. ASSUME NEW k \in Nat, k \in S PROVE k + 1 \in S
  <2> DEFINE x == p[k]
  <2>1. x \in Nat /\ x > k /\ p[k + 1] = b * x
    BY <1>3, <1>5
  <2> HIDE DEF x
  <2>2. b * x \in Nat /\ b * x >= 2 * x
    BY <2>1
  <2> QED  BY <2>1, <2>2
<1>6. Nat \subseteq S
  BY <1>4, <1>5, Induct
<1> QED  BY <1>1, <1>3, <1>6

-----------------------------------------------------------------------------
(***************************************************************************)
(* Numerals.                                                               *)
(***************************************************************************)
LEMMA DivFacts ==
  ASSUME NEW v \in Nat, NEW b \in Nat, b >= 2
  PROVE  /\ v \div b \in Nat /\ v % b \in 0 .. b - 1
         /\ v = b * (v \div b) + (v % b)
         /\ v >= b => v \div b >= 1 /\ v \div b < v
         /\ v < b => v % b = v
<1> DEFINE q == v \div b
           r == v % b
           p == b * q
<1>1. q \in Nat /\ r \in 0 .. b - 1
  OBVIOUS
<1>2. v = b * q + r
  OBVIOUS
<1>3. p \in Nat /\ p >= 2 * q
  <2> HIDE DEF q
  <2> QED  BY <1>1
<1>4. q = 0 => p = 0
  <2> HIDE DEF q
  <2> QED  BY <1>1
<1>5. q >= 1 => p >= b
  <2> HIDE DEF q
  <2> QED  BY <1>1
<1>6. v = p + r
  BY <1>2
<1> HIDE DEF p
<1>7. v >= b => q >= 1 /\ q < v
  <2> HIDE DEF q, r
  <2> QED  BY <1>1, <1>3, <1>4, <1>6
<1>8. v < b => r = v
  <2> HIDE DEF q, r
  <2> QED  BY <1>1, <1>3, <1>4, <1>5, <1>6
<1> QED  BY <1>1, <1>2, <1>7, <1>8

LEMMA DivTwice ==
  ASSUME NEW v \in Nat, NEW b \in Nat, b >= 2, NEW p \in Nat, p > 0
  PROVE  (v \div b) \div p = v \div (b * p)
  OBVIOUS

LEMMA DivMore ==
  ASSUME NEW v \in Nat, NEW b \in Nat, b >= 2, NEW p \in Nat, p > 0
  PROVE  (v \div p) \div b = v \div (b * p)
  OBVIOUS

LEMMA SizeUnique ==
  ASSUME NEW b \in Nat, b >= 2, NEW v \in Nat, NEW j \in Nat \ {0}, NEW k \in Nat \ {0},
         HasSize(v, b, j), HasSize(v, b, k)
  PROVE  j = k
<1> DEFINE p == Power(b)
<1>1. \A i \in Nat : p[i] \in Nat /\ p[i + 1] >= p[i]
  <2> SUFFICES ASSUME NEW i \in Nat PROVE p[i] \in Nat /\ p[i + 1] >= p[i]
    OBVIOUS
  <2>1. p[i] \in Nat /\ p[i + 1] = b * p[i]
    BY PowerFacts
  <2> DEFINE x == p[i]
  <2>2. x \in Nat /\ p[i + 1] = b * x
    BY <2>1
  <2> HIDE DEF x
  <2>3. b * x >= x
    BY <2>2
  <2> QED  BY <2>1, <2>2, <2>3 DEF x
<1>2. /\ p[j] > v /\ (j = 1 \/ p[j - 1] <= v)
      /\ p[k] > v /\ (k = 1 \/ p[k - 1] <= v)
  BY DEF HasSize
<1> HIDE DEF p
<1>3. ASSUME NEW x \in Nat PROVE \A y \in Nat : p[x] <= p[x + y]
  <2> DEFINE S == {y \in Nat : p[x] <= p[x + y]}
  <2>1. 0 \in S
    BY <1>1
  <2>2. ASSUME NEW y \in Nat, y \in S PROVE y + 1 \in S
    <3>1. x + y \in Nat /\ x + (y + 1) = (x + y) + 1
      OBVIOUS
    <3>2. p[(x + y) + 1] >= p[x + y] /\ p[x + y] \in Nat /\ p[x] \in Nat
          /\ p[(x + y) + 1] \in Nat
      BY <1>1, <3>1
    <3> QED  BY <2>2, <3>1, <3>2
  <2> HIDE DEF S
  <2>3. Nat \subseteq S
    BY <2>1, <2>2, Induct
  <2> QED  BY <2>3 DEF S
<1>4. \A x, y \in Nat : x <= y => p[x] <= p[y]
  <2> SUFFICES ASSUME NEW x \in Nat, NEW y \in Nat, x <= y PROVE p[x] <= p[y]
    OBVIOUS
  <2>1. y - x \in Nat /\ x + (y - x) = y
    OBVIOUS
  <2>2. p[x] <= p[x + (y - x)]
    BY <1>3, <2>1
  <2> QED  BY <2>1, <2>2
<1>5. ~(j < k)
  <2> SUFFICES ASSUME j < k PROVE FALSE
    OBVIOUS
  <2>1. k - 1 \in Nat /\ j <= k - 1 /\ k # 1
    OBVIOUS
  <2>2. p[j] <= p[k - 1] /\ p[j] \in Nat /\ p[k - 1] \in Nat
    BY <1>1, <1>4, <2>1
  <2> QED  BY <1>2, <2>1, <2>2
<1>6. ~(k < j)
  <2> SUFFICES ASSUME k < j PROVE FALSE
    OBVIOUS
  <2>1. j - 1 \in Nat /\ k <= j - 1 /\ j # 1
    OBVIOUS
  <2>2. p[k] <= p[j - 1] /\ p[k] \in Nat /\ p[j - 1] \in Nat
    BY <1>1, <1>4, <2>1
  <2> QED  BY <1>2, <2>1, <2>2
<1> QED  BY <1>5, <1>6

\* A number has the size of its quotient and one digit.
LEMMA SizeStep ==
  ASSUME NEW b \in Nat, b >= 2, NEW v \in Nat
  PROVE  /\ v < b => HasSize(v, b, 1)
         /\ \A k \in Nat \ {0} : v >= b /\ HasSize(v \div b, b, k) => HasSize(v, b, k + 1)
<1> DEFINE p == Power(b)
<1>1. /\ p[0] = 1
      /\ \A k \in Nat : p[k + 1] = b * p[k] /\ p[k] \in Nat
  BY PowerFacts
<1> HIDE DEF p
<1>2. p[1] = b
  <2>1. p[0 + 1] = b * p[0]
    BY <1>1
  <2> QED  BY <1>1, <2>1
<1>3. v < b => HasSize(v, b, 1)
  BY <1>2 DEF HasSize, p
<1>4. ASSUME NEW k \in Nat \ {0}, v >= b, HasSize(v \div b, b, k) PROVE HasSize(v, b, k + 1)
  <2> DEFINE q == v \div b
  <2>1. q \in Nat /\ q >= 1 /\ v = b * q + (v % b) /\ v % b \in 0 .. b - 1
    BY <1>4, DivFacts
  <2>2. p[k] > q /\ (k = 1 \/ p[k - 1] <= q)
    BY <1>4 DEF HasSize, p
  <2> HIDE DEF q
  <2>3. p[k + 1] > v
    <3> DEFINE x == p[k]
    <3>1. x \in Nat /\ x > q /\ p[k + 1] = b * x
      BY <1>1, <2>2
    <3> HIDE DEF x
    <3>2. b * x >= b * (q + 1)
      BY <2>1, <3>1
    <3>3. b * (q + 1) = b * q + b /\ b * q \in Nat
      BY <2>1
    <3>4. b * x \in Nat
      BY <3>1
    <3> DEFINE y == b * x
               z == b * q
    <3>5. y >= z + b /\ y \in Nat /\ z \in Nat /\ v = z + (v % b) /\ p[k + 1] = y
      BY <2>1, <3>1, <3>2, <3>3, <3>4
    <3> HIDE DEF y, z
    <3> QED  BY <2>1, <3>5
  <2>4. p[(k + 1) - 1] <= v
    <3>1. CASE k = 1
      BY <1>2, <1>4, <3>1
    <3>2. CASE k # 1
      <4> DEFINE x == p[k - 1]
      <4>1. k - 1 \in Nat /\ (k - 1) + 1 = k
        BY <3>2
      <4>2. x \in Nat /\ x <= q /\ p[k] = b * x
        <5>1. p[(k - 1) + 1] = b * p[k - 1] /\ p[k - 1] \in Nat
          BY <1>1, <4>1
        <5> QED  BY <2>2, <3>2, <4>1, <5>1
      <4> HIDE DEF x
      <4>3. b * x <= b * q /\ b * x \in Nat /\ b * q \in Nat
        BY <2>1, <4>2
      <4> DEFINE y == b * x
                 z == b * q
      <4>4. p[k] = y /\ y <= z /\ y \in Nat /\ z \in Nat /\ v = z + (v % b)
        BY <2>1, <4>2, <4>3
      <4> HIDE DEF y, z
      <4>5. y <= v
        BY <2>1, <4>4
      <4> QED  BY <4>4, <4>5
    <3> QED  BY <3>1, <3>2
  <2> QED  BY <2>3, <2>4 DEF HasSize, p
<1> QED  BY <1>3, <1>4

\* Every number has a size, which is at most the number itself but for 0.
LEMMA SizeExists ==
  ASSUME NEW b \in Nat, b >= 2, NEW v \in Nat
  PROVE  \E k \in Nat \ {0} : HasSize(v, b, k) /\ (k = 1 \/ k <= v)
<1> DEFINE p == Power(b)
           T == {k \in Nat : p[k] > v}
<1>1. v \in T
  BY PowerFacts
<1>2. PICK m \in T : \A k \in T : m <= k
  <2>1. T \subseteq Nat /\ T # {}
    BY <1>1
  <2> HIDE DEF T
  <2> QED  BY <2>1, LeastNat
<1>3. m \in Nat /\ m <= v /\ p[m] > v
  BY <1>1, <1>2
<1>4. p[0] = 1 /\ \A k \in Nat : p[k] \in Nat
  BY PowerFacts
<1>5. CASE m = 0
  <2>1. v = 0
    BY <1>3, <1>4, <1>5
  <2>2. HasSize(v, b, 1)
    BY <2>1, SizeStep
  <2> QED  BY <2>2
<1>6. CASE m # 0
  <2>1. m - 1 \in Nat /\ m - 1 \notin T
    BY <1>2, <1>3, <1>6
  <2>2. p[m - 1] <= v
    <3>1. ~(p[m - 1] > v) /\ p[m - 1] \in Nat
      BY <1>4, <2>1
    <3> QED  BY <3>1
  <2>3. HasSize(v, b, m)
    BY <1>3, <2>2 DEF HasSize
  <2> QED  BY <1>3, <1>6, <2>3
<1> QED  BY <1>5, <1>6

Size(v, b) == CHOOSE k \in Nat \ {0} : HasSize(v, b, k)

LEMMA SizeFacts ==
  ASSUME NEW b \in Nat, b >= 2, NEW v \in Nat
  PROVE  /\ Size(v, b) \in Nat \ {0} /\ HasSize(v, b, Size(v, b))
         /\ Size(v, b) = 1 \/ Size(v, b) <= v
         /\ v < b => Size(v, b) = 1
         /\ v >= b => Size(v, b) = Size(v \div b, b) + 1
<1>1. PICK k \in Nat \ {0} : HasSize(v, b, k) /\ (k = 1 \/ k <= v)
  BY SizeExists
<1>2. Size(v, b) \in Nat \ {0} /\ HasSize(v, b, Size(v, b))
  BY <1>1 DEF Size
<1>3. Size(v, b) = k
  BY <1>1, <1>2, SizeUnique
<1>4. v < b => Size(v, b) = 1
  BY <1>2, SizeStep, SizeUnique
<1>5. ASSUME v >= b PROVE Size(v, b) = Size(v \div b, b) + 1
  <2>1. v \div b \in Nat
    BY DivFacts
  <2>2. PICK j \in Nat \ {0} : HasSize(v \div b, b, j)
    BY <2>1, SizeExists
  <2>3. Size(v \div b, b) \in Nat \ {0} /\ HasSize(v \div b, b, Size(v \div b, b))
    BY <2>2 DEF Size
  <2>4. HasSize(v, b, Size(v \div b, b) + 1)
    BY <1>5, <2>3, SizeStep
  <2>5. Size(v \div b, b) + 1 \in Nat \ {0}
    BY <2>3
  <2> QED  BY <1>2, <2>4, <2>5, SizeUnique
<1> QED  BY <1>1, <1>2, <1>3, <1>4, <1>5

\* The digit of v at place j from the end, counted from 0, and all of them.
Digit(v, b, j) == (v \div Power(b)[j]) % b
Form(v, b) == [i \in 1 .. Size(v, b) |-> Glyph(Digit(v, b, Size(v, b) - i))]

LEMMA DigitFacts ==
  ASSUME NEW b \in Nat, b >= 2, NEW v \in Nat
  PROVE  /\ Digit(v, b, 0) = v % b
         /\ \A j \in Nat : Digit(v, b, j + 1) = Digit(v \div b, b, j)
<1>1. Digit(v, b, 0) = v % b
  <2>1. v \div 1 = v
    OBVIOUS
  <2> QED  BY <2>1, PowerFacts DEF Digit
<1>2. ASSUME NEW j \in Nat PROVE Digit(v, b, j + 1) = Digit(v \div b, b, j)
  <2>1. Power(b)[j] \in Nat /\ Power(b)[j] > 0 /\ Power(b)[j + 1] = b * Power(b)[j]
    BY PowerFacts
  <2>2. (v \div b) \div Power(b)[j] = v \div (b * Power(b)[j])
    BY <2>1, DivTwice
  <2> QED  BY <2>1, <2>2 DEF Digit
<1> QED  BY <1>1, <1>2

LEMMA FormFacts ==
  ASSUME NEW b \in Nat, b >= 2, NEW v \in Nat
  PROVE  /\ v < b => Form(v, b) = <<Glyph(v)>>
         /\ v >= b => Form(v, b) = Append(Form(v \div b, b), Glyph(v % b))
         /\ Len(Form(v, b)) = Size(v, b)
<1>1. ASSUME v < b PROVE Form(v, b) = <<Glyph(v)>>
  <2>1. Size(v, b) = 1 /\ Digit(v, b, 0) = v % b /\ v % b = v
    BY <1>1, SizeFacts, DigitFacts, DivFacts
  <2>2. Form(v, b) = [i \in 1 .. 1 |-> Glyph(Digit(v, b, 1 - i))]
    BY <2>1 DEF Form
  <2>3. \A i \in 1 .. 1 : Digit(v, b, 1 - i) = v
    BY <2>1
  <2> QED  BY <2>2, <2>3
<1>2. ASSUME v >= b PROVE Form(v, b) = Append(Form(v \div b, b), Glyph(v % b))
  <2> DEFINE w == v \div b
             k == Size(w, b)
             f == Form(w, b)
             g == Append(f, Glyph(v % b))
  <2>1. w \in Nat /\ k \in Nat \ {0} /\ Size(v, b) = k + 1
    BY <1>2, DivFacts, SizeFacts
  <2>2. f = [i \in 1 .. k |-> Glyph(Digit(w, b, k - i))]
    BY DEF Form
  <2>3. Form(v, b) = [i \in 1 .. k + 1 |-> Glyph(Digit(v, b, k + 1 - i))]
    BY <2>1 DEF Form
  <2>4. /\ Digit(v, b, 0) = v % b
        /\ \A j \in Nat : Digit(v, b, j + 1) = Digit(w, b, j)
    BY DigitFacts
  <2> HIDE DEF w, k, f
  <2>5. Len(f) = k /\ DOMAIN f = 1 .. k
    BY <2>1, <2>2
  <2>6. g = [i \in 1 .. k + 1 |-> IF i = k + 1 THEN Glyph(v % b) ELSE f[i]]
    BY <2>5
  <2>7. ASSUME NEW i \in 1 .. k + 1
        PROVE  Glyph(Digit(v, b, k + 1 - i)) = IF i = k + 1 THEN Glyph(v % b) ELSE f[i]
    <3>1. CASE i = k + 1
      BY <2>1, <2>4, <3>1
    <3>2. CASE i # k + 1
      <4>1. i \in 1 .. k /\ k - i \in Nat /\ k + 1 - i = (k - i) + 1
        BY <2>1, <3>2
      <4>2. Digit(v, b, k + 1 - i) = Digit(w, b, k - i)
        BY <2>4, <4>1
      <4>3. f[i] = Glyph(Digit(w, b, k - i))
        BY <2>2, <4>1
      <4> QED  BY <3>2, <4>2, <4>3
    <3> QED  BY <3>1, <3>2
  <2>8. Form(v, b) = g
    BY <2>3, <2>6, <2>7
  <2> QED  BY <2>8 DEF f, w
<1>3. Len(Form(v, b)) = Size(v, b)
  <2>1. Size(v, b) \in Nat
    BY SizeFacts
  <2> HIDE DEF Form
  <2> QED  BY <2>1 DEF Form
<1> QED  BY <1>1, <1>2, <1>3

\* The loop of number() finds these digits.
LEMMA DigitsAreForm ==
  ASSUME NEW b \in Nat, b >= 2, NEW v \in Nat
  PROVE  DigitsOf(v, b) = Form(v, b)
<1> DEFINE Is(f) == f = [x \in Nat |-> IF x < b THEN <<Glyph(x)>>
                                        ELSE Append(f[x \div b], Glyph(x % b))]
           f == CHOOSE g : Is(g)
           h == [x \in Nat |-> Form(x, b)]
<1>1. DigitsOf(v, b) = f[v]
  BY DEF DigitsOf
<1>2. Is(h)
  <2>1. /\ h = [x \in Nat |-> h[x]]
        /\ \A x \in Nat : h[x] = Form(x, b)
    OBVIOUS
  <2> HIDE DEF h
  <2>2. ASSUME NEW x \in Nat
        PROVE  h[x] = IF x < b THEN <<Glyph(x)>> ELSE Append(h[x \div b], Glyph(x % b))
    <3>1. x \div b \in Nat
      BY DivFacts
    <3>2. h[x \div b] = Form(x \div b, b)
      BY <2>1, <3>1
    <3>3. Form(x, b) = IF x < b THEN <<Glyph(x)>> ELSE Append(Form(x \div b, b), Glyph(x % b))
      <4>1. x < b \/ x >= b
        OBVIOUS
      <4> QED  BY <4>1, FormFacts
    <3> QED  BY <2>1, <3>2, <3>3
  <2> QED  BY <2>1, <2>2
<1>3. Is(f)
  <2> HIDE DEF Is, h
  <2> QED  BY <1>2
<1>4. \A x \in Nat : f[x] = IF x < b THEN <<Glyph(x)>> ELSE Append(f[x \div b], Glyph(x % b))
  <2> HIDE DEF f
  <2> QED  BY <1>3
<1> HIDE DEF f
<1> DEFINE T == {x \in Nat : f[x] # Form(x, b)}
<1>5. T = {}
  <2> SUFFICES ASSUME T # {} PROVE FALSE
    OBVIOUS
  <2>1. PICK x \in T : \A y \in T : x <= y
    <3>1. T \subseteq Nat
      OBVIOUS
    <3> HIDE DEF T
    <3> QED  BY <3>1, LeastNat
  <2>2. CASE x < b
    BY <1>4, <2>1, <2>2, FormFacts
  <2>3. CASE x >= b
    <3>1. x \in Nat /\ x \div b \in Nat /\ x \div b < x
      BY <2>3, DivFacts
    <3>2. x \div b \notin T
      BY <2>1, <3>1
    <3>3. f[x \div b] = Form(x \div b, b)
      BY <3>1, <3>2
    <3>4. f[x] = Append(f[x \div b], Glyph(x % b))
      <4>1. ~(x < b)
        BY <2>3, <3>1
      <4> QED  BY <1>4, <3>1, <4>1
    <3>5. Form(x, b) = Append(Form(x \div b, b), Glyph(x % b))
      BY <2>3, <3>1, FormFacts
    <3> QED  BY <3>3, <3>4, <3>5
  <2>4. x \in Nat
    OBVIOUS
  <2> QED  BY <2>2, <2>3, <2>4
<1> QED  BY <1>1, <1>5

LEMMA LargerOf ==
  ASSUME NEW a \in Nat, NEW b \in Nat
  PROVE  Max({a, b}) = IF a >= b THEN a ELSE b
<1> DEFINE m == IF a >= b THEN a ELSE b
<1>1. m \in {a, b} /\ \A y \in {a, b} : m >= y
  OBVIOUS
<1>2. \A x \in {a, b} : (\A y \in {a, b} : x >= y) => x = m
  OBVIOUS
<1> HIDE DEF m
<1> QED  BY <1>1, <1>2 DEF Max, m

\* The digits of a value, in k places.
Padded(v, b, k) ==
  [i \in 1 .. k |-> IF k - i >= Size(v, b) THEN Zero ELSE Glyph(Digit(v, b, k - i))]

LEMMA FormIsPadded ==
  ASSUME NEW b \in Nat, b >= 2, NEW v \in Nat
  PROVE  Form(v, b) = Padded(v, b, Size(v, b))
<1>1. Size(v, b) \in Nat \ {0}
  BY SizeFacts
<1>2. ASSUME NEW i \in 1 .. Size(v, b) PROVE ~(Size(v, b) - i >= Size(v, b))
  BY <1>1
<1> QED  BY <1>2 DEF Form, Padded

LEMMA NumeralIs ==
  ASSUME NEW b \in Nat, b >= 2, NEW v \in 0 .. WORD, NEW width \in Nat
  PROVE  Numeral(v, b, width) = Padded(v, b, IF width >= Size(v, b) THEN width ELSE Size(v, b))
<1> DEFINE least == CHOOSE k \in 1 .. WORD : HasSize(v, b, k)
           size == Size(v, b)
<1>0. WORD \in Nat /\ WORD > 0 /\ v \in Nat
  BY FormatAssumption
<1>1. size \in 1 .. WORD /\ HasSize(v, b, size)
  <2>1. size \in Nat \ {0} /\ HasSize(v, b, size) /\ (size = 1 \/ size <= v)
    BY <1>0, SizeFacts
  <2> HIDE DEF size
  <2> QED  BY <1>0, <2>1
<1>2. least \in 1 .. WORD /\ HasSize(v, b, least)
  <2> HIDE DEF size
  <2> QED  BY <1>1
<1>3. least = size
  <2>1. least \in Nat \ {0} /\ size \in Nat \ {0}
    BY <1>0, <1>1, <1>2
  <2> HIDE DEF least, size
  <2> QED  BY <1>0, <1>1, <1>2, <2>1, SizeUnique
<1> DEFINE k == Max({width, least})
<1>4. Numeral(v, b, width) =
        [i \in 1 .. k |-> IF k - i >= least THEN Zero ELSE Glyph((v \div Power(b)[k - i]) % b)]
  BY DEF Numeral
<1> HIDE DEF least
<1>5. k = IF width >= size THEN width ELSE size
  BY <1>0, <1>1, <1>3, LargerOf
<1> HIDE DEF k
<1> QED  BY <1>3, <1>4, <1>5 DEF Padded, Digit

LEMMA FormIsText ==
  ASSUME NEW b \in 2 .. 16, NEW v \in Nat
  PROVE  Form(v, b) \in Seq(Nat) /\ \A i \in 1 .. Len(Form(v, b)) :
           \E digit \in 0 .. b - 1 : Form(v, b)[i] = Glyph(digit)
<1>1. Size(v, b) \in Nat \ {0} /\ Len(Form(v, b)) = Size(v, b)
  BY SizeFacts, FormFacts
<1>2. ASSUME NEW i \in 1 .. Size(v, b)
      PROVE  Digit(v, b, Size(v, b) - i) \in 0 .. b - 1
  <2> DEFINE j == Size(v, b) - i
             p == Power(b)[j]
  <2>1. p \in Nat /\ p > 0
    <3>1. j \in Nat
      BY <1>1
    <3> HIDE DEF j
    <3> QED  BY <3>1, PowerFacts
  <2> HIDE DEF p
  <2>2. v \div p \in Nat
    BY <2>1
  <2>3. (v \div p) % b \in 0 .. b - 1
    BY <2>2
  <2> QED  BY <2>3 DEF Digit, p
<1>3. \A digit \in 0 .. b - 1 : Glyph(digit) \in Nat
  BY DEF Glyph, Zero
<1> DEFINE f == Form(v, b)
<1>4. f = [i \in 1 .. Size(v, b) |-> Glyph(Digit(v, b, Size(v, b) - i))]
  BY DEF Form
<1> HIDE DEF f
<1>5. \A i \in 1 .. Size(v, b) : \E digit \in 0 .. b - 1 : f[i] = Glyph(digit)
  BY <1>2, <1>4
<1>6. f \in [1 .. Size(v, b) -> Nat]
  BY <1>2, <1>3, <1>4
<1>7. f \in Seq(Nat)
  BY <1>1, <1>6
<1> QED  BY <1>1, <1>5, <1>7 DEF f

-----------------------------------------------------------------------------
(***************************************************************************)
(* number() is what its callers are promised.                              *)
(***************************************************************************)
Words == 0 .. WORD - 1
Numeric == {ConvD, ConvU, ConvX}

LEMMA NumberForms ==
  ASSUME NEW word \in Words, NEW conv \in Numeric
  PROVE  /\ Magnitude(word, conv) \in 0 .. WORD
         /\ Negative(word, conv) =>
              conv = ConvD /\ Signed(word) < 0 /\ Magnitude(word, conv) = -Signed(word)
         /\ ~Negative(word, conv) =>
              /\ Magnitude(word, conv) = word
              /\ conv = ConvD => ~(Signed(word) < 0) /\ Signed(word) = word
         /\ number(word, conv) =
              (IF Negative(word, conv) THEN <<Minus>> ELSE <<>>)
                \o Form(Magnitude(word, conv), Base(conv))
<1>1. WORD \in Nat /\ WORD % 2 = 0 /\ WORD > 0 /\ word \in 0 .. WORD - 1
  BY FormatAssumption DEF Words
<1>2. /\ Negative(word, conv) => conv = ConvD /\ word >= WORD \div 2 /\ Signed(word) = word - WORD
      /\ ~Negative(word, conv) /\ conv = ConvD => Signed(word) = word /\ ~(Signed(word) < 0)
  BY <1>1 DEF Negative, Signed
<1>3. WORD \div 2 >= 1
  BY <1>1
<1>4. Negative(word, conv) => (WORD - word) % WORD = WORD - word
  <2> SUFFICES ASSUME Negative(word, conv) PROVE (WORD - word) % WORD = WORD - word
    OBVIOUS
  <2> DEFINE x == WORD - word
  <2>1. x \in 0 .. WORD - 1
    BY <1>1, <1>2, <1>3
  <2> HIDE DEF x
  <2>2. x % WORD = x
    BY <1>1, <2>1
  <2> QED  BY <2>2 DEF x
<1>5. /\ Magnitude(word, conv) \in 0 .. WORD
      /\ Negative(word, conv) => Magnitude(word, conv) = WORD - word
      /\ ~Negative(word, conv) => Magnitude(word, conv) = word
  BY <1>1, <1>4 DEF Magnitude
<1>6. Negative(word, conv) => Signed(word) < 0 /\ WORD - word = -Signed(word)
  BY <1>1, <1>2
<1>7. DigitsOf(Magnitude(word, conv), Base(conv)) = Form(Magnitude(word, conv), Base(conv))
  <2>1. Base(conv) \in Nat /\ Base(conv) >= 2 /\ Magnitude(word, conv) \in Nat
    BY <1>1, <1>5 DEF Base
  <2> QED  BY <2>1, DigitsAreForm
<1> QED  BY <1>2, <1>5, <1>6, <1>7 DEF number

LEMMA NumberIsText ==
  ASSUME NEW word \in Words, NEW conv \in Numeric
  PROVE  number(word, conv) \in Seq(Nat)
<1> DEFINE f == Form(Magnitude(word, conv), Base(conv))
<1>1. f \in Seq(Nat)
  <2>1. Base(conv) \in 2 .. 16 /\ Magnitude(word, conv) \in Nat
    BY NumberForms, FormatAssumption DEF Base
  <2> QED  BY <2>1, FormIsText
<1> HIDE DEF f
<1>2. <<Minus>> \in Seq(Nat) /\ <<>> \in Seq(Nat)
  BY DEF Minus
<1>3. number(word, conv) = (IF Negative(word, conv) THEN <<Minus>> ELSE <<>>) \o f
  BY NumberForms DEF f
<1> QED  BY <1>1, <1>2, <1>3, ConcatProperties

\* Without a width.
LEMMA NumbersAreRight ==
  ASSUME NEW q, q.word \in Words, q.conv \in Numeric, q.conv = ConvX => q.width = 0
  PROVE  number(q.word, q.conv) = Promised(q)
<1> DEFINE word == q.word
           conv == q.conv
           m == Magnitude(word, conv)
<1>1. /\ m \in 0 .. WORD /\ m \in Nat /\ Base(conv) \in Nat /\ Base(conv) >= 2
  BY NumberForms, FormatAssumption DEF Base
<1>2. Numeral(m, Base(conv), 0) = Form(m, Base(conv))
  <2>1. Size(m, Base(conv)) \in Nat \ {0}
    BY <1>1, SizeFacts
  <2>2. (IF 0 >= Size(m, Base(conv)) THEN 0 ELSE Size(m, Base(conv))) = Size(m, Base(conv))
    BY <2>1
  <2> HIDE DEF m, conv
  <2> QED  BY <1>1, <2>2, NumeralIs, FormIsPadded
<1>3. Form(m, Base(conv)) \in Seq(Nat)
  <2>1. Base(conv) \in 2 .. 16
    BY DEF Base
  <2> QED  BY <1>1, <2>1, FormIsText
<1>4. <<>> \o Form(m, Base(conv)) = Form(m, Base(conv))
  <2> HIDE DEF m
  <2> QED  BY <1>3, ConcatEmptySeq
<1>5. CASE Negative(word, conv)
  <2>1. conv = ConvD /\ Signed(word) < 0 /\ m = -Signed(word)
    BY <1>5, NumberForms
  <2>2. number(word, conv) = <<Minus>> \o Form(m, Base(conv))
    BY <1>5, NumberForms
  <2>3. Base(conv) = 10
    BY <2>1 DEF Base, ConvD, ConvX
  <2>4. Promised(q) = <<Minus>> \o Numeral(-Signed(word), 10, 0)
    BY <2>1 DEF Promised, ConvC, ConvS, ConvU, ConvX, ConvD
  <2> HIDE DEF m
  <2> QED  BY <1>2, <2>1, <2>2, <2>3, <2>4
<1>6. CASE ~Negative(word, conv)
  <2>1. number(word, conv) = Form(m, Base(conv))
    BY <1>4, <1>6, NumberForms
  <2>2. m = word /\ (conv = ConvD => ~(Signed(word) < 0) /\ Signed(word) = word)
    BY <1>6, NumberForms
  <2>3. Promised(q) = Numeral(word, Base(conv), 0)
    <3>1. CASE conv = ConvD
      BY <2>2, <3>1 DEF Promised, Base, ConvC, ConvS, ConvU, ConvX, ConvD
    <3>2. CASE conv = ConvU
      BY <3>2 DEF Promised, Base, ConvC, ConvS, ConvU, ConvX, ConvD
    <3>3. CASE conv = ConvX
      BY <3>3 DEF Promised, Base, ConvC, ConvS, ConvU, ConvX, ConvD
    <3> QED  BY <3>1, <3>2, <3>3 DEF Numeric
  <2> HIDE DEF m
  <2> QED  BY <1>2, <2>1, <2>2, <2>3
<1> QED  BY <1>5, <1>6

\* With one.
LEMMA FilledNumbersAreRight ==
  ASSUME NEW q, q.word \in Words, q.conv \in Numeric, q.width \in Nat, fill_zero = q.width
  PROVE  number_filled(q.word, q.conv) = Promised(q)
<1> DEFINE text == number(q.word, q.conv)
           fill == Fill(q.conv)
           k == Max({fill, Len(text)})
           zeros == k - Len(text)
<1>1. number_filled(q.word, q.conv)
        = [i \in 1 .. k |-> IF i <= zeros THEN Zero ELSE text[i - zeros]]
  BY DEF number_filled
<1>2. text \in Seq(Nat) /\ Len(text) \in Nat /\ text = [i \in 1 .. Len(text) |-> text[i]]
  <2>1. text \in Seq(Nat)
    BY NumberIsText
  <2> HIDE DEF text
  <2> QED  BY <2>1
<1>3. fill \in Nat /\ fill = IF q.conv = ConvX THEN q.width ELSE 0
  BY DEF Fill
<1>4. CASE q.conv # ConvX
  <2>1. text = Promised(q)
    BY <1>4, NumbersAreRight
  <2>2. k = Len(text)
    <3> HIDE DEF text, fill
    <3>1. fill = 0
      BY <1>3, <1>4
    <3> QED  BY <1>2, <3>1, LargerOf
  <2>3. zeros = 0
    BY <1>2, <2>2
  <2> HIDE DEF text, k, zeros
  <2>4. [i \in 1 .. k |-> IF i <= zeros THEN Zero ELSE text[i - zeros]]
          = [i \in 1 .. Len(text) |-> text[i]]
    BY <1>2, <2>2, <2>3
  <2> QED  BY <1>1, <1>2, <2>1, <2>4
<1>5. CASE q.conv = ConvX
  <2> DEFINE v == q.word
             size == Size(v, 16)
  <2>1. v \in Nat /\ v \in 0 .. WORD
    BY FormatAssumption DEF Words
  <2>2. size \in Nat \ {0}
    BY <2>1, SizeFacts
  <2>3. text = Form(v, 16)
    <3>1. ~Negative(v, ConvX)
      BY DEF Negative, ConvX, ConvD
    <3>2. Magnitude(v, ConvX) = v /\ Base(ConvX) = 16
      BY <3>1 DEF Magnitude, Base
    <3>3. text = <<>> \o Form(v, 16)
      BY <1>5, <3>1, <3>2, NumberForms
    <3>4. Form(v, 16) \in Seq(Nat)
      <4>1. 16 \in 2 .. 16
        OBVIOUS
      <4> QED  BY <2>1, <4>1, FormIsText
    <3> QED  BY <3>3, <3>4, ConcatEmptySeq
  <2>4. Len(text) = size
    BY <2>1, <2>3, FormFacts
  <2>5. Promised(q) = Numeral(v, 16, q.width)
    BY <1>5 DEF Promised, ConvC, ConvS, ConvU, ConvX, ConvD
  <2> DEFINE K == IF q.width >= size THEN q.width ELSE size
  <2>6. Promised(q) = Padded(v, 16, K)
    BY <2>1, <2>5, NumeralIs
  <2>7. k = K
    <3> HIDE DEF text, fill, size
    <3>1. fill = q.width
      BY <1>3, <1>5
    <3> QED  BY <1>2, <2>2, <2>4, <3>1, LargerOf
  <2>8. K \in Nat /\ K >= size /\ zeros = K - size
    BY <2>2, <2>4, <2>7
  <2>9. \A i \in 1 .. size : text[i] = Glyph(Digit(v, 16, size - i))
    <3> HIDE DEF text
    <3> QED  BY <2>3 DEF Form
  <2> HIDE DEF text, k, zeros, K, size, v
  <2>10. ASSUME NEW i \in 1 .. K
         PROVE  (IF i <= zeros THEN Zero ELSE text[i - zeros])
                  = IF K - i >= size THEN Zero ELSE Glyph(Digit(v, 16, K - i))
    <3>1. CASE i <= zeros
      BY <2>2, <2>8, <3>1
    <3>2. CASE ~(i <= zeros)
      <4>1. i - zeros \in 1 .. size /\ size - (i - zeros) = K - i /\ ~(K - i >= size)
        BY <2>2, <2>8, <3>2
      <4>2. text[i - zeros] = Glyph(Digit(v, 16, size - (i - zeros)))
        BY <2>9, <4>1
      <4> QED  BY <3>2, <4>1, <4>2
    <3> QED  BY <3>1, <3>2
  <2>11. [i \in 1 .. K |-> IF i <= zeros THEN Zero ELSE text[i - zeros]] = Padded(v, 16, K)
    BY <2>10 DEF Padded, size
  <2> QED  BY <1>1, <2>6, <2>7, <2>11
<1> QED  BY <1>4, <1>5

-----------------------------------------------------------------------------
(***************************************************************************)
(* The digits of a width, read from left to right.                         *)
(***************************************************************************)
\* The value of the first j of them.
Read(width, j) == width \div Power(10)[Len(WidthChars(width)) - j]

LEMMA WidthIsText ==
  ASSUME NEW width \in Nat
  PROVE  /\ WidthChars(width) \in Seq(Nat) /\ Len(WidthChars(width)) \in Nat
         /\ width = 0 => WidthChars(width) = <<>>
         /\ width # 0 => WidthChars(width) = Form(width, 10)
<1>1. DigitsOf(width, 10) = Form(width, 10) /\ Form(width, 10) \in Seq(Nat)
  BY DigitsAreForm, FormIsText
<1>2. WidthChars(width) \in Seq(Nat)
  BY <1>1 DEF WidthChars
<1> QED  BY <1>1, <1>2 DEF WidthChars

LEMMA WidthIsRead ==
  ASSUME NEW width \in Nat
  PROVE  /\ Read(width, 0) = 0
         /\ Read(width, Len(WidthChars(width))) = width
         /\ \A j \in 0 .. Len(WidthChars(width)) : Read(width, j) \in Nat
         /\ \A j \in 1 .. Len(WidthChars(width)) :
              /\ WidthChars(width)[j] \in Zero .. Zero + 9
              /\ Read(width, j) = Read(width, j - 1) * 10 + WidthChars(width)[j] - Zero
<1> DEFINE len == Len(WidthChars(width))
           p == Power(10)
<1>1. len \in Nat
  BY WidthIsText
<1>2. p[0] = 1 /\ \A k \in Nat : p[k] \in Nat /\ p[k] > 0 /\ p[k + 1] = 10 * p[k]
  BY PowerFacts
<1>3. \A j \in 0 .. len : Read(width, j) = width \div p[len - j]
  BY DEF Read
<1>4. width # 0 => /\ len = Size(width, 10)
                   /\ \A j \in 1 .. len :
                        WidthChars(width)[j] = Glyph((width \div p[len - j]) % 10)
  <2> SUFFICES ASSUME width # 0
               PROVE  /\ len = Size(width, 10)
                      /\ \A j \in 1 .. len :
                           WidthChars(width)[j] = Glyph((width \div p[len - j]) % 10)
    OBVIOUS
  <2>1. WidthChars(width) = Form(width, 10)
    BY WidthIsText
  <2>2. len = Size(width, 10)
    BY <2>1, FormFacts
  <2> HIDE DEF len
  <2>3. WidthChars(width) = [j \in 1 .. len |-> Glyph((width \div p[len - j]) % 10)]
    BY <2>1, <2>2 DEF Form, Digit
  <2> QED  BY <2>2, <2>3
<1>5. Read(width, 0) = 0
  <2>1. CASE width = 0
    <3>1. len - 0 \in Nat /\ 0 \in 0 .. len
      BY <1>1
    <3> HIDE DEF len, p
    <3>2. p[len - 0] \in Nat /\ p[len - 0] > 0
      BY <1>2, <3>1
    <3>3. 0 \div p[len - 0] = 0
      BY <3>2
    <3> QED  BY <1>3, <2>1, <3>1, <3>3
  <2>2. CASE width # 0
    <3>1. HasSize(width, 10, len)
      BY <1>4, <2>2, SizeFacts
    <3>2. p[len] > width
      BY <3>1 DEF HasSize
    <3> HIDE DEF len, p
    <3>3. p[len] \in Nat /\ len - 0 = len /\ 0 \in 0 .. len
      BY <1>1, <1>2
    <3> DEFINE x == p[len]
    <3>4. x \in Nat /\ x > width
      BY <3>2, <3>3
    <3> HIDE DEF x
    <3>5. width \div x = 0
      BY <3>4
    <3> QED  BY <1>3, <3>3, <3>5 DEF x
  <2> QED  BY <2>1, <2>2
<1>6. Read(width, len) = width
  <2> HIDE DEF len, p
  <2>1. len - len = 0 /\ len \in 0 .. len /\ width \div 1 = width
    BY <1>1
  <2> QED  BY <1>2, <1>3, <2>1
<1>7. \A j \in 0 .. len : Read(width, j) \in Nat
  <2> SUFFICES ASSUME NEW j \in 0 .. len PROVE Read(width, j) \in Nat
    OBVIOUS
  <2> HIDE DEF len, p
  <2>1. len - j \in Nat
    BY <1>1
  <2> DEFINE x == p[len - j]
  <2>2. x \in Nat /\ x > 0
    BY <1>2, <2>1
  <2> HIDE DEF x
  <2>3. width \div x \in Nat
    BY <2>2
  <2> QED  BY <1>3, <2>3 DEF x
<1>8. ASSUME NEW j \in 1 .. len
      PROVE  /\ WidthChars(width)[j] \in Zero .. Zero + 9
             /\ Read(width, j) = Read(width, j - 1) * 10 + WidthChars(width)[j] - Zero
  <2>1. width # 0
    <3> SUFFICES ASSUME width = 0 PROVE FALSE
      OBVIOUS
    <3>1. len = 0
      BY WidthIsText
    <3> QED  BY <3>1
  <2> HIDE DEF len, p
  <2>2. len - j \in Nat /\ j \in 0 .. len /\ j - 1 \in 0 .. len /\ len - (j - 1) = (len - j) + 1
    BY <1>1
  <2> DEFINE x == p[len - j]
             y == width \div x
  <2>3. x \in Nat /\ x > 0 /\ p[len - (j - 1)] = 10 * x
    BY <1>2, <2>2
  <2>4. WidthChars(width)[j] = Glyph(y % 10)
    BY <1>4, <2>1
  <2>5. Read(width, j) = y /\ Read(width, j - 1) = width \div (10 * x)
    BY <1>3, <2>2, <2>3
  <2> HIDE DEF x
  <2>6. y \in Nat /\ y \div 10 = width \div (10 * x)
    <3>1. 10 \in Nat /\ 10 >= 2
      OBVIOUS
    <3>2. (width \div x) \div 10 = width \div (10 * x)
      BY <2>3, <3>1, DivMore
    <3>3. width \div x \in Nat
      BY <2>3
    <3> QED  BY <3>2, <3>3
  <2> HIDE DEF y
  <2>7. y % 10 \in 0 .. 9 /\ y = (y \div 10) * 10 + (y % 10)
    BY <2>6
  <2>8. Glyph(y % 10) = Zero + (y % 10)
    BY <2>7 DEF Glyph
  <2>9. WidthChars(width)[j] = Zero + (y % 10) /\ Zero \in Nat
    BY <2>4, <2>8 DEF Zero
  <2> DEFINE r == y % 10
             t == y \div 10
  <2>10. /\ r \in 0 .. 9 /\ t \in Nat /\ y = t * 10 + r /\ WidthChars(width)[j] = Zero + r
         /\ Read(width, j) = y /\ Read(width, j - 1) = t
    BY <2>5, <2>6, <2>7, <2>9
  <2> HIDE DEF r, t
  <2> QED  BY <2>9, <2>10
<1> QED  BY <1>5, <1>6, <1>7, <1>8

-----------------------------------------------------------------------------
(***************************************************************************)
(* The texts of a list of conversions, one after the other.                *)
(***************************************************************************)
\* The function in the definition of FlattenSeq, for the first k sequences.
Flattens(parts, f, k) ==
  f = [i \in 1 .. k |-> IF i = 1 THEN parts[i] ELSE f[i - 1] \o parts[i]]

LEMMA FlattenExists ==
  ASSUME NEW parts, NEW m \in Nat
  PROVE  \E f : Flattens(parts, f, m)
<1> DEFINE S == {k \in Nat : \E f : Flattens(parts, f, k)}
<1>1. 0 \in S
  <2> DEFINE f == [i \in 1 .. 0 |-> parts[i]]
  <2>1. f = [i \in 1 .. 0 |-> IF i = 1 THEN parts[i] ELSE f[i - 1] \o parts[i]]
    OBVIOUS
  <2>2. Flattens(parts, f, 0)
    BY <2>1 DEF Flattens
  <2> QED  BY <2>2
<1>2. ASSUME NEW k \in Nat, k \in S PROVE k + 1 \in S
  <2>1. PICK f : Flattens(parts, f, k)
    BY <1>2
  <2> DEFINE g == [i \in 1 .. k + 1 |->
                     IF i <= k THEN f[i]
                     ELSE IF i = 1 THEN parts[i] ELSE f[i - 1] \o parts[i]]
  <2>2. /\ DOMAIN g = 1 .. k + 1
        /\ g = [i \in 1 .. k + 1 |-> g[i]]
    OBVIOUS
  <2>3. ASSUME NEW i \in 1 .. k + 1
        PROVE  g[i] = IF i = 1 THEN parts[i] ELSE g[i - 1] \o parts[i]
    <3>1. ASSUME i # 1 PROVE i - 1 \in 1 .. k + 1 /\ g[i - 1] = f[i - 1]
      <4>1. i - 1 \in 1 .. k + 1 /\ i - 1 <= k
        BY <3>1
      <4> QED  BY <4>1
    <3>2. CASE i <= k
      <4>1. i \in 1 .. k
        BY <3>2
      <4>2. f[i] = IF i = 1 THEN parts[i] ELSE f[i - 1] \o parts[i]
        BY <2>1, <4>1 DEF Flattens
      <4>3. g[i] = f[i]
        BY <3>2
      <4> HIDE DEF g
      <4> QED  BY <3>1, <4>2, <4>3
    <3>3. CASE ~(i <= k)
      <4>1. g[i] = IF i = 1 THEN parts[i] ELSE f[i - 1] \o parts[i]
        BY <3>3
      <4> HIDE DEF g
      <4> QED  BY <3>1, <4>1
    <3> QED  BY <3>2, <3>3
  <2> HIDE DEF g
  <2>4. Flattens(parts, g, k + 1)
    BY <2>2, <2>3 DEF Flattens
  <2> QED  BY <2>4
<1> HIDE DEF S
<1>3. m \in S
  BY <1>1, <1>2, Induct
<1> QED  BY <1>3 DEF S

LEMMA FlattenIs ==
  ASSUME NEW parts, Len(parts) \in Nat, Len(parts) # 0
  PROVE  \E f : Flattens(parts, f, Len(parts)) /\ FlattenSeq(parts) = f[Len(parts)]
<1> DEFINE Is(g) == g = [i \in 1 .. Len(parts) |->
                           IF i = 1 THEN parts[i] ELSE g[i - 1] \o parts[i]]
           f == CHOOSE g : Is(g)
<1>1. FlattenSeq(parts) = f[Len(parts)]
  BY DEF FlattenSeq
<1>2. \E g : Is(g)
  BY FlattenExists DEF Flattens
<1>3. Is(f)
  BY <1>2
<1> HIDE DEF f
<1> QED  BY <1>1, <1>3 DEF Flattens

LEMMA Associative ==
  ASSUME NEW T, NEW x \in Seq(T), NEW y \in Seq(T), NEW z \in Seq(T)
  PROVE  (x \o y) \o z = x \o (y \o z)
<1> DEFINE l == (x \o y) \o z
           r == x \o (y \o z)
<1>1. x \o y \in Seq(T) /\ y \o z \in Seq(T)
  BY ConcatProperties
<1>2. l \in Seq(T) /\ r \in Seq(T)
  BY <1>1, ConcatProperties
<1>3. Len(l) = Len(r)
  BY <1>1
<1>4. \A i \in 1 .. Len(l) : l[i] = r[i]
  BY <1>1
<1> HIDE DEF l, r
<1>5. l = r
  BY <1>2, <1>3, <1>4, SeqEqual
<1> QED  BY <1>5 DEF l, r

LEMMA TextsJoin == \A x, y, z \in Seq(Nat) : (x \o y) \o z = x \o (y \o z)
<1> TAKE x, y, z \in Seq(Nat)
<1> DEFINE l == (x \o y) \o z
           r == x \o (y \o z)
<1>1. x \o y \in Seq(Nat) /\ y \o z \in Seq(Nat)
  BY ConcatProperties
<1>2. l \in Seq(Nat) /\ r \in Seq(Nat)
  BY <1>1, ConcatProperties
<1>3. Len(l) = Len(r)
  BY <1>1
<1>4. \A i \in 1 .. Len(l) : l[i] = r[i]
  BY <1>1
<1> HIDE DEF l, r
<1>5. l = r
  BY <1>2, <1>3, <1>4, SeqEqual
<1> QED  BY <1>5 DEF l, r

\* The first sequence, and the others behind it.
LEMMA FlattenFirst ==
  ASSUME NEW T, NEW parts \in Seq(Seq(T)), parts # <<>>
  PROVE  /\ FlattenSeq(parts) = parts[1] \o FlattenSeq(Tail(parts))
         /\ FlattenSeq(parts) \in Seq(T) /\ FlattenSeq(Tail(parts)) \in Seq(T)
<1> DEFINE k == Len(parts)
           rest == Tail(parts)
<1>1. /\ k \in Nat /\ k >= 1 /\ Len(rest) = k - 1 /\ rest \in Seq(Seq(T))
      /\ \A i \in 1 .. k : parts[i] \in Seq(T)
      /\ \A i \in 1 .. k - 1 : rest[i] = parts[i + 1]
  BY HeadTailProperties
<1>2. PICK f : Flattens(parts, f, k) /\ FlattenSeq(parts) = f[k]
  BY <1>1, FlattenIs
<1> HIDE DEF k
<1>3. \A i \in 1 .. k : f[i] = IF i = 1 THEN parts[i] ELSE f[i - 1] \o parts[i]
  BY <1>2 DEF Flattens
<1>4. f[1] = parts[1] /\ parts[1] \in Seq(T)
  BY <1>1, <1>3
<1>5. CASE k = 1
  <2>1. rest = <<>>
    <3>1. rest \in Seq(Seq(T)) /\ Len(rest) = 0
      BY <1>1, <1>5
    <3> HIDE DEF rest
    <3> QED  BY <3>1
  <2>2. FlattenSeq(rest) = <<>>
    <3> HIDE DEF rest
    <3> QED  BY <2>1 DEF FlattenSeq
  <2>3. parts[1] \o <<>> = parts[1] /\ <<>> \in Seq(T)
    BY <1>4, ConcatEmptySeq
  <2>4. FlattenSeq(parts) = parts[1]
    BY <1>2, <1>4, <1>5
  <2> QED  BY <1>4, <2>2, <2>3, <2>4
<1>6. CASE k # 1
  <2>1. k - 1 \in Nat /\ k - 1 # 0
    BY <1>1, <1>6
  <2>2. PICK g : Flattens(rest, g, k - 1) /\ FlattenSeq(rest) = g[k - 1]
    <3> HIDE DEF rest
    <3>1. Len(rest) \in Nat /\ Len(rest) # 0
      BY <1>1, <2>1
    <3> QED  BY <1>1, <3>1, FlattenIs
  <2> HIDE DEF rest
  <2>3. \A i \in 1 .. k - 1 : g[i] = IF i = 1 THEN rest[i] ELSE g[i - 1] \o rest[i]
    BY <2>2 DEF Flattens
  <2> DEFINE S == {i \in Nat : i + 1 <= k - 1 =>
                     g[i + 1] \in Seq(T) /\ f[i + 2] = parts[1] \o g[i + 1]}
  <2>4. 0 \in S
    <3>1. 1 \in 1 .. k - 1 /\ 2 \in 1 .. k /\ 2 # 1 /\ 2 - 1 = 1 /\ 1 + 1 = 2
      BY <1>1, <2>1
    <3>2. g[1] = rest[1]
      BY <2>3, <3>1
    <3>3. rest[1] = parts[2]
      BY <1>1, <3>1
    <3>4. f[2] = f[1] \o parts[2]
      BY <1>3, <3>1
    <3>5. g[1] \in Seq(T) /\ f[2] = parts[1] \o g[1]
      BY <1>1, <1>4, <3>1, <3>2, <3>3, <3>4
    <3>6. 0 + 1 = 1 /\ 0 + 2 = 2 /\ 0 \in Nat
      OBVIOUS
    <3> QED  BY <3>5, <3>6
  <2>5. ASSUME NEW i \in Nat, i \in S PROVE i + 1 \in S
    <3>0. i + 1 \in Nat
      OBVIOUS
    <3> SUFFICES ASSUME (i + 1) + 1 <= k - 1
                 PROVE  g[(i + 1) + 1] \in Seq(T)
                          /\ f[(i + 1) + 2] = parts[1] \o g[(i + 1) + 1]
      BY <3>0, Zenon
    <3>1. i + 1 <= k - 1
      BY <1>1
    <3>2. g[i + 1] \in Seq(T) /\ f[i + 2] = parts[1] \o g[i + 1]
      BY <2>5, <3>1
    <3>3. /\ i + 2 \in 1 .. k - 1 /\ i + 2 # 1 /\ (i + 2) - 1 = i + 1
          /\ i + 3 \in 1 .. k /\ i + 3 # 1 /\ (i + 3) - 1 = i + 2
          /\ (i + 1) + 1 = i + 2 /\ (i + 1) + 2 = i + 3 /\ (i + 2) + 1 = i + 3
      BY <1>1
    <3>4. g[i + 2] = g[i + 1] \o rest[i + 2]
      BY <2>3, <3>3
    <3>5. f[i + 3] = f[i + 2] \o parts[i + 3]
      BY <1>3, <3>3
    <3>6. rest[i + 2] = parts[i + 3] /\ parts[i + 3] \in Seq(T)
      BY <1>1, <3>3
    <3>7. (parts[1] \o g[i + 1]) \o parts[i + 3] = parts[1] \o (g[i + 1] \o parts[i + 3])
      <4>1. parts[1] \in Seq(T) /\ g[i + 1] \in Seq(T) /\ parts[i + 3] \in Seq(T)
        BY <1>4, <3>2, <3>6
      <4> DEFINE x == parts[1]
                 y == g[i + 1]
                 z == parts[i + 3]
      <4>2. x \in Seq(T) /\ y \in Seq(T) /\ z \in Seq(T)
        BY <4>1
      <4> HIDE DEF x, y, z
      <4>3. (x \o y) \o z = x \o (y \o z)
        BY <4>2, Associative, SMTT(60)
      <4> QED  BY <4>3 DEF x, y, z
    <3>8. g[i + 1] \o parts[i + 3] \in Seq(T)
      BY <3>2, <3>6, ConcatProperties
    <3> HIDE DEF S
    <3> QED  BY <3>2, <3>3, <3>4, <3>5, <3>6, <3>7, <3>8
  <2> HIDE DEF S
  <2>6. k - 2 \in Nat /\ (k - 2) + 1 = k - 1 /\ (k - 2) + 2 = k
    BY <1>1, <2>1
  <2>7. k - 2 \in S
    BY <2>4, <2>5, <2>6, Induct
  <2>8. g[k - 1] \in Seq(T) /\ f[k] = parts[1] \o g[k - 1]
    <3>1. (k - 2) + 1 <= k - 1
      BY <2>6
    <3>2. (k - 2) + 1 <= k - 1 =>
            g[(k - 2) + 1] \in Seq(T) /\ f[(k - 2) + 2] = parts[1] \o g[(k - 2) + 1]
      BY <2>7, Zenon DEF S
    <3> QED  BY <2>6, <3>1, <3>2
  <2> QED  BY <1>2, <1>4, <2>2, <2>8, ConcatProperties DEF rest
<1>7. FlattenSeq(rest) \in Seq(T) /\ FlattenSeq(parts) = parts[1] \o FlattenSeq(rest)
      => FlattenSeq(parts) \in Seq(T)
  BY <1>4, ConcatProperties
<1>8. k = 1 => FlattenSeq(rest) \in Seq(T)
  <2> SUFFICES ASSUME k = 1 PROVE FlattenSeq(rest) \in Seq(T)
    OBVIOUS
  <2>1. rest = <<>>
    <3>1. rest \in Seq(Seq(T)) /\ Len(rest) = 0
      BY <1>1
    <3> HIDE DEF rest
    <3> QED  BY <3>1
  <2> HIDE DEF rest
  <2> QED  BY <2>1 DEF FlattenSeq
<1> QED  BY <1>5, <1>6, <1>7, <1>8

\* The same for two sequences that are given.
LEMMA FlattenBehind ==
  ASSUME NEW T, NEW parts \in Seq(Seq(T)), NEW rest \in Seq(Seq(T)),
         Len(parts) = Len(rest) + 1, \A i \in 1 .. Len(rest) : rest[i] = parts[i + 1]
  PROVE  /\ FlattenSeq(parts) = parts[1] \o FlattenSeq(rest)
         /\ FlattenSeq(parts) \in Seq(T)
<1>1. parts # <<>>
  OBVIOUS
<1>2. Tail(parts) \in Seq(Seq(T)) /\ Len(Tail(parts)) = Len(rest)
      /\ \A i \in 1 .. Len(Tail(parts)) : Tail(parts)[i] = parts[i + 1]
  BY <1>1, HeadTailProperties
<1>3. Tail(parts) = rest
  <2> DEFINE tail == Tail(parts)
  <2>1. tail \in Seq(Seq(T)) /\ Len(tail) = Len(rest) /\ \A i \in 1 .. Len(tail) : tail[i] = rest[i]
    BY <1>2
  <2> HIDE DEF tail
  <2>2. tail = rest
    BY <2>1, SeqEqual
  <2> QED  BY <2>2 DEF tail
<1> QED  BY <1>1, <1>3, FlattenFirst

-----------------------------------------------------------------------------
(***************************************************************************)
(* What is left of a text.                                                 *)
(***************************************************************************)
Rest(text, j) == [i \in 1 .. Len(text) - j |-> text[j + i]]

LEMMA RestFacts ==
  ASSUME NEW text \in Seq(Nat)
  PROVE  /\ Rest(text, 0) = text
         /\ Rest(text, Len(text)) = <<>>
         /\ \A j \in 0 .. Len(text) : Rest(text, j) \in Seq(Nat)
         /\ \A j \in 0 .. Len(text) - 1 : Rest(text, j) = <<text[j + 1]>> \o Rest(text, j + 1)
<1>1. Len(text) \in Nat /\ \A i \in 1 .. Len(text) : text[i] \in Nat
  OBVIOUS
<1>2. ASSUME NEW j \in 0 .. Len(text)
      PROVE  Rest(text, j) \in Seq(Nat) /\ Len(Rest(text, j)) = Len(text) - j
  <2>1. Len(text) - j \in Nat
    BY <1>1
  <2>2. \A i \in 1 .. Len(text) - j : text[j + i] \in Nat
    BY <1>1
  <2> QED  BY <2>1, <2>2 DEF Rest
<1>3. Rest(text, 0) = text
  <2>1. \A i \in 1 .. Len(text) : text[0 + i] = text[i]
    OBVIOUS
  <2>2. Len(text) - 0 = Len(text) /\ text = [i \in 1 .. Len(text) |-> text[i]]
    OBVIOUS
  <2> QED  BY <2>1, <2>2 DEF Rest
<1>4. Rest(text, Len(text)) = <<>>
  <2>1. Len(text) - Len(text) = 0 /\ Len(text) \in 0 .. Len(text)
    BY <1>1
  <2>2. Rest(text, Len(text)) \in Seq(Nat) /\ Len(Rest(text, Len(text))) = 0
    BY <1>2, <2>1
  <2> DEFINE r == Rest(text, Len(text))
  <2>3. r \in Seq(Nat) /\ Len(r) = 0
    BY <2>2
  <2> HIDE DEF r
  <2>4. r = <<>>
    BY <2>3
  <2> QED  BY <2>4 DEF r
<1>5. ASSUME NEW j \in 0 .. Len(text) - 1
      PROVE  Rest(text, j) = <<text[j + 1]>> \o Rest(text, j + 1)
  <2> DEFINE x == Rest(text, j)
             y == Rest(text, j + 1)
             c == text[j + 1]
  <2>1. /\ j \in 0 .. Len(text) /\ j + 1 \in 0 .. Len(text) /\ j + 1 \in 1 .. Len(text)
        /\ Len(text) - j = (Len(text) - (j + 1)) + 1
    BY <1>1
  <2>2. x \in Seq(Nat) /\ y \in Seq(Nat) /\ Len(x) = Len(y) + 1 /\ c \in Nat
    BY <1>1, <1>2, <2>1
  <2>3. \A i \in 1 .. Len(text) - j : x[i] = text[j + i]
    BY DEF Rest
  <2>4. \A i \in 1 .. Len(text) - (j + 1) : y[i] = text[(j + 1) + i]
    BY DEF Rest
  <2>5. Len(x) = Len(text) - j /\ Len(y) = Len(text) - (j + 1)
    BY <1>2, <2>1
  <2> HIDE DEF x, y, c
  <2>6. ASSUME NEW i \in 1 .. Len(x) PROVE x[i] = IF i = 1 THEN c ELSE y[i - 1]
    <3>1. CASE i = 1
      <4>1. 1 \in 1 .. Len(text) - j
        BY <2>1, <2>5, <2>2
      <4> QED  BY <2>3, <3>1, <4>1 DEF c
    <3>2. CASE i # 1
      <4>1. i \in 1 .. Len(text) - j /\ i - 1 \in 1 .. Len(text) - (j + 1)
            /\ (j + 1) + (i - 1) = j + i
        BY <2>1, <2>5, <2>2, <3>2
      <4> QED  BY <2>3, <2>4, <3>2, <4>1
    <3> QED  BY <3>1, <3>2
  <2> DEFINE z == <<c>> \o y
  <2>7. <<c>> \in Seq(Nat) /\ Len(<<c>>) = 1 /\ <<c>>[1] = c
    BY <2>2
  <2>8. z \in Seq(Nat) /\ Len(z) = 1 + Len(y)
        /\ \A i \in 1 .. 1 + Len(y) : z[i] = IF i <= 1 THEN <<c>>[i] ELSE y[i - 1]
    BY <2>2, <2>7, ConcatProperties
  <2> HIDE DEF z
  <2>9. Len(z) = Len(x) /\ \A i \in 1 .. Len(z) : z[i] = x[i]
    <3>1. Len(y) \in Nat /\ Len(z) = Len(x) /\ Len(z) = 1 + Len(y)
      BY <2>2, <2>8
    <3>2. ASSUME NEW i \in 1 .. Len(z) PROVE z[i] = x[i]
      <4>1. i \in 1 .. 1 + Len(y) /\ i \in 1 .. Len(x) /\ (i <= 1 => i = 1)
            /\ (i = 1 => i <= 1)
        BY <3>1
      <4>2. z[i] = IF i <= 1 THEN <<c>>[i] ELSE y[i - 1]
        BY <2>8, <4>1
      <4>3. x[i] = IF i = 1 THEN c ELSE y[i - 1]
        BY <2>6, <4>1
      <4> QED  BY <2>7, <4>1, <4>2, <4>3
    <3> QED  BY <3>1, <3>2
  <2>10. z = x
    BY <2>2, <2>8, <2>9, SeqEqual
  <2> QED  BY <2>10 DEF x, y, c, z
<1> QED  BY <1>2, <1>3, <1>4, <1>5

\* A text with a character before it.
LEMMA FirstChar ==
  ASSUME NEW c \in Nat, NEW text \in Seq(Nat)
  PROVE  /\ <<c>> \o text \in Seq(Nat)
         /\ Head(<<c>> \o text) = c /\ Tail(<<c>> \o text) = text
<1> DEFINE z == <<c>> \o text
<1>1. <<c>> \in Seq(Nat) /\ Len(<<c>>) = 1 /\ <<c>>[1] = c
  OBVIOUS
<1>2. z \in Seq(Nat) /\ Len(z) = 1 + Len(text)
      /\ \A i \in 1 .. 1 + Len(text) : z[i] = IF i <= 1 THEN <<c>>[i] ELSE text[i - 1]
  BY <1>1, ConcatProperties
<1> HIDE DEF z
<1>3. Len(text) \in Nat /\ 1 \in 1 .. 1 + Len(text)
  OBVIOUS
<1>4. z # <<>> /\ z[1] = c
  BY <1>1, <1>2, <1>3
<1>5. Head(z) = c
  BY <1>2, <1>4
<1> DEFINE y == Tail(z)
<1>6. y \in Seq(Nat) /\ Len(y) = Len(z) - 1 /\ \A i \in 1 .. Len(y) : y[i] = z[i + 1]
  BY <1>2, <1>4, HeadTailProperties
<1> HIDE DEF y
<1>7. Len(y) = Len(text) /\ \A i \in 1 .. Len(y) : y[i] = text[i]
  <2>1. Len(y) = Len(text)
    BY <1>2, <1>3, <1>6
  <2>2. ASSUME NEW i \in 1 .. Len(y) PROVE y[i] = text[i]
    <3>1. i + 1 \in 1 .. 1 + Len(text) /\ ~(i + 1 <= 1) /\ (i + 1) - 1 = i
      BY <1>3, <2>1
    <3> QED  BY <1>2, <1>6, <3>1
  <2> QED  BY <2>1, <2>2
<1>8. y = text
  BY <1>6, <1>7, SeqEqual
<1> QED  BY <1>2, <1>5, <1>8 DEF y, z

-----------------------------------------------------------------------------
(***************************************************************************)
(* The conversions that a call still has before it.                        *)
(***************************************************************************)
Conversions == [conv : 1 .. 255, width : Nat, word : Words]

\* As the callers of printk form them.
Sound(q) ==
  /\ q \in Conversions
  /\ ~x64 => q.width = 0
  /\ q.conv = ConvS => \E len \in Addr : StringAt(was, q.word, len) /\ q.word + len < printk_buff
AllSound(list) == list \in Seq(Conversions) /\ \A k \in DOMAIN list : Sound(list[k])

Rendering(list) == FlattenSeq([k \in DOMAIN list |-> Rendered(list[k])])
Taking(list) == FlattenSeq([k \in DOMAIN list |-> Taken(list[k])])

LEMMA PaddedIsText ==
  ASSUME NEW b \in 2 .. 16, NEW v \in Nat, NEW k \in Nat
  PROVE  Padded(v, b, k) \in Seq(Nat)
<1>1. \A digit \in 0 .. b - 1 : Glyph(digit) \in Nat
  BY DEF Glyph, Zero
<1>2. Size(v, b) \in Nat \ {0}
  BY SizeFacts
<1>3. ASSUME NEW i \in 1 .. k PROVE Digit(v, b, k - i) \in 0 .. b - 1
  <2> DEFINE j == k - i
             p == Power(b)[j]
  <2>1. p \in Nat /\ p > 0
    <3>1. j \in Nat
      OBVIOUS
    <3> HIDE DEF j
    <3> QED  BY <3>1, PowerFacts
  <2> HIDE DEF p
  <2>2. v \div p \in Nat
    BY <2>1
  <2>3. (v \div p) % b \in 0 .. b - 1
    BY <2>2
  <2> QED  BY <2>3 DEF Digit, p
<1>4. ASSUME NEW i \in 1 .. k
      PROVE  (IF k - i >= Size(v, b) THEN Zero ELSE Glyph(Digit(v, b, k - i))) \in Nat
  BY <1>1, <1>3 DEF Zero
<1>5. Padded(v, b, k) \in [1 .. k -> Nat]
  BY <1>4 DEF Padded
<1> QED  BY <1>5

\* The string of %s.
LEMMA TextIs ==
  ASSUME was \in [Addr -> Byte], NEW a \in Nat, NEW len \in Addr, StringAt(was, a, len)
  PROVE  /\ TextAt(was, a) = [i \in 1 .. len |-> was[a + i - 1]]
         /\ TextAt(was, a) \in Seq(Nat) /\ Len(TextAt(was, a)) = len
         /\ \A i \in 1 .. len : TextAt(was, a)[i] = was[a + i - 1]
<1> DEFINE k == CHOOSE x \in Addr : StringAt(was, a, x)
<1>0. ADDRS \in Nat /\ len \in Nat
  BY MemoryAssumption DEF Addr
<1>1. k \in Addr /\ StringAt(was, a, k)
  OBVIOUS
<1>2. TextAt(was, a) = [i \in 1 .. k |-> was[a + i - 1]]
  BY DEF TextAt
<1> HIDE DEF k
<1>3. k = len
  <2>1. k \in Nat
    BY <1>1, <1>0 DEF Addr
  <2>2. \A x, y \in Nat : StringAt(was, a, x) /\ StringAt(was, a, y) => ~(x < y)
    <3> SUFFICES ASSUME NEW x \in Nat, NEW y \in Nat, StringAt(was, a, x), StringAt(was, a, y),
                        x < y
                 PROVE  FALSE
      OBVIOUS
    <3>1. a + x \in a .. (a + y - 1)
      OBVIOUS
    <3> QED  BY <3>1 DEF StringAt
  <2>3. ~(k < len) /\ ~(len < k)
    BY <1>0, <1>1, <2>1, <2>2
  <2> QED  BY <1>0, <2>1, <2>3
<1>4. \A i \in 1 .. len : was[a + i - 1] \in Nat
  <2> SUFFICES ASSUME NEW i \in 1 .. len PROVE was[a + i - 1] \in Nat
    OBVIOUS
  <2>1. a + len \in Addr
    BY DEF StringAt
  <2>2. a + i - 1 \in Addr
    BY <1>0, <2>1 DEF Addr
  <2> QED  BY <2>2 DEF Byte
<1>5. TextAt(was, a) \in [1 .. len -> Nat]
  BY <1>2, <1>3, <1>4
<1> DEFINE f == TextAt(was, a)
<1>6. f \in [1 .. len -> Nat] /\ f = [i \in 1 .. len |-> was[a + i - 1]]
  BY <1>2, <1>3, <1>5
<1> HIDE DEF f
<1>7. \A i \in 1 .. len : f[i] = was[a + i - 1]
  BY <1>6
<1>8. f \in Seq(Nat) /\ Len(f) = len
  <2>1. f \in [1 .. len -> Nat] /\ len \in Nat
    BY <1>0, <1>6
  <2> QED  BY <2>1
<1> QED  BY <1>6, <1>7, <1>8 DEF f

LEMMA PromiseIsText ==
  ASSUME was \in [Addr -> Byte], NEW q, Sound(q)
  PROVE  Promised(q) \in Seq(Nat)
<1>0. /\ q.conv \in 1 .. 255 /\ q.width \in Nat /\ q.word \in Words /\ q.word \in Nat
      /\ q.word \in 0 .. WORD
  BY FormatAssumption DEF Sound, Conversions, Words
<1>1. CASE q.conv = ConvC
  <2>1. Promised(q) = <<q.word % 256>>
    BY <1>1 DEF Promised, ConvC, ConvS, ConvU, ConvX, ConvD
  <2>2. q.word % 256 \in Nat
    BY <1>0
  <2> QED  BY <2>1, <2>2
<1>2. CASE q.conv = ConvS
  <2>1. Promised(q) = TextAt(was, q.word)
    BY <1>2 DEF Promised, ConvC, ConvS, ConvU, ConvX, ConvD
  <2>2. PICK len \in Addr : StringAt(was, q.word, len)
    BY <1>2 DEF Sound
  <2> QED  BY <1>0, <2>1, <2>2, TextIs
<1>3. CASE q.conv \in {ConvD, ConvU}
  <2>1. q.conv \in Numeric /\ q.conv # ConvX
    BY <1>3 DEF Numeric, ConvD, ConvU, ConvX
  <2>2. number(q.word, q.conv) = Promised(q)
    BY <1>0, <2>1, NumbersAreRight
  <2>3. number(q.word, q.conv) \in Seq(Nat)
    BY <1>0, <2>1, NumberIsText
  <2> QED  BY <2>2, <2>3
<1>4. CASE q.conv = ConvX
  <2>1. Promised(q) = Numeral(q.word, 16, q.width)
    BY <1>4 DEF Promised, ConvC, ConvS, ConvU, ConvX, ConvD
  <2>2. Size(q.word, 16) \in Nat
    BY <1>0, SizeFacts
  <2> DEFINE k == IF q.width >= Size(q.word, 16) THEN q.width ELSE Size(q.word, 16)
  <2>3. k \in Nat /\ 16 \in 2 .. 16
    BY <1>0, <2>2
  <2>4. Promised(q) = Padded(q.word, 16, k)
    BY <1>0, <2>1, NumeralIs
  <2> HIDE DEF k
  <2> QED  BY <1>0, <2>3, <2>4, PaddedIsText
<1>5. CASE q.conv \notin {ConvC, ConvS, ConvD, ConvU, ConvX}
  <2>1. Promised(q) = <<q.conv>>
    BY <1>5 DEF Promised
  <2> QED  BY <1>0, <2>1
<1> QED  BY <1>1, <1>2, <1>3, <1>4, <1>5

LEMMA RenderedIsText ==
  ASSUME NEW q, Sound(q)
  PROVE  /\ Rendered(q) \in Seq(Nat) /\ Taken(q) \in Seq(Nat)
         /\ Lettered(q) => Rendered(q) = <<Percent>> \o (WidthChars(q.width) \o <<q.conv>>)
<1>0. q.conv \in Nat /\ q.width \in Nat /\ q.word \in Nat
  <2>1. q.conv \in 1 .. 255 /\ q.width \in Nat /\ q.word \in Words
    BY DEF Sound, Conversions
  <2>2. WORD \in Nat
    BY FormatAssumption
  <2>3. Words \subseteq Nat
    BY <2>2 DEF Words
  <2>4. 1 .. 255 \subseteq Nat
    OBVIOUS
  <2> HIDE DEF Words
  <2> QED  BY <2>1, <2>3, <2>4, Zenon
<1>1. WidthChars(q.width) \in Seq(Nat)
  BY <1>0, WidthIsText
<1>2. <<Percent>> \in Seq(Nat) /\ <<q.conv>> \in Seq(Nat) /\ <<Percent, Percent>> \in Seq(Nat)
      /\ <<>> \in Seq(Nat) /\ <<q.word>> \in Seq(Nat)
  BY <1>0 DEF Percent
<1> DEFINE w == WidthChars(q.width)
           x == <<Percent>>
           y == <<q.conv>>
<1>3. w \in Seq(Nat) /\ x \in Seq(Nat) /\ y \in Seq(Nat)
  BY <1>1, <1>2
<1>4. Lettered(q) => Rendered(q) = x \o w \o y
  BY DEF Rendered
<1>5. ~Lettered(q) => Rendered(q) \in Seq(Nat)
  BY <1>2 DEF Rendered
<1>6. Taken(q) \in Seq(Nat)
  BY <1>2 DEF Taken
<1> HIDE DEF w, x, y
<1>7. (x \o w) \o y = x \o (w \o y)
  BY <1>3, Associative, SMTT(60)
<1>8. x \o (w \o y) \in Seq(Nat)
  <2>1. w \o y \in Seq(Nat)
    BY <1>3, ConcatProperties
  <2> QED  BY <1>3, <2>1, ConcatProperties
<1> QED  BY <1>4, <1>5, <1>6, <1>7, <1>8 DEF w, x, y

LEMMA NoConversions ==
  Rendering(<<>>) = <<>> /\ Taking(<<>>) = <<>> /\ PromisedBy(<<>>) = <<>>
<1>1. FlattenSeq(<<>>) = <<>>
  BY DEF FlattenSeq
<1>2. DOMAIN <<>> = {}
  OBVIOUS
<1>3. [k \in DOMAIN <<>> |-> Rendered(<<>>[k])] = <<>>
  BY <1>2
<1>4. [k \in DOMAIN <<>> |-> Taken(<<>>[k])] = <<>>
  BY <1>2
<1>5. [k \in DOMAIN <<>> |-> Promised(<<>>[k])] = <<>>
  BY <1>2
<1> QED  BY <1>1, <1>3, <1>4, <1>5 DEF Rendering, Taking, PromisedBy

\* The first conversion, and the others behind it.
LEMMA FirstConversion ==
  ASSUME was \in [Addr -> Byte], NEW list, AllSound(list), list # <<>>
  PROVE  /\ Sound(Head(list)) /\ AllSound(Tail(list))
         /\ Rendering(list) = Rendered(Head(list)) \o Rendering(Tail(list))
         /\ Taking(list) = Taken(Head(list)) \o Taking(Tail(list))
         /\ PromisedBy(list) = Promised(Head(list)) \o PromisedBy(Tail(list))
         /\ Rendering(list) \in Seq(Nat) /\ Taking(list) \in Seq(Nat)
         /\ PromisedBy(list) \in Seq(Nat)
<1> DEFINE tail == Tail(list)
           len == Len(list)
<1>1. /\ list \in Seq(Conversions) /\ len \in Nat /\ len >= 1 /\ DOMAIN list = 1 .. len
      /\ Head(list) = list[1] /\ \A k \in 1 .. len : Sound(list[k])
  BY DEF AllSound
<1>2. /\ tail \in Seq(Conversions) /\ Len(tail) = len - 1 /\ DOMAIN tail = 1 .. len - 1
      /\ \A k \in 1 .. len - 1 : tail[k] = list[k + 1]
  BY <1>1, HeadTailProperties
<1> HIDE DEF tail, len
<1>3. Sound(list[1])
  BY <1>1
<1>4. \A k \in 1 .. len - 1 : k + 1 \in 1 .. len /\ Sound(tail[k])
  BY <1>1, <1>2
<1>5. AllSound(tail)
  BY <1>2, <1>4 DEF AllSound
<1>6. /\ FlattenSeq([k \in DOMAIN list |-> Rendered(list[k])])
           = Rendered(list[1]) \o FlattenSeq([k \in DOMAIN tail |-> Rendered(tail[k])])
      /\ FlattenSeq([k \in DOMAIN list |-> Rendered(list[k])]) \in Seq(Nat)
  <2> DEFINE parts == [k \in DOMAIN list |-> Rendered(list[k])]
             rest == [k \in DOMAIN tail |-> Rendered(tail[k])]
  <2>1. parts \in [1 .. len -> Seq(Nat)] /\ rest \in [1 .. len - 1 -> Seq(Nat)]
    BY <1>1, <1>2, <1>4, RenderedIsText
  <2>2. /\ parts \in Seq(Seq(Nat)) /\ rest \in Seq(Seq(Nat))
        /\ Len(parts) = len /\ Len(rest) = len - 1
    BY <1>1, <2>1
  <2>3. \A i \in 1 .. len - 1 : rest[i] = parts[i + 1]
    BY <1>1, <1>2, <1>4
  <2>4. parts[1] = Rendered(list[1])
    BY <1>1
  <2> HIDE DEF parts, rest
  <2>5. Len(parts) = Len(rest) + 1 /\ \A i \in 1 .. Len(rest) : rest[i] = parts[i + 1]
    BY <1>1, <2>2, <2>3
  <2>6. FlattenSeq(parts) = parts[1] \o FlattenSeq(rest) /\ FlattenSeq(parts) \in Seq(Nat)
    BY <2>2, <2>5, FlattenBehind
  <2> QED  BY <2>4, <2>6 DEF parts, rest
<1>7. /\ FlattenSeq([k \in DOMAIN list |-> Taken(list[k])])
           = Taken(list[1]) \o FlattenSeq([k \in DOMAIN tail |-> Taken(tail[k])])
      /\ FlattenSeq([k \in DOMAIN list |-> Taken(list[k])]) \in Seq(Nat)
  <2> DEFINE parts == [k \in DOMAIN list |-> Taken(list[k])]
             rest == [k \in DOMAIN tail |-> Taken(tail[k])]
  <2>1. parts \in [1 .. len -> Seq(Nat)] /\ rest \in [1 .. len - 1 -> Seq(Nat)]
    BY <1>1, <1>2, <1>4, RenderedIsText
  <2>2. /\ parts \in Seq(Seq(Nat)) /\ rest \in Seq(Seq(Nat))
        /\ Len(parts) = len /\ Len(rest) = len - 1
    BY <1>1, <2>1
  <2>3. \A i \in 1 .. len - 1 : rest[i] = parts[i + 1]
    BY <1>1, <1>2, <1>4
  <2>4. parts[1] = Taken(list[1])
    BY <1>1
  <2> HIDE DEF parts, rest
  <2>5. Len(parts) = Len(rest) + 1 /\ \A i \in 1 .. Len(rest) : rest[i] = parts[i + 1]
    BY <1>1, <2>2, <2>3
  <2>6. FlattenSeq(parts) = parts[1] \o FlattenSeq(rest) /\ FlattenSeq(parts) \in Seq(Nat)
    BY <2>2, <2>5, FlattenBehind
  <2> QED  BY <2>4, <2>6 DEF parts, rest
<1>8. /\ FlattenSeq([k \in DOMAIN list |-> Promised(list[k])])
           = Promised(list[1]) \o FlattenSeq([k \in DOMAIN tail |-> Promised(tail[k])])
      /\ FlattenSeq([k \in DOMAIN list |-> Promised(list[k])]) \in Seq(Nat)
  <2> DEFINE parts == [k \in DOMAIN list |-> Promised(list[k])]
             rest == [k \in DOMAIN tail |-> Promised(tail[k])]
  <2>1. parts \in [1 .. len -> Seq(Nat)] /\ rest \in [1 .. len - 1 -> Seq(Nat)]
    BY <1>1, <1>2, <1>4, PromiseIsText
  <2>2. /\ parts \in Seq(Seq(Nat)) /\ rest \in Seq(Seq(Nat))
        /\ Len(parts) = len /\ Len(rest) = len - 1
    BY <1>1, <2>1
  <2>3. \A i \in 1 .. len - 1 : rest[i] = parts[i + 1]
    BY <1>1, <1>2, <1>4
  <2>4. parts[1] = Promised(list[1])
    BY <1>1
  <2> HIDE DEF parts, rest
  <2>5. Len(parts) = Len(rest) + 1 /\ \A i \in 1 .. Len(rest) : rest[i] = parts[i + 1]
    BY <1>1, <2>2, <2>3
  <2>6. FlattenSeq(parts) = parts[1] \o FlattenSeq(rest) /\ FlattenSeq(parts) \in Seq(Nat)
    BY <2>2, <2>5, FlattenBehind
  <2> QED  BY <2>4, <2>6 DEF parts, rest
<1> QED  BY <1>1, <1>3, <1>5, <1>6, <1>7, <1>8 DEF Rendering, Taking, PromisedBy, tail

LEMMA ListTexts ==
  ASSUME was \in [Addr -> Byte], NEW list, AllSound(list)
  PROVE  /\ Rendering(list) \in Seq(Nat) /\ Taking(list) \in Seq(Nat)
         /\ PromisedBy(list) \in Seq(Nat)
<1>1. CASE list = <<>>
  <2>1. <<>> \in Seq(Nat)
    OBVIOUS
  <2> QED  BY <1>1, <2>1, NoConversions
<1>2. CASE list # <<>>
  BY <1>2, FirstConversion
<1> QED  BY <1>1, <1>2

-----------------------------------------------------------------------------
(***************************************************************************)
(* What a call of printk has written.                                      *)
(***************************************************************************)
Filled(text) ==
  [a \in Addr |-> IF a \in printk_buff .. printk_buff + Len(text) - 1
                  THEN text[a - printk_buff + 1] ELSE was[a]]
Written(text) ==
  /\ text \in Seq(Nat)
  /\ d = printk_buff + Len(text)
  /\ mem = Filled(text)

LEMMA PutWrites ==
  ASSUME NEW text, NEW more \in Seq(Nat), Written(text), Put(more), was' = was
  PROVE  Written(text \o more)'
<1> DEFINE z == text \o more
           x == Len(text)
           y == Len(more)
           b == printk_buff
<1>1. /\ text \in Seq(Nat) /\ x \in Nat /\ y \in Nat /\ b \in Nat /\ b + x = d
      /\ mem = Filled(text)
  BY FormatAssumption DEF Written, Addr
<1>2. z \in Seq(Nat) /\ Len(z) = x + y
      /\ \A i \in 1 .. x + y : z[i] = IF i <= x THEN text[i] ELSE more[i - x]
  BY <1>1, ConcatProperties
<1>3. /\ mem' = [a \in Addr |-> IF a \in d .. d + y - 1 THEN more[a - d + 1] ELSE mem[a]]
      /\ d' = d + y
  BY DEF Put
<1> HIDE DEF z, x, y, b
<1>4. ASSUME NEW a \in Addr
      PROVE  (IF a \in d .. d + y - 1 THEN more[a - d + 1] ELSE mem[a])
               = IF a \in b .. b + (x + y) - 1 THEN z[a - b + 1] ELSE was[a]
  <2>0. a \in Nat /\ d \in Nat
    BY <1>1, MemoryAssumption DEF Addr
  <2>1. mem[a] = IF a \in b .. b + x - 1 THEN text[a - b + 1] ELSE was[a]
    BY <1>1 DEF Filled, x, b
  <2>2. CASE a \in d .. d + y - 1
    <3>1. /\ a \in b .. b + (x + y) - 1
          /\ a - b + 1 \in 1 .. x + y /\ ~(a - b + 1 <= x)
          /\ (a - b + 1) - x = a - d + 1
      BY <1>1, <2>0, <2>2
    <3>2. z[a - b + 1] = more[a - d + 1]
      BY <1>2, <3>1
    <3> QED  BY <2>2, <3>1, <3>2
  <2>3. CASE a \notin d .. d + y - 1
    <3>1. CASE a \in b .. b + x - 1
      <4>1. a \in b .. b + (x + y) - 1 /\ a - b + 1 \in 1 .. x + y /\ a - b + 1 <= x
        BY <1>1, <2>0, <3>1
      <4>2. z[a - b + 1] = text[a - b + 1]
        BY <1>2, <4>1
      <4> QED  BY <2>1, <2>3, <3>1, <4>1, <4>2
    <3>2. CASE a \notin b .. b + x - 1
      <4>1. a \notin b .. b + (x + y) - 1
        BY <1>1, <2>0, <2>3, <3>2
      <4> QED  BY <2>1, <2>3, <3>2, <4>1
    <3> QED  BY <3>1, <3>2
  <2> QED  BY <2>2, <2>3
<1>5. mem' = [a \in Addr |-> IF a \in b .. b + (x + y) - 1 THEN z[a - b + 1] ELSE was[a]]
  BY <1>3, <1>4
<1>6. d' = b + (x + y)
  BY <1>1, <1>3
<1>7. b + Len(z) - 1 = b + (x + y) - 1
  BY <1>2
<1>8. mem' = [a \in Addr |-> IF a \in b .. b + Len(z) - 1 THEN z[a - b + 1] ELSE was'[a]]
  BY <1>5, <1>7
<1>9. d' = b + Len(z)
  BY <1>2, <1>6
<1> QED  BY <1>2, <1>8, <1>9 DEF Written, Filled, z, b

LEMMA WrittenKept ==
  ASSUME UNCHANGED <<mem, d, was>>, NEW text, Written(text)
  PROVE  Written(text)'
  BY DEF Written, Filled

\* While a call of printk runs, its caller's list means the same.
LEMMA ListKept ==
  ASSUME UNCHANGED <<was, x64>>
  PROVE  /\ \A q : (Sound(q)' <=> Sound(q)) /\ Promised(q)' = Promised(q)
         /\ \A list : (AllSound(list)' <=> AllSound(list)) /\ PromisedBy(list)' = PromisedBy(list)
<1>1. \A q : Promised(q)' = Promised(q)
  BY DEF Promised
<1>2. \A q : Sound(q)' <=> Sound(q)
  BY DEF Sound, StringAt
<1>3. \A list : AllSound(list)' <=> AllSound(list)
  BY <1>2 DEF AllSound
<1>4. \A list : PromisedBy(list)' = PromisedBy(list)
  BY <1>1 DEF PromisedBy
<1> QED  BY <1>1, <1>2, <1>3, <1>4

-----------------------------------------------------------------------------
(***************************************************************************)
(* The invariant of printk: what is written and what is promised by the    *)
(* conversions ahead make up the text that the caller has asked for.       *)
(***************************************************************************)
Ending(list) == Rendering(list) \o <<0>>

AtFormat ==
  \E list, text :
    /\ AllSound(list) /\ Written(text)
    /\ wanted = text \o PromisedBy(list)
    /\ fmt = Ending(list) /\ args = Taking(list)
    /\ fill_zero = 0

\* In front of a conversion that has been begun.
Begun(q, list, text) ==
  /\ Sound(q) /\ AllSound(list) /\ Written(text)
  /\ wanted = text \o (Promised(q) \o PromisedBy(list))
  /\ args = Taken(q) \o Taking(list)

\* Behind j digits of its width.
AtLetter(q, list) ==
  /\ Lettered(q)
  /\ \E j \in 0 .. Len(WidthChars(q.width)) :
       /\ fmt = Rest(WidthChars(q.width), j) \o (<<q.conv>> \o Ending(list))
       /\ fill_zero = Read(q.width, j)
AtPercent(q, list) ==
  /\ q.conv = Percent
  /\ fmt = <<Percent>> \o Ending(list)
  /\ fill_zero = 0
AtConversion ==
  \E q, list, text : Begun(q, list, text) /\ (AtLetter(q, list) \/ AtPercent(q, list))

\* Behind j characters of a string.
AtString ==
  \E q, list, text, j :
    /\ Sound(q) /\ q.conv = ConvS /\ AllSound(list) /\ Written(text)
    /\ j \in 0 .. Len(TextAt(was, q.word)) /\ s = q.word + j
    /\ wanted = text \o (Rest(TextAt(was, q.word), j) \o PromisedBy(list))
    /\ fmt = <<ConvS>> \o Ending(list) /\ args = Taking(list)

Formatting == {"format", "conversion", "string"}
OtherLoops == {"strcpy", "strlen", "strcmp", "memset", "forward", "backward"}

PrintInv ==
  /\ was \in [Addr -> Byte]
  /\ pc \in {"caller", "console", "returned"} \cup Formatting \cup OtherLoops
  /\ pc = "caller" => mem = was
  /\ pc \in Formatting \cup {"console"} =>
       /\ call.fn = "printk" /\ call.dest = printk_buff
       /\ wanted \in Seq(Nat) /\ printk_buff + Len(wanted) < ADDRS
  /\ pc = "format" => AtFormat
  /\ pc = "conversion" => AtConversion
  /\ pc = "string" => AtString
  /\ pc \in OtherLoops => call.fn # "printk"
  /\ PrintedAsAsked

LEMMA PrintInvInit == Init => PrintInv
  BY MemoryAssumption
  DEF Init, StringsInit, PrintInv, Formatting, OtherLoops, PrintedAsAsked

\* The steps of the other functions and of the callers.
LEMMA OtherSteps ==
  ASSUME PrintInv, Calls \/ Turns \/ caller
  PROVE  PrintInv'
<1>1. CASE Calls
  <2>1. /\ was' = was /\ pc' \in OtherLoops /\ call'.fn # "printk"
    <3>1. CASE \E a, b, len \in Addr : strcpy(a, b, len) \/ strlen(a, len) \/ strcmp(a, b, len)
      BY <3>1 DEF strcpy, strlen, strcmp, Enter, OtherLoops
    <3>2. CASE \E a, b, len \in 0 .. ADDRS : memcpy(a, b, len) \/ memmove(a, b, len)
      BY <3>2 DEF memcpy, memmove, Direction, Enter, OtherLoops
    <3>3. CASE \E a, len \in 0 .. ADDRS, byte \in {0, 255} : memset(a, byte, len)
      BY <3>3 DEF memset, Enter, OtherLoops
    <3> QED  BY <1>1, <3>1, <3>2, <3>3 DEF Calls
  <2> QED  BY <2>1 DEF PrintInv, Formatting, OtherLoops, PrintedAsAsked
<1>2. CASE Turns
  <2>1. /\ was' = was /\ call' = call /\ pc \in OtherLoops /\ pc' \in {pc, "returned"}
    <3>1. CASE strcpy_turn \/ strcpy_end \/ strlen_turn \/ strlen_end
      BY <3>1 DEF strcpy_turn, strcpy_end, strlen_turn, strlen_end, Return, OtherLoops
    <3>2. CASE strcmp_turn \/ strcmp_end \/ memset_turn
      BY <3>2 DEF strcmp_turn, strcmp_end, memset_turn, Return, OtherLoops
    <3>3. CASE copy_forward \/ copy_backward \/ loop_end
      BY <3>3 DEF copy_forward, copy_backward, loop_end, Return, OtherLoops
    <3> QED  BY <1>2, <3>1, <3>2, <3>3 DEF Turns
  <2> QED  BY <2>1 DEF PrintInv, Formatting, OtherLoops, PrintedAsAsked
<1>3. CASE caller
  BY <1>3, MemoryAssumption DEF caller, PrintInv, Formatting, OtherLoops, PrintedAsAsked
<1> QED  BY <1>1, <1>2, <1>3

LEMMA EndingIs ==
  ASSUME was \in [Addr -> Byte], NEW list, AllSound(list)
  PROVE  /\ Ending(list) \in Seq(Nat)
         /\ list = <<>> => Ending(list) = <<0>>
         /\ list # <<>> => Ending(list) = Rendered(Head(list)) \o Ending(Tail(list))
<1>1. Rendering(list) \in Seq(Nat) /\ <<0>> \in Seq(Nat)
  BY ListTexts
<1>2. Ending(list) \in Seq(Nat)
  BY <1>1, ConcatProperties DEF Ending
<1>3. list = <<>> => Ending(list) = <<0>>
  BY <1>1, NoConversions, ConcatEmptySeq DEF Ending
<1>4. ASSUME list # <<>>
      PROVE  Ending(list) = Rendered(Head(list)) \o Ending(Tail(list))
  <2> DEFINE x == Rendered(Head(list))
             y == Rendering(Tail(list))
             z == <<0>>
  <2>1. Sound(Head(list)) /\ AllSound(Tail(list)) /\ Rendering(list) = x \o y
    BY <1>4, FirstConversion
  <2>2. x \in Seq(Nat) /\ y \in Seq(Nat) /\ z \in Seq(Nat)
    BY <1>1, <2>1, RenderedIsText, ListTexts
  <2>3. Ending(Tail(list)) = y \o z /\ Ending(list) = Rendering(list) \o z
    BY DEF Ending
  <2> HIDE DEF x, y, z
  <2>4. (x \o y) \o z = x \o (y \o z)
    BY <2>2, Associative, SMTT(60)
  <2> QED  BY <2>1, <2>3, <2>4 DEF x
<1> QED  BY <1>2, <1>3, <1>4

\* In front of the next conversion, or at the end.
LEMMA NextConversion ==
  ASSUME PrintInv, pc = "format"
  PROVE  \/ fmt = <<0>> /\ Written(wanted)
         \/ \E q, list, text : Begun(q, list, text) /\ fmt = Rendered(q) \o Ending(list)
                                 /\ fill_zero = 0
<1>1. was \in [Addr -> Byte] /\ AtFormat
  BY DEF PrintInv
<1>2. PICK list, text : /\ AllSound(list) /\ Written(text)
                        /\ wanted = text \o PromisedBy(list)
                        /\ fmt = Ending(list) /\ args = Taking(list) /\ fill_zero = 0
  BY <1>1 DEF AtFormat
<1>3. CASE list = <<>>
  <2>1. fmt = <<0>>
    BY <1>1, <1>2, <1>3, EndingIs
  <2>2. PromisedBy(list) = <<>> /\ text \in Seq(Nat)
    BY <1>2, <1>3, NoConversions DEF Written
  <2>3. wanted = text
    BY <1>2, <2>2, ConcatEmptySeq
  <2> QED  BY <1>2, <2>1, <2>3
<1>4. CASE list # <<>>
  <2>1. fmt = Rendered(Head(list)) \o Ending(Tail(list))
    BY <1>1, <1>2, <1>4, EndingIs
  <2>2. Begun(Head(list), Tail(list), text)
    BY <1>1, <1>2, <1>4, FirstConversion DEF Begun
  <2> QED  BY <1>2, <2>1, <2>2
<1> QED  BY <1>3, <1>4

\* When a conversion has written what it promises the next one follows.
LEMMA ConversionDone ==
  ASSUME PrintInv, pc \in Formatting, UNCHANGED <<was, x64, call, wanted>>,
         NEW q, NEW list, NEW text, Begun(q, list, text),
         Written(text \o Promised(q))',
         fmt' = Ending(list), args' = Taking(list), fill_zero' = 0, pc' = "format"
  PROVE  PrintInv'
<1> DEFINE x == text
           y == Promised(q)
           z == PromisedBy(list)
<1>1. /\ was \in [Addr -> Byte] /\ Sound(q) /\ AllSound(list) /\ x \in Seq(Nat)
      /\ wanted = x \o (y \o z)
  BY DEF PrintInv, Begun, Written
<1>2. y \in Seq(Nat) /\ z \in Seq(Nat)
  BY <1>1, PromiseIsText, ListTexts
<1> HIDE DEF x, y, z
<1>3. wanted = (x \o y) \o z
  <2>1. x \in Seq(Nat) /\ y \in Seq(Nat) /\ z \in Seq(Nat)
    BY <1>1, <1>2
  <2>2. (x \o y) \o z = x \o (y \o z)
    BY <2>1, TextsJoin
  <2> QED  BY <1>1, <2>2
<1>4. wanted' = (text \o Promised(q)) \o PromisedBy(list)
  BY <1>3 DEF x, y, z
<1>5. AllSound(list)' /\ PromisedBy(list)' = PromisedBy(list) /\ Promised(q)' = Promised(q)
  BY <1>1, ListKept
<1>6. Written(text \o Promised(q))' /\ AllSound(list)'
      /\ wanted' = (text \o Promised(q)') \o PromisedBy(list)'
  BY <1>4, <1>5
<1>7. Ending(list)' = Ending(list) /\ Taking(list)' = Taking(list)
  BY DEF Ending, Rendering, Taking, Rendered, Taken, Lettered
<1>8. AtFormat'
  BY <1>6, <1>7 DEF AtFormat
<1> QED  BY <1>8 DEF PrintInv, Formatting, OtherLoops, PrintedAsAsked

LEMMA PlainKeeps ==
  ASSUME PrintInv, plain_char
  PROVE  PrintInv'
<1>1. /\ pc = "format" /\ Head(fmt) \notin {0, Percent} /\ fmt' = Tail(fmt)
      /\ Put(<<Head(fmt)>>)
      /\ UNCHANGED <<pc, args, fill_zero, was, x64, call, wanted>>
  BY DEF plain_char, Reading
<1>2. fmt # <<0>>
  BY <1>1
<1>3. PICK q, list, text : Begun(q, list, text) /\ fmt = Rendered(q) \o Ending(list)
                             /\ fill_zero = 0
  BY <1>1, <1>2, NextConversion
<1>4. /\ was \in [Addr -> Byte] /\ Sound(q) /\ AllSound(list) /\ Written(text)
      /\ args = Taken(q) \o Taking(list)
  BY <1>3 DEF Begun, PrintInv
<1>5. Ending(list) \in Seq(Nat) /\ Taking(list) \in Seq(Nat) /\ q.conv \in Nat
  <2>1. q \in Conversions
    BY <1>4 DEF Sound
  <2>2. q.conv \in 1 .. 255
    BY <2>1 DEF Conversions
  <2>3. 1 .. 255 \subseteq Nat
    OBVIOUS
  <2>4. q.conv \in Nat
    BY <2>2, <2>3, Zenon
  <2>5. Ending(list) \in Seq(Nat) /\ Taking(list) \in Seq(Nat)
    BY <1>4, EndingIs, ListTexts
  <2> QED  BY <2>4, <2>5
<1>6. ~Lettered(q) /\ q.conv # Percent
  <2>1. Rendered(q) = <<Percent>> \o (WidthChars(q.width) \o <<q.conv>>)
        => Head(fmt) = Percent
    <3> DEFINE x == WidthChars(q.width) \o <<q.conv>>
               y == Ending(list)
               p == <<Percent>>
    <3>1. x \in Seq(Nat) /\ y \in Seq(Nat) /\ Percent \in Nat /\ p \in Seq(Nat)
      <4>1. WidthChars(q.width) \in Seq(Nat)
        BY <1>4, WidthIsText DEF Sound, Conversions
      <4>2. <<q.conv>> \in Seq(Nat)
        BY <1>5
      <4> QED  BY <1>5, <4>1, <4>2, ConcatProperties DEF Percent
    <3> HIDE DEF x, y
    <3>2. (p \o x) \o y = p \o (x \o y) /\ x \o y \in Seq(Nat)
      <4> HIDE DEF p
      <4>1. (p \o x) \o y = p \o (x \o y)
        BY <3>1, TextsJoin
      <4> QED  BY <3>1, <4>1, ConcatProperties
    <3>3. Head(p \o (x \o y)) = Percent
      BY <3>1, <3>2, FirstChar
    <3> QED  BY <1>3, <3>2, <3>3 DEF x, y
  <2>2. ~Lettered(q)
    BY <1>1, <1>4, <2>1, RenderedIsText
  <2>3. q.conv = Percent => Head(fmt) = Percent
    <3> SUFFICES ASSUME q.conv = Percent PROVE Head(fmt) = Percent
      OBVIOUS
    <3>1. Rendered(q) = <<Percent, Percent>>
      BY <2>2 DEF Rendered
    <3> DEFINE y == Ending(list)
               p == <<Percent, Percent>>
    <3>2. y \in Seq(Nat) /\ p \in Seq(Nat) /\ Len(p) = 2 /\ p[1] = Percent
      BY <1>5 DEF Percent
    <3>3. p \o y \in Seq(Nat) /\ Len(p \o y) >= 1 /\ (p \o y)[1] = Percent
      <4> HIDE DEF y, p
      <4>1. Len(y) \in Nat
        BY <3>2
      <4> QED  BY <3>2, <4>1, ConcatProperties
    <3> QED  BY <1>3, <3>1, <3>3
  <2> QED  BY <1>1, <2>2, <2>3
<1>7. Rendered(q) = <<q.conv>> /\ Promised(q) = <<q.conv>> /\ Taken(q) = <<>>
  BY <1>6 DEF Rendered, Taken, Promised, Lettered
<1>8. Head(fmt) = q.conv /\ Tail(fmt) = Ending(list)
  BY <1>3, <1>5, <1>7, FirstChar
<1>9. Written(text \o Promised(q))'
  <2>1. <<q.conv>> \in Seq(Nat) /\ Put(<<q.conv>>)
    BY <1>1, <1>5, <1>8
  <2>2. Written(text \o <<q.conv>>)'
    BY <1>1, <1>4, <2>1, PutWrites
  <2>3. Promised(q)' = Promised(q)
    BY <1>1, ListKept
  <2> QED  BY <1>7, <2>2, <2>3
<1>10. args' = Taking(list)
  BY <1>1, <1>4, <1>5, <1>7, ConcatEmptySeq
<1> QED  BY <1>1, <1>3, <1>8, <1>9, <1>10, ConversionDone DEF Formatting

LEMMA PercentKeeps ==
  ASSUME PrintInv, percent
  PROVE  PrintInv'
<1>1. /\ pc = "format" /\ Head(fmt) = Percent /\ fmt' = Tail(fmt) /\ pc' = "conversion"
      /\ UNCHANGED <<mem, d, args, fill_zero, was, x64, call, wanted>>
  BY DEF percent, Reading
<1>2. fmt # <<0>>
  BY <1>1 DEF Percent
<1>3. PICK q, list, text : Begun(q, list, text) /\ fmt = Rendered(q) \o Ending(list)
                             /\ fill_zero = 0
  BY <1>1, <1>2, NextConversion
<1>4. /\ was \in [Addr -> Byte] /\ Sound(q) /\ AllSound(list) /\ Written(text)
      /\ args = Taken(q) \o Taking(list) /\ wanted = text \o (Promised(q) \o PromisedBy(list))
  BY <1>3 DEF Begun, PrintInv
<1> DEFINE y == Ending(list)
           p == <<Percent>>
           c == <<q.conv>>
           w == WidthChars(q.width)
<1>5. y \in Seq(Nat) /\ p \in Seq(Nat) /\ c \in Seq(Nat) /\ q.conv \in Nat /\ Percent \in Nat
      /\ w \in Seq(Nat) /\ q.width \in Nat
  <2>1. q.width \in Nat /\ q.conv \in Nat
    <3>1. q \in Conversions
      BY <1>4 DEF Sound
    <3>2. q.width \in Nat /\ q.conv \in 1 .. 255
      BY <3>1 DEF Conversions
    <3> QED  BY <3>2
  <2>2. y \in Seq(Nat) /\ w \in Seq(Nat)
    BY <1>4, <2>1, EndingIs, WidthIsText
  <2>3. Percent \in Nat
    BY DEF Percent
  <2> HIDE DEF y, w
  <2> QED  BY <2>1, <2>2, <2>3
<1> HIDE DEF y, c, w, p
<1>6. AtLetter(q, list)' \/ AtPercent(q, list)'
  <2>1. CASE Lettered(q)
    <3>1. fmt = (p \o (w \o c)) \o y
      BY <1>3, <1>4, <2>1, RenderedIsText DEF p, w, c, y
    <3>2. w \o c \in Seq(Nat) /\ c \o y \in Seq(Nat) /\ w \o (c \o y) \in Seq(Nat)
      BY <1>5, ConcatProperties
    <3>3. (p \o (w \o c)) \o y = p \o ((w \o c) \o y)
      <4>1. p \in Seq(Nat) /\ w \o c \in Seq(Nat) /\ y \in Seq(Nat)
        <5>1. w \o c \in Seq(Nat)
          BY <3>2
        <5> QED  BY <1>5, <5>1
      <4> QED  BY <4>1, TextsJoin, ZenonT(60)
    <3>4. (w \o c) \o y = w \o (c \o y)
      BY <1>5, TextsJoin
    <3>5. Tail(fmt) = w \o (c \o y)
      BY <1>5, <3>1, <3>2, <3>3, <3>4, FirstChar DEF p
    <3>6. w = Rest(w, 0) /\ Read(q.width, 0) = 0 /\ 0 \in 0 .. Len(w)
      <4>1. Len(w) \in Nat
        BY <1>5
      <4>2. w = Rest(w, 0)
        BY <1>5, RestFacts
      <4>3. Read(q.width, 0) = 0
        BY <1>5, WidthIsRead
      <4>4. 0 \in 0 .. Len(w)
        BY <4>1
      <4> QED  BY <4>2, <4>3, <4>4
    <3>7. fmt' = Rest(WidthChars(q.width), 0) \o (<<q.conv>> \o Ending(list))
      BY <1>1, <3>5, <3>6 DEF w, c, y
    <3>8. Ending(list)' = Ending(list)
      BY DEF Ending, Rendering, Rendered, Lettered
    <3>9. fill_zero' = Read(q.width, 0) /\ 0 \in 0 .. Len(WidthChars(q.width))
      BY <1>1, <1>3, <3>6 DEF w
    <3>10. AtLetter(q, list)'
      BY <2>1, <3>7, <3>8, <3>9 DEF AtLetter, Lettered
    <3> QED  BY <3>10
  <2>2. CASE ~Lettered(q) /\ q.conv = Percent
    <3>1. fmt = <<Percent, Percent>> \o y
      BY <1>3, <2>2 DEF Rendered, y
    <3>2. <<Percent, Percent>> = p \o p
      BY DEF p
    <3>3. (p \o p) \o y = p \o (p \o y) /\ p \o y \in Seq(Nat)
      <4>1. (p \o p) \o y = p \o (p \o y)
        BY <1>5, TextsJoin
      <4> QED  BY <1>5, <4>1, ConcatProperties
    <3>4. Tail(fmt) = p \o y
      BY <1>5, <3>1, <3>2, <3>3, FirstChar DEF p
    <3>5. AtPercent(q, list)'
      BY <1>1, <1>3, <2>2, <3>4 DEF AtPercent, p, y, Ending, Rendering, Rendered, Lettered
    <3> QED  BY <3>5
  <2>3. CASE ~Lettered(q) /\ q.conv # Percent
    <3>1. fmt = <<q.conv>> \o y
      BY <1>3, <2>3 DEF Rendered, y
    <3>2. Head(fmt) = q.conv
      BY <1>5, <3>1, FirstChar
    <3> QED  BY <1>1, <2>3, <3>2
  <2> QED  BY <2>1, <2>2, <2>3
<1>7. Begun(q, list, text)'
  <2>1. Sound(q)' /\ AllSound(list)' /\ Promised(q)' = Promised(q)
        /\ PromisedBy(list)' = PromisedBy(list)
    BY <1>1, <1>4, ListKept
  <2>2. Written(text)'
    BY <1>1, <1>4, WrittenKept
  <2>3. args' = Taken(q)' \o Taking(list)'
    BY <1>1, <1>4 DEF Taking, Taken, Lettered
  <2>4. wanted' = text \o (Promised(q)' \o PromisedBy(list)')
    BY <1>1, <1>4, <2>1
  <2> QED  BY <2>1, <2>2, <2>3, <2>4 DEF Begun
<1>8. AtConversion'
  BY <1>6, <1>7 DEF AtConversion
<1> QED  BY <1>1, <1>8 DEF PrintInv, Formatting, OtherLoops, PrintedAsAsked

\* The character that a conversion is at.
LEMMA ConversionFacts ==
  ASSUME PrintInv, pc = "conversion"
  PROVE  \E q, list, text :
           /\ Begun(q, list, text)
           /\ \/ /\ x64 /\ Lettered(q)
                 /\ \E j \in 0 .. Len(WidthChars(q.width)) - 1 :
                      /\ Head(fmt) = WidthChars(q.width)[j + 1]
                      /\ Tail(fmt) = Rest(WidthChars(q.width), j + 1) \o (<<q.conv>> \o Ending(list))
                      /\ fill_zero = Read(q.width, j)
              \/ /\ Lettered(q) /\ fmt = <<q.conv>> \o Ending(list)
                 /\ Head(fmt) = q.conv /\ Tail(fmt) = Ending(list)
                 /\ fill_zero = q.width
                 /\ Head(args) = q.word /\ Tail(args) = Taking(list)
              \/ /\ ~Lettered(q) /\ q.conv = Percent
                 /\ Head(fmt) = Percent /\ Tail(fmt) = Ending(list)
                 /\ args = Taking(list) /\ fill_zero = 0
<1>1. PICK q, list, text : Begun(q, list, text) /\ (AtLetter(q, list) \/ AtPercent(q, list))
  BY DEF PrintInv, AtConversion
<1>2. was \in [Addr -> Byte] /\ Sound(q) /\ AllSound(list) /\ args = Taken(q) \o Taking(list)
  BY <1>1 DEF PrintInv, Begun
<1> DEFINE y == Ending(list)
           w == WidthChars(q.width)
           c == <<q.conv>>
           t == Taking(list)
<1>3. q.conv \in Nat /\ q.width \in Nat /\ q.word \in Nat
  <2>1. q \in Conversions /\ WORD \in Nat
    BY <1>2, FormatAssumption DEF Sound
  <2>2. q.conv \in 1 .. 255 /\ q.width \in Nat /\ q.word \in 0 .. WORD - 1
    BY <2>1 DEF Conversions, Words
  <2>3. 1 .. 255 \subseteq Nat /\ 0 .. WORD - 1 \subseteq Nat
    BY <2>1
  <2> QED  BY <2>2, <2>3, Zenon
<1>4. y \in Seq(Nat) /\ w \in Seq(Nat) /\ c \in Seq(Nat) /\ t \in Seq(Nat)
  <2>1. y \in Seq(Nat) /\ t \in Seq(Nat)
    BY <1>2, EndingIs, ListTexts
  <2>2. w \in Seq(Nat)
    BY <1>3, WidthIsText
  <2>3. c \in Seq(Nat)
    BY <1>3
  <2> HIDE DEF y, w, c, t
  <2> QED  BY <2>1, <2>2, <2>3
<1> HIDE DEF y, w, c, t
<1>5. CASE AtLetter(q, list)
  <2>1. PICK j \in 0 .. Len(w) : fmt = Rest(w, j) \o (c \o y) /\ fill_zero = Read(q.width, j)
    BY <1>5 DEF AtLetter, w, c, y
  <2>2. Lettered(q)
    BY <1>5 DEF AtLetter
  <2>3. c \o y \in Seq(Nat)
    BY <1>4, ConcatProperties
  <2>4. Len(w) \in Nat
    BY <1>4
  <2>5. CASE j = Len(w)
    <3>1. Rest(w, j) = <<>>
      BY <1>4, <2>5, RestFacts
    <3>2. fmt = c \o y
      BY <2>1, <2>3, <3>1, ConcatEmptySeq
    <3>3. Head(fmt) = q.conv /\ Tail(fmt) = y
      BY <1>3, <1>4, <3>2, FirstChar DEF c
    <3>4. fill_zero = q.width
      BY <1>3, <2>1, <2>5, WidthIsRead DEF w
    <3>5. args = <<q.word>> \o t
      BY <1>2, <2>2 DEF Taken, t
    <3>6. Head(args) = q.word /\ Tail(args) = t
      BY <1>3, <1>4, <3>5, FirstChar
    <3> QED  BY <1>1, <2>2, <3>2, <3>3, <3>4, <3>6, Zenon DEF y, c, t
  <2>6. CASE j # Len(w)
    <3>1. j \in 0 .. Len(w) - 1 /\ j \in Nat /\ j + 1 \in 1 .. Len(w) /\ j + 1 \in 0 .. Len(w)
      BY <2>4, <2>6
    <3>2. w[j + 1] \in Nat
      BY <1>4, <3>1
    <3>3. Rest(w, j) = <<w[j + 1]>> \o Rest(w, j + 1) /\ Rest(w, j + 1) \in Seq(Nat)
      BY <1>4, <3>1, RestFacts
    <3> DEFINE r == Rest(w, j + 1)
               e == <<w[j + 1]>>
    <3>4. e \in Seq(Nat) /\ r \in Seq(Nat)
      BY <3>2, <3>3
    <3> HIDE DEF r
    <3>5. fmt = e \o (r \o (c \o y)) /\ r \o (c \o y) \in Seq(Nat)
      <4>1. fmt = (e \o r) \o (c \o y)
        BY <2>1, <3>3 DEF r
      <4> HIDE DEF e
      <4>2. (e \o r) \o (c \o y) = e \o (r \o (c \o y))
        BY <2>3, <3>4, TextsJoin
      <4>3. r \o (c \o y) \in Seq(Nat)
        BY <2>3, <3>4, ConcatProperties
      <4> QED  BY <4>1, <4>2, <4>3
    <3>6. Head(fmt) = w[j + 1] /\ Tail(fmt) = r \o (c \o y)
      BY <3>2, <3>5, FirstChar
    <3>7. x64
      <4> SUFFICES ASSUME ~x64 PROVE FALSE
        OBVIOUS
      <4>1. q.width = 0
        BY <1>2 DEF Sound
      <4>2. w = <<>>
        BY <1>3, <4>1, WidthIsText DEF w
      <4>3. Len(w) = 0
        BY <4>2
      <4> QED  BY <3>1, <4>3
    <3>8. \E i \in 0 .. Len(w) - 1 :
             /\ Head(fmt) = w[i + 1] /\ Tail(fmt) = Rest(w, i + 1) \o (c \o y)
             /\ fill_zero = Read(q.width, i)
      BY <2>1, <3>1, <3>6 DEF r
    <3> QED  BY <1>1, <2>2, <3>7, <3>8, Zenon DEF w, c, y
  <2> QED  BY <2>5, <2>6
<1>6. CASE AtPercent(q, list)
  <2>1. q.conv = Percent /\ fmt = <<Percent>> \o y /\ fill_zero = 0
    BY <1>6 DEF AtPercent, y
  <2>2. ~Lettered(q)
    BY <2>1 DEF Lettered, Percent, ConvC, ConvS, ConvD, ConvU, ConvX
  <2>3. Head(fmt) = Percent /\ Tail(fmt) = y
    BY <1>3, <1>4, <2>1, FirstChar
  <2>4. args = t
    <3>1. Taken(q) = <<>>
      BY <2>2 DEF Taken
    <3> QED  BY <1>2, <1>4, <3>1, ConcatEmptySeq DEF t
  <2> QED  BY <1>1, <2>1, <2>2, <2>3, <2>4, Zenon DEF y, t
<1> QED  BY <1>1, <1>5, <1>6

\* The characters of a width are no letters.
LEMMA DigitIsNoLetter ==
  \A c \in Zero .. Zero + 9 : c \notin {ConvC, ConvS, ConvD, ConvU, ConvX}
  BY DEF Zero, ConvC, ConvS, ConvD, ConvU, ConvX

LEMMA WidthCharIsDigit ==
  ASSUME NEW q, Sound(q), NEW j \in 0 .. Len(WidthChars(q.width)) - 1
  PROVE  /\ WidthChars(q.width)[j + 1] \in Zero .. Zero + 9
         /\ j + 1 \in 0 .. Len(WidthChars(q.width))
         /\ Read(q.width, j + 1) = Read(q.width, j) * 10 + WidthChars(q.width)[j + 1] - Zero
<1>1. q.width \in Nat
  BY DEF Sound, Conversions
<1> DEFINE len == Len(WidthChars(q.width))
<1>2. len \in Nat
  BY <1>1, WidthIsText
<1>3. j + 1 \in 1 .. len /\ (j + 1) - 1 = j /\ j + 1 \in 0 .. len
  BY <1>2
<1> QED  BY <1>1, <1>3, WidthIsRead

LEMMA DigitKeeps ==
  ASSUME PrintInv, width_digit
  PROVE  PrintInv'
<1>1. /\ pc = "conversion" /\ x64 /\ Head(fmt) \in Zero .. Zero + 9
      /\ fill_zero' = fill_zero * 10 + Head(fmt) - Zero /\ fmt' = Tail(fmt)
      /\ UNCHANGED <<mem, d, args, pc, was, x64, call, wanted>>
  BY DEF width_digit, Reading, IsWidth
<1>2. PICK q, list, text :
           /\ Begun(q, list, text)
           /\ \/ /\ x64 /\ Lettered(q)
                 /\ \E j \in 0 .. Len(WidthChars(q.width)) - 1 :
                      /\ Head(fmt) = WidthChars(q.width)[j + 1]
                      /\ Tail(fmt) = Rest(WidthChars(q.width), j + 1) \o (<<q.conv>> \o Ending(list))
                      /\ fill_zero = Read(q.width, j)
              \/ Lettered(q) /\ Head(fmt) = q.conv
              \/ Head(fmt) = Percent
  BY <1>1, ConversionFacts
<1>3. ~(Lettered(q) /\ Head(fmt) = q.conv)
  BY <1>1, DigitIsNoLetter DEF Lettered
<1>4. Head(fmt) # Percent
  BY <1>1 DEF Zero, Percent
<1>5. PICK j \in 0 .. Len(WidthChars(q.width)) - 1 :
        /\ Head(fmt) = WidthChars(q.width)[j + 1]
        /\ Tail(fmt) = Rest(WidthChars(q.width), j + 1) \o (<<q.conv>> \o Ending(list))
        /\ fill_zero = Read(q.width, j)
  BY <1>2, <1>3, <1>4
<1>6. Lettered(q)
  BY <1>2, <1>3, <1>4
<1>7. Sound(q) /\ AllSound(list) /\ Written(text) /\ args = Taken(q) \o Taking(list)
      /\ wanted = text \o (Promised(q) \o PromisedBy(list))
  BY <1>2 DEF Begun
<1>8. j + 1 \in 0 .. Len(WidthChars(q.width)) /\ fill_zero' = Read(q.width, j + 1)
  BY <1>1, <1>5, <1>7, WidthCharIsDigit
<1>9. AtLetter(q, list)'
  <2>1. Ending(list)' = Ending(list)
    BY DEF Ending, Rendering, Rendered, Lettered
  <2>2. fmt' = Rest(WidthChars(q.width), j + 1) \o (<<q.conv>> \o Ending(list)')
    BY <1>1, <1>5, <2>1
  <2> QED  BY <1>6, <1>8, <2>2 DEF AtLetter, Lettered
<1>10. Begun(q, list, text)'
  <2>1. Sound(q)' /\ AllSound(list)' /\ Promised(q)' = Promised(q)
        /\ PromisedBy(list)' = PromisedBy(list)
    BY <1>1, <1>7, ListKept
  <2>2. Written(text)'
    BY <1>1, <1>7, WrittenKept
  <2>3. args' = Taken(q)' \o Taking(list)'
    BY <1>1, <1>7 DEF Taking, Taken, Lettered
  <2>4. wanted' = text \o (Promised(q)' \o PromisedBy(list)')
    BY <1>1, <1>7, <2>1
  <2> QED  BY <2>1, <2>2, <2>3, <2>4 DEF Begun
<1>11. AtConversion'
  BY <1>9, <1>10 DEF AtConversion
<1> QED  BY <1>1, <1>11 DEF PrintInv, Formatting, OtherLoops, PrintedAsAsked

Letters == {ConvC, ConvS, ConvD, ConvU, ConvX}

LEMMA AtItsLetter ==
  ASSUME PrintInv, pc = "conversion", Head(fmt) \in Letters
  PROVE  \E q, list, text :
           /\ Begun(q, list, text) /\ q.conv = Head(fmt)
           /\ fmt = <<q.conv>> \o Ending(list) /\ Tail(fmt) = Ending(list)
           /\ fill_zero = q.width
           /\ Head(args) = q.word /\ Tail(args) = Taking(list)
<1>1. PICK q, list, text :
           /\ Begun(q, list, text)
           /\ \/ /\ x64 /\ Lettered(q)
                 /\ \E j \in 0 .. Len(WidthChars(q.width)) - 1 :
                      /\ Head(fmt) = WidthChars(q.width)[j + 1]
                      /\ Tail(fmt) = Rest(WidthChars(q.width), j + 1) \o (<<q.conv>> \o Ending(list))
                      /\ fill_zero = Read(q.width, j)
              \/ /\ Lettered(q) /\ fmt = <<q.conv>> \o Ending(list)
                 /\ Head(fmt) = q.conv /\ Tail(fmt) = Ending(list)
                 /\ fill_zero = q.width
                 /\ Head(args) = q.word /\ Tail(args) = Taking(list)
              \/ /\ ~Lettered(q) /\ q.conv = Percent
                 /\ Head(fmt) = Percent /\ Tail(fmt) = Ending(list)
                 /\ args = Taking(list) /\ fill_zero = 0
  BY ConversionFacts
<1>2. Sound(q)
  BY <1>1 DEF Begun
<1>3. ASSUME NEW j \in 0 .. Len(WidthChars(q.width)) - 1, Head(fmt) = WidthChars(q.width)[j + 1]
      PROVE  FALSE
  <2>1. Head(fmt) \in Zero .. Zero + 9
    BY <1>2, <1>3, WidthCharIsDigit
  <2> QED  BY <2>1, DigitIsNoLetter DEF Letters
<1>4. Head(fmt) # Percent
  BY DEF Letters, Percent, ConvC, ConvS, ConvD, ConvU, ConvX
<1> QED  BY <1>1, <1>3, <1>4, Zenon

\* One that has written what it promises.
LEMMA LetterDone ==
  ASSUME PrintInv, UNCHANGED <<was, x64, call, wanted>>, pc = "conversion",
         NEW q, NEW list, NEW text, Begun(q, list, text), Tail(fmt) = Ending(list),
         Put(Promised(q)), args' = Taking(list), NextChar
  PROVE  PrintInv'
<1>1. was \in [Addr -> Byte] /\ Sound(q) /\ Written(text)
  BY DEF PrintInv, Begun
<1>2. Promised(q) \in Seq(Nat)
  BY <1>1, PromiseIsText
<1>3. Written(text \o Promised(q))'
  <2>1. PICK more : more = Promised(q)
    OBVIOUS
  <2>2. more \in Seq(Nat) /\ Put(more)
    BY <1>2, <2>1
  <2>3. Written(text \o more)'
    BY <1>1, <2>2, PutWrites
  <2>4. Promised(q)' = more
    BY <2>1, ListKept
  <2> QED  BY <2>3, <2>4
<1>4. fmt' = Ending(list) /\ pc' = "format" /\ fill_zero' = 0
  BY DEF NextChar
<1>5. pc \in Formatting
  BY DEF Formatting
<1> QED  BY <1>3, <1>4, <1>5, ConversionDone

LEMMA CharKeeps ==
  ASSUME PrintInv, convert_char
  PROVE  PrintInv'
<1>1. /\ pc = "conversion" /\ Head(fmt) = ConvC
      /\ Put(<<Head(args) % 256>>) /\ args' = Tail(args) /\ NextChar
      /\ UNCHANGED <<was, x64, call, wanted>>
  BY DEF convert_char, Reading
<1>2. PICK q, list, text :
           /\ Begun(q, list, text) /\ q.conv = Head(fmt)
           /\ fmt = <<q.conv>> \o Ending(list) /\ Tail(fmt) = Ending(list)
           /\ fill_zero = q.width
           /\ Head(args) = q.word /\ Tail(args) = Taking(list)
  BY <1>1, AtItsLetter DEF Letters
<1>3. Promised(q) = <<q.word % 256>>
  BY <1>1, <1>2 DEF Promised, ConvC, ConvS, ConvU, ConvX, ConvD
<1>4. Put(Promised(q)) /\ args' = Taking(list)
  BY <1>1, <1>2, <1>3
<1> QED  BY <1>1, <1>2, <1>4, LetterDone

LEMMA NumberKeeps ==
  ASSUME PrintInv, convert_number \/ convert_number_filled
  PROVE  PrintInv'
<1>1. /\ pc = "conversion" /\ Head(fmt) \in Numeric
      /\ args' = Tail(args) /\ NextChar
      /\ UNCHANGED <<was, x64, call, wanted>>
      /\ \/ ~x64 /\ Put(number(Head(args), Head(fmt)))
         \/ Put(number_filled(Head(args), Head(fmt)))
  BY DEF convert_number, convert_number_filled, Reading, Numeric
<1>2. PICK q, list, text :
           /\ Begun(q, list, text) /\ q.conv = Head(fmt)
           /\ fmt = <<q.conv>> \o Ending(list) /\ Tail(fmt) = Ending(list)
           /\ fill_zero = q.width
           /\ Head(args) = q.word /\ Tail(args) = Taking(list)
  BY <1>1, AtItsLetter DEF Letters, Numeric
<1>3. Sound(q) /\ q.word \in Words /\ q.width \in Nat /\ q.conv \in Numeric
  BY <1>1, <1>2 DEF Begun, Sound, Conversions
<1>4. ~x64 => number(q.word, q.conv) = Promised(q)
  <2> SUFFICES ASSUME ~x64 PROVE number(q.word, q.conv) = Promised(q)
    OBVIOUS
  <2>1. q.width = 0
    BY <1>3 DEF Sound
  <2> QED  BY <1>3, <2>1, NumbersAreRight
<1>5. number_filled(q.word, q.conv) = Promised(q)
  BY <1>2, <1>3, FilledNumbersAreRight
<1>6. Put(Promised(q))
  BY <1>1, <1>2, <1>4, <1>5
<1> QED  BY <1>1, <1>2, <1>6, LetterDone

LEMMA OtherKeeps ==
  ASSUME PrintInv, convert_other
  PROVE  PrintInv'
<1>1. /\ pc = "conversion" /\ ~IsWidth /\ Head(fmt) \notin Letters
      /\ Put(<<Head(fmt)>>) /\ args' = args /\ NextChar
      /\ UNCHANGED <<was, x64, call, wanted>>
  BY DEF convert_other, Reading, Letters
<1>2. PICK q, list, text :
           /\ Begun(q, list, text)
           /\ \/ /\ x64 /\ Lettered(q)
                 /\ \E j \in 0 .. Len(WidthChars(q.width)) - 1 :
                      /\ Head(fmt) = WidthChars(q.width)[j + 1]
                      /\ Tail(fmt) = Rest(WidthChars(q.width), j + 1) \o (<<q.conv>> \o Ending(list))
                      /\ fill_zero = Read(q.width, j)
              \/ /\ Lettered(q) /\ fmt = <<q.conv>> \o Ending(list)
                 /\ Head(fmt) = q.conv /\ Tail(fmt) = Ending(list)
                 /\ fill_zero = q.width
                 /\ Head(args) = q.word /\ Tail(args) = Taking(list)
              \/ /\ ~Lettered(q) /\ q.conv = Percent
                 /\ Head(fmt) = Percent /\ Tail(fmt) = Ending(list)
                 /\ args = Taking(list) /\ fill_zero = 0
  BY <1>1, ConversionFacts
<1>3. Sound(q)
  BY <1>2 DEF Begun
<1>4. ASSUME x64, NEW j \in 0 .. Len(WidthChars(q.width)) - 1,
             Head(fmt) = WidthChars(q.width)[j + 1]
      PROVE  FALSE
  <2>1. Head(fmt) \in Zero .. Zero + 9
    BY <1>3, <1>4, WidthCharIsDigit
  <2> QED  BY <1>1, <1>4, <2>1 DEF IsWidth
<1>5. ~(Lettered(q) /\ Head(fmt) = q.conv)
  BY <1>1 DEF Lettered, Letters
<1>6. /\ ~Lettered(q) /\ q.conv = Percent /\ Head(fmt) = Percent /\ Tail(fmt) = Ending(list)
      /\ args = Taking(list)
  BY <1>2, <1>4, <1>5, Zenon
<1>7. Promised(q) = <<Percent>>
  BY <1>6 DEF Promised, Lettered
<1> QED  BY <1>1, <1>2, <1>6, <1>7, LetterDone

LEMMA StringBegins ==
  ASSUME PrintInv, convert_string
  PROVE  PrintInv'
<1>1. /\ pc = "conversion" /\ Head(fmt) = ConvS /\ s' = Head(args) /\ args' = Tail(args)
      /\ pc' = "string" /\ UNCHANGED <<mem, d, fmt, was, x64, call, wanted>>
  BY DEF convert_string, Reading
<1>2. PICK q, list, text :
           /\ Begun(q, list, text) /\ q.conv = Head(fmt)
           /\ fmt = <<q.conv>> \o Ending(list) /\ Tail(fmt) = Ending(list)
           /\ fill_zero = q.width
           /\ Head(args) = q.word /\ Tail(args) = Taking(list)
  BY <1>1, AtItsLetter DEF Letters
<1>3. /\ Sound(q) /\ AllSound(list) /\ Written(text) /\ was \in [Addr -> Byte]
      /\ wanted = text \o (Promised(q) \o PromisedBy(list))
  BY <1>2 DEF Begun, PrintInv
<1>4. q.word \in Nat
  <2>1. q.word \in 0 .. WORD - 1 /\ WORD \in Nat
    BY <1>3, FormatAssumption DEF Sound, Conversions, Words
  <2> QED  BY <2>1
<1>5. PICK len \in Addr : StringAt(was, q.word, len)
  BY <1>1, <1>2, <1>3 DEF Sound
<1> DEFINE t == TextAt(was, q.word)
<1>6. t \in Seq(Nat)
  BY <1>3, <1>4, <1>5, TextIs
<1>7. Promised(q) = t
  BY <1>1, <1>2 DEF Promised, ConvC, ConvS, ConvU, ConvX, ConvD
<1>8. Rest(t, 0) = t /\ 0 \in 0 .. Len(t)
  <2> HIDE DEF t
  <2>1. Len(t) \in Nat
    BY <1>6
  <2> QED  BY <1>6, <2>1, RestFacts
<1>9. t' = t
  BY <1>1
<1>10. /\ Sound(q)' /\ q.conv = ConvS /\ AllSound(list)' /\ Written(text)'
       /\ PromisedBy(list)' = PromisedBy(list)
  BY <1>1, <1>2, <1>3, ListKept, WrittenKept
<1>11. s' = q.word + 0
  BY <1>1, <1>2, <1>4
<1>12. wanted' = text \o (Rest(t, 0) \o PromisedBy(list)')
  BY <1>1, <1>3, <1>7, <1>8, <1>10
<1>13. fmt' = <<ConvS>> \o Ending(list)' /\ args' = Taking(list)'
  BY <1>1, <1>2 DEF Ending, Rendering, Rendered, Taking, Taken, Lettered
<1>14. 0 \in 0 .. Len(t') /\ wanted' = text \o (Rest(t', 0) \o PromisedBy(list)')
  BY <1>8, <1>9, <1>12
<1> HIDE DEF t
<1>15. AtString'
  BY <1>10, <1>11, <1>13, <1>14 DEF AtString, t
<1> QED  BY <1>1, <1>15 DEF PrintInv, Formatting, OtherLoops, PrintedAsAsked

\* Before a turn or the end of the loop of %s: the string lies in front of the
\* buffer, so that it still is what it was.
LEMMA InString ==
  ASSUME PrintInv, pc = "string"
  PROVE  \E q, list, text, j :
           /\ Sound(q) /\ q.conv = ConvS /\ AllSound(list) /\ Written(text)
           /\ j \in 0 .. Len(TextAt(was, q.word)) /\ s = q.word + j
           /\ wanted = text \o (Rest(TextAt(was, q.word), j) \o PromisedBy(list))
           /\ fmt = <<ConvS>> \o Ending(list) /\ args = Taking(list)
           /\ TextAt(was, q.word) \in Seq(Nat) /\ s \in Nat
           /\ mem[s] = 0 => j = Len(TextAt(was, q.word))
           /\ mem[s] # 0 => /\ j \in 0 .. Len(TextAt(was, q.word)) - 1
                            /\ TextAt(was, q.word)[j + 1] = mem[s]
<1>1. was \in [Addr -> Byte] /\ AtString
  BY DEF PrintInv
<1>2. PICK q, list, text, j :
    /\ Sound(q) /\ q.conv = ConvS /\ AllSound(list) /\ Written(text)
    /\ j \in 0 .. Len(TextAt(was, q.word)) /\ s = q.word + j
    /\ wanted = text \o (Rest(TextAt(was, q.word), j) \o PromisedBy(list))
    /\ fmt = <<ConvS>> \o Ending(list) /\ args = Taking(list)
  BY <1>1 DEF AtString
<1>3. q.word \in Nat
  <2>1. q.word \in 0 .. WORD - 1 /\ WORD \in Nat
    BY <1>2, FormatAssumption DEF Sound, Conversions, Words
  <2> QED  BY <2>1
<1>4. PICK len \in Addr : StringAt(was, q.word, len) /\ q.word + len < printk_buff
  BY <1>2 DEF Sound
<1> DEFINE t == TextAt(was, q.word)
<1>5. t \in Seq(Nat) /\ Len(t) = len /\ \A i \in 1 .. len : t[i] = was[q.word + i - 1]
  BY <1>1, <1>3, <1>4, TextIs
<1>6. len \in Nat /\ printk_buff \in Nat /\ ADDRS \in Nat
  BY MemoryAssumption, FormatAssumption DEF Addr
<1>7. j \in 0 .. Len(t) /\ s = q.word + j
  BY <1>2
<1> DEFINE b == q.word
<1>8. b \in Nat /\ s = b + j /\ b + len < printk_buff /\ \A i \in 1 .. len : t[i] = was[b + i - 1]
  BY <1>3, <1>4, <1>5, <1>7
<1>9. was[b + len] = 0 /\ b + len \in Addr /\ \A k \in b .. (b + len - 1) : was[k] # 0
  BY <1>4 DEF StringAt
<1> HIDE DEF t, b
<1>10. s \in Nat /\ s < printk_buff /\ j \in 0 .. len /\ s \in Addr
  BY <1>5, <1>6, <1>7, <1>8, <1>9 DEF Addr
<1>11. mem[s] = was[s]
  <2>1. mem = Filled(text)
    BY <1>2 DEF Written
  <2>2. s \notin printk_buff .. printk_buff + Len(text) - 1
    BY <1>6, <1>10
  <2> QED  BY <1>10, <2>1, <2>2 DEF Filled
<1>12. mem[s] = 0 => j = Len(t)
  <2> SUFFICES ASSUME j # Len(t) PROVE mem[s] # 0
    OBVIOUS
  <2>1. s \in b .. (b + len - 1)
    BY <1>5, <1>6, <1>8, <1>10
  <2> QED  BY <1>9, <1>11, <2>1
<1>13. mem[s] # 0 => j \in 0 .. Len(t) - 1 /\ t[j + 1] = mem[s]
  <2> SUFFICES ASSUME mem[s] # 0 PROVE j \in 0 .. Len(t) - 1 /\ t[j + 1] = mem[s]
    OBVIOUS
  <2>1. j # len
    <3> SUFFICES ASSUME j = len PROVE FALSE
      OBVIOUS
    <3>1. s = b + len
      BY <1>8
    <3> QED  BY <1>9, <1>11, <3>1
  <2>2. j \in 0 .. len - 1 /\ j + 1 \in 1 .. len /\ b + (j + 1) - 1 = s
    BY <1>6, <1>8, <1>10, <2>1
  <2> QED  BY <1>5, <1>8, <1>11, <2>2
<1>14. t \in Seq(Nat) /\ s \in Nat
  BY <1>5, <1>10
<1> QED  BY <1>2, <1>12, <1>13, <1>14, Zenon DEF t

LEMMA StringTurns ==
  ASSUME PrintInv, string_turn
  PROVE  PrintInv'
<1>1. /\ pc = "string" /\ mem[s] # 0 /\ Put(<<mem[s]>>) /\ s' = s + 1
      /\ UNCHANGED <<pc, fmt, args, was, x64, call, wanted>>
  BY DEF string_turn, Reading
<1>2. PICK q, list, text, j :
           /\ Sound(q) /\ q.conv = ConvS /\ AllSound(list) /\ Written(text)
           /\ j \in 0 .. Len(TextAt(was, q.word)) /\ s = q.word + j
           /\ wanted = text \o (Rest(TextAt(was, q.word), j) \o PromisedBy(list))
           /\ fmt = <<ConvS>> \o Ending(list) /\ args = Taking(list)
           /\ TextAt(was, q.word) \in Seq(Nat) /\ s \in Nat
           /\ j \in 0 .. Len(TextAt(was, q.word)) - 1
           /\ TextAt(was, q.word)[j + 1] = mem[s]
  BY <1>1, InString
<1>3. PICK t : t = TextAt(was, q.word)
  OBVIOUS
<1>4. /\ t \in Seq(Nat) /\ j \in 0 .. Len(t) - 1 /\ t[j + 1] = mem[s]
      /\ wanted = text \o (Rest(t, j) \o PromisedBy(list))
  BY <1>2, <1>3
<1>5. Len(t) \in Nat /\ j \in Nat /\ j + 1 \in 1 .. Len(t) /\ j + 1 \in 0 .. Len(t)
      /\ j \in 0 .. Len(t)
  BY <1>4
<1>6. PICK c : c = <<mem[s]>>
  OBVIOUS
<1>7. c \in Seq(Nat) /\ Put(c)
  <2>1. t[j + 1] \in Nat
    BY <1>4, <1>5
  <2>2. mem[s] \in Nat
    BY <1>4, <2>1
  <2> QED  BY <1>1, <1>6, <2>2
<1>8. Written(text \o c)'
  BY <1>1, <1>2, <1>7, PutWrites
<1>9. wanted = (text \o c) \o (Rest(t, j + 1) \o PromisedBy(list))
  <2> DEFINE r == Rest(t, j + 1)
             p == PromisedBy(list)
  <2>1. Rest(t, j) = c \o r /\ r \in Seq(Nat)
    <3>1. t \in Seq(Nat) /\ j \in 0 .. Len(t) - 1 /\ j + 1 \in 0 .. Len(t)
      BY <1>4, <1>5
    <3>2. r \in Seq(Nat)
      BY <3>1, RestFacts
    <3>3. Rest(t, j) = <<t[j + 1]>> \o r
      BY <3>1, RestFacts
    <3>4. t[j + 1] = mem[s]
      BY <1>4
    <3> QED  BY <3>2, <3>3, <3>4, <1>6
  <2>2. p \in Seq(Nat) /\ text \in Seq(Nat)
    BY <1>2, ListTexts DEF PrintInv, Written
  <2> HIDE DEF r, p
  <2>3. (c \o r) \o p = c \o (r \o p)
    BY <1>7, <2>1, <2>2, TextsJoin
  <2>4. r \o p \in Seq(Nat)
    BY <2>1, <2>2, ConcatProperties
  <2>5. (text \o c) \o (r \o p) = text \o (c \o (r \o p))
    BY <1>7, <2>2, <2>4, TextsJoin
  <2> QED  BY <1>4, <2>1, <2>3, <2>5 DEF r, p
<1>10. /\ Sound(q)' /\ AllSound(list)' /\ PromisedBy(list)' = PromisedBy(list)
  BY <1>1, <1>2, ListKept
<1>11. TextAt(was, q.word)' = t
  BY <1>1, <1>3
<1>12. s' = q.word + (j + 1)
  <2>1. q.word \in Nat
    <3>1. q.word \in 0 .. WORD - 1 /\ WORD \in Nat
      BY <1>2, FormatAssumption DEF Sound, Conversions, Words
    <3> QED  BY <3>1
  <2> DEFINE b == q.word
  <2>2. b \in Nat /\ s = b + j
    BY <1>2, <2>1
  <2> HIDE DEF b
  <2>3. s' = b + (j + 1)
    BY <1>1, <1>5, <2>2
  <2> QED  BY <2>3 DEF b
<1>13. fmt' = <<ConvS>> \o Ending(list)' /\ args' = Taking(list)'
  BY <1>1, <1>2 DEF Ending, Rendering, Rendered, Taking, Taken, Lettered
<1>14. /\ j + 1 \in 0 .. Len(TextAt(was, q.word)')
       /\ wanted' = (text \o c) \o (Rest(TextAt(was, q.word)', j + 1) \o PromisedBy(list)')
  BY <1>1, <1>5, <1>9, <1>10, <1>11
<1>15. AtString'
  BY <1>2, <1>8, <1>10, <1>12, <1>13, <1>14 DEF AtString
<1> QED  BY <1>1, <1>15 DEF PrintInv, Formatting, OtherLoops, PrintedAsAsked

LEMMA StringEnds ==
  ASSUME PrintInv, string_end
  PROVE  PrintInv'
<1>1. /\ pc = "string" /\ mem[s] = 0 /\ NextChar
      /\ UNCHANGED <<mem, d, args, was, x64, call, wanted>>
  BY DEF string_end, Reading
<1>2. PICK q, list, text, j :
           /\ Sound(q) /\ AllSound(list) /\ Written(text)
           /\ wanted = text \o (Rest(TextAt(was, q.word), j) \o PromisedBy(list))
           /\ fmt = <<ConvS>> \o Ending(list) /\ args = Taking(list)
           /\ TextAt(was, q.word) \in Seq(Nat)
           /\ j = Len(TextAt(was, q.word))
  BY <1>1, InString
<1>3. Rest(TextAt(was, q.word), j) = <<>>
  BY <1>2, RestFacts
<1>4. was \in [Addr -> Byte]
  BY DEF PrintInv
<1>5. PromisedBy(list) \in Seq(Nat) /\ Ending(list) \in Seq(Nat)
  BY <1>2, <1>4, ListTexts, EndingIs
<1>6. wanted = text \o PromisedBy(list)
  BY <1>2, <1>3, <1>5, ConcatEmptySeq
<1>7. Tail(fmt) = Ending(list)
  BY <1>2, <1>5, FirstChar DEF ConvS
<1>8. fmt' = Ending(list) /\ fill_zero' = 0 /\ pc' = "format"
  BY <1>1, <1>7 DEF NextChar
<1>9. AllSound(list)' /\ PromisedBy(list)' = PromisedBy(list) /\ Written(text)'
  BY <1>1, <1>2, ListKept, WrittenKept
<1>10. Ending(list)' = Ending(list) /\ Taking(list)' = Taking(list)
  BY DEF Ending, Rendering, Taking, Rendered, Taken, Lettered
<1>11. wanted' = text \o PromisedBy(list)' /\ fmt' = Ending(list)' /\ args' = Taking(list)'
  BY <1>1, <1>2, <1>6, <1>8, <1>9, <1>10
<1>12. AtFormat'
  BY <1>8, <1>9, <1>11 DEF AtFormat
<1> QED  BY <1>1, <1>8, <1>12 DEF PrintInv, Formatting, OtherLoops, PrintedAsAsked

\* The end of the format.
LEMMA FormatEnds ==
  ASSUME PrintInv, vsprintf_end
  PROVE  PrintInv'
<1>1. /\ pc = "format" /\ Head(fmt) = 0 /\ mem' = [mem EXCEPT ![d] = 0]
      /\ ret' = d - call.dest /\ pc' = "console" /\ UNCHANGED <<was, x64, call, wanted>>
  BY DEF vsprintf_end, Reading, Store
<1>2. /\ call.dest = printk_buff /\ wanted \in Seq(Nat) /\ printk_buff + Len(wanted) < ADDRS
      /\ was \in [Addr -> Byte]
  BY <1>1 DEF PrintInv, Formatting
<1>3. Written(wanted)
  <2> SUFFICES ASSUME NEW q, NEW list, NEW text, Begun(q, list, text),
                      fmt = Rendered(q) \o Ending(list)
               PROVE  FALSE
    BY <1>1, NextConversion
  <2>1. Sound(q) /\ AllSound(list)
    BY DEF Begun
  <2>2. q.conv \in 1 .. 255
    BY <2>1 DEF Sound, Conversions
  <2>3. q.conv \in Nat /\ q.conv # 0
    <3>1. \A c \in 1 .. 255 : c \in Nat /\ c # 0
      OBVIOUS
    <3> QED  BY <2>2, <3>1, Zenon
  <2> DEFINE y == Ending(list)
             p == <<Percent>>
             r == WidthChars(q.width) \o <<q.conv>>
  <2>4. y \in Seq(Nat)
    BY <1>2, <2>1, EndingIs
  <2>5. Percent \in Nat /\ Percent # 0
    BY DEF Percent
  <2>6. r \in Seq(Nat)
    <3>1. WidthChars(q.width) \in Seq(Nat)
      BY <2>1, WidthIsText DEF Sound, Conversions
    <3>2. <<q.conv>> \in Seq(Nat)
      BY <2>3
    <3> QED  BY <3>1, <3>2, ConcatProperties
  <2>7. p \in Seq(Nat)
    BY <2>5
  <2>8. CASE Lettered(q)
    <3>1. Rendered(q) = p \o r
      BY <2>1, <2>8, RenderedIsText
    <3> HIDE DEF y, r
    <3>2. (p \o r) \o y = p \o (r \o y) /\ r \o y \in Seq(Nat)
      <4> HIDE DEF p
      <4>1. (p \o r) \o y = p \o (r \o y)
        BY <2>4, <2>6, <2>7, TextsJoin
      <4> QED  BY <2>4, <2>6, <4>1, ConcatProperties
    <3>3. fmt = p \o (r \o y)
      BY <3>1, <3>2 DEF y
    <3>4. Head(fmt) = Percent
      BY <2>5, <3>2, <3>3, FirstChar
    <3> QED  BY <1>1, <2>5, <3>4
  <2>9. CASE ~Lettered(q) /\ q.conv = Percent
    <3>1. Rendered(q) = <<Percent, Percent>>
      BY <2>9 DEF Rendered
    <3>2. <<Percent, Percent>> = p \o p
      OBVIOUS
    <3> HIDE DEF y
    <3>3. (p \o p) \o y = p \o (p \o y) /\ p \o y \in Seq(Nat)
      <4> HIDE DEF p
      <4>1. (p \o p) \o y = p \o (p \o y)
        BY <2>4, <2>7, TextsJoin
      <4> QED  BY <2>4, <2>7, <4>1, ConcatProperties
    <3>4. fmt = p \o (p \o y)
      BY <3>1, <3>2, <3>3 DEF y
    <3>5. Head(fmt) = Percent
      BY <2>5, <3>3, <3>4, FirstChar
    <3> QED  BY <1>1, <2>5, <3>5
  <2>10. CASE ~Lettered(q) /\ q.conv # Percent
    <3>1. fmt = <<q.conv>> \o y
      BY <2>10 DEF Rendered
    <3> HIDE DEF y
    <3>2. Head(fmt) = q.conv
      BY <2>3, <2>4, <3>1, FirstChar
    <3> QED  BY <1>1, <2>3, <3>2
  <2> QED  BY <2>8, <2>9, <2>10
<1> DEFINE k == Len(wanted)
           b == printk_buff
<1>4. /\ d = b + k /\ mem = Filled(wanted) /\ k \in Nat /\ b \in Nat /\ ADDRS \in Nat /\ b + k < ADDRS
      /\ call.dest = b
  BY <1>2, <1>3, FormatAssumption, MemoryAssumption DEF Written, Addr
<1>5. ret' = k
  <2> HIDE DEF k, b
  <2> QED  BY <1>1, <1>4
<1> DEFINE z == wanted \o <<0>>
<1>6. z \in Seq(Nat) /\ \A i \in 1 .. k : z[i] = wanted[i]
  <2>1. <<0>> \in Seq(Nat) /\ Len(<<0>>) = 1
    OBVIOUS
  <2> QED  BY <1>2, <2>1, ConcatProperties
<1>7. z[k + 1] = 0
  <2>1. <<0>> \in Seq(Nat) /\ Len(<<0>>) = 1 /\ <<0>>[1] = 0
    OBVIOUS
  <2>2. k \in Nat /\ k + 1 \in 1 .. k + 1 /\ ~(k + 1 <= k) /\ (k + 1) - k = 1
    BY <1>4
  <2>3. z[k + 1] = <<0>>[(k + 1) - k]
    BY <1>2, <2>1, <2>2, ConcatProperties
  <2> QED  BY <2>1, <2>2, <2>3
<1> HIDE DEF k, b, z
<1>8. ASSUME NEW a \in Addr
      PROVE  [mem EXCEPT ![d] = 0][a]
               = IF a < b \/ a > b + k THEN was[a] ELSE z[a - b + 1]
  <2>0. a \in Nat /\ DOMAIN mem = Addr
    BY <1>4 DEF Addr, Filled
  <2>1. mem[a] = IF a \in b .. b + k - 1 THEN wanted[a - b + 1] ELSE was[a]
    BY <1>4 DEF Filled, b, k
  <2>2. CASE a = d
    <3>1. [mem EXCEPT ![d] = 0][a] = 0
      BY <2>0, <2>2
    <3>2. ~(a < b \/ a > b + k) /\ a - b + 1 = k + 1
      BY <1>4, <2>0, <2>2
    <3> QED  BY <1>7, <3>1, <3>2
  <2>3. CASE a # d
    <3>1. [mem EXCEPT ![d] = 0][a] = mem[a]
      BY <2>0, <2>3
    <3>2. CASE a \in b .. b + k - 1
      <4>1. ~(a < b \/ a > b + k) /\ a - b + 1 \in 1 .. k
        BY <1>4, <2>0, <3>2
      <4> QED  BY <1>6, <2>1, <3>1, <3>2, <4>1
    <3>3. CASE a \notin b .. b + k - 1
      <4>1. a < b \/ a > b + k
        BY <1>4, <2>0, <2>3, <3>3
      <4> QED  BY <2>1, <3>1, <3>3, <4>1
    <3> QED  BY <3>2, <3>3
  <2> QED  BY <2>2, <2>3
<1>9. mem' = [a \in Addr |-> IF a < b \/ a > b + k THEN was[a] ELSE z[a - b + 1]]
  <2>1. mem' = [a \in Addr |-> [mem EXCEPT ![d] = 0][a]]
    BY <1>1, <1>4 DEF Filled
  <2> QED  BY <1>8, <2>1
<1>10. PrintedAsAsked'
  <2>1. ret' = Len(wanted')
    BY <1>1, <1>5 DEF k
  <2>2. mem' = [a \in Addr |->
                 IF a < printk_buff \/ a > printk_buff + Len(wanted') THEN was'[a]
                 ELSE (wanted' \o <<0>>)[a - printk_buff + 1]]
    BY <1>1, <1>9 DEF b, k, z
  <2> QED  BY <2>1, <2>2 DEF PrintedAsAsked
<1> QED  BY <1>1, <1>2, <1>10 DEF PrintInv, Formatting, OtherLoops

\* console_write leaves the text alone, and the 32-bit kernel keeps the count.
LEMMA ConsoleWritten ==
  ASSUME PrintInv, console_written
  PROVE  PrintInv'
<1>1. /\ pc = "console" /\ pc' = "returned" /\ mem' = mem
      /\ UNCHANGED <<was, x64, call, wanted>>
  BY DEF console_written, Reading
<1>2. ~x64 => ret' = ret
  BY DEF console_written
<1>3. PrintedAsAsked'
  BY <1>1, <1>2 DEF PrintInv, PrintedAsAsked
<1> QED  BY <1>1, <1>3 DEF PrintInv, Formatting, OtherLoops

\* A call of printk.
LEMMA PrintkBegins ==
  ASSUME PrintInv, pc = "caller", NEW list \in Directives, printk(list)
  PROVE  PrintInv'
<1>1. /\ call' = [fn |-> "printk", dest |-> printk_buff, src |-> 0, n |-> 0]
      /\ d' = printk_buff /\ pc' = "format" /\ UNCHANGED <<mem, was, x64>>
      /\ Proper(list) /\ wanted' = PromisedBy(list) /\ printk_buff + Len(wanted') < ADDRS
      /\ fmt' = FlattenSeq([k \in DOMAIN list |-> Rendered(list[k])]) \o <<0>>
      /\ args' = FlattenSeq([k \in DOMAIN list |-> Taken(list[k])])
      /\ fill_zero' = 0
  BY DEF printk, Enter
<1>2. mem = was /\ was \in [Addr -> Byte]
  BY DEF PrintInv
<1>3. list \in Seq(Conversions)
  BY FormatAssumption DEF Conversions, Words
<1>4. AllSound(list)
  <2>1. ASSUME NEW k \in DOMAIN list PROVE Sound(list[k])
    <3>1. list[k] \in Conversions
      BY <1>3, <2>1
    <3>2. ~x64 => list[k].width = 0
      BY <1>1 DEF Proper
    <3>3. list[k].conv = ConvS =>
            \E len \in Addr : StringAt(was, list[k].word, len) /\ list[k].word + len < printk_buff
      BY <1>1, <1>2 DEF Proper
    <3> QED  BY <3>1, <3>2, <3>3 DEF Sound
  <2> QED  BY <1>3, <2>1 DEF AllSound
<1>5. PromisedBy(list) \in Seq(Nat)
  BY <1>2, <1>4, ListTexts
<1>6. AllSound(list)' /\ PromisedBy(list)' = PromisedBy(list)
  BY <1>1, <1>4, ListKept
<1>7. Written(<<>>)'
  <2>0. printk_buff \in Nat
    BY FormatAssumption, MemoryAssumption DEF Addr
  <2>1. Len(<<>>) = 0 /\ printk_buff + 0 = printk_buff /\ <<>> \in Seq(Nat)
    BY <2>0
  <2>2. \A a : a \notin printk_buff .. printk_buff + 0 - 1
    BY <2>0
  <2>3. was = [a \in Addr |-> IF a \in printk_buff .. printk_buff + 0 - 1
                              THEN <<>>[a - printk_buff + 1] ELSE was[a]]
    BY <1>2, <2>2
  <2>4. mem' = [a \in Addr |-> IF a \in printk_buff .. printk_buff + Len(<<>>) - 1
                               THEN <<>>[a - printk_buff + 1] ELSE was'[a]]
    BY <1>1, <1>2, <2>1, <2>3
  <2>5. d' = printk_buff + Len(<<>>)
    BY <1>1, <2>1
  <2> QED  BY <2>1, <2>4, <2>5 DEF Written, Filled
<1>8. wanted' = <<>> \o PromisedBy(list)'
  BY <1>1, <1>5, <1>6, ConcatEmptySeq
<1>9. fmt' = Ending(list)' /\ args' = Taking(list)'
  BY <1>1 DEF Ending, Rendering, Rendered, Taking, Taken, Lettered
<1>10. AtFormat'
  BY <1>1, <1>6, <1>7, <1>8, <1>9 DEF AtFormat
<1>11. call'.fn = "printk" /\ call'.dest = printk_buff
  BY <1>1
<1> QED
  BY <1>1, <1>2, <1>5, <1>10, <1>11 DEF PrintInv, Formatting, OtherLoops, PrintedAsAsked

LEMMA PrintInvStep == PrintInv /\ [Next]_libVars => PrintInv'
<1> SUFFICES ASSUME PrintInv, [Next]_libVars PROVE PrintInv'
  OBVIOUS
<1>1. CASE pc = "caller" /\ \E list \in Directives : printk(list)
  BY <1>1, PrintkBegins
<1>2. CASE vsprintf
  <2>1. CASE plain_char \/ percent
    BY <2>1, PlainKeeps, PercentKeeps
  <2>2. CASE width_digit \/ convert_other
    BY <2>2, DigitKeeps, OtherKeeps
  <2>3. CASE convert_char \/ convert_number \/ convert_number_filled
    BY <2>3, CharKeeps, NumberKeeps
  <2>4. CASE convert_string \/ string_turn \/ string_end
    BY <2>4, StringBegins, StringTurns, StringEnds
  <2>5. CASE vsprintf_end
    BY <2>5, FormatEnds
  <2> QED  BY <1>2, <2>1, <2>2, <2>3, <2>4, <2>5 DEF vsprintf
<1>3. CASE Calls \/ Turns \/ caller
  BY <1>3, OtherSteps
<1>4. CASE console_written
  BY <1>4, ConsoleWritten
<1>5. CASE UNCHANGED libVars
  <2> USE <1>5 DEF libVars, strVars, fmtVars
  <2>1. UNCHANGED <<mem, d, s, was, x64, pc, call, wanted, fmt, args, fill_zero, ret>>
    OBVIOUS
  <2>2. \A list : /\ Ending(list)' = Ending(list) /\ Taking(list)' = Taking(list)
                  /\ AllSound(list)' <=> AllSound(list)
                  /\ PromisedBy(list)' = PromisedBy(list)
    <3>1. \A list : Ending(list)' = Ending(list) /\ Taking(list)' = Taking(list)
      BY DEF Ending, Rendering, Rendered, Taking, Taken, Lettered
    <3> QED  BY <2>1, <3>1, ListKept
  <2>3. \A q : (Sound(q)' <=> Sound(q)) /\ Promised(q)' = Promised(q)
    BY <2>1, ListKept
  <2>4. \A text : Written(text)' <=> Written(text)
    BY <2>1 DEF Written, Filled
  <2>5. AtFormat => AtFormat'
    <3> SUFFICES ASSUME AtFormat PROVE AtFormat'
      OBVIOUS
    <3>1. PICK list, text : /\ AllSound(list) /\ Written(text)
                            /\ wanted = text \o PromisedBy(list)
                            /\ fmt = Ending(list) /\ args = Taking(list) /\ fill_zero = 0
      BY DEF AtFormat
    <3>2. /\ AllSound(list)' /\ Written(text)' /\ wanted' = text \o PromisedBy(list)'
          /\ fmt' = Ending(list)' /\ args' = Taking(list)' /\ fill_zero' = 0
      BY <2>1, <2>2, <2>4, <3>1
    <3> QED  BY <3>2 DEF AtFormat
  <2>6. AtConversion => AtConversion'
    <3> SUFFICES ASSUME AtConversion PROVE AtConversion'
      OBVIOUS
    <3>1. PICK q, list, text : Begun(q, list, text) /\ (AtLetter(q, list) \/ AtPercent(q, list))
      BY DEF AtConversion
    <3>2. Taken(q)' = Taken(q)
      BY DEF Taken, Lettered
    <3>3. Begun(q, list, text)'
      <4>1. /\ Sound(q) /\ AllSound(list) /\ Written(text)
            /\ wanted = text \o (Promised(q) \o PromisedBy(list))
            /\ args = Taken(q) \o Taking(list)
        BY <3>1 DEF Begun
      <4>2. /\ Sound(q)' /\ AllSound(list)' /\ Written(text)'
            /\ wanted' = text \o (Promised(q)' \o PromisedBy(list)')
            /\ args' = Taken(q)' \o Taking(list)'
        BY <2>1, <2>2, <2>3, <2>4, <3>2, <4>1
      <4> QED  BY <4>2 DEF Begun
    <3>4. AtLetter(q, list)' <=> AtLetter(q, list)
      BY <2>1, <2>2 DEF AtLetter, Lettered
    <3>5. AtPercent(q, list)' <=> AtPercent(q, list)
      BY <2>1, <2>2 DEF AtPercent
    <3> QED  BY <3>1, <3>3, <3>4, <3>5 DEF AtConversion
  <2>7. AtString => AtString'
    <3> SUFFICES ASSUME AtString PROVE AtString'
      OBVIOUS
    <3>1. PICK q, list, text, j :
            /\ Sound(q) /\ q.conv = ConvS /\ AllSound(list) /\ Written(text)
            /\ j \in 0 .. Len(TextAt(was, q.word)) /\ s = q.word + j
            /\ wanted = text \o (Rest(TextAt(was, q.word), j) \o PromisedBy(list))
            /\ fmt = <<ConvS>> \o Ending(list) /\ args = Taking(list)
      BY DEF AtString
    <3>2. TextAt(was, q.word)' = TextAt(was, q.word)
      BY <2>1
    <3>3. /\ Sound(q)' /\ q.conv = ConvS /\ AllSound(list)' /\ Written(text)'
          /\ j \in 0 .. Len(TextAt(was, q.word)') /\ s' = q.word + j
          /\ wanted' = text \o (Rest(TextAt(was, q.word)', j) \o PromisedBy(list)')
          /\ fmt' = <<ConvS>> \o Ending(list)' /\ args' = Taking(list)'
      BY <2>1, <2>2, <2>3, <2>4, <3>1, <3>2
    <3> QED  BY <3>3 DEF AtString
  <2>8. PrintedAsAsked => PrintedAsAsked'
    BY ONLY <2>1, Zenon DEF PrintedAsAsked
  <2> QED  BY <2>1, <2>5, <2>6, <2>7, <2>8 DEF PrintInv
<1> QED  BY <1>1, <1>2, <1>3, <1>4, <1>5 DEF Next

-----------------------------------------------------------------------------
(***************************************************************************)
(* The other invariants hold for all the functions together.               *)
(***************************************************************************)
LEMMA FormattingAlone ==
  ASSUME PrintInv,
         vsprintf \/ console_written \/ (pc = "caller" /\ \E list \in Directives : printk(list))
  PROVE  /\ was' = was /\ call'.fn = "printk"
         /\ pc' \in Formatting \cup {"console", "returned"}
         /\ call'.dest = printk_buff
         /\ call' = call \/ (call'.src = 0 /\ call'.n = 0)
         /\ pc' \in {"console", "returned"} =>
              wanted' = wanted /\ pc \in Formatting \cup {"console"}
<1>1. CASE pc = "caller" /\ \E list \in Directives : printk(list)
  <2>1. PICK list \in Directives : printk(list)
    BY <1>1
  <2>2. /\ call' = [fn |-> "printk", dest |-> printk_buff, src |-> 0, n |-> 0]
        /\ was' = was /\ pc' = "format" /\ pc' \notin {"console", "returned"}
    BY <2>1 DEF printk, Enter
  <2> QED  BY <2>2 DEF Formatting
<1>2. CASE vsprintf
  <2>1. /\ UNCHANGED <<was, call, wanted>> /\ pc \in Formatting
        /\ pc' \in Formatting \cup {"console"}
    <3>1. CASE plain_char \/ percent \/ width_digit \/ convert_char
      BY <3>1 DEF plain_char, percent, width_digit, convert_char, Reading, NextChar, Formatting
    <3>2. CASE convert_string \/ string_turn \/ string_end
      BY <3>2 DEF convert_string, string_turn, string_end, Reading, NextChar, Formatting
    <3>3. CASE convert_number \/ convert_number_filled \/ convert_other \/ vsprintf_end
      BY <3>3
      DEF convert_number, convert_number_filled, convert_other, vsprintf_end, Reading, NextChar,
          Formatting
    <3> QED  BY <1>2, <3>1, <3>2, <3>3 DEF vsprintf
  <2> QED  BY <2>1 DEF PrintInv
<1>3. CASE console_written
  <2>1. UNCHANGED <<was, call, wanted>> /\ pc = "console" /\ pc' = "returned"
    BY <1>3 DEF console_written, Reading
  <2> QED  BY <2>1 DEF PrintInv
<1> QED  BY <1>1, <1>2, <1>3

LEMMA CopyInvKept == CopyInv /\ PrintInv /\ [Next]_libVars => CopyInv'
<1> SUFFICES ASSUME CopyInv, PrintInv, [Next]_libVars PROVE CopyInv'
  OBVIOUS
<1>1. CASE vsprintf \/ console_written
             \/ (pc = "caller" /\ \E list \in Directives : printk(list))
  <2>1. /\ call'.fn = "printk" /\ pc' \in Formatting \cup {"console", "returned"}
        /\ call'.dest = printk_buff /\ (call' = call \/ (call'.src = 0 /\ call'.n = 0))
    BY <1>1, FormattingAlone
  <2>2. printk_buff \in Nat /\ ADDRS \in Nat
    BY FormatAssumption, MemoryAssumption DEF Addr
  <2>3. call'.dest \in Nat /\ call'.src \in Nat /\ call'.n \in Nat
    BY <2>1, <2>2 DEF CopyInv
  <2> QED
    BY <2>1, <2>2, <2>3
    DEF CopyInv, Copies, InForward, InBackward, InStrcpy, CopyIsExact, Formatting
<1>2. CASE Calls \/ Turns \/ caller \/ UNCHANGED libVars
  BY <1>2, CopyInvStep DEF StringsNext, libVars
<1> QED  BY <1>1, <1>2 DEF Next

LEMMA MeasureInvKept == MeasureInv /\ PrintInv /\ [Next]_libVars => MeasureInv'
<1> SUFFICES ASSUME MeasureInv, PrintInv, [Next]_libVars PROVE MeasureInv'
  OBVIOUS
<1>1. CASE vsprintf \/ console_written
             \/ (pc = "caller" /\ \E list \in Directives : printk(list))
  <2>1. /\ call'.fn = "printk" /\ pc' \in Formatting \cup {"console", "returned"} /\ was' = was
        /\ call'.dest = printk_buff /\ (call' = call \/ (call'.src = 0 /\ call'.n = 0))
    BY <1>1, FormattingAlone
  <2>2. printk_buff \in Nat /\ ADDRS \in Nat
    BY FormatAssumption, MemoryAssumption DEF Addr
  <2>3. call'.dest \in Nat /\ call'.src \in Nat /\ call'.n \in Nat
    BY <2>1, <2>2 DEF MeasureInv
  <2> QED
    BY <2>1, <2>2, <2>3
    DEF MeasureInv, Measures, InStrlen, InStrcmp, StringsMeasured, Formatting
<1>2. CASE Calls \/ Turns \/ caller \/ UNCHANGED libVars
  BY <1>2, MeasureInvStep DEF StringsNext, libVars
<1> QED  BY <1>1, <1>2 DEF Next

-----------------------------------------------------------------------------
(***************************************************************************)
(* What changes in memory.                                                 *)
(***************************************************************************)
Functions == {"none", "memset", "printk"} \cup Copies \cup Measures

\* What the invariants of copies, strings and printk do not say.
SetInv ==
  /\ call.fn \in Functions
  /\ call.fn = "printk" => call.dest = printk_buff /\ wanted \in Seq(Nat)
  /\ call.fn \in Measures \cup {"none"} => mem = was
  /\ pc = "memset" => call.fn = "memset" /\ d = call.dest /\ n \in 0 .. call.n
  /\ call.fn = "memset" =>
       /\ DOMAIN mem = Addr
       /\ \A a \in Addr : mem[a] # was[a] => a \in call.dest .. call.dest + call.n - 1

LibraryInv == PrintInv /\ CopyInv /\ MeasureInv /\ SetInv

LEMMA SetInvInit == Init => SetInv
  BY DEF Init, StringsInit, SetInv, NoCall, Functions, Copies, Measures

LEMMA SetInvKept == LibraryInv /\ [Next]_libVars => SetInv'
<1> SUFFICES ASSUME LibraryInv, [Next]_libVars PROVE SetInv'
  OBVIOUS
<1> USE DEF LibraryInv
<1>1. CASE vsprintf \/ console_written
             \/ (pc = "caller" /\ \E list \in Directives : printk(list))
  <2>1. call'.fn = "printk" /\ call'.dest = printk_buff
        /\ pc' \in Formatting \cup {"console", "returned"}
    BY <1>1, FormattingAlone
  <2>2. wanted' \in Seq(Nat)
    <3>1. PrintInv'
      BY PrintInvStep
    <3>2. CASE pc' \in {"console", "returned"}
      BY <1>1, <3>2, FormattingAlone DEF PrintInv
    <3>3. CASE pc' \in Formatting
      BY <3>1, <3>3 DEF PrintInv
    <3> QED  BY <2>1, <3>2, <3>3
  <2> QED  BY <2>1, <2>2 DEF SetInv, Functions, Copies, Measures, Formatting
<1>2. CASE Calls
  <2>0. mem = was /\ mem \in [Addr -> Byte] /\ ADDRS \in Nat
    BY <1>2 DEF Calls, CopyInv
  <2>1. ASSUME NEW a \in Addr, NEW b \in Addr, NEW len \in Addr,
               strcpy(a, b, len) \/ strlen(a, len) \/ strcmp(a, b, len)
        PROVE  SetInv'
    BY <2>0, <2>1 DEF strcpy, strlen, strcmp, Enter, SetInv, Functions, Copies, Measures
  <2>2. ASSUME NEW a \in 0 .. ADDRS, NEW b \in 0 .. ADDRS, NEW len \in 0 .. ADDRS,
               memcpy(a, b, len) \/ memmove(a, b, len)
        PROVE  SetInv'
    BY <2>0, <2>2 DEF memcpy, memmove, Direction, Enter, SetInv, Functions, Copies, Measures
  <2>3. ASSUME NEW a \in 0 .. ADDRS, NEW len \in 0 .. ADDRS, NEW byte \in {0, 255},
               memset(a, byte, len)
        PROVE  SetInv'
    <3>1. /\ call' = [fn |-> "memset", dest |-> a, src |-> byte, n |-> len]
          /\ d' = a /\ pc' = "memset" /\ mem' = mem /\ was' = was /\ n' = len
      BY <2>3 DEF memset, Enter
    <3>2. len \in 0 .. len /\ DOMAIN mem = Addr
      BY <2>0
    <3> QED  BY <2>0, <3>1, <3>2 DEF SetInv, Functions, Copies, Measures
  <2> QED  BY <1>2, <2>1, <2>2, <2>3 DEF Calls
<1>3. CASE memset_turn
  <2>1. /\ pc = "memset" /\ n > 0 /\ mem' = [mem EXCEPT ![d] = call.src] /\ n' = n - 1
        /\ UNCHANGED <<d, pc, call, was>>
    BY <1>3 DEF memset_turn, Store
  <2>2. /\ call.fn = "memset" /\ d = call.dest /\ n \in 0 .. call.n /\ DOMAIN mem = Addr
        /\ \A a \in Addr : mem[a] # was[a] => a \in call.dest .. call.dest + call.n - 1
        /\ call.dest \in Nat /\ call.n \in Nat
    BY <2>1 DEF SetInv, CopyInv
  <2>3. call.dest \in call.dest .. call.dest + call.n - 1 /\ n - 1 \in 0 .. call.n
    BY <2>1, <2>2
  <2>4. DOMAIN mem' = Addr
    BY <2>1, <2>2
  <2>5. \A a \in Addr : a # call.dest => mem'[a] = mem[a]
    BY <2>1, <2>2
  <2>6. \A a \in Addr : mem'[a] # was[a] => a \in call.dest .. call.dest + call.n - 1
    BY <2>2, <2>3, <2>5
  <2> QED  BY <2>1, <2>2, <2>3, <2>4, <2>6 DEF SetInv, Functions, Copies, Measures
<1>4. CASE strcpy_turn \/ strcpy_end \/ copy_forward \/ copy_backward
  <2>1. pc \in {"strcpy", "forward", "backward"} /\ call' = call /\ pc' \in {pc, "returned"}
    BY <1>4 DEF strcpy_turn, strcpy_end, copy_forward, copy_backward, Return
  <2>2. call.fn \in Copies
    BY <2>1 DEF CopyInv, InForward, InBackward, InStrcpy, Copies
  <2> QED  BY <2>1, <2>2 DEF SetInv, Functions, Copies, Measures
<1>5. CASE strlen_turn \/ strlen_end \/ strcmp_turn \/ strcmp_end \/ loop_end
  <2>1. mem' = mem /\ was' = was /\ call' = call /\ pc' \in {pc, "returned"}
        /\ pc' # "memset" /\ pc \in OtherLoops
    BY <1>5
    DEF strlen_turn, strlen_end, strcmp_turn, strcmp_end, loop_end, Return, OtherLoops
  <2>2. call.fn # "printk"
    BY <2>1 DEF PrintInv
  <2> QED  BY <2>1, <2>2 DEF SetInv
<1>6. CASE caller
  BY <1>6 DEF caller, SetInv, NoCall, Functions, Copies, Measures
<1>7. CASE UNCHANGED libVars
  BY <1>7 DEF libVars, strVars, fmtVars, SetInv
<1> QED  BY <1>1, <1>2, <1>3, <1>4, <1>5, <1>6, <1>7 DEF Next, Turns

\* What printk has written is the beginning of what is wanted.
LEMMA TextSoFar ==
  ASSUME PrintInv, pc \in Formatting
  PROVE  \E text : Written(text) /\ Len(text) <= Len(wanted)
<1>1. \A text, more : text \in Seq(Nat) /\ more \in Seq(Nat) /\ wanted = text \o more
                     => Len(text) <= Len(wanted)
  <2> SUFFICES ASSUME NEW text \in Seq(Nat), NEW more \in Seq(Nat), wanted = text \o more
               PROVE  Len(text) <= Len(wanted)
    OBVIOUS
  <2>1. Len(wanted) = Len(text) + Len(more) /\ Len(text) \in Nat /\ Len(more) \in Nat
    BY ConcatProperties
  <2> QED  BY <2>1
<1>2. was \in [Addr -> Byte]
  BY DEF PrintInv
<1>3. CASE pc = "format"
  <2>1. PICK list, text : AllSound(list) /\ Written(text) /\ wanted = text \o PromisedBy(list)
    BY <1>3 DEF PrintInv, AtFormat
  <2>2. PromisedBy(list) \in Seq(Nat) /\ text \in Seq(Nat)
    BY <1>2, <2>1, ListTexts DEF Written
  <2> QED  BY <1>1, <2>1, <2>2
<1>4. CASE pc = "conversion"
  <2>1. PICK q, list, text : Begun(q, list, text)
    BY <1>4 DEF PrintInv, AtConversion
  <2>2. /\ Sound(q) /\ AllSound(list) /\ Written(text)
        /\ wanted = text \o (Promised(q) \o PromisedBy(list))
    BY <2>1 DEF Begun
  <2>3. PromisedBy(list) \in Seq(Nat) /\ Promised(q) \in Seq(Nat) /\ text \in Seq(Nat)
    BY <1>2, <2>2, ListTexts, PromiseIsText DEF Written
  <2>4. Promised(q) \o PromisedBy(list) \in Seq(Nat)
    BY <2>3, ConcatProperties
  <2> QED  BY <1>1, <2>2, <2>3, <2>4
<1>5. CASE pc = "string"
  <2>1. PICK q, list, text, j :
          /\ AllSound(list) /\ Written(text) /\ j \in 0 .. Len(TextAt(was, q.word))
          /\ wanted = text \o (Rest(TextAt(was, q.word), j) \o PromisedBy(list))
          /\ TextAt(was, q.word) \in Seq(Nat)
    BY <1>5, InString
  <2>2. /\ PromisedBy(list) \in Seq(Nat) /\ Rest(TextAt(was, q.word), j) \in Seq(Nat)
        /\ text \in Seq(Nat)
    BY <1>2, <2>1, ListTexts, RestFacts DEF Written
  <2>3. Rest(TextAt(was, q.word), j) \o PromisedBy(list) \in Seq(Nat)
    BY <2>2, ConcatProperties
  <2> QED  BY <1>1, <2>1, <2>2, <2>3
<1> QED  BY <1>3, <1>4, <1>5 DEF Formatting

LEMMA NothingElseHolds == LibraryInv => NothingElse
<1> SUFFICES ASSUME LibraryInv, NEW a \in Addr, mem[a] # was[a] PROVE a \in Target
  BY DEF NothingElse
<1> USE DEF LibraryInv
<1>0. /\ call.fn \in Functions /\ ADDRS \in Nat /\ a \in Nat /\ printk_buff \in Nat
      /\ call.dest \in Nat /\ call.n \in Nat
      /\ pc \in {"caller", "console", "returned"} \cup Formatting \cup OtherLoops
      /\ pc # "caller"
  BY FormatAssumption DEF SetInv, CopyInv, PrintInv, Addr
<1>1. call.fn \notin Measures \cup {"none"}
  BY DEF SetInv
<1>2. CASE call.fn = "memset"
  BY <1>2 DEF SetInv, Target
<1>3. CASE call.fn \in Copies
  <2>1. pc \in {"returned", "strcpy", "forward", "backward"}
    <3>1. pc \notin {"caller", "strlen", "strcmp", "memset"}
      BY <1>3 DEF CopyInv
    <3>2. pc \notin Formatting \cup {"console"}
      BY <1>3 DEF PrintInv, Copies
    <3> QED  BY <1>0, <3>1, <3>2 DEF OtherLoops
  <2>2. CASE pc = "strcpy"
    <3>1. call.fn = "strcpy" /\ s - call.src \in 0 .. call.n /\ mem = Partly(0, s - call.src)
      BY <2>2 DEF CopyInv, InStrcpy
    <3>2. a \in call.dest + 0 .. call.dest + (s - call.src) - 1
      BY <3>1 DEF Partly
    <3> DEFINE k == s - call.src
    <3>3. k \in 0 .. call.n /\ a \in call.dest + 0 .. call.dest + k - 1
      BY <3>1, <3>2
    <3> HIDE DEF k
    <3>4. a \in call.dest .. call.dest + call.n
      BY <1>0, <3>3
    <3> QED  BY <3>1, <3>4 DEF Target
  <2>3. CASE pc = "forward"
    <3>1. call.fn \in {"memcpy", "memmove"} /\ n \in 0 .. call.n /\ mem = Partly(0, call.n - n)
      BY <2>3 DEF CopyInv, InForward
    <3>2. a \in call.dest + 0 .. call.dest + (call.n - n) - 1
      BY <3>1 DEF Partly
    <3>3. a \in call.dest .. call.dest + call.n - 1
      BY <1>0, <3>1, <3>2
    <3> QED  BY <3>1, <3>3 DEF Target
  <2>4. CASE pc = "backward"
    <3>1. call.fn = "memmove" /\ n \in 0 .. call.n /\ mem = Partly(n, call.n)
      BY <2>4 DEF CopyInv, InBackward
    <3>2. a \in call.dest + n .. call.dest + call.n - 1
      BY <3>1 DEF Partly
    <3>3. a \in call.dest .. call.dest + call.n - 1
      BY <1>0, <3>1, <3>2
    <3> QED  BY <3>1, <3>3 DEF Target
  <2>5. CASE pc = "returned"
    <3>1. CASE call.fn = "strcpy"
      <4>1. mem = Copied(call.n + 1)
        BY <2>5, <3>1 DEF CopyInv, CopyIsExact
      <4>2. a \in call.dest .. (call.dest + (call.n + 1) - 1)
        BY <4>1 DEF Copied
      <4>3. a \in call.dest .. call.dest + call.n
        BY <1>0, <4>2
      <4> QED  BY <3>1, <4>3 DEF Target
    <3>2. CASE call.fn \in {"memcpy", "memmove"}
      <4>1. mem = Copied(call.n)
        BY <2>5, <3>2 DEF CopyInv, CopyIsExact
      <4>2. a \in call.dest .. (call.dest + call.n - 1)
        BY <4>1 DEF Copied
      <4> QED  BY <3>2, <4>2 DEF Target
    <3> QED  BY <1>3, <3>1, <3>2 DEF Copies
  <2> QED  BY <2>1, <2>2, <2>3, <2>4, <2>5
<1>4. CASE call.fn = "printk"
  <2>1. pc \in Formatting \cup {"console", "returned"}
    BY <1>0, <1>4 DEF PrintInv
  <2>2. CASE pc \in {"console", "returned"}
    <3>1. mem = [x \in Addr |->
                  IF x < printk_buff \/ x > printk_buff + Len(wanted) THEN was[x]
                  ELSE (wanted \o <<0>>)[x - printk_buff + 1]]
      BY <1>4, <2>2 DEF PrintInv, PrintedAsAsked
    <3>2. ~(a < printk_buff \/ a > printk_buff + Len(wanted))
      BY <3>1
    <3>3. wanted \in Seq(Nat) /\ call.dest = printk_buff
      BY <1>4, <2>2 DEF SetInv, PrintInv
    <3>4. a \in call.dest .. call.dest + Len(wanted)
      BY <1>0, <3>2, <3>3
    <3> QED  BY <1>4, <3>4 DEF Target
  <2>3. CASE pc \in Formatting
    <3>1. PICK text : Written(text) /\ Len(text) <= Len(wanted)
      BY <2>3, TextSoFar
    <3>2. /\ text \in Seq(Nat) /\ mem = Filled(text) /\ wanted \in Seq(Nat)
          /\ call.dest = printk_buff
      BY <2>3, <3>1 DEF Written, PrintInv
    <3>3. a \in printk_buff .. printk_buff + Len(text) - 1
      BY <3>2 DEF Filled
    <3>4. Len(text) \in Nat /\ Len(wanted) \in Nat
      BY <3>2
    <3>5. a \in call.dest .. call.dest + Len(wanted)
      BY <1>0, <3>1, <3>2, <3>3, <3>4
    <3> QED  BY <1>4, <3>5 DEF Target
  <2> QED  BY <2>1, <2>2, <2>3
<1> QED  BY <1>0, <1>1, <1>2, <1>3, <1>4 DEF Functions

-----------------------------------------------------------------------------
(***************************************************************************)
(* The properties of the library as a whole.                               *)
(***************************************************************************)
LEMMA LibraryInvHolds == Spec => []LibraryInv
<1>1. Init => LibraryInv
  BY PrintInvInit, CopyInvInit, MeasureInvInit, SetInvInit DEF Init, LibraryInv
<1>2. LibraryInv /\ [Next]_libVars => LibraryInv'
  BY PrintInvStep, CopyInvKept, MeasureInvKept, SetInvKept DEF LibraryInv
<1> QED  BY <1>1, <1>2, PTL DEF Spec

\* The string functions stay exact among calls of printk.
THEOREM LibraryIsExact == Spec => [](CopyIsExact /\ StringsMeasured)
<1>1. LibraryInv => CopyIsExact /\ StringsMeasured
  BY DEF LibraryInv, CopyInv, MeasureInv
<1> QED  BY <1>1, LibraryInvHolds, PTL

\* Whatever the callers ask for, vsprintf writes exactly that into the buffer of
\* printk and ends it with a 0, console_write gets its length as the count, and the
\* 32-bit printk returns it. Of what the 64-bit printk returns nothing is said.
THEOREM PrintsAsAsked == Spec => []PrintedAsAsked
<1>1. LibraryInv => PrintedAsAsked
  BY DEF LibraryInv, PrintInv
<1> QED  BY <1>1, LibraryInvHolds, PTL

\* No function ever changes a byte that its caller has not given it.
THEOREM WritesNothingElse == Spec => []NothingElse
  BY NothingElseHolds, LibraryInvHolds, PTL
=============================================================================
