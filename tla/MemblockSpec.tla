---------------------------- MODULE MemblockSpec ----------------------------
(***************************************************************************)
(* What memblock promises to its callers, without arrays or loops: two     *)
(* sets of addresses.  A call takes effect at once and then works on, with *)
(* no further effect, until it returns.                                    *)
(***************************************************************************)
EXTENDS Integers

CONSTANTS PHYS_ADDR_MAX, PAGE_SIZE, AddCalls, ReserveCalls, FreeCalls, AllocCalls

VARIABLES
  mem,      \* the addresses that are usable RAM
  resv,     \* the addresses that are reserved
  want,     \* the allocation request being served, or NoRequest
  ret,      \* the result of the last allocation, 0 for failure
  busy,     \* a call has not returned yet
  stopped   \* TRUE after a BUG(): nothing is promised any more

vars == <<mem, resv, want, ret, busy, stopped>>

NoRequest == [size |-> 0]

\* The last address, PHYS_ADDR_MAX, can belong to no region.
Bytes(base, size) == {x \in base .. (PHYS_ADDR_MAX - 1) : x < base + size}

Init ==
  /\ mem = {}
  /\ resv = {}
  /\ want = NoRequest
  /\ ret = 0
  /\ busy = FALSE
  /\ stopped = FALSE

\* A call begins; it may return at once.
Begin == ~busy /\ busy' \in BOOLEAN

Return ==
  /\ busy /\ want = NoRequest
  /\ busy' = FALSE
  /\ UNCHANGED <<mem, resv, want, ret, stopped>>

Add(base, size) ==
  /\ Begin
  /\ mem' = mem \cup Bytes(base, size)
  /\ UNCHANGED <<resv, want, ret, stopped>>

Reserve(base, size) ==
  /\ Begin
  /\ resv' = resv \cup Bytes(base, size)
  /\ UNCHANGED <<mem, want, ret, stopped>>

Free(base, size) ==
  /\ Begin
  /\ resv' = resv \ Bytes(base, size)
  /\ UNCHANGED <<mem, want, ret, stopped>>

Low(r) == IF r.start > PAGE_SIZE THEN r.start ELSE PAGE_SIZE
High(r) == LET limit == IF r.end = 0 THEN PHYS_ADDR_MAX ELSE r.end
           IN  IF Low(r) > limit THEN Low(r) ELSE limit

Request(r) ==
  /\ Begin
  /\ want' = [size |-> r.size, align |-> r.align, start |-> Low(r), end |-> High(r)]
  /\ UNCHANGED <<mem, resv, ret, stopped>>

\* The places where the request fits.
Fitting(w) ==
  {x \in w.start .. w.end :
     /\ x % w.align = 0
     /\ x + w.size <= w.end
     /\ Bytes(x, w.size) \subseteq mem \ resv}

\* The highest fitting place is taken, and 0 means that there is none.
Grant ==
  /\ want # NoRequest /\ want.size > 0
  /\ IF Fitting(want) = {}
     THEN ret' = 0
     ELSE /\ ret' \in Fitting(want)
          /\ \A x \in Fitting(want) : x <= ret'
  /\ resv' = IF ret' = 0 THEN resv ELSE resv \cup Bytes(ret', want.size)
  /\ want' = NoRequest
  /\ busy' \in BOOLEAN
  /\ UNCHANGED <<mem, stopped>>

\* For a request of no bytes any address may be returned, nothing is reserved.
GrantNothing ==
  /\ want # NoRequest /\ want.size = 0
  /\ ret' \in {0} \cup want.start .. want.end
  /\ want' = NoRequest
  /\ busy' \in BOOLEAN
  /\ UNCHANGED <<mem, resv, stopped>>

\* A BUG() inside a call may leave part of the reservations forgotten.
Stop ==
  /\ busy /\ ~stopped
  /\ stopped' = TRUE
  /\ resv' \subseteq resv
  /\ UNCHANGED <<mem, want, ret, busy>>

Next ==
  \/ \E c \in AddCalls : Add(c[1], c[2])
  \/ \E c \in ReserveCalls : Reserve(c[1], c[2])
  \/ \E c \in FreeCalls : Free(c[1], c[2])
  \/ \E r \in AllocCalls : Request(r)
  \/ Grant \/ GrantNothing \/ Return \/ Stop

Spec == Init /\ [][Next]_vars
=============================================================================
