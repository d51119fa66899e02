-------------------------------- MODULE Ramp --------------------------------
(***************************************************************************)
(* ramp.py: one counter presented at the manager's cadence.  The increment *)
(* that a poll reveals is paid out over the window after it, at whatever   *)
(* moments the manager asks.  The clock is time.time(), which an operator  *)
(* or NTP may set back.  Times are counted in ticks, and the float product *)
(* is taken to be exact.                                                   *)
(***************************************************************************)
EXTENDS Integers

CONSTANTS MaxWindow,   \* max_window, in ticks
          MaxTime,     \* bound on the clock
          MaxTotal     \* bound on the counter

ASSUME MaxWindowIsNat == MaxWindow \in Nat
ASSUME MaxTimeIsNat == MaxTime \in Nat
ASSUME MaxTotalIsNat == MaxTotal \in Nat

VARIABLES
  now,        \* time.time()
  current,    \* the store's value of the counter
  asked,      \* the ramp knows the counter
  seg,        \* its _Segment
  served,     \* the last answer
  askedAt     \* when it was given

vars == <<now, current, asked, seg, served, askedAt>>

Segment == [prev : Nat, cur : Nat, prev_at : Nat, cur_at : Nat]
Flat(value, t) == [prev |-> value, cur |-> value, prev_at |-> t, cur_at |-> t]

TypeOK ==
  /\ now \in Nat /\ current \in Nat
  /\ asked \in BOOLEAN /\ seg \in Segment
  /\ served \in Nat /\ askedAt \in Nat

Init ==
  /\ now = 0 /\ current = 0
  /\ asked = FALSE /\ seg = Flat(0, 0)
  /\ served = 0 /\ askedAt = 0
-----------------------------------------------------------------------------
(* A new value moves the window on; a lower one, which the store does not   *)
(* produce, starts over.  The mutant forgets that the last increment has    *)
(* been paid.                                                               *)
MutantAdvanced(s, value, t) ==
  IF value = s.cur THEN s
  ELSE IF value < s.cur THEN Flat(value, t)
  ELSE [prev |-> s.prev, cur |-> value, prev_at |-> s.cur_at, cur_at |-> t]

Advanced(s, value, t) ==
  IF value = s.cur THEN s
  ELSE IF value < s.cur THEN Flat(value, t)
  ELSE [prev |-> s.cur, cur |-> value, prev_at |-> s.cur_at, cur_at |-> t]

Window(s) == s.cur_at - s.prev_at
Elapsed(s, t) == t - s.cur_at

(* What of the increment has been paid out.  The mutants miss the end of    *)
(* the window, its beginning, and the ceiling on its length.                *)
Part(s, t) == ((s.cur - s.prev) * Elapsed(s, t)) \div Window(s)

MutantNoEnd(s, t) ==
  IF Window(s) <= 0 \/ Window(s) > MaxWindow THEN s.cur
  ELSE IF Elapsed(s, t) <= 0 THEN s.prev
  ELSE s.prev + Part(s, t)
MutantNoStart(s, t) ==
  IF Window(s) <= 0 \/ Window(s) > MaxWindow \/ Elapsed(s, t) >= Window(s) THEN s.cur
  ELSE s.prev + Part(s, t)
MutantNoCeiling(s, t) ==
  IF Window(s) <= 0 \/ Elapsed(s, t) >= Window(s) THEN s.cur
  ELSE IF Elapsed(s, t) <= 0 THEN s.prev
  ELSE s.prev + Part(s, t)

Paid(s, t) ==
  IF Window(s) <= 0 \/ Window(s) > MaxWindow \/ Elapsed(s, t) >= Window(s) THEN s.cur
  ELSE IF Elapsed(s, t) <= 0 THEN s.prev
  ELSE s.prev + Part(s, t)
-----------------------------------------------------------------------------
(* The manager asks. *)
Value ==
  /\ LET s == IF asked THEN Advanced(seg, current, now) ELSE Flat(current, now)
     IN  seg' = s /\ served' = Paid(s, now)
  /\ asked' = TRUE /\ askedAt' = now
  /\ UNCHANGED <<now, current>>

(* A poll raises the counter; CounterStore shows that it never lowers it.   *)
Poll ==
  /\ current' \in (current + 1)..MaxTotal
  /\ UNCHANGED <<now, asked, seg, served, askedAt>>

Pass ==
  /\ now < MaxTime
  /\ now' = now + 1
  /\ UNCHANGED <<current, asked, seg, served, askedAt>>

SetBack ==
  /\ now' \in 0..(now - 1)
  /\ UNCHANGED <<current, asked, seg, served, askedAt>>

Next == Value \/ Poll \/ Pass \/ SetBack

Spec == Init /\ [][Next]_vars
-----------------------------------------------------------------------------
(* Correctness. *)

(* "Output is monotonically non-decreasing": an answer is lower than the    *)
(* one before only when the clock has been set back between the two.        *)
FallsOnlyWithClock == [][served' < served => now < askedAt]_vars

(* "Nothing is invented": no answer is ahead of the counter.                *)
NothingInvented == served <= current

(* "Nothing is discarded": when the next increment is noticed, at the       *)
(* latest, all of those before it have been paid.                           *)
SeamPaysInFull == [][asked /\ seg'.cur # seg.cur => served' >= seg.cur]_vars

(* The lag is bounded: whatever the window was measured to be, and whatever *)
(* happened to the clock, max_window after an increment was noticed the     *)
(* answer is the counter itself.                                            *)
PaidWithinMaxWindow ==
  [][askedAt' # askedAt /\ now >= seg'.cur_at + MaxWindow => served' = current]_vars
=============================================================================
