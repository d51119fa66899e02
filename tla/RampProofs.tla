------------------------------ MODULE RampProofs ------------------------------
(***************************************************************************)
(* The smoothing of ramp.py, for any window, clock and counter.  What is   *)
(* paid out at a moment lies between the ends of the segment and rises     *)
(* with the clock (PaidBounds, PaidRises); the last answer is what the     *)
(* segment pays at the moment it was given (Inv).                          *)
(***************************************************************************)
EXTENDS Ramp, TLAPS

(* A segment never pays a decrement. *)
Rising(s) == s \in Segment /\ s.prev <= s.cur

Inv ==
  /\ TypeOK
  /\ Rising(seg)
  /\ asked => seg.cur <= current /\ served = Paid(seg, askedAt)
  /\ ~asked => served = 0
-----------------------------------------------------------------------------
LEMMA PartBounds ==
  ASSUME NEW d \in Nat, NEW e \in Nat, NEW w \in Nat, 0 < w, e <= w
  PROVE  (d * e) \div w \in Nat /\ (d * e) \div w <= d
<1>1. d * e \in Nat /\ d * w \in Nat /\ d * e <= d * w
  OBVIOUS
<1>2. (d * e) \div w <= (d * w) \div w
  BY <1>1
<1>3. (d * w) \div w = d
  OBVIOUS
<1>4. (d * e) \div w \in Nat
  BY <1>1
<1> QED
  BY <1>2, <1>3, <1>4

LEMMA PartRises ==
  ASSUME NEW d \in Nat, NEW e \in Nat, NEW f \in Nat, NEW w \in Nat, 0 < w, e <= f
  PROVE  (d * e) \div w <= (d * f) \div w
<1>1. d * e \in Nat /\ d * f \in Nat /\ d * e <= d * f
  OBVIOUS
<1> QED
  BY <1>1

(* What is paid lies between the ends of the segment. *)
LEMMA PaidBounds ==
  ASSUME NEW s, Rising(s), NEW t \in Nat
  PROVE  Paid(s, t) \in Nat /\ s.prev <= Paid(s, t) /\ Paid(s, t) <= s.cur
<1> DEFINE d == s.cur - s.prev  e == Elapsed(s, t)  w == Window(s)
<1>1. /\ s.prev \in Nat /\ s.cur \in Nat /\ s.prev <= s.cur /\ d \in Nat
      /\ e \in Int /\ w \in Int
  BY DEF Rising, Segment, Elapsed, Window
<1>2. Paid(s, t) = IF w <= 0 \/ w > MaxWindow \/ e >= w THEN s.cur
                   ELSE IF e <= 0 THEN s.prev
                   ELSE s.prev + ((d * e) \div w)
  BY DEF Paid, Part
<1>3. CASE w <= 0 \/ w > MaxWindow \/ e >= w
  BY <1>1, <1>2, <1>3
<1>4. CASE ~(w <= 0 \/ w > MaxWindow \/ e >= w) /\ e <= 0
  BY <1>1, <1>2, <1>4
<1>5. CASE ~(w <= 0 \/ w > MaxWindow \/ e >= w) /\ ~(e <= 0)
  <2>1. e \in Nat /\ w \in Nat /\ 0 < w /\ e <= w
    BY <1>1, <1>5
  <2>2. (d * e) \div w \in Nat /\ (d * e) \div w <= d
    BY <1>1, <2>1, PartBounds
  <2>3. Paid(s, t) = s.prev + ((d * e) \div w)
    BY <1>2, <1>5
  <2> HIDE DEF e, w
  <2> QED
    BY <1>1, <2>2, <2>3
<1> QED
  BY <1>3, <1>4, <1>5

(* A segment pays no less at a later moment. *)
LEMMA PaidRises ==
  ASSUME NEW s, Rising(s), NEW t \in Nat, NEW u \in Nat, t <= u
  PROVE  Paid(s, t) <= Paid(s, u)
<1> DEFINE d == s.cur - s.prev  e == Elapsed(s, t)  f == Elapsed(s, u)  w == Window(s)
<1>1. /\ s.prev \in Nat /\ s.cur \in Nat /\ s.prev <= s.cur /\ d \in Nat
      /\ e \in Int /\ f \in Int /\ w \in Int /\ e <= f
  BY DEF Rising, Segment, Elapsed, Window
<1>2. /\ Paid(s, t) = IF w <= 0 \/ w > MaxWindow \/ e >= w THEN s.cur
                      ELSE IF e <= 0 THEN s.prev
                      ELSE s.prev + ((d * e) \div w)
      /\ Paid(s, u) = IF w <= 0 \/ w > MaxWindow \/ f >= w THEN s.cur
                      ELSE IF f <= 0 THEN s.prev
                      ELSE s.prev + ((d * f) \div w)
  BY DEF Paid, Part
<1>3. /\ s.prev <= Paid(s, u) /\ Paid(s, u) \in Nat
      /\ Paid(s, t) <= s.cur /\ Paid(s, t) \in Nat
  BY PaidBounds
<1>4. CASE w <= 0 \/ w > MaxWindow \/ f >= w
  <2>1. Paid(s, u) = s.cur
    BY <1>2, <1>4
  <2> QED
    BY <1>3, <2>1
<1>5. CASE ~(w <= 0 \/ w > MaxWindow \/ f >= w) /\ e <= 0
  <2>1. Paid(s, t) = s.prev
    BY <1>1, <1>2, <1>5, MaxWindowIsNat
  <2> QED
    BY <1>3, <2>1
<1>6. CASE ~(w <= 0 \/ w > MaxWindow \/ f >= w) /\ ~(e <= 0)
  <2>1. /\ e \in Nat /\ f \in Nat /\ w \in Nat /\ 0 < w /\ e <= w /\ f <= w /\ ~(f <= 0)
        /\ ~(e >= w)
    BY <1>1, <1>6
  <2>2. /\ (d * e) \div w \in Nat /\ (d * f) \div w \in Nat
        /\ (d * e) \div w <= (d * f) \div w
    BY <1>1, <2>1, PartBounds, PartRises
  <2>3. Paid(s, t) = s.prev + ((d * e) \div w) /\ Paid(s, u) = s.prev + ((d * f) \div w)
    BY <1>2, <1>6, <2>1
  <2> HIDE DEF e, f, w
  <2> QED
    BY <1>1, <2>2, <2>3
<1> QED
  BY <1>4, <1>5, <1>6

(* The segment that the next request pays from begins where the last ends,  *)
(* or is the last.                                                          *)
LEMMA NextSegment ==
  ASSUME NEW s, Rising(s), NEW value \in Nat, s.cur <= value, NEW t \in Nat
  PROVE  /\ Rising(Advanced(s, value, t)) /\ Advanced(s, value, t).cur = value
         /\ \/ value = s.cur /\ Advanced(s, value, t) = s
            \/ value # s.cur /\ Advanced(s, value, t).prev = s.cur
BY DEF Rising, Segment, Advanced

LEMMA FirstSegment ==
  ASSUME NEW value \in Nat, NEW t \in Nat
  PROVE  Rising(Flat(value, t)) /\ Flat(value, t).cur = value
BY DEF Rising, Segment, Flat

(* What a request does: the segment it pays from, and what it pays. *)
LEMMA Answers ==
  ASSUME Inv, Value
  PROVE  /\ Rising(seg') /\ seg'.cur = current
         /\ served' = Paid(seg', now) /\ askedAt' = now /\ asked'
         /\ UNCHANGED <<now, current>>
         /\ asked /\ seg'.cur = seg.cur => seg' = seg
         /\ asked /\ seg'.cur # seg.cur => seg'.prev = seg.cur
<1>1. now \in Nat /\ current \in Nat /\ Rising(seg) /\ (asked => seg.cur <= current)
  BY DEF Inv, TypeOK
<1>2. /\ seg' = IF asked THEN Advanced(seg, current, now) ELSE Flat(current, now)
      /\ served' = Paid(seg', now) /\ askedAt' = now /\ asked'
      /\ UNCHANGED <<now, current>>
  BY DEF Value
<1>3. CASE asked
  BY <1>1, <1>2, <1>3, NextSegment
<1>4. CASE ~asked
  BY <1>1, <1>2, <1>4, FirstSegment
<1> QED
  BY <1>3, <1>4

LEMMA InvInit == Init => Inv
<1> SUFFICES ASSUME Init PROVE Inv
  OBVIOUS
<1>1. Rising(seg)
  BY FirstSegment DEF Init
<1>2. TypeOK /\ ~asked /\ served = 0
  BY <1>1 DEF Init, TypeOK, Rising
<1> QED
  BY <1>1, <1>2 DEF Inv

LEMMA InvStep == Inv /\ [Next]_vars => Inv'
<1> SUFFICES ASSUME Inv, [Next]_vars PROVE Inv'
  OBVIOUS
<1>1. CASE Value
  <2>1. /\ Rising(seg') /\ seg'.cur = current /\ served' = Paid(seg', now) /\ askedAt' = now
        /\ asked' /\ now' = now /\ current' = current /\ now \in Nat /\ current \in Nat
    BY <1>1, Answers DEF Inv, TypeOK
  <2>2. served' \in Nat
    BY <2>1, PaidBounds
  <2> QED
    BY <2>1, <2>2 DEF Inv, TypeOK, Rising
<1>2. CASE Poll
  <2>1. /\ current \in Nat /\ current' \in Nat /\ current <= current'
        /\ UNCHANGED <<now, asked, seg, served, askedAt>>
    BY <1>2, MaxTotalIsNat DEF Poll, Inv, TypeOK
  <2>2. Rising(seg)' /\ (asked => seg.cur <= current')
    BY <2>1 DEF Inv, Rising, Segment
  <2> QED
    BY <2>1, <2>2 DEF Inv, TypeOK, Paid, Part, Window, Elapsed
<1>3. CASE Pass \/ SetBack
  <2>1. now' \in Nat /\ UNCHANGED <<current, asked, seg, served, askedAt>>
    BY <1>3 DEF Pass, SetBack, Inv, TypeOK
  <2> QED
    BY <2>1 DEF Inv, TypeOK, Rising, Paid, Part, Window, Elapsed
<1>4. CASE UNCHANGED vars
  BY <1>4 DEF vars, Inv, TypeOK, Rising, Paid, Part, Window, Elapsed
<1> QED
  BY <1>1, <1>2, <1>3, <1>4 DEF Next

LEMMA InvHolds == Spec => []Inv
  BY InvInit, InvStep, PTL DEF Spec
-----------------------------------------------------------------------------
(* The type invariant: answers are natural numbers. *)
THEOREM TypeCorrect == Spec => []TypeOK
<1>1. Inv => TypeOK
  BY DEF Inv
<1> QED
  BY <1>1, InvHolds, PTL

(* Nothing is invented: no answer is ahead of the counter, for any window   *)
(* and whatever the clock does.                                             *)
THEOREM Invents == Spec => []NothingInvented
<1>1. Inv => NothingInvented
  <2> SUFFICES ASSUME Inv PROVE NothingInvented
    OBVIOUS
  <2>1. CASE asked
    <3>1. Paid(seg, askedAt) \in Nat /\ Paid(seg, askedAt) <= seg.cur
      BY PaidBounds DEF Inv, TypeOK
    <3> QED
      BY <2>1, <3>1 DEF Inv, TypeOK, Segment, NothingInvented
  <2>2. CASE ~asked
    BY <2>2 DEF Inv, TypeOK, NothingInvented
  <2> QED
    BY <2>1, <2>2
<1> QED
  BY <1>1, InvHolds, PTL

(* An answer falls only when the clock has been set back since the last.    *)
THEOREM Falls == Spec => FallsOnlyWithClock
<1>1. Inv /\ [Next]_vars => [served' < served => now < askedAt]_vars
  <2> SUFFICES ASSUME Inv, [Next]_vars, served' < served, ~(now < askedAt) PROVE FALSE
    OBVIOUS
  <2>1. now \in Nat /\ askedAt \in Nat /\ served \in Nat /\ askedAt <= now /\ Rising(seg)
        /\ seg.cur \in Nat
    BY DEF Inv, TypeOK, Segment
  <2>2. CASE Value /\ asked
    <3>1. Rising(seg') /\ served' = Paid(seg', now) /\ served = Paid(seg, askedAt)
      BY <2>2, Answers DEF Inv
    <3>2. CASE seg'.cur = seg.cur
      <4>1. seg' = seg
        BY <2>2, <3>2, Answers
      <4>2. Paid(seg, askedAt) <= Paid(seg, now)
        BY <2>1, PaidRises
      <4> QED
        BY <2>1, <3>1, <4>1, <4>2, PaidBounds
    <3>3. CASE seg'.cur # seg.cur
      <4>1. seg'.prev = seg.cur
        BY <2>2, <3>3, Answers
      <4>2. Paid(seg', now) \in Nat /\ seg'.prev <= Paid(seg', now)
        BY <2>1, <3>1, PaidBounds
      <4>3. Paid(seg, askedAt) <= seg.cur
        BY <2>1, PaidBounds
      <4> QED
        BY <2>1, <3>1, <4>1, <4>2, <4>3
    <3> QED
      BY <3>2, <3>3
  <2>3. CASE Value /\ ~asked
    <3>1. Rising(seg') /\ served' = Paid(seg', now) /\ served = 0
      BY <2>3, Answers DEF Inv
    <3>2. Paid(seg', now) \in Nat
      BY <2>1, <3>1, PaidBounds
    <3> QED
      BY <3>1, <3>2
  <2>4. CASE UNCHANGED served
    BY <2>1, <2>4
  <2> QED
    BY <2>2, <2>3, <2>4 DEF Next, Poll, Pass, SetBack, vars
<1> QED
  BY <1>1, InvHolds, PTL DEF Spec, FallsOnlyWithClock

(* Every increment has been paid in full when the next one is noticed. *)
THEOREM Seams == Spec => SeamPaysInFull
<1>1. Inv /\ [Next]_vars => [asked /\ seg'.cur # seg.cur => served' >= seg.cur]_vars
  <2> SUFFICES ASSUME Inv, [Next]_vars, asked, seg'.cur # seg.cur PROVE served' >= seg.cur
    OBVIOUS
  <2>1. Value
    BY DEF Next, Poll, Pass, SetBack, vars
  <2>2. Rising(seg') /\ served' = Paid(seg', now) /\ seg'.prev = seg.cur
    BY <2>1, Answers
  <2>3. served' \in Nat /\ seg'.prev <= served' /\ seg.cur \in Nat
    BY <2>2, PaidBounds DEF Inv, TypeOK, Segment
  <2> QED
    BY <2>2, <2>3
<1> QED
  BY <1>1, InvHolds, PTL DEF Spec, SeamPaysInFull

(* The lag is bounded by max_window, for any window that was measured. *)
THEOREM LagBounded == Spec => PaidWithinMaxWindow
<1>1. Inv /\ [Next]_vars =>
        [askedAt' # askedAt /\ now >= seg'.cur_at + MaxWindow => served' = current]_vars
  <2> SUFFICES ASSUME Inv, [Next]_vars, askedAt' # askedAt, now >= seg'.cur_at + MaxWindow
               PROVE  served' = current
    OBVIOUS
  <2>1. Value
    BY DEF Next, Poll, Pass, SetBack, vars
  <2>2. Rising(seg') /\ served' = Paid(seg', now) /\ seg'.cur = current
    BY <2>1, Answers
  <2>3. now \in Nat /\ seg'.cur_at \in Nat /\ seg'.prev_at \in Nat
    BY <2>2 DEF Inv, TypeOK, Rising, Segment
  <2>4. Window(seg') > MaxWindow \/ Elapsed(seg', now) >= Window(seg')
    BY <2>3, MaxWindowIsNat DEF Window, Elapsed
  <2> QED
    BY <2>2, <2>4 DEF Paid
<1> QED
  BY <1>1, InvHolds, PTL DEF Spec, PaidWithinMaxWindow
-----------------------------------------------------------------------------
(* The ramp passes the counter store's promise on: as long as the clock is  *)
(* not set back, what it answers, too, is a monotonic counter.              *)
Counter == {"counter"}
M == INSTANCE MonotonicCounter WITH
       Keys <- Counter,
       served <- IF asked THEN Counter ELSE {},
       published <- [k \in Counter |-> served],
       carried <- [k \in Counter |-> 0]
Promise == M!Spec

(* For any window, any moments of polls and requests and any counter.       *)
THEOREM KeepsPromise == Spec /\ [][now' >= now]_now => Promise
<1>1. Init => M!Init /\ askedAt <= now
  BY DEF Init, M!Init, M!Nothing
<1>2. Inv /\ askedAt <= now /\ [Next]_vars /\ [now' >= now]_now => (askedAt <= now)'
  BY DEF Inv, TypeOK, Next, Value, Poll, Pass, SetBack, vars
<1>3. Inv /\ Inv' /\ askedAt <= now /\ [Next]_vars /\ [served' < served => now < askedAt]_vars
        => [M!Next]_M!promise
  <2> SUFFICES ASSUME Inv, Inv', askedAt <= now, [Next]_vars, served' >= served
               PROVE  [M!Next]_M!promise
    BY DEF Inv, TypeOK, vars
  <2>1. CASE Value
    <3>1. asked' /\ served \in Nat /\ served' \in Nat
      BY <2>1 DEF Value, Inv, TypeOK
    <3>2. M!Serve("counter")
      BY <3>1 DEF M!Serve, Counter
    <3> QED
      BY <3>2 DEF M!Next, Counter
  <2>2. CASE UNCHANGED <<asked, served>>
    BY <2>2 DEF M!promise
  <2> QED
    BY <2>1, <2>2 DEF Next, Poll, Pass, SetBack, vars
<1> QED
  BY <1>1, <1>2, <1>3, InvHolds, Falls, PTL DEF Spec, Promise, M!Spec, FallsOnlyWithClock
=============================================================================
