-------------------------- MODULE ReachabilityProofs --------------------------
(***************************************************************************)
(* The verdicts of reachability.py and the answers drawn from them, for    *)
(* any thresholds.  The counters of feed are tied to the history of checks *)
(* (CountInv), the verdict to the counters (GivenInv), the answer to the   *)
(* moments between its reads (ReadInv).                                    *)
(***************************************************************************)
EXTENDS Reachability, TLAPS

Outcomes == {"reply", "missed"}

(* The last n entries of h are x, counted from the end. *)
Trail(h, n, x) == n <= Len(h) /\ \A k \in 0..(n - 1) : h[Len(h) - k] = x

CountInv ==
  /\ history \in Seq(Outcomes) /\ Len(history) <= Ceiling
  /\ fails \in 0..Ceiling /\ oks \in 0..Ceiling
  /\ \A n \in 1..Ceiling : Trail(history, n, "missed") <=> n <= fails
  /\ \A n \in 1..Ceiling : Trail(history, n, "reply") <=> n <= oks

GivenInv ==
  /\ state \in Verdicts /\ pending \in {"none", "up", "down"} /\ rtt \in BOOLEAN
  /\ pending = "up" => fails = 0
  /\ pending = "down" => oks = 0
  /\ pending = "none" => /\ fails >= FailThreshold => state = "down"
                         /\ oks >= RecoverThreshold => state = "up"

(* Before the second read, the verdict was not up at some moment; after it, *)
(* neither up only nor down only.                                           *)
ReadInv ==
  /\ online \in {"up", "down"} /\ answer \in Verdicts
  /\ asks \in {"online", "icmp"} /\ reader \in {"idle", "first", "second"}
  /\ held \subseteq Verdicts /\ moved \in BOOLEAN
  /\ reader # "idle" => Right(asks, state, online) \in held
  /\ reader = "first" /\ asks = "online" /\ ~moved => "down" \in held \/ online \in held
  /\ reader = "second" /\ asks = "online" /\ ~moved => online \in held
  /\ reader = "first" /\ asks = "icmp" => "down" \in held \/ "unknown" \in held
  /\ reader = "second" /\ asks = "icmp" => {"down", "up"} \subseteq held \/ "unknown" \in held
  /\ OnlineWasRight
  /\ IcmpWasRight

Inv == CountInv /\ GivenInv /\ ReadInv
-----------------------------------------------------------------------------
LEMMA Thresholds ==
  /\ Ceiling \in Nat /\ 1 <= Ceiling
  /\ FailThreshold \in 1..Ceiling /\ RecoverThreshold \in 1..Ceiling
BY FailAssumption, RecoverAssumption DEF Ceiling

LEMMA TrailIsLastAre ==
  ASSUME history \in Seq(Outcomes), NEW n \in Nat, NEW x
  PROVE  LastAre(n, x) <=> Trail(history, n, x)
<1>1. ASSUME LastAre(n, x) PROVE Trail(history, n, x)
  <2>1. Len(history) \in Nat /\ n <= Len(history)
    BY <1>1 DEF LastAre
  <2>2. ASSUME NEW k \in 0..(n - 1) PROVE history[Len(history) - k] = x
    <3>1. Len(history) - k \in (Len(history) - n + 1)..Len(history)
      BY <2>1
    <3> QED
      BY <1>1, <3>1 DEF LastAre
  <2> QED
    BY <2>1, <2>2 DEF Trail
<1>2. ASSUME Trail(history, n, x) PROVE LastAre(n, x)
  <2>1. Len(history) \in Nat /\ n <= Len(history)
    BY <1>2 DEF Trail
  <2>2. ASSUME NEW i \in (Len(history) - n + 1)..Len(history) PROVE history[i] = x
    <3>1. Len(history) - i \in 0..(n - 1) /\ i = Len(history) - (Len(history) - i)
      BY <2>1
    <3> QED
      BY <1>2, <3>1 DEF Trail
  <2> QED
    BY <2>1, <2>2 DEF LastAre
<1> QED
  BY <1>1, <1>2

(* What recording an outcome makes of the end of the history. *)
LEMMA RecordedEnd ==
  ASSUME NEW h \in Seq(Outcomes), Len(h) <= Ceiling, NEW y \in Outcomes
  PROVE  LET r == Recorded(h, y) IN
         /\ r \in Seq(Outcomes) /\ Len(r) <= Ceiling
         /\ Len(r) = IF Len(h) < Ceiling THEN Len(h) + 1 ELSE Ceiling
         /\ r[Len(r)] = y
         /\ \A k \in 1..(Len(r) - 1) : r[Len(r) - k] = h[Len(h) - (k - 1)]
<1> Ceiling \in Nat /\ 1 <= Ceiling /\ Len(h) \in Nat
  BY Thresholds
<1>1. CASE Len(h) < Ceiling
  BY <1>1 DEF Recorded
<1>2. CASE Len(h) = Ceiling
  <2> DEFINE t == Tail(h)
  <2>1. /\ t \in Seq(Outcomes) /\ Len(t) = Ceiling - 1
        /\ \A i \in 1..(Ceiling - 1) : t[i] = h[i + 1]
    BY <1>2
  <2>2. Recorded(h, y) = Append(t, y)
    BY <1>2 DEF Recorded
  <2> HIDE DEF t
  <2> QED
    BY <1>2, <2>1, <2>2
<1> QED
  BY <1>1, <1>2

(* The runs at the end: one of y grows by one, the other one ends. *)
LEMMA RecordedTrail ==
  ASSUME NEW h \in Seq(Outcomes), Len(h) <= Ceiling, NEW y \in Outcomes, NEW x \in Outcomes,
         NEW n \in 1..Ceiling
  PROVE  Trail(Recorded(h, y), n, x) <=> x = y /\ (n = 1 \/ Trail(h, n - 1, x))
<1> DEFINE r == Recorded(h, y)
<1> Ceiling \in Nat /\ 1 <= Ceiling /\ Len(h) \in Nat
  BY Thresholds
<1>1. /\ Len(r) = IF Len(h) < Ceiling THEN Len(h) + 1 ELSE Ceiling
      /\ r[Len(r)] = y
      /\ \A k \in 1..(Len(r) - 1) : r[Len(r) - k] = h[Len(h) - (k - 1)]
  BY RecordedEnd
<1> HIDE DEF r
<1>2. Len(r) \in Nat /\ 1 <= Len(r) /\ Len(r) <= Ceiling
  BY <1>1
<1>3. ASSUME Trail(r, n, x) PROVE x = y /\ (n = 1 \/ Trail(h, n - 1, x))
  <2>1. \A k \in 0..(n - 1) : r[Len(r) - k] = x
    BY <1>3 DEF Trail
  <2>2. r[Len(r) - 0] = x
    BY <2>1
  <2>3. x = y
    BY <1>1, <1>2, <2>2
  <2>4. n - 1 <= Len(h)
    BY <1>1, <1>3 DEF Trail
  <2>5. ASSUME NEW k \in 0..(n - 2) PROVE h[Len(h) - k] = x
    <3>1. k + 1 \in 1..(Len(r) - 1) /\ k + 1 \in 0..(n - 1) /\ (k + 1) - 1 = k
      BY <1>2, <1>3 DEF Trail
    <3> QED
      BY <1>1, <2>1, <3>1
  <2> QED
    BY <2>3, <2>4, <2>5 DEF Trail
<1>4. ASSUME x = y, n = 1 \/ Trail(h, n - 1, x) PROVE Trail(r, n, x)
  <2>1. n <= Len(r)
    BY <1>1, <1>2, <1>4 DEF Trail
  <2>2. ASSUME NEW k \in 0..(n - 1) PROVE r[Len(r) - k] = x
    <3>1. CASE k = 0
      BY <1>1, <1>2, <1>4, <3>1
    <3>2. CASE k # 0
      <4>1. k \in 1..(Len(r) - 1) /\ k - 1 \in 0..(n - 1 - 1) /\ n # 1
        BY <1>2, <2>1, <3>2
      <4> QED
        BY <1>1, <1>4, <4>1 DEF Trail
    <3> QED
      BY <3>1, <3>2
  <2> QED
    BY <2>1, <2>2 DEF Trail
<1> QED
  BY <1>3, <1>4 DEF r
-----------------------------------------------------------------------------
LEMMA InvInit == Init => Inv
<1> SUFFICES ASSUME Init PROVE Inv
  OBVIOUS
<1> Ceiling \in Nat /\ 1 <= Ceiling
  BY Thresholds
<1>1. CountInv
  <2>1. history = <<>> /\ fails = 0 /\ oks = 0
    BY DEF Init
  <2>2. Len(history) = 0 /\ history \in Seq(Outcomes)
    BY <2>1
  <2>3. \A n \in 1..Ceiling, x \in Outcomes : ~Trail(history, n, x)
    BY <2>2 DEF Trail
  <2> QED
    BY <2>1, <2>2, <2>3 DEF CountInv, Outcomes
<1>2. GivenInv
  <2>1. ~(0 >= FailThreshold) /\ ~(0 >= RecoverThreshold)
    BY Thresholds
  <2> QED
    BY <2>1 DEF Init, GivenInv, Verdicts
<1>3. ReadInv
  BY DEF Init, ReadInv, Verdicts, OnlineWasRight, IcmpWasRight, Answered
<1> QED
  BY <1>1, <1>2, <1>3 DEF Inv

(* A conclusive check counts one kind of outcome on and the other one out.  *)
LEMMA CheckCounts ==
  ASSUME CountInv, NEW socket \in SocketEnds, NEW binary \in BinaryEnds, Check(socket, binary)
  PROVE  CountInv' /\ pending' \in {"up", "down"} /\ rtt' \in BOOLEAN
         /\ (pending' = "up" => fails' = 0) /\ (pending' = "down" => oks' = 0)
<1> Ceiling \in Nat /\ 1 <= Ceiling
  BY Thresholds
<1> DEFINE observed == Observed(socket, binary)
<1>1. \/ observed = "up" /\ Replied(socket, binary) /\ ~Missed(socket, binary)
      \/ observed = "down" /\ Missed(socket, binary) /\ ~Replied(socket, binary)
      \/ observed = "unknown"
  BY DEF SocketEnds, BinaryEnds, Observed, Replied, Missed
<1>2. /\ observed # "unknown"
      /\ pending' = observed
      /\ rtt' = (observed = "up")
      /\ fails' = FailsAfter(observed) /\ oks' = OksAfter(observed)
      /\ history' = CASE Missed(socket, binary) -> Recorded(history, "missed")
                      [] Replied(socket, binary) -> Recorded(history, "reply")
                      [] OTHER -> history
  BY DEF Check, Conclusive
<1> HIDE DEF observed
<1>3. /\ history \in Seq(Outcomes) /\ Len(history) <= Ceiling
      /\ fails \in 0..Ceiling /\ oks \in 0..Ceiling
      /\ \A n \in 1..Ceiling : Trail(history, n, "missed") <=> n <= fails
      /\ \A n \in 1..Ceiling : Trail(history, n, "reply") <=> n <= oks
  BY DEF CountInv
<1>4. ASSUME NEW n \in 1..Ceiling, NEW y \in Outcomes, NEW x \in Outcomes, NEW c \in 0..Ceiling,
             \A m \in 1..Ceiling : Trail(history, m, x) <=> m <= c
      PROVE  Trail(Recorded(history, y), n, x) <=> (x = y /\ n <= OneMore(c))
  <2>1. Trail(Recorded(history, y), n, x) <=> x = y /\ (n = 1 \/ Trail(history, n - 1, x))
    BY <1>3, RecordedTrail
  <2>2. CASE n = 1
    BY <2>1, <2>2 DEF OneMore
  <2>3. CASE n # 1
    <3>1. n - 1 \in 1..Ceiling
      BY <2>3
    <3>2. Trail(history, n - 1, x) <=> n - 1 <= c
      BY <1>4, <3>1
    <3>3. n - 1 <= c <=> n <= OneMore(c)
      BY DEF OneMore
    <3> QED
      BY <2>1, <2>3, <3>2, <3>3
  <2> QED
    BY <2>2, <2>3
<1>5. CASE observed = "up"
  <2>1. history' = Recorded(history, "reply") /\ fails' = 0 /\ oks' = OneMore(oks)
    BY <1>1, <1>2, <1>5 DEF FailsAfter, OksAfter
  <2>2. history' \in Seq(Outcomes) /\ Len(history') <= Ceiling
    BY <1>3, <2>1, RecordedEnd DEF Outcomes
  <2>3. ASSUME NEW n \in 1..Ceiling PROVE Trail(history', n, "missed") <=> n <= fails'
    <3>1. Trail(history', n, "missed") <=> "missed" = "reply" /\ n <= OneMore(fails)
      BY <1>3, <1>4, <2>1 DEF Outcomes
    <3> QED
      BY <2>1, <3>1
  <2>4. ASSUME NEW n \in 1..Ceiling PROVE Trail(history', n, "reply") <=> n <= oks'
    <3>1. Trail(history', n, "reply") <=> n <= OneMore(oks)
      BY <1>3, <1>4, <2>1 DEF Outcomes
    <3> QED
      BY <2>1, <3>1
  <2>5. fails' \in 0..Ceiling /\ oks' \in 0..Ceiling
    BY <1>3, <2>1 DEF OneMore
  <2> QED
    BY <1>2, <1>5, <2>1, <2>2, <2>3, <2>4, <2>5 DEF CountInv, Trail
<1>6. CASE observed = "down"
  <2>1. history' = Recorded(history, "missed") /\ oks' = 0 /\ fails' = OneMore(fails)
    BY <1>1, <1>2, <1>6 DEF FailsAfter, OksAfter
  <2>2. history' \in Seq(Outcomes) /\ Len(history') <= Ceiling
    BY <1>3, <2>1, RecordedEnd DEF Outcomes
  <2>3. ASSUME NEW n \in 1..Ceiling PROVE Trail(history', n, "missed") <=> n <= fails'
    <3>1. Trail(history', n, "missed") <=> n <= OneMore(fails)
      BY <1>3, <1>4, <2>1 DEF Outcomes
    <3> QED
      BY <2>1, <3>1
  <2>4. ASSUME NEW n \in 1..Ceiling PROVE Trail(history', n, "reply") <=> n <= oks'
    <3>1. Trail(history', n, "reply") <=> "reply" = "missed" /\ n <= OneMore(oks)
      BY <1>3, <1>4, <2>1 DEF Outcomes
    <3> QED
      BY <2>1, <3>1
  <2>5. fails' \in 0..Ceiling /\ oks' \in 0..Ceiling
    BY <1>3, <2>1 DEF OneMore
  <2> QED
    BY <1>2, <1>6, <2>1, <2>2, <2>3, <2>4, <2>5 DEF CountInv, Trail
<1> QED
  BY <1>1, <1>2, <1>5, <1>6

(* feed's verdict is the one that the counters call for. *)
LEMMA VerdictGiven ==
  ASSUME CountInv, GivenInv, Verdict
  PROVE  GivenInv'
<1> /\ Ceiling \in Nat /\ FailThreshold \in 1..Ceiling /\ RecoverThreshold \in 1..Ceiling
    /\ fails \in 0..Ceiling /\ oks \in 0..Ceiling
  BY Thresholds DEF CountInv
<1>1. /\ pending # "none"
      /\ state' = CASE Recovered -> "up" [] Failed -> "down" [] OTHER -> state
      /\ pending' = "none" /\ rtt' = rtt /\ fails' = fails /\ oks' = oks
  BY DEF Verdict
<1>2. CASE pending = "up"
  <2>1. ~Failed
    BY <1>2 DEF Failed
  <2>2. state' = IF oks >= RecoverThreshold THEN "up" ELSE state
    BY <1>1, <1>2, <2>1 DEF Recovered
  <2> QED
    BY <1>1, <1>2, <2>2 DEF GivenInv, Verdicts
<1>3. CASE pending = "down"
  <2>1. ~Recovered
    BY <1>3 DEF Recovered
  <2>2. state' = IF fails >= FailThreshold THEN "down" ELSE state
    BY <1>1, <1>3, <2>1 DEF Failed
  <2> QED
    BY <1>1, <1>3, <2>2 DEF GivenInv, Verdicts
<1> QED
  BY <1>1, <1>2, <1>3 DEF GivenInv

(* What may change between the reads of an answer, and what may not. *)
LEMMA ReadStep == GivenInv /\ GivenInv' /\ ReadInv /\ [Next]_vars => ReadInv'
<1> SUFFICES ASSUME GivenInv, GivenInv', ReadInv, [Next]_vars PROVE ReadInv'
  OBVIOUS
<1> USE DEF ReadInv, GivenInv, Verdicts, OnlineWasRight, IcmpWasRight, Answered
<1>1. CASE UNCHANGED vars
  BY <1>1 DEF vars, debounce, reading, Right
<1>2. ASSUME NEW socket \in SocketEnds, NEW binary \in BinaryEnds, Check(socket, binary)
      PROVE  ReadInv'
  BY <1>2 DEF Check, reading, Right
<1>3. CASE Verdict
  <2>1. /\ UNCHANGED <<online, asks, reader, answer, moved>>
        /\ held' = IF reader = "idle" THEN held ELSE held \cup {Right(asks, state', online)}
    BY <1>3 DEF Verdict, Note
  <2>2. Right(asks, state', online) \in Verdicts
    BY DEF Right
  <2>3. CASE reader = "idle"
    BY <2>1, <2>3
  <2>4. CASE reader # "idle"
    BY <2>1, <2>2, <2>4 DEF Right
  <2> QED
    BY <2>3, <2>4
<1>4. CASE PollOnline
  <2>1. /\ UNCHANGED <<state, asks, reader, answer>>
        /\ online' \in {"up", "down"} /\ moved' = (moved \/ reader # "idle")
        /\ held' = IF reader = "idle" THEN held ELSE held \cup {Right(asks, state, online')}
    BY <1>4 DEF PollOnline, Note, debounce
  <2>2. Right(asks, state, online') \in Verdicts
    BY <2>1 DEF Right
  <2>3. CASE reader = "idle"
    BY <2>1, <2>3
  <2>4. CASE reader # "idle"
    BY <2>1, <2>2, <2>4 DEF Right
  <2> QED
    BY <2>3, <2>4
<1>5. ASSUME NEW what \in {"online", "icmp"}, Ask(what) PROVE ReadInv'
  BY <1>5 DEF Ask, debounce, Right
<1>6. CASE SecondRead
  BY <1>6 DEF SecondRead, Denies, debounce, Right
<1>7. CASE FallBack
  BY <1>7 DEF FallBack, Otherwise, debounce, Right
<1> QED
  BY <1>1, <1>2, <1>3, <1>4, <1>5, <1>6, <1>7 DEF Next

LEMMA InvStep == Inv /\ [Next]_vars => Inv'
<1> SUFFICES ASSUME CountInv, GivenInv, ReadInv, [Next]_vars PROVE Inv'
  BY DEF Inv
<1>1. CountInv' /\ GivenInv'
  <2>1. ASSUME NEW socket \in SocketEnds, NEW binary \in BinaryEnds, Check(socket, binary)
        PROVE  CountInv' /\ GivenInv'
    <3>1. state' = state
      BY <2>1 DEF Check
    <3> QED
      BY <2>1, <3>1, CheckCounts DEF GivenInv
  <2>2. CASE Verdict
    <3>1. UNCHANGED <<fails, oks, history>>
      BY <2>2 DEF Verdict
    <3> QED
      BY <2>2, <3>1, VerdictGiven DEF CountInv, Trail
  <2>3. CASE UNCHANGED debounce
    BY <2>3 DEF debounce, CountInv, GivenInv, Trail
  <2>4. \/ \E socket \in SocketEnds, binary \in BinaryEnds : Check(socket, binary)
        \/ Verdict \/ UNCHANGED debounce
    BY DEF Next, PollOnline, Ask, SecondRead, FallBack, vars
  <2> QED
    BY <2>1, <2>2, <2>3, <2>4
<1> QED
  BY <1>1, ReadStep DEF Inv

LEMMA InvHolds == Spec => []Inv
  BY InvInit, InvStep, PTL DEF Spec
-----------------------------------------------------------------------------
(* The type invariant: in particular, no counter passes the ceiling.        *)
THEOREM TypeCorrect == Spec => []TypeOK
<1>1. Inv => TypeOK
  BY DEF Inv, CountInv, GivenInv, ReadInv, TypeOK, Outcomes
<1> QED
  BY <1>1, InvHolds, PTL

(* A verdict is given as soon as the history calls for it, for any          *)
(* thresholds.                                                              *)
THEOREM Given == Spec => []VerdictIsGiven
<1>1. Inv => VerdictIsGiven
  <2> SUFFICES ASSUME CountInv, GivenInv PROVE VerdictIsGiven
    BY DEF Inv
  <2>1. LastAre(FailThreshold, "missed") <=> Trail(history, FailThreshold, "missed")
    BY TrailIsLastAre, Thresholds DEF CountInv
  <2>2. LastAre(RecoverThreshold, "reply") <=> Trail(history, RecoverThreshold, "reply")
    BY TrailIsLastAre, Thresholds DEF CountInv
  <2>3. LastAre(FailThreshold, "missed") => fails >= FailThreshold
    BY <2>1, Thresholds DEF CountInv
  <2>4. LastAre(RecoverThreshold, "reply") => oks >= RecoverThreshold
    BY <2>2, Thresholds DEF CountInv
  <2> QED
    BY <2>3, <2>4 DEF GivenInv, VerdictIsGiven
<1> QED
  BY <1>1, InvHolds, PTL

(* And none is given before. *)
THEOREM Earned == Spec => VerdictIsEarned
<1> DEFINE EarnedNow ==
      state' # state => \/ state' = "down" /\ LastAre(FailThreshold, "missed")
                        \/ state' = "up" /\ LastAre(RecoverThreshold, "reply")
<1>1. Inv /\ [Next]_vars => [EarnedNow]_vars
  <2> SUFFICES ASSUME CountInv, [Next]_vars, state' # state PROVE EarnedNow
    BY DEF Inv, EarnedNow
  <2>1. Verdict
    BY DEF Next, Check, PollOnline, Ask, SecondRead, FallBack, vars, debounce
  <2>2. (Recovered /\ state' = "up") \/ (Failed /\ state' = "down")
    <3>1. ~(Recovered /\ Failed)
      BY DEF Recovered, Failed
    <3>2. state' = CASE Recovered -> "up" [] Failed -> "down" [] OTHER -> state
      BY <2>1 DEF Verdict
    <3>3. CASE Recovered
      <4>1. ~Failed
        BY <3>1, <3>3
      <4>2. state' = "up"
        BY <3>2, <3>3, <4>1
      <4> QED
        BY <3>3, <4>2
    <3>4. CASE Failed
      BY <3>1, <3>2, <3>4
    <3>5. CASE ~Recovered /\ ~Failed
      BY <3>2, <3>5
    <3> QED
      BY <3>3, <3>4, <3>5
  <2>3. Failed => LastAre(FailThreshold, "missed")
    BY TrailIsLastAre, Thresholds DEF CountInv, Failed
  <2>4. Recovered => LastAre(RecoverThreshold, "reply")
    BY TrailIsLastAre, Thresholds DEF CountInv, Recovered
  <2> QED
    BY <2>2, <2>3, <2>4
<1> QED
  BY <1>1, InvHolds, PTL DEF Spec, VerdictIsEarned

(* fwSwitchOnline was right at some moment of the request. *)
THEOREM OnlineRight == Spec => []OnlineWasRight
<1>1. Inv => OnlineWasRight
  BY DEF Inv, ReadInv
<1> QED
  BY <1>1, InvHolds, PTL

(* So was fwProxyIcmpStatus, but for the unknown between down and up. *)
THEOREM IcmpRight == Spec => []IcmpWasRight
<1>1. Inv => IcmpWasRight
  BY DEF Inv, ReadInv
<1> QED
  BY <1>1, InvHolds, PTL
=============================================================================
