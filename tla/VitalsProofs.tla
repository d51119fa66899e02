----------------------------- MODULE VitalsProofs -----------------------------
(***************************************************************************)
(* What Vitals.tla answers from the wall clock is right within its margins *)
(* for every bound on time, cycles and the clock's error.  The argument is *)
(* one inductive invariant: who stamps what, and in which order.           *)
(***************************************************************************)
EXTENDS Vitals, TLAPS

(* A payload tells of a boot, a reset, a report and a request, in that      *)
(* order; its uptime, if any, is the report's.                              *)
Consistent(p) ==
  /\ p \in Payloads
  /\ p.booted <= p.since /\ p.since <= p.asOf /\ p.asOf <= p.taken
  /\ p.uptime = Missing \/ p.uptime = p.asOf - p.booted

(* At time t: a view was stamped by the clock of its moment, within a cycle *)
(* of the request.                                                          *)
WellStamped(v, t) ==
  /\ v \in Views
  /\ Consistent(v.payload)
  /\ v.payload.taken <= v.when /\ v.when <= v.payload.taken + MaxCycle
  /\ v.when <= t
  /\ v.wrong \in Skews /\ v.stamp = v.when + v.wrong

WorldInv ==
  /\ time \in 0..MaxTime /\ skew \in Skews
  /\ switch \in Facts /\ switch.booted <= switch.since /\ switch.since <= time
  /\ api \in Reports
  /\ api.booted <= api.since /\ api.since <= api.asOf /\ api.asOf <= time

HandInv ==
  hand # None => Consistent(hand) /\ hand.taken <= time /\ time <= hand.taken + MaxCycle
CtxInv == ctx # None => WellStamped(ctx, time)
CacheInv == cache # None => WellStamped(cache, time)
PhaseInv == phase \in {"startup", "serving"} /\ (Serving => ctx # None)

Inv == WorldInv /\ HandInv /\ CtxInv /\ CacheInv /\ PhaseInv
-----------------------------------------------------------------------------
(* The clock reads an integer, no further off than its bound.               *)
LEMMA ClockType == WorldInv => /\ time \in Nat /\ skew \in Int /\ now \in Int
                               /\ MaxCycle \in Nat /\ MaxSkew \in Nat /\ MaxTime \in Nat
  BY BoundsAssumption DEF WorldInv, Skews, now

(* What is fetched is consistent: the report is no later than the request.  *)
LEMMA FetchedConsistent ==
  ASSUME WorldInv, NEW detail \in BOOLEAN
  PROVE  Consistent(Fetched(detail)) /\ Fetched(detail).taken = time
<1>1. /\ api.asOf \in Nat /\ api.booted \in Nat /\ api.since \in Nat /\ time \in Nat
      /\ api.asOf - api.booted \in Nat
  BY ClockType DEF WorldInv, Reports
<1>2. (IF detail THEN api.asOf - api.booted ELSE Missing) \in Nat \cup {Missing}
  BY <1>1 DEF Missing
<1>3. Fetched(detail) \in Payloads
  BY <1>1, <1>2 DEF Fetched, Payloads
<1> QED
  BY <1>1, <1>3 DEF Consistent, Fetched, WorldInv

(* What is stamped now is well stamped, if it was requested in this cycle.  *)
LEMMA StampedWell ==
  ASSUME WorldInv, NEW p, Consistent(p), p.taken <= time, time <= p.taken + MaxCycle
  PROVE  WellStamped(Stamped(p), time) /\ Stamped(p) # None
<1>1. time \in Nat /\ skew \in Int /\ now \in Int /\ skew \in Skews
  BY ClockType DEF WorldInv
<1>2. Stamped(p) \in Views
  BY <1>1 DEF Stamped, Stamp, Views, Consistent, Skews
<1>3. Stamped(p) # None
  BY <1>2 DEF Views, None
<1> QED
  BY <1>1, <1>2, <1>3 DEF WellStamped, Stamped, Stamp, now

(* Time passing leaves a view well stamped. *)
LEMMA StaysWellStamped ==
  ASSUME NEW t \in Nat, NEW u \in Nat, t <= u, NEW v, WellStamped(v, t)
  PROVE  WellStamped(v, u)
<1>1. v.when \in Nat
  BY DEF WellStamped, Views
<1> QED
  BY <1>1 DEF WellStamped

LEMMA InvInit == Init => Inv
<1> SUFFICES ASSUME Init PROVE Inv
  OBVIOUS
<1>1. WorldInv
  BY BoundsAssumption DEF Init, WorldInv, Facts, Reports
<1> QED
  BY <1>1 DEF Init, Inv, HandInv, CtxInv, CacheInv, PhaseInv, Serving

LEMMA InvStep == Inv /\ [Next]_vars => Inv'
<1> SUFFICES ASSUME Inv, [Next]_vars PROVE Inv'
  OBVIOUS
<1>0. /\ time \in Nat /\ skew \in Int /\ now \in Int
      /\ MaxCycle \in Nat /\ MaxSkew \in Nat /\ MaxTime \in Nat
      /\ WorldInv /\ HandInv /\ CtxInv /\ CacheInv /\ PhaseInv
  BY ClockType DEF Inv
<1>1. CASE Tick
  <2>1. /\ time' = time + 1 /\ time < MaxTime /\ time' \in Nat
        /\ UNCHANGED <<skew, switch, api, phase, hand, ctx, cache>>
    BY <1>0, <1>1 DEF Tick
  <2>2. WorldInv'
    <3>1. switch.since \in Nat /\ api.asOf \in Nat
      BY <1>0 DEF WorldInv, Facts, Reports
    <3> QED
      BY <1>0, <2>1, <3>1 DEF WorldInv
  <2>3. HandInv'
    <3> SUFFICES ASSUME hand # None
                 PROVE  Consistent(hand) /\ hand.taken <= time' /\ time' <= hand.taken + MaxCycle
      BY <2>1 DEF HandInv
    <3>1. time < hand.taken + MaxCycle
      BY <1>1 DEF Tick
    <3>2. Consistent(hand) /\ hand.taken \in Nat /\ hand.taken <= time
      BY <1>0 DEF HandInv, Consistent, Payloads
    <3> QED
      BY <1>0, <2>1, <3>1, <3>2
  <2>4. CtxInv' /\ CacheInv'
    <3>1. time <= time'
      BY <1>0, <2>1
    <3> QED
      BY <1>0, <2>1, <3>1, StaysWellStamped DEF CtxInv, CacheInv
  <2> QED
    BY <1>0, <2>1, <2>2, <2>3, <2>4 DEF Inv, PhaseInv, Serving
<1>2. CASE SetClock
  BY <1>0, <1>2 DEF SetClock, Inv, WorldInv, HandInv, CtxInv, CacheInv, PhaseInv, Serving
<1>3. CASE Reboot \/ ResetStatistics
  <2>1. UNCHANGED <<time, skew, api, phase, hand, ctx, cache>>
    BY <1>3 DEF Reboot, ResetStatistics
  <2>2. switch' \in Facts /\ switch'.booted <= switch'.since /\ switch'.since <= time
    BY <1>0, <1>3 DEF Reboot, ResetStatistics, WorldInv, Facts
  <2> QED
    BY <1>0, <2>1, <2>2 DEF Inv, WorldInv, HandInv, CtxInv, CacheInv, PhaseInv, Serving
<1>4. CASE Report
  <2>1. UNCHANGED <<time, skew, switch, phase, hand, ctx, cache>>
    BY <1>4 DEF Report
  <2>2. /\ api' \in Reports /\ api'.booted <= api'.since /\ api'.since <= api'.asOf
        /\ api'.asOf <= time
    BY <1>0, <1>4 DEF Report, WorldInv, Facts, Reports
  <2> QED
    BY <1>0, <2>1, <2>2 DEF Inv, WorldInv, HandInv, CtxInv, CacheInv, PhaseInv, Serving
<1>5. ASSUME NEW detail \in BOOLEAN, Fetch(detail) PROVE Inv'
  <2>1. /\ hand' = Fetched(detail)
        /\ ctx' = (IF phase = "serving" THEN Stamped(Fetched(detail)) ELSE ctx)
        /\ UNCHANGED <<time, skew, switch, api, phase, cache>>
    BY <1>5 DEF Fetch
  <2>2. Consistent(Fetched(detail)) /\ Fetched(detail).taken = time
    BY <1>0, FetchedConsistent
  <2>3. HandInv'
    BY <1>0, <2>1, <2>2 DEF HandInv
  <2>4. WellStamped(Stamped(Fetched(detail)), time) /\ Stamped(Fetched(detail)) # None
    BY <1>0, <2>2, StampedWell
  <2>5. CtxInv' /\ PhaseInv'
    BY <1>0, <2>1, <2>4 DEF CtxInv, PhaseInv, Serving
  <2> QED
    BY <1>0, <2>1, <2>3, <2>5 DEF Inv, WorldInv, CacheInv
<1>6. ASSUME NEW ok \in BOOLEAN, Finish(ok) PROVE Inv'
  <2>1. /\ hand # None /\ hand' = None /\ phase' = "serving"
        /\ ctx' = (IF phase = "startup" THEN Stamped(hand) ELSE ctx)
        /\ cache' = (IF ok THEN [payload |-> hand, stamp |-> now, when |-> time, wrong |-> skew]
                           ELSE cache)
        /\ UNCHANGED <<time, skew, switch, api>>
    BY <1>6 DEF Finish
  <2>2. WellStamped(Stamped(hand), time) /\ Stamped(hand) # None
    BY <1>0, <2>1, StampedWell DEF HandInv
  <2>3. cache' = IF ok THEN Stamped(hand) ELSE cache
    BY <2>1 DEF Stamped, Stamp
  <2>4. CtxInv' /\ PhaseInv'
    BY <1>0, <2>1, <2>2 DEF CtxInv, PhaseInv, Serving
  <2>5. CacheInv'
    BY <1>0, <2>1, <2>2, <2>3 DEF CacheInv
  <2> QED
    BY <1>0, <2>1, <2>4, <2>5 DEF Inv, WorldInv, HandInv
<1>7. CASE Abandon \/ Restart
  BY <1>0, <1>7
  DEF Abandon, Restart, Inv, WorldInv, HandInv, CtxInv, CacheInv, PhaseInv, Serving
<1>8. CASE StartCached
  <2>1. /\ cache # None /\ ctx' = [cache EXCEPT !.stamp = cache.stamp] /\ phase' = "serving"
        /\ UNCHANGED <<time, skew, switch, api, hand, cache>>
    BY <1>8 DEF StartCached, CachedStamp
  <2>2. ctx' = cache
    BY <1>0, <2>1 DEF CacheInv, WellStamped, Views
  <2> QED
    BY <1>0, <2>1, <2>2 DEF Inv, WorldInv, HandInv, CtxInv, CacheInv, PhaseInv, Serving
<1>9. CASE UNCHANGED vars
  BY <1>0, <1>9 DEF vars, Inv, WorldInv, HandInv, CtxInv, CacheInv, PhaseInv, Serving
<1> QED
  BY <1>1, <1>2, <1>3, <1>4, <1>5, <1>6, <1>7, <1>8, <1>9 DEF Next, World, Proxy

LEMMA InvHolds == Spec => []Inv
  BY InvInit, InvStep, PTL DEF Spec
-----------------------------------------------------------------------------
(* What is served, in numbers: the facts that the properties follow from.   *)
LEMMA Served ==
  ASSUME Inv, ctx # None
  PROVE  /\ time \in Nat /\ skew \in Int /\ MaxCycle \in Nat
         /\ ctx \in Views /\ ctx.payload \in Payloads
         /\ ctx.payload.booted \in Nat /\ ctx.payload.since \in Nat
         /\ ctx.payload.asOf \in Nat /\ ctx.payload.taken \in Nat
         /\ ctx.payload.uptime \in Nat \cup {Missing}
         /\ ctx.when \in Nat /\ ctx.wrong \in Int
         /\ ctx.stamp = ctx.when + ctx.wrong
         /\ ctx.payload.booted <= ctx.payload.since /\ ctx.payload.since <= ctx.payload.asOf
         /\ ctx.payload.asOf <= ctx.payload.taken /\ ctx.payload.taken <= ctx.when
         /\ ctx.when <= ctx.payload.taken + MaxCycle /\ ctx.when <= time
         /\ ctx.payload.uptime = Missing
              \/ ctx.payload.uptime = ctx.payload.asOf - ctx.payload.booted
<1>1. WellStamped(ctx, time) /\ time \in Nat /\ skew \in Int /\ MaxCycle \in Nat
  BY ClockType DEF Inv, CtxInv
<1>2. ctx \in Views /\ ctx.payload \in Payloads
  BY <1>1 DEF WellStamped, Consistent
<1>3. ctx.when \in Nat /\ ctx.wrong \in Int
  BY <1>2 DEF Views
<1>4. /\ ctx.payload.booted \in Nat /\ ctx.payload.since \in Nat
      /\ ctx.payload.asOf \in Nat /\ ctx.payload.taken \in Nat
      /\ ctx.payload.uptime \in Nat \cup {Missing}
  BY <1>2 DEF Payloads
<1> QED
  BY <1>1, <1>2, <1>3, <1>4 DEF WellStamped, Consistent

(* The type invariant: in particular, both TimeTicks are natural numbers.   *)
THEOREM TypeCorrect == Spec => []TypeOK
<1>1. Inv => TypeOK
  <2> SUFFICES ASSUME Inv PROVE TypeOK
    OBVIOUS
  <2>1. /\ time \in 0..MaxTime /\ skew \in Skews /\ switch \in Facts /\ api \in Reports
        /\ phase \in {"startup", "serving"}
    BY DEF Inv, WorldInv, PhaseInv
  <2>2. hand \in Payloads \cup {None} /\ ctx \in Views \cup {None} /\ cache \in Views \cup {None}
    BY DEF Inv, HandInv, CtxInv, CacheInv, WellStamped, Consistent
  <2>3. ASSUME Serving
        PROVE  /\ ctx # None /\ SysUpTime \in Nat
               /\ \A epoch \in {ctx.payload.since, Missing} : DiscontinuityTime(epoch) \in Nat
    <3>1. ctx # None
      BY <2>3 DEF Inv, PhaseInv
    <3> QED
      BY <3>1, Served
      DEF SysUpTime, DiscontinuityTime, BootEpoch, Drift, AtLeast0, now, Missing
  <2> QED
    BY <2>1, <2>2, <2>3 DEF TypeOK
<1> QED
  BY <1>1, InvHolds, PTL

(* The age and the status that agents report are those of the data, within  *)
(* a cycle's length and what the clock was set by, for every bound.         *)
THEOREM ReportsTrueAge == Spec => []AgeIsHonest
<1>1. Inv => AgeIsHonest
  <2> SUFFICES ASSUME Inv, Serving
               PROVE  /\ SecondsSincePoll \in (Age - MaxCycle - SetBack)..(Age + SetForward)
                      /\ PollStatus("up") = "ok" => Age <= StaleAfter + MaxCycle + SetBack
                      /\ PollStatus("up") = "stale" => Age > StaleAfter - SetForward
    BY DEF AgeIsHonest
  <2>1. ctx # None
    BY DEF Inv, PhaseInv
  <2> DEFINE drift == skew - ctx.wrong
             since == time - ctx.when
  <2>2. /\ since \in Nat /\ drift \in Int /\ Age \in Nat /\ Age - MaxCycle <= since
        /\ since <= Age /\ now - ctx.stamp = since + drift
    BY <2>1, Served DEF Age, now
  <2>3. SetBack = AtLeast0(-drift) /\ SetForward = AtLeast0(drift) /\ MaxCycle \in Nat
    BY <2>1, Served DEF SetBack, SetForward, AtLeast0
  <2> HIDE DEF drift, since
  <2>4. SecondsSincePoll \in (Age - MaxCycle - SetBack)..(Age + SetForward)
    BY <2>2, <2>3 DEF SecondsSincePoll, AtLeast0
  <2>5. PollStatus("up") = (IF since + drift > StaleAfter THEN "stale" ELSE "ok")
    BY <2>2 DEF PollStatus
  <2>6. PollStatus("up") = "ok" => Age <= StaleAfter + MaxCycle + SetBack
    BY <2>2, <2>3, <2>5, StaleAfterAssumption DEF AtLeast0
  <2>7. PollStatus("up") = "stale" => Age > StaleAfter - SetForward
    BY <2>2, <2>3, <2>5, StaleAfterAssumption DEF AtLeast0
  <2> QED
    BY <2>4, <2>6, <2>7
<1> QED
  BY <1>1, InvHolds, PTL

(* No uptime is claimed that the switch does not have. *)
THEOREM UptimeIsEarned == Spec => []UptimeNotAhead
<1>1. Inv => UptimeNotAhead
  <2> SUFFICES ASSUME Inv, Serving, ctx.payload.booted = switch.booted
               PROVE  SysUpTime <= time - switch.booted + SetForward
    BY DEF UptimeNotAhead
  <2>1. ctx # None
    BY DEF Inv, PhaseInv
  <2> QED
    BY <2>1, Served DEF SysUpTime, Drift, AtLeast0, SetForward, now
<1> QED
  BY <1>1, InvHolds, PTL

(* A discontinuity lies where the counters were reset, up to the API's lag. *)
THEOREM DiscontinuityPlaced == Spec => []DiscontinuityIsPlaced
<1>1. Inv => DiscontinuityIsPlaced
  <2> SUFFICES ASSUME Inv, Serving, ctx.payload.uptime # Missing, ctx.wrong = 0
               PROVE  LET uptimeThen == ctx.payload.since - ctx.payload.booted IN
                      /\ DiscontinuityTime(ctx.payload.since) <= SysUpTime
                      /\ DiscontinuityTime(ctx.payload.since) \in (uptimeThen - Lag(ctx))..uptimeThen
    BY DEF DiscontinuityIsPlaced
  <2>1. ctx # None
    BY DEF Inv, PhaseInv
  <2> QED
    BY <2>1, Served
    DEF DiscontinuityTime, SysUpTime, BootEpoch, Drift, AtLeast0, Lag, now, Missing
<1> QED
  BY <1>1, InvHolds, PTL
-----------------------------------------------------------------------------
(* While the clock stands as at the stamp, sysUpTime is the uptime that the *)
(* switch would have, had it not rebooted, short of the API's lag.          *)
AtStamp == ctx # None /\ ctx.wrong = skew
UptimeShown ==
  /\ ctx.payload.uptime = Missing => SysUpTime = 0
  /\ ctx.payload.uptime # Missing => SysUpTime = time - ctx.payload.booted - Lag(ctx)
  /\ Lag(ctx) \in Nat /\ ctx.payload.booted \in Nat
  /\ ctx.payload.booted + Lag(ctx) <= time

LEMMA UptimeAtStamp == Inv /\ AtStamp => UptimeShown
<1> SUFFICES ASSUME Inv, ctx # None, ctx.wrong = skew PROVE UptimeShown
  BY DEF AtStamp
<1> QED
  BY Served DEF UptimeShown, SysUpTime, Drift, AtLeast0, Lag, now, Missing

(* Time does not run backwards, and ctx stays what it is until it is replaced. *)
LEMMA TimePasses == Inv /\ [Next]_vars => time <= time' /\ time' \in Nat /\ time \in Nat
<1> SUFFICES ASSUME Inv, [Next]_vars PROVE time <= time' /\ time' \in Nat
  BY ClockType DEF Inv
<1>1. time \in Nat
  BY ClockType DEF Inv
<1>2. time' = time \/ time' = time + 1
  BY DEF Next, World, Proxy, Tick, SetClock, Reboot, ResetStatistics, Report, Fetch, Finish,
         Abandon, StartCached, Restart, vars
<1> QED
  BY <1>1, <1>2

(* sysUpTime falls only with a reboot, a growing lag or a missing detail.   *)
THEOREM UptimeRises == Spec => UptimeFallsOnlyWithCause
<1>1. Inv /\ Inv' /\ [Next]_vars =>
        (/\ ctx # None /\ ctx.wrong = skew
         /\ ctx'.payload.uptime # Missing /\ ctx'.wrong = skew'
         /\ SysUpTime' < SysUpTime
         => Lag(ctx') > Lag(ctx) \/ ctx'.payload.booted > ctx.payload.booted)
  <2> SUFFICES ASSUME Inv, Inv', [Next]_vars, ctx # None, ctx.wrong = skew,
                      ctx'.payload.uptime # Missing, ctx'.wrong = skew',
                      SysUpTime' < SysUpTime
               PROVE  Lag(ctx') > Lag(ctx) \/ ctx'.payload.booted > ctx.payload.booted
    OBVIOUS
  <2>1. time <= time' /\ time' \in Nat /\ time \in Nat
    BY TimePasses
  <2>2. ctx' # None
    <3>1. ctx' = ctx \/ phase' = "serving"
      BY DEF Next, World, Proxy, Tick, SetClock, Reboot, ResetStatistics, Report, Fetch, Finish,
             Abandon, StartCached, Restart, vars
    <3> QED
      BY <3>1 DEF Inv, PhaseInv, Serving
  <2>3. UptimeShown
    BY UptimeAtStamp DEF AtStamp
  <2>4. UptimeShown'
    <3>1. Inv' /\ AtStamp' => UptimeShown'
      BY UptimeAtStamp, PTL
    <3> QED
      BY <2>2, <3>1 DEF AtStamp
  <2>5. /\ SysUpTime' = time' - ctx'.payload.booted - Lag(ctx')
        /\ Lag(ctx') \in Nat /\ ctx'.payload.booted \in Nat
        /\ ctx'.payload.booted + Lag(ctx') <= time'
    BY <2>4 DEF UptimeShown, Lag, Missing
  <2>6. Lag(ctx) \in Nat /\ ctx.payload.booted \in Nat
    BY <2>3 DEF UptimeShown
  <2>7. CASE ctx.payload.uptime = Missing
    <3>1. SysUpTime = 0
      BY <2>3, <2>7 DEF UptimeShown
    <3> QED
      BY <2>1, <2>5, <3>1
  <2>8. CASE ctx.payload.uptime # Missing
    <3>1. SysUpTime = time - ctx.payload.booted - Lag(ctx)
      BY <2>3, <2>8 DEF UptimeShown
    <3> QED
      BY <2>1, <2>5, <2>6, <3>1
  <2> QED
    BY <2>7, <2>8
<1> QED
  BY <1>1, InvHolds, PTL DEF Spec, UptimeFallsOnlyWithCause
=============================================================================
