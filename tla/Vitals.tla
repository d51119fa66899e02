-------------------------------- MODULE Vitals --------------------------------
(***************************************************************************)
(* What an agent derives from the wall clock: fwProxyPollStatus and        *)
(* fwProxySecondsSincePoll (mibs/__init__.py), sysUpTime and               *)
(* ifCounterDiscontinuityTime (model.py).  They are extrapolated from one  *)
(* stamp per payload, of a fetch or of the cache, while switches reboot,   *)
(* the API lags behind them, a cycle takes its time and the host's clock   *)
(* is set.                                                                 *)
(*                                                                         *)
(* "time" is the true time, in ticks, which the switches' and the API's    *)
(* clocks show; time.time() is "now".                                      *)
(***************************************************************************)
EXTENDS Integers

CONSTANTS StaleAfter,   \* stale_after
          MaxCycle,     \* bound on the ticks between a switch's request and the
                        \* end of its cycle
          MaxTime,      \* bound on time
          MaxSkew       \* bound on what the host's clock is behind; it is never ahead,
                        \* but set forward when it was behind, and back again

ASSUME StaleAfterAssumption == StaleAfter \in Nat
ASSUME BoundsAssumption == MaxCycle \in Nat /\ MaxTime \in Nat /\ MaxSkew \in Nat

VARIABLES
  time, skew,   \* the true time, and now - time
  switch,       \* the switch: when it booted, since when its counters count
  api,          \* what the API knows of it: the same, as of its last report
  phase,        \* "startup" or "serving"
  hand,         \* the payload fetched in the cycle under way, or None
  ctx,          \* ctx.switch with ctx.last_poll_ok
  cache         \* the topology cache's entry, or None

vars == <<time, skew, switch, api, phase, hand, ctx, cache>>

None == [none |-> TRUE]

now == time + skew
Skews == (-MaxSkew)..0

Facts == [booted : Nat, since : Nat]
Reports == [booted : Nat, since : Nat, asOf : Nat]

(* uptime is -1 when the optional detail request failed: nothing else       *)
(* carries it.  asOf, booted and taken (the true times of the report, of    *)
(* the boot it is about and of the request) are for the properties only.    *)
Missing == -1
Payloads == [uptime : Nat \cup {Missing}, since : Nat,
             asOf : Nat, booted : Nat, taken : Nat]

(* stamp is polled_at, last_poll_ok or saved_at; when and wrong, for the    *)
(* properties, are the true time of the stamp and the clock's error then.   *)
Views == [payload : Payloads, stamp : Int, when : Nat, wrong : Int]

Init ==
  /\ time = 0 /\ skew \in Skews
  /\ switch = [booted |-> 0, since |-> 0]
  /\ api = [booted |-> 0, since |-> 0, asOf |-> 0]
  /\ phase = "startup" /\ hand = None /\ ctx = None /\ cache = None
-----------------------------------------------------------------------------
(* The readings. *)

AtLeast0(n) == IF n < 0 THEN 0 ELSE n

(* poll_status, for a verdict of reachability.py, and seconds_since_poll. *)
PollStatus(verdict) ==
  IF verdict = "down" THEN "error"
  ELSE IF now - ctx.stamp > StaleAfter THEN "stale" ELSE "ok"
SecondsSincePoll == AtLeast0(now - ctx.stamp)

(* uptime_ticks.  The mutant lets a clock that was set back pull it down.   *)
MutantDrift(t) == t - ctx.stamp
Drift(t) == AtLeast0(t - ctx.stamp)
SysUpTime ==
  IF ctx.payload.uptime = Missing THEN 0 ELSE ctx.payload.uptime + Drift(now)

(* boot_epoch and ticks_at_epoch: 0 if the port has no statsSinceTs or the  *)
(* boot is not known.  The mutant anchors the boot at the time of the       *)
(* request instead of the stamp's.                                          *)
MutantBootEpoch == now - ctx.payload.uptime
BootEpoch == ctx.stamp - ctx.payload.uptime
DiscontinuityTime(epoch) ==
  IF Missing \in {epoch, ctx.payload.uptime} THEN 0 ELSE AtLeast0(epoch - BootEpoch)
-----------------------------------------------------------------------------
(* The world. *)

Tick ==
  /\ time < MaxTime
  /\ hand # None => time < hand.taken + MaxCycle
  /\ time' = time + 1
  /\ UNCHANGED <<skew, switch, api, phase, hand, ctx, cache>>

SetClock ==
  /\ skew' \in Skews
  /\ UNCHANGED <<time, switch, api, phase, hand, ctx, cache>>

(* A reboot resets the counters; so does an operator, without one. *)
Reboot ==
  /\ switch' = [booted |-> time, since |-> time]
  /\ UNCHANGED <<time, skew, api, phase, hand, ctx, cache>>

ResetStatistics ==
  /\ switch' = [switch EXCEPT !.since = time]
  /\ UNCHANGED <<time, skew, api, phase, hand, ctx, cache>>

Report ==
  /\ api' = [booted |-> switch.booted, since |-> switch.since, asOf |-> time]
  /\ UNCHANGED <<time, skew, switch, phase, hand, ctx, cache>>
-----------------------------------------------------------------------------
(* The proxy. *)

Fetched(detail) ==
  [uptime |-> IF detail THEN api.asOf - api.booted ELSE Missing,
   since |-> api.since, asOf |-> api.asOf, booted |-> api.booted, taken |-> time]

(* The mutant keeps the stamp of the switch it replaces. *)
MutantStamp == IF phase = "serving" THEN ctx.stamp ELSE now
Stamp == now
Stamped(payload) == [payload |-> payload, stamp |-> Stamp, when |-> time, wrong |-> skew]

(* One switch's turn in poll_once, which refreshes it at once, or in        *)
(* _fetch_payload, which refreshes nothing yet.                             *)
Fetch(detail) ==
  /\ hand = None
  /\ hand' = Fetched(detail)
  /\ ctx' = IF phase = "serving" THEN Stamped(Fetched(detail)) ELSE ctx
  /\ UNCHANGED <<time, skew, switch, api, phase, cache>>

(* The end of the cycle saves the payload, if it can; startup's builds the  *)
(* agents first, as of now.                                                 *)
Finish(ok) ==
  /\ hand # None
  /\ ctx' = IF phase = "startup" THEN Stamped(hand) ELSE ctx
  /\ cache' = IF ok THEN [payload |-> hand, stamp |-> now, when |-> time, wrong |-> skew]
                    ELSE cache
  /\ phase' = "serving" /\ hand' = None
  /\ UNCHANGED <<time, skew, switch, api>>

(* A 429 for another switch ends the cycle with nothing saved. *)
Abandon ==
  /\ hand # None
  /\ hand' = None
  /\ UNCHANGED <<time, skew, switch, api, phase, ctx, cache>>

(* The cache stands in, under its own stamp.  The mutant passes it off as   *)
(* fetched now.                                                             *)
MutantCachedStamp == now
CachedStamp == cache.stamp

StartCached ==
  /\ phase = "startup" /\ hand = None /\ cache # None
  /\ ctx' = [cache EXCEPT !.stamp = CachedStamp]
  /\ phase' = "serving"
  /\ UNCHANGED <<time, skew, switch, api, hand, cache>>

(* The process ends and the next one begins; ctx stays what its readers     *)
(* were last told.                                                          *)
Restart ==
  /\ phase = "serving"
  /\ phase' = "startup" /\ hand' = None
  /\ UNCHANGED <<time, skew, switch, api, ctx, cache>>

World == Tick \/ SetClock \/ Reboot \/ ResetStatistics \/ Report
Proxy ==
  \/ \E detail \in BOOLEAN : Fetch(detail)
  \/ \E ok \in BOOLEAN : Finish(ok)
  \/ Abandon \/ StartCached \/ Restart

Next == World \/ Proxy

Spec == Init /\ [][Next]_vars
-----------------------------------------------------------------------------
(* Correctness. *)

Serving == phase = "serving"

(* sysUpTime and ifCounterDiscontinuityTime are TimeTicks: never negative.  *)
TypeOK ==
  /\ time \in 0..MaxTime /\ skew \in Skews
  /\ switch \in Facts /\ api \in Reports
  /\ phase \in {"startup", "serving"}
  /\ hand \in Payloads \cup {None}
  /\ ctx \in Views \cup {None} /\ cache \in Views \cup {None}
  /\ Serving =>
       /\ ctx # None /\ SysUpTime \in Nat
       /\ \A epoch \in {ctx.payload.since, Missing} : DiscontinuityTime(epoch) \in Nat

(* The true age of what is served, and how far the clock was set back or    *)
(* forward since it was stamped.                                            *)
Age == time - ctx.payload.taken
SetBack == AtLeast0(ctx.wrong - skew)
SetForward == AtLeast0(skew - ctx.wrong)

(* fwProxySecondsSincePoll "reports the real age of the data rather than    *)
(* claiming a fresh poll that never happened", and fwProxyPollStatus is ok  *)
(* on recent data alone: live or cached, across restarts and failed cycles, *)
(* up to the length of a cycle and to what the clock was set by since.      *)
AgeIsHonest ==
  Serving =>
    /\ SecondsSincePoll \in (Age - MaxCycle - SetBack)..(Age + SetForward)
    /\ PollStatus("up") = "ok" => Age <= StaleAfter + MaxCycle + SetBack
    /\ PollStatus("up") = "stale" => Age > StaleAfter - SetForward

(* sysUpTime claims no uptime that the switch does not have, however long   *)
(* it is extrapolated and from however old a cache, unless the switch has   *)
(* rebooted since the report or the clock was set forward.                  *)
UptimeNotAhead ==
  Serving /\ ctx.payload.booted = switch.booted
    => SysUpTime <= time - switch.booted + SetForward

(* How far the API's report lay behind when the payload was stamped. *)
Lag(view) == view.when - view.payload.asOf

(* A falling sysUpTime is taken for a restart, which discards counter       *)
(* deltas.  While the clock stands as it did at the stamps, it falls only   *)
(* when the detail request failed, when the API's report lies further       *)
(* behind than the last, and when the switch was found rebooted.            *)
UptimeFallsOnlyWithCause ==
  [][/\ ctx # None /\ ctx.wrong = skew
     /\ ctx'.payload.uptime # Missing /\ ctx'.wrong = skew'
     /\ SysUpTime' < SysUpTime
     => Lag(ctx') > Lag(ctx) \/ ctx'.payload.booted > ctx.payload.booted]_vars

(* ifCounterDiscontinuityTime lies where the counters were last reset, on   *)
(* the scale of sysUpTime and not beyond it; too early by the API's lag at  *)
(* most, as long as the clock was right when the payload was stamped.       *)
DiscontinuityIsPlaced ==
  Serving /\ ctx.payload.uptime # Missing /\ ctx.wrong = 0 =>
    LET uptimeThen == ctx.payload.since - ctx.payload.booted IN
    /\ DiscontinuityTime(ctx.payload.since) <= SysUpTime
    /\ DiscontinuityTime(ctx.payload.since) \in (uptimeThen - Lag(ctx))..uptimeThen
=============================================================================
