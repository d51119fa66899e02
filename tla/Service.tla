------------------------------- MODULE Service -------------------------------
(***************************************************************************)
(* The life of the service: cli.py's startup (live, cached or dark), the   *)
(* poll loop of poller.py with its rate-limit backoff, the topology cache, *)
(* and systemd restarting what exits.  Every API request is a step, so the *)
(* API may start refusing in the middle of a cycle.  Time is counted in    *)
(* ticks; it passes while the service sleeps.                              *)
(***************************************************************************)
EXTENDS Integers

CONSTANTS N,            \* switches are numbered in the order of the configuration
          BoxGid,       \* msp.box_gid is configured
          Interval,     \* poll_interval
          MaxBackoff,   \* max_backoff_seconds
          DarkMax,      \* dark_probe_max_seconds
          RestartSec,   \* systemd's RestartSec
          Overflow,     \* strikes at which float(interval) * 2 ** (strikes - 1)
                        \* raises OverflowError: 1025
          RetryAfters,  \* what a 429 may carry in Retry-After
          MaxEnds       \* bound on crashes, orderly stops and saves that raise

ASSUME NAssumption == N \in Nat \ {0}
ASSUME BoxGidAssumption == BoxGid \in BOOLEAN
ASSUME TimesAreTicks == {Interval, MaxBackoff, DarkMax, RestartSec} \subseteq Nat \ {0}
ASSUME OverflowAssumption == Overflow \in Nat \ {0}
ASSUME RetryAftersAreTicks == RetryAfters \subseteq Nat
ASSUME MaxEndsIsNat == MaxEnds \in Nat

Switches == 1..N
NoHint == -1            \* a 429 without a usable Retry-After

VARIABLES
  api,        \* how the API answers now: "up", "limited" (429, 503), "failing", or
              \* "unlisted": up, but its list of boxes does not name one to choose
  topo,       \* the switches in its topology now
  phase,      \* "down", "startup", "dark", "polling", "waiting", "dead"
  stopped,    \* Poller._stopped
  step, turn, \* the request startup or poll_once issues next
  nodes,      \* the switches in the topology response of this cycle
  fresh,      \* the switches this cycle has refreshed
  serving,    \* ctx.serving_cache of each switch
  error,      \* ctx.last_error of each switch
  snapshot,   \* the switches in the topology cache; {} when there is none
  strikes,    \* _strikes, or startup's own count
  sleep,      \* ticks left of the sleep
  backoff,    \* ticks left until _backoff_until
  quiet,      \* ticks left of the pause the API asked for in its last Retry-After
  told,       \* what the running process was when it was asked: "polling",
              \* "cached" (in startup, with a cache), "dark", or "" (not yet asked)
  ends        \* crashes, stops and saves that raised so far

world == <<api, topo>>
cycle == <<step, turn, nodes, fresh>>
views == <<serving, error>>
pause == <<sleep, backoff>>
asked == <<quiet, told>>
vars == <<world, phase, stopped, cycle, views, snapshot, strikes, pause, asked, ends>>

(* The list of boxes is asked for only if msp.box_gid is not configured. *)
Answers == {"up", "limited", "failing"} \cup (IF BoxGid THEN {} ELSE {"unlisted"})

Errors == {"", "cached", "limited", "failed", "absent", "detail"}

TypeOK ==
  /\ api \in Answers /\ topo \subseteq Switches
  /\ phase \in {"down", "startup", "dark", "polling", "waiting", "dead"}
  /\ stopped \in BOOLEAN
  /\ step \in {"boxes", "networks", "topology", "settings", "detail"}
  /\ turn \in 1..(N + 1)
  /\ nodes \subseteq Switches /\ fresh \subseteq Switches
  /\ serving \in [Switches -> BOOLEAN] /\ error \in [Switches -> Errors]
  /\ snapshot \subseteq Switches
  /\ strikes \in 0..Overflow
  /\ sleep \in Nat /\ backoff \in Nat /\ quiet \in Nat
  /\ told \in {"", "dark", "cached", "polling"} /\ ends \in 0..MaxEnds

Serving == phase \in {"polling", "waiting", "dead"} /\ ~stopped
Requesting == phase \in {"startup", "polling"}

AllErrors(e) == [s \in Switches |-> e]
FirstStep == IF BoxGid THEN "networks" ELSE "boxes"

Init ==
  /\ api \in Answers /\ topo = Switches
  /\ phase = "startup" /\ stopped = FALSE
  /\ step = FirstStep /\ turn = 1 /\ nodes = {} /\ fresh = {}
  /\ serving = AllErrors(FALSE) /\ error = AllErrors("")
  /\ snapshot = {}
  /\ strikes = 0 /\ sleep = 0 /\ backoff = 0
  /\ quiet = 0 /\ told = "" /\ ends = 0
-----------------------------------------------------------------------------
(* The delay after a 429 *)

AtLeast(a, b) == IF a < b THEN b ELSE a
AtMost(a, b) == IF a > b THEN b ELSE a
Clamped(d) == AtLeast(AtMost(d, MaxBackoff), 1)

(* uniform(0.8, 1.2) times d, to the tick; no further than the cap matters. *)
Jittered(d) == {j \in 0..(2 * MaxBackoff) : 8 * d <= 10 * j /\ 10 * j <= 12 * d}
               \cup (IF d >= MaxBackoff THEN {MaxBackoff} ELSE {})

(* Retry-After wins; otherwise exponential in the strikes.  The mutant      *)
(* never looks at Retry-After.                                              *)
MutantDelays(hint, n) == {Clamped(d) : d \in Jittered(Interval * 2 ^ AtLeast(n - 1, 0))}
Delays(hint, n) ==
  IF hint # NoHint THEN {Clamped(hint)}
  ELSE {Clamped(d) : d \in Jittered(Interval * 2 ^ AtLeast(n - 1, 0))}

Overflows(hint, n) == hint = NoHint /\ n >= Overflow

(* Strikes beyond Overflow are not told apart. *)
OneMore == AtMost(strikes + 1, Overflow)

(* What the API asked for, a Retry-After up to the configured ceiling, and  *)
(* of whom.                                                                 *)
Asked ==
  IF phase = "polling" THEN "polling" ELSE IF snapshot # {} THEN "cached" ELSE "dark"

Ask(hint) ==
  /\ quiet' = IF hint = NoHint THEN quiet ELSE AtMost(hint, MaxBackoff)
  /\ told' = IF hint = NoHint THEN told ELSE Asked
-----------------------------------------------------------------------------
(* How a process ends and begins. *)

(* The process is gone; systemd starts the next one after "rest" ticks.     *)
Down(rest) ==
  /\ phase' = "down" /\ sleep' = rest
  /\ stopped' = FALSE
  /\ step' = FirstStep /\ turn' = 1 /\ nodes' = {} /\ fresh' = {}
  /\ serving' = AllErrors(FALSE) /\ error' = AllErrors("")
  /\ strikes' = 0 /\ backoff' = 0 /\ told' = ""

(* An exception leaves cli.main: exit status 1, Restart=on-failure. *)
ExitOnError == Down(RestartSec) /\ UNCHANGED <<world, snapshot, quiet, ends>>

Restart ==
  /\ phase = "down" /\ sleep = 0
  /\ phase' = "startup"
  /\ UNCHANGED <<world, stopped, cycle, views, snapshot, strikes, pause, asked, ends>>

Crash ==
  /\ phase # "down" /\ ends < MaxEnds
  /\ ends' = ends + 1
  /\ Down(RestartSec)
  /\ UNCHANGED <<world, snapshot, quiet>>

(* systemctl restart.  A cycle in flight runs on in the executor thread,    *)
(* which the process waits for; it answers nobody any more.                 *)
Stop ==
  /\ Serving /\ ends < MaxEnds
  /\ ends' = ends + 1
  /\ IF phase = "polling"
       THEN stopped' = TRUE
            /\ UNCHANGED <<phase, cycle, views, strikes, pause, told>>
       ELSE Down(0)
  /\ UNCHANGED <<world, snapshot, quiet>>

StartCycle(first) == step' = first /\ turn' = 1 /\ nodes' = {} /\ fresh' = {}
-----------------------------------------------------------------------------
(* The requests of _fetch_payload and of poll_once, in their orders. *)

StartupOrder ==
  [boxes |-> "networks", networks |-> "settings", settings |-> "topology", topology |-> "detail"]
CycleOrder ==
  [networks |-> "topology", topology |-> "settings", settings |-> "detail"]

Proceed ==
  /\ step' = IF phase = "startup" THEN StartupOrder[step] ELSE CycleOrder[step]
  /\ UNCHANGED <<turn, fresh>>

(* A failure to list the networks is swallowed, and so are settings that    *)
(* are not JSON.                                                            *)
Answered ==
  /\ Requesting /\ step # "detail"
  /\ \/ api = "up"
     \/ api = "unlisted" /\ step # "boxes"
     \/ api = "failing" /\ step \in {"networks", "settings"}
  /\ Proceed
  /\ nodes' = IF step = "topology" THEN topo ELSE nodes
  /\ UNCHANGED <<world, phase, stopped, views, snapshot, strikes, pause, asked, ends>>

(* ConfigError, which leaves startup past the cache: the token sees no box, *)
(* or several.                                                              *)
UnlistedBoxes ==
  /\ phase = "startup" /\ step = "boxes" /\ api = "unlisted"
  /\ ExitOnError

(* Is the next step a request?  A switch that is not in the topology is     *)
(* treated without one.                                                     *)
Asking == Requesting /\ (step = "detail" => turn \in nodes)

(* Startup: the switch's detail is optional. *)
PayloadSwitch ==
  /\ phase = "startup" /\ step = "detail" /\ turn \in nodes
  /\ api # "limited"
  /\ turn' = turn + 1 /\ fresh' = fresh \cup {turn}
  /\ UNCHANGED <<world, phase, stopped, step, nodes, views, snapshot, strikes, pause, asked,
                 ends>>

(* ConfigError: a configured switch is not in the topology. *)
PayloadAbsent ==
  /\ phase = "startup" /\ step = "detail" /\ turn \in Switches \ nodes
  /\ ExitOnError

(* _build_agents, live; the payload is cached if it can be written; the     *)
(* poll loop begins with a cycle of its own.                                *)
Begin(cached, why) ==
  /\ phase' = "polling" /\ strikes' = 0 /\ backoff' = 0 /\ sleep' = 0
  /\ serving' = AllErrors(cached) /\ error' = AllErrors(why)
  /\ StartCycle("networks")

ServeLive(ok) ==
  /\ phase = "startup" /\ turn = N + 1
  /\ Begin(FALSE, "")
  /\ snapshot' = IF ok THEN Switches ELSE snapshot
  /\ UNCHANGED <<world, stopped, asked, ends>>

(* The cached payload takes the API's place, unless it lacks a configured   *)
(* switch: ConfigError.  The mutants fall back for a 429 only, and keep     *)
(* quiet about the cache.                                                   *)
MutantFallsBack == snapshot # {} /\ api = "limited"
FallsBack == snapshot # {}
MutantCachedError == ""
CachedError == "cached"

ServeCached(hint) ==
  IF snapshot = Switches
  THEN /\ Begin(TRUE, CachedError)
       /\ Ask(hint)
       /\ UNCHANGED <<world, stopped, snapshot, ends>>
  ELSE ExitOnError

(* Neither API nor cache: probe again, serving nothing. *)
GoDark(hint) ==
  IF Overflows(hint, strikes + 1) THEN ExitOnError
  ELSE /\ phase' = "dark" /\ strikes' = OneMore
       /\ \E d \in Delays(hint, strikes + 1) : sleep' = AtMost(d, DarkMax)
       /\ StartCycle(FirstStep)
       /\ Ask(hint)
       /\ UNCHANGED <<world, stopped, views, snapshot, backoff, ends>>

StartupLimited(hint) ==
  /\ phase = "startup" /\ Asking /\ api = "limited"
  /\ IF FallsBack THEN ServeCached(hint) ELSE GoDark(hint)

StartupFails ==
  /\ phase = "startup" /\ step \in {"boxes", "topology", "settings"} /\ api = "failing"
  /\ IF FallsBack THEN ServeCached(NoHint) ELSE ExitOnError

Probe ==
  /\ phase = "dark" /\ sleep = 0
  /\ phase' = "startup"
  /\ UNCHANGED <<world, stopped, cycle, views, snapshot, strikes, pause, asked, ends>>
-----------------------------------------------------------------------------
(* The poll loop. *)

MutantMarkAllFailed(e) == error
MarkAllFailed(e) == AllErrors(e)

(* The loop sleeps; "fresh" stays what the last cycle has refreshed. *)
Sleep(d) ==
  /\ phase' = "waiting" /\ sleep' = d
  /\ step' = FirstStep /\ turn' = 1 /\ nodes' = {} /\ UNCHANGED fresh

(* wait = max(1, interval - elapsed), however long the cycle took.          *)
SleepInterval == \E d \in 1..Interval : Sleep(d)

(* A 429 anywhere in the cycle ends it. *)
PollLimited(hint) ==
  /\ phase = "polling" /\ ~stopped /\ Asking /\ api = "limited"
  /\ strikes' = OneMore
  /\ Ask(hint)
  /\ IF Overflows(hint, strikes + 1)
       THEN \* the exception escapes run: the task is dead, the agents go on
            phase' = "dead" /\ UNCHANGED <<cycle, error, pause>>
       ELSE \E d \in Delays(hint, strikes + 1) :
              Sleep(d) /\ backoff' = d /\ error' = MarkAllFailed("limited")
  /\ UNCHANGED <<world, stopped, serving, snapshot, ends>>

(* So does any other failure of the topology, a cycle that "failed" but     *)
(* ends the strikes, and of the settings, an exception that does not.       *)
PollFails ==
  /\ phase = "polling" /\ ~stopped /\ step \in {"topology", "settings"} /\ api = "failing"
  /\ error' = MarkAllFailed("failed")
  /\ strikes' = IF step = "topology" THEN 0 ELSE strikes
  /\ SleepInterval
  /\ UNCHANGED <<world, stopped, serving, snapshot, backoff, asked, ends>>

(* A failing detail is noted and the switch refreshed without it; the note  *)
(* stays until a whole cycle fails.  The mutant never clears an error.      *)
MutantRefreshedError == IF api = "failing" THEN "detail" ELSE error[turn]
RefreshedError == IF api = "failing" \/ error[turn] = "detail" THEN "detail" ELSE ""

PollSwitch ==
  /\ phase = "polling" /\ step = "detail" /\ turn \in nodes
  /\ api # "limited"
  /\ serving' = [serving EXCEPT ![turn] = FALSE]
  /\ error' = [error EXCEPT ![turn] = RefreshedError]
  /\ turn' = turn + 1 /\ fresh' = fresh \cup {turn}
  /\ UNCHANGED <<world, phase, stopped, step, nodes, snapshot, strikes, pause, asked, ends>>

PollAbsent ==
  /\ phase = "polling" /\ step = "detail" /\ turn \in Switches \ nodes
  /\ error' = [error EXCEPT ![turn] = "absent"]
  /\ turn' = turn + 1
  /\ UNCHANGED <<world, phase, stopped, step, nodes, fresh, serving, snapshot, strikes, pause,
                 asked, ends>>

(* The cache is replaced by what this cycle has refreshed, if anything and  *)
(* if it can be written.  The mutant writes whatever it has.                *)
MutantCached(ok) == IF ok THEN fresh ELSE snapshot
Cached(ok) == IF ok /\ fresh # {} THEN fresh ELSE snapshot

EndCycle(ok) ==
  /\ phase = "polling" /\ ~stopped /\ turn = N + 1
  /\ snapshot' = Cached(ok)
  /\ strikes' = 0
  /\ SleepInterval
  /\ UNCHANGED <<world, stopped, views, backoff, asked, ends>>

(* The save raises RuntimeError when an SNMP request asks a counter for the *)
(* first time under it: every agent is marked, the cache is left as it is   *)
(* and the strikes are kept.                                                *)
EndCycleFails ==
  /\ phase = "polling" /\ ~stopped /\ turn = N + 1 /\ ends < MaxEnds
  /\ ends' = ends + 1
  /\ error' = MarkAllFailed("failed")
  /\ SleepInterval
  /\ UNCHANGED <<world, stopped, serving, snapshot, strikes, backoff, asked>>

(* A cycle still in flight when the loop was stopped ends with the process; *)
(* if its save raises, it writes no cache either.                           *)
EndStopped(ok) ==
  /\ phase = "polling" /\ stopped
  /\ \/ turn = N + 1 /\ snapshot' = Cached(ok)
     \/ Asking /\ api = "limited" /\ UNCHANGED snapshot
     \/ step \in {"topology", "settings"} /\ api = "failing" /\ UNCHANGED snapshot
  /\ Down(0)
  /\ UNCHANGED <<world, quiet, ends>>

(* Network names are asked for again every quarter of an hour. *)
Wake ==
  /\ phase = "waiting" /\ sleep = 0
  /\ IF backoff > 0
       THEN sleep' = backoff /\ UNCHANGED <<phase, cycle>>
       ELSE /\ phase' = "polling" /\ UNCHANGED sleep
            /\ \E first \in {"networks", "topology"} : StartCycle(first)
  /\ UNCHANGED <<world, stopped, views, snapshot, strikes, backoff, asked, ends>>
-----------------------------------------------------------------------------
(* Time, and the world. *)

MutantCountdown(t) == t - 1
Countdown(t) == IF t > 0 THEN t - 1 ELSE 0

Tick ==
  /\ sleep > 0
  /\ sleep' = Countdown(sleep) /\ backoff' = Countdown(backoff) /\ quiet' = Countdown(quiet)
  /\ UNCHANGED <<world, phase, stopped, cycle, views, snapshot, strikes, told, ends>>

ApiChanges ==
  /\ api' \in Answers
  /\ UNCHANGED <<topo, phase, stopped, cycle, views, snapshot, strikes, pause, asked, ends>>

TopologyChanges ==
  /\ topo' \in SUBSET Switches
  /\ UNCHANGED <<api, phase, stopped, cycle, views, snapshot, strikes, pause, asked, ends>>
-----------------------------------------------------------------------------
Startup ==
  \/ Restart \/ Probe \/ UnlistedBoxes \/ PayloadSwitch \/ PayloadAbsent \/ StartupFails
  \/ (\E ok \in BOOLEAN : ServeLive(ok))
  \/ (\E hint \in RetryAfters \cup {NoHint} : StartupLimited(hint))

Poll ==
  \/ PollSwitch \/ PollAbsent \/ PollFails \/ Wake
  \/ (\E hint \in RetryAfters \cup {NoHint} : PollLimited(hint))
  \/ (\E ok \in BOOLEAN : EndCycle(ok) \/ EndStopped(ok))

(* What the service and systemd do of themselves. *)
Work == Answered \/ Startup \/ Poll \/ Tick

(* What comes over it, an SNMP request in the middle of a save included. *)
World == ApiChanges \/ TopologyChanges \/ Crash \/ Stop \/ EndCycleFails

Next == Work \/ World

Spec == Init /\ [][Next]_vars

(* Requests end (they time out), threads and the event loop are scheduled,  *)
(* clocks advance, systemd restarts what has failed.  Nothing is asked of   *)
(* the API.                                                                 *)
FairSpec == Spec /\ WF_vars(Work)
-----------------------------------------------------------------------------
(* Correctness. *)

(* An operator who sees no error sees fresh data: between two cycles, a     *)
(* switch without fwProxyLastError was refreshed by the last one, however   *)
(* that cycle ended.                                                        *)
SilenceMeansFresh ==
  phase = "waiting" => \A s \in Switches : error[s] = "" => s \in fresh

(* Frozen counters are announced: an agent that serves the cache says so,   *)
(* or says why it still does, until its first refresh.                      *)
FrozenIsAnnounced == Serving => \A s \in Switches : serving[s] => error[s] # ""

(* "the poller stops issuing requests entirely until the backoff expires":  *)
(* no cycle is under way before the Retry-After it was sent has passed.     *)
PollerIsPolite == phase = "polling" /\ told = "polling" => quiet = 0

(* "Once a cache exists ... backoff is fully polite": nor before the one    *)
(* has passed that startup was sent when it had a cache to serve.           *)
PoliteOnceCached == phase = "polling" /\ told \in {"cached", "polling"} => quiet = 0

(* "Exiting is never an option for an API problem": startup does not exit   *)
(* on a request that fails, not while there is a cache to serve from.       *)
NoExitOnApiProblem ==
  [][phase = "startup" /\ Asking /\ phase' = "down" /\ ends' = ends => snapshot = {}]_vars

(* "The cache can never be poisoned with a partial or failed response":     *)
(* once there is a cache there always is, and it loses a switch only to a   *)
(* cycle whose topology response lacked the switch; failing details, failed *)
(* writes, a shutdown or a crash in the middle of a cycle cost it nothing.  *)
CacheLosesOnlyTheAbsent ==
  [][/\ snapshot # {} => snapshot' # {}
     /\ \A s \in snapshot \ snapshot' : s \notin nodes]_vars

(* Recovery needs no operator: once the API stays up and knows every        *)
(* switch, every agent is in the end, and stays, refreshed from it.  Not so *)
(* after the poll task has died of an OverflowError.                        *)
Live ==
  /\ Serving /\ \A s \in Switches : ~serving[s] /\ error[s] \in {"", "detail"}

Recovers ==
  <>[](api = "up" /\ topo = Switches) /\ [](phase # "dead") => <>[]Live

(* Startup does not depend on the API: with a complete cache the agents are *)
(* in the end served, and stay so, however the API refuses, as long as it   *)
(* answers with no topology that lacks a switch and with no list of boxes   *)
(* that does not name one to choose: those two end the process.             *)
ServesThroughOutage ==
  [](topo = Switches /\ api # "unlisted") => (snapshot = Switches ~> []Serving)
=============================================================================
