# Verification of firewalla-snmp-proxy in TLA+

firewalla-snmp-proxy polls the Firewalla MSP cloud API and answers SNMP about
each switch it finds there. Little of it is algorithmic; what is hard is that
one process has an event loop (SNMP), an executor thread (polling), another one
(ping), two files it must survive with, a clock it does not control and an API
that refuses it for hours. The modules here model those parts of it, TLC checks
them on small instances, and TLAPS proves their safety properties for every
instance.

Paths below are relative to `src/firewalla_snmp_proxy/`.

## The system

| Component | State it keeps | Operations | Talks to |
|---|---|---|---|
| Counter store (`counters.py`) | `_state`, `_dirty`, the counter file | `update`, `save`, `load` | fed by the event loop on each SNMP request; saved by the poll thread and on shutdown |
| Ramp (`ramp.py`) | a segment per counter | `value` | fed with the store's value on each request; reads the wall clock |
| Switch context (`mibs/__init__.py`, `model.py`) | `switch`, `last_error`, `serving_cache`, poll times | `counter`, `c32`, `c64`, `switch_online`, `poll_status`, `port_signature` | read by the event loop, written by the poll thread, with no lock |
| Agent and OID tree (`agent.py`, `oid.py`, `tree_builder.py`, `mibs/*.py`) | the tree, its signature | GET, GETNEXT, `refresh` | event loop reads, poll thread swaps |
| Poller (`poller.py`) | `_strikes`, `_backoff_until`, `_networks` | `poll_once`, `run`, `stop` | API client, agents, both files |
| Startup and shutdown (`cli.py`) | strikes of its own | `_startup`, `_serve`, `_shutdown` | builds everything; live, cached or dark |
| Topology cache (`snapshot.py`) | a file | `save`, `load` | written by startup and by every cycle that refreshed something |
| Reachability (`reachability.py`) | verdict, debounce counters | `check`, `feed`, `snmp_status` | its own loop on the executor; read by the event loop |
| API client (`msp_api.py`) | none | GET requests | errors are `MspRateLimited` (429, 503), `MspNotJson`, other `MspError` |
| systemd unit (`service.py`) | none | `Restart=on-failure` | restarts what exits with an error |
| Configuration, `init`, `check`, `walk`, installer | a YAML file | sequential | none at run time |

What is hard in each, and so worth a model, is in `PROJECT.json` under
"hazards", with the line where it bites. In short: unlocked state shared by
three threads (store, context, tree, verdict); two files, saved at different
moments, that the next process combines; an API that can refuse in the middle
of a cycle; errors swallowed in one place and fatal in another; two clocks.

## The modules

| Module | Models | Abstracts from |
|---|---|---|
| `MonotonicCounter` | the promise of `counters.py:18-19` as an abstract specification: an answer is never lower than what is owed | how it is kept |
| `CounterUpdate` | the arithmetic of `update` on one entry, as operators | |
| `CounterStore` | `update`, `save`, `load` at the grain at which the threads interleave: the three field writes of `update`, the three field reads of `json.dump` per entry, the iterator's check, the rename, `_dirty = False`; shutdown with its two saves, crash, restart | key strings, JSON, the wording of errors |
| `CounterPath` | one counter from the switch to the manager: `poll_once` (fetch, replace `ctx.switch`, dump and save the counters, save the cache), `c64`'s two reads of `ctx.switch`, an `update` that a dump may overlap, stop, crash, live and cached restart; `as_counter32`/`64` and the manager that adds up the differences | the single field writes of the store (`CounterStore`; here, what a dump may come to), other counters |
| `Service` | `_startup`, `_fetch_payload`, `_build_agents`, `poll_once`, `run`, `_enter_backoff`, the contents of the cache, systemd; each API request is a step and the API may change between any two | the data in the responses; jitter is any tick in the range |
| `Vitals` | what is read off the wall clock: `poll_status`, `seconds_since_poll`, `uptime_ticks`, `boot_epoch`, `ticks_at_epoch`, with the stamps that `poll_once`, `_build_agents` and `TopologySnapshot.save` put on a payload, an API that lags behind the switch, and a host clock that is set | one switch; everything of a cycle but this switch's request and the cycle's end |
| `Ramp` | `CounterRamp.value` with any cadence of polls and requests, and a clock that may be set back | floats: the quotient is exact |
| `Reachability` | `ping_once`, `check`, `feed`, `switch_online`'s three reads and `snmp_status`'s two | sockets; round-trip times |
| `OidTree` | `freeze`, `get_next`, `has_descendants` as operators on sets of OIDs, over Python's bisection | values |
| `AgentTree` | `read_variables`, `read_next_variables`, `refresh`, `swap_tree`, `port_signature`, the rows the builders make, and the providers' look-ups of what their row is about, with a manager that walks and asks | one column stands for each of ifTable, dot1dStpPortTable, pethPsePortTable, entPhysicalTable, entPhySensorTable and lldpRemTable, one scalar for those of fwSwitch that may be missing |

`CounterStore` and `CounterPath` share `CounterUpdate`, so that the arithmetic
is stated once. `CounterStore` implements `MonotonicCounter` by
`M == INSTANCE MonotonicCounter WITH served <- served, ...`, whose variables it keeps as history
variables: `served` and `published` are the answers of this process, `carried`
what the process before it left as a debt. `AgentTree` extends `OidTree`.
The theorems about a module `M`, if any, are in
`MProofs`, which extends it: `CounterStoreProofs`, `CounterPathProofs`,
`ServiceProofs`, `VitalsProofs`, `RampProofs`, `ReachabilityProofs`,
`OidTreeProofs` and `AgentTreeProofs`. `MCCounterStore` and `MCAgentTree` give TLC the
values a `.cfg` cannot express; `MCCounterPath` gives it the part of a state that the
rest of a behaviour depends on, as a `VIEW`: after the last start nobody reads the
files, and when the last process has ended nobody is answered.

Definitions keep the code's names where there is one. Definitions named
`Mutant...` are the bugs a property must be able to see: each is a variant of
the definition that follows it, used by no action.

### How the models follow the code

* **Grain.** Python switches threads between bytecodes, so a step of the models
  is one read or write of shared state, or several when only one thread can see
  them. `save` in `CounterStore` is a step per field because `json.dump` to a
  file object walks the live dictionary in Python. `CounterPath` has the dump as
  an interval: what it writes is an entry the store held meanwhile, or one whose
  fields are of several of them (`Dumps`).
* **Readings** in `CounterStore` are arbitrary: any raw value and any
  `statsSinceTs` of a given set may follow any other. In `CounterPath` they come
  from a switch that counts and is reset, with or without moving `statsSinceTs`,
  through an API that may leave out a counter (`raw.get(name) or 0`), `statsSinceTs`
  of a port (`int(stats_since or 0)`) or the port.
* **Restarts.** The files survive a crash, memory does not. A counter file that
  cannot be read is an empty one (`counters.py:72-76`). `entry` in
  `CounterPath` and the history variables remember what the last process had,
  for the properties only.
* **Failures.** Every write of a file may fail, and where the code swallows the
  error, so does the model. A save of the counters may also raise `RuntimeError`,
  which ends the cycle as failed (`EndCycleFails`). Every request may be answered,
  refused (with or without `Retry-After`) or fail, and the list of boxes may be one
  that names none to choose, a `ConfigError` (`UnlistedBoxes`).
* **Clocks.** In `Vitals` the true time, which switches and API go by, and the
  host's are two variables; the properties compare what is answered with the
  truth, and name every margin: the length of a cycle, the API's lag, what the
  clock was set by.
* **Time** in `Service` passes only while the service sleeps, which is when the
  code can tell: requests take no ticks, so a backoff is never shortened by a
  slow one.

## The properties, and what the runs show

`counter_store` (2 counters, readings that reset one of them in each way
`update` tells apart, offsets up to 1; 1.9 million states)

* `Promise`: `CounterStore` implements `MonotonicCounter`. Nothing that the
  threads, failing saves or restarts do makes an answer fall within a process,
  or below what the process before answered if its shutdown's last save had the
  last word on the file.
* `CleanImage`: after such a shutdown the file is memory, entry by entry,
  although `save` dumps without a lock and clears `_dirty` late. The forced save
  of `_serve` after the agents are closed is what makes it so.

`counter_path` (3 events at the switch or in what the API leaves out, 2 starts,
counters modulo 3; 6.2 million states)

* `NothingInvented`: the published value exceeds the traffic only after one of five
  mishaps. "torn": one request combined two readings, a poll having replaced
  `ctx.switch` between `c64`'s look at `statsSinceTs` and `counter`'s at the raw value
  (`mibs/__init__.py:103, 121`). "aged": a process resumed from a reading older than
  its counter file. "mixed": or from a file dumped in the middle of an update.
  "zeroed": the API left the counter out, and `model.py:141` makes it a 0, which
  `update` takes for a reset. "undated": it left `statsSinceTs` out, so that a
  reset is folded by its value while the stamp stays (`counters.py:142, 159`), and once
  more when the stamp is back.
* `GraphInventsNothing`: nor does the manager's graph, the sum of differences of
  the folded answers, unless something went wrong on the way: the five above,
  an update that a start misses, or a port that was gone (`return 0`,
  `mibs/__init__.py:113`). So folds of resets and wraps of the width do not get
  in each other's way.
* `FallsOnlyAfterLoss`: it falls only at a restart, and only if that misses an
  update, which the file does or which was in a file that could not be read; or to
  the 0 of a port that is gone.

One of the exceptions in `NothingInvented` contradicts what the code says, and is a
finding:

* `counter_path_cache` (`CacheInventsNothing`): the cache is older than the
  counter file (a cycle left by a 429, a failed write), and the reading in it is
  taken for a reset. `cli.py:551-552` promises that rates read zero.

`service` (2 switches, no `box_gid`, interval 2, backoff up to 4, `Retry-After` in
{0, 3, 7} or none, overflow at strike 4, 2 crashes, stops or saves that raise; 0.85
million states)

* `SilenceMeansFresh`: between cycles, a switch without `fwProxyLastError` was
  refreshed by the last cycle, however that ended.
* `FrozenIsAnnounced`: an agent that serves the cache has an error to show.
* `PollerIsPolite`: no cycle runs before the `Retry-After` the poller was sent
  has passed (up to `max_backoff_seconds`).
* `CacheLosesOnlyTheAbsent`: once there is a topology cache there always is, and
  it loses a switch only to a cycle whose topology response lacked it. This is
  what is left of `poller.py:196-197` (see `service_exit`).
* `Recovers`: if the API stays up and knows every switch from some moment on,
  and the poll task has not died, every agent is in the end live for good.
* `ServesThroughOutage`: a complete cache leads to agents that serve for good, however
  the API refuses, if it never answers with a topology that lacks a configured
  switch or with a list of boxes that names none to choose. Those two answers end
  the process.

The run checks all of them under `FairSpec`. Three findings about the same module:

* `service_handover` (`PoliteOnceCached`): a startup that is told to wait and
  serves the cache polls at once. `cli.py:569-570` says backoff is fully polite
  once a cache exists.
* `service_exit` (`NoExitOnApiProblem`): a cycle that found one of two switches
  overwrites the cache with that one, and the next startup that the API refuses
  exits. `cli.py:536` says exiting is never an option, and `poller.py:196-197`
  that the cache cannot be poisoned with a partial response.
* `service_boxes` (`NoExitOnApiProblem`): so does a startup whose list of boxes is
  empty or has several, without `box_gid` and with a complete cache: `_resolve_gid`'s
  `ConfigError` is not among what `_startup` catches. `service_exit` sets `box_gid`, so
  that each run can find its own way out only.

`vitals` (stale after 1 tick, cycles of up to 1, 3 ticks of time, a clock up to 1
behind; 5.1 million states)

* `AgeIsHonest`: `fwProxySecondsSincePoll` and `fwProxyPollStatus` are those of
  the data's true age up to a cycle's length and what the clock was set by,
  whether the data is live or cached, and across restarts. This is what
  `_build_agents`' docstring asks for.
* `UptimeNotAhead`: `sysUpTime` is never more than the switch's own uptime,
  however old the report, unless it has rebooted since or the clock was set
  forward.
* `UptimeFallsOnlyWithCause`: while the clock stands as it did at the stamps,
  `sysUpTime` falls only with a reboot, a report that lags further behind than
  the last, or a detail request that failed (then it is 0).
* `DiscontinuityIsPlaced`: `ifCounterDiscontinuityTime` is where the counters
  were reset on the scale of `sysUpTime`, at most the API's lag too early, and
  never after `sysUpTime`, provided the clock was right at the stamp.

`ramp` (window up to 3, clock up to 8, counter up to 5; 245 thousand states)

* `FallsOnlyWithClock`: an answer is below the one before only if the clock went
  back between them. (`ramp.py:28` says output is monotone; with a clock that
  may step back, this is what is left of it.)
* `NothingInvented`, `SeamPaysInFull`: never ahead of the counter; when an
  increment is noticed all earlier ones have been paid.
* `PaidWithinMaxWindow`: `max_window` after an increment was noticed, the answer
  is the counter.

`reachability` (thresholds 3 and 2; 6.1 thousand states, all there are)

* `VerdictIsEarned`, `VerdictIsGiven`: a verdict changes exactly when enough
  conclusive checks in a row agree, inconclusive ones between them not
  counting. The specification side is the history of checks, not the counters.
* `OnlineWasRight`: what `switch_online` answers after two reads of the verdict
  and one of the API's field was right at some moment of the request, unless
  `poll_once` changed the field meanwhile.
* `IcmpWasRight`: so is `fwProxyIcmpStatus`, but that a change from down to up
  between its two reads is answered unknown(3).

`agent_tree` (2 ports, each with PoE, an SFP cage or absent; 5 combinations of
STP, temperature, flow control and uplink; 1.4 million states)

* `WalkIsComplete`, `WalkAscends`: a walk that reaches the end has returned, in
  ascending order, every OID that was there throughout, however often the tree
  was swapped under it.
* `FailsOnlyWhenStale`: a provider meets a missing port only in a request that
  overlaps the window between `ctx.switch = ...` and `agent.refresh()`.
* `NoSuchIsRight`: noSuchInstance if and only if the OID names an object, across
  up to three reads of `self.tree`.
* `TreeFollowsPorts`: between polls the rows are those of the switch's ports.
* The finding `agent_tree_stp` (`StpOnlyWhenEnabled`): `mibs/bridge.py:11-12` says the
  dot1dStp group is instantiated only when STP is enabled; the signature does not
  see it switched off, and the rows stay until the process restarts.

Nor does the signature see a temperature, the uplink or flow control
(`TreeFollowsPorts` says "those of the ports", not "those of the switch"): an
lldpRemTable row tells of the new neighbour under the old port, and a temperature
that is gone reads 0 (`Blank`).

`TypeOK` is each module's type invariant.

### Bounds

* `MaxOffset = 1` in `CounterStore` allows a fold and then what follows it; with
  readings of at most 1, a second fold repeats the first, and the theorems are
  for every bound. Two keys are what a half-dumped file and a resized dictionary
  need.
* Three events (traffic, reset, traffic; or a counter left out and back) and two
  starts (a live one, and one from what that left or from the cache) in
  `CounterPath` are what it takes to see that each of the seven mishaps is needed where
  a property names it: without any one of them TLC finds a violation within these
  bounds. That the API no longer leaves anything out is not counted as an event. One
  thing is left out at a time (a port that is left out takes its counter and
  `statsSinceTs` along); the theorems are for every number of events and starts and
  for anything left out together. Modulo 3, three bytes wrap. `counter_path_cache`
  leaves nothing out, so that it is not an omission it finds.
* Three ticks in `Vitals` are a boot, a fetch, a stale cache and a restart after
  each other; every margin (cycle, skew, threshold) is one tick, so that the
  properties tell being one off from being right.
* Two switches are what a partial cycle needs. Overflow at strike 4 instead of
  1025 makes it reachable; the exponent before it is as in the code.
  `MaxEnds` bounds crashes, orderly stops and saves that raise, for they would
  otherwise end every run or cycle; a save raises when a counter is asked for the
  first time, and there are finitely many. Exits with an error are not bounded.
* `CounterPath` may deadlock where its starts are spent, and says so in its
  configurations; no other model may.

### Fairness

`FairSpec` (run `service`) is weak fairness of `Work`, what the service does of itself: requests
end because they have timeouts (`msp_api.py:124`), the event loop and the
executor are scheduled, time passes, and systemd restarts what failed
(`service.py:62`). Nothing is assumed of the API, and the environment's steps
(`ApiChanges`, `TopologyChanges`, `Crash`, `Stop`, and `EndCycleFails`, which an SNMP
request brings about) are never obliged to happen. One fairness condition for all of
`Work` is enough, for the service is sequential: at each moment one step of it is
enabled, or none.

## What is proved

`CounterStoreProofs`, from the assumptions in `CounterStore` that there is a
key, that readings are pairs of an integer and a natural number, and that
the bound on offsets is a natural number:

* `TypeCorrect`: `Spec => []TypeOK`. It carries the code's `max(0, int(raw))`:
  every field of every entry, in memory, in a half-written image and on disk, is
  a natural number.
* `KeepsPromise`: `Spec => Promise`, that is `CounterStore` implements
  `MonotonicCounter`, for any number of counters and any readings. The invariant
  `Inv` says what no property does: where each thread is in `update` and `save`,
  that the value of an entry in memory is at least what is published or owed for
  it (between the three writes of `update`, that the value about to be written
  is), and that an image under way in a forced save of the shutdown agrees with
  memory in every field dumped so far. The refinement is checked step by step:
  `SetStatsSince` and `UpdateNew` answer, `Start` begins a process, every other
  step stutters.
* `CleanShutdownIsExact`: `Spec => []CleanImage`, from the same invariant.
* `ForcedSaves`: both forced saves of a shutdown write exactly what memory holds and
  cannot meet a dictionary that changes under them (`ForcedSavesAreExact`), for the
  event loop is the only one to write entries; a cycle's save has neither guarantee.
* `UpdateIsExact`, about the operators of `CounterUpdate`: an entry's value rises by
  exactly what was counted since its last reading, or since the reset if one of the
  two signals tells of it; the same
  reading may be fed any number of times; and `_dirty` misses nothing that
  `update` changes.

`CounterPathProofs`, from the assumptions that the bounds are natural numbers,
that what is omitted is a counter, its timestamp or a port, in any combination, and
that the modulus is at least 1:

* `Invents`, `FallsAfterLoss`: the two properties of the published value, for
  any number of events and restarts. They cannot be inductive over the state
  alone: whether an answer exceeds the traffic depends on how much traffic there
  was when its reading was taken, and the state holds only the total. `AccountsInv`
  says that *some* past `T`, the traffic at each event, accounts for all that is
  held: between any reading (`ctx.switch`, the payload of a cycle, the cache) or
  entry of the store (in memory, being written, met by a dump, in the file) and any
  later reading, the counter went on by the traffic between them, or it was reset
  and holds part of it (`History`, `Ledger`, over `Books`). A file whose fields are
  of different moments accounts for nothing and stays out of the books until a
  process resumes from it, which is a mishap (`DumpsAreEntries`). `NewIsAccounted`
  is then the heart of `update`: fed a reading that is not older (`NoneIsAhead`), an
  entry that is not ahead of the traffic stays so. Each mishap the properties name
  is where one of its hypotheses fails.
* `GraphInvents`: from `FoldedDifference`, that the difference of two values
  folded to any width is at most their difference.
* `GraphOffByWraps`: with or without a mishap, the graph and the published value
  differ by whole wraps of the counter (`FoldedSum`): a fall is graphed as a wrap that
  never was, a spike of up to 2^32 or 2^64.

`ServiceProofs`, for any number of switches, interval, `Retry-After` and ceiling,
from the named assumptions in `Service` (delays are positive, counts are natural
numbers):

* `FrozenAnnounced`: `FrozenIsAnnounced` is inductive once the types are known.
* `SilenceIsFresh`: needs `Noted`, which extends the property into the middle of a
  cycle: it holds of the switches that the cycle has passed.
* `Polite`: needs `Patient`: while the poller waits, the backoff covers what is left
  of the `Retry-After`, and while it polls nothing is left.
* `CacheLosesAbsent`: needs `Covered`: what a cycle has passed of its topology
  response is fresh, so at its end all of it is.
* `SurvivesOutage` and `KeepsRecovering` are the safety halves of the two liveness
  properties. While the topology loses no switch and the list of boxes names one to
  choose, a request in flight and the cache are complete (`Informed`); so with a cache
  nothing but a crash or a stop ends a process, startup ends only in serving, and
  without one it exits only on a failure that is not a rate limit, or the
  `OverflowError` (`OutageIsSurvived`). While the API is up, a cycle leaves live what
  it has passed (`Recovering`), all agents are live when it ends, unless its save
  raises, and stay so until a crash, a stop or such a save (`RecoveryIsKept`). That these steps
  are taken is fairness, and TLC's.
* `Pauses`: no sleep outlasts what is configured, whatever `Retry-After` is sent,
  and none is empty, even after a `Retry-After` of 0 (`PausesAreBounded`,
  `NeverHammers`). `StaysLive`: an agent once refreshed never goes back to the cache.

`VitalsProofs`, for any threshold, cycle length, clock error and horizon:
`ReportsTrueAge`, `UptimeIsEarned`, `UptimeRises`, `DiscontinuityPlaced`. One
invariant serves all: boot, reset of the counters, report, request and stamp of
every payload lie in this order (in hand, served, cached), the stamp within a
cycle of the request, and the stamp is the true time plus the clock's error then.
The rest is linear arithmetic.

`RampProofs`, for any window, clock and counter: `Invents`, `Falls`, `Seams`,
`LagBounded`, `KeepsPromise`. The last answer is what the segment pays at the moment it was given;
what a segment pays lies between its ends and rises with the clock
(`PaidBounds`, `PaidRises`, about the rounded quotient). `KeepsPromise`: while the
clock is not set back, what the ramp answers implements `MonotonicCounter`, as
what the store feeds it does; so the promise holds from end to end.

`ReachabilityProofs`, for any two positive thresholds: `Given`, `Earned`,
`OnlineRight`, `IcmpRight`. `CountInv` ties `feed`'s counters to the history of
checks: the last `n` of them agree if and only if `n` is at most the counter.
`ReadInv` says what was true since the request began, at each of its reads.

`OidTreeProofs`, for any finite set of OIDs: `GetNextIs` and `HasDescendantsIs` say
what the two searches return without mentioning lists or bisection. `Before` is a
total order (two OIDs differ at a least index); the number of OIDs before one is
its place, and no place stays empty, for that map from the tree to its places is
injective and there are as many of each (`RankIsOnto`); what bisection counts is
closed downwards, hence an initial interval.

`AgentTreeProofs`, for any finite set of ports, any layouts and any OIDs asked for:
`WalksAreComplete`, `WalksAscend`, `FailsWhenStale`, `NoSuchRight`, `FollowsPorts`.
`WalkInv` says that all a walk still owes lies after the OID it has got to, and
after the one it has just found; a swap only makes it owe less. `RequestInv` says that
unless `poll_once` interfered, a request's OID is still one of the tree's.

Each module but `OidTreeProofs` also proves `TypeCorrect`.

Model-checked only: the liveness properties (`Recovers`, `ServesThroughOutage`),
for liveness under fairness is out of the prover's reach (their safety halves are
proved, see `ServiceProofs`), and the runs that find a violation.

Proved and in no run of their own: `OutageIsSurvived`, `RecoveryIsKept`,
`PausesAreBounded`, `NeverHammers`, `NeverFrozenAgain`, `ForcedSavesAreExact`,
`GraphIsOffByWraps` and `RampProofs`' `Promise`, which are stated next to their proofs.

## What is not modelled, and why

* `config.py`, the installer, `init`, `check`, `walk`: sequential, run once, no
  state at run time.
* The values the MIB builders format, and HTTP, JSON and `Retry-After` parsing:
  data, not control.
* `CounterStore.forget` and `CounterRamp.forget`: nothing calls them.
* The binding of sockets, pysnmp and SET's refusal: the library's.
* Configuration files that `validate` accepts and `run` does not serve as meant:
  two entries for one MAC (`config.py:225-233` compares ports only, and
  `_build_agents` keeps the last entry), and what `init` writes for several boxes
  (all their switches, the `box_gid` of the first: `cli.py:280-295`). They are
  static facts of one file; what follows at run time, an exit with
  `ConfigError`, is `PayloadAbsent` in `Service`.

## Known weaknesses and divergences without a run of their own

* `c64` reads `ctx.switch` twice (`mibs/__init__.py:121, 103`), without a lock. With a
  poll in between, a reading is stored or folded under the timestamp of the one
  before, and folded by that timestamp again: "torn" in `CounterPath`. No document
  speaks of it, so it is no finding; `NothingInvented` names it.
* `in_backoff` (`poller.py:224, 244`) is a second look at a deadline that the sleep after
  a 429 already waits for. In `Service` the two count down together, so that the
  branch of `Wake` that goes back to sleep is never taken: what it would do with two
  clocks that disagree is not checked.
* `TimeTicks` are natural numbers in `Vitals`; the 32 bits they have in SNMP (497 days)
  are not modelled, nor what pysnmp does beyond them.
* `counters.py:44-45` says the counter file is "written atomically, so a crash or
  power loss mid-write cannot corrupt it". The rename is atomic, the dump is not:
  a switch that was reset is polled, the poll thread dumps the store while the
  first request after the poll is in `update`, and the file gets the new `offset`
  with the old `last_raw`. If the process then crashes, the next one folds the
  reset again, and publishes more than was ever counted. This is "mixed" in
  `CounterPath`: without it among the exceptions of `NothingInvented`, TLC finds
  that behaviour within the bounds of `counter_path`.
* `fwProxyLastError` is documented as empty "if the last poll was clean"
  (`mibs/FIREWALLA-SNMP-PROXY-MIB.txt:114-116` at the repository's root); a
  "detail:" error outlives any number of clean polls (`poller.py:189-190`).
  `RefreshedError` models it, and `Recovers` allows for it.
* `cli.py:171-172` says a cached switch's uptime is frozen at the cache's
  timestamp; it is stamped with it and advances from there. `UptimeNotAhead`
  shows that this is sound as long as the switch has not rebooted.
* `cli.py:651-652` says the seeding check spares the first request an unknown(3).
  It does for a switch that replies, with a recover threshold of 1; one that is
  down is unknown until `fail_threshold` checks have failed (`VerdictIsEarned`).

## Plan

In the order of what matters most:

1. Done: the counter store with its abstract specification and proofs, the path
   of a counter, the life of the service, the ramp, reachability and the tree.
2. Done: poll health, `sysUpTime` and `ifCounterDiscontinuityTime` (`Vitals`);
   readings that lack a counter, its timestamp or the port, and the width of a counter
   (`CounterPath`); the rows that come and go with STP, a temperature, the uplink
   and flow control (`AgentTree`); `snmp_status` (`Reachability`).
3. Done: proofs of every safety property of the passing runs, for every value
   of the constants.
4. Done: the dump that overlaps an update on a counter's way (`CounterPath`); the
   safety halves of the liveness properties; the ramp as an implementation of
   `MonotonicCounter`.
5. Model: the ramp fed by `CounterPath` across a restart; the shutdown of the
   three loops.
6. Prove: for `CounterPath`, how much less than the traffic is published at most.
