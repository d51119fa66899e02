---------------------------- MODULE ServiceProofs ----------------------------
(***************************************************************************)
(* What the agents tell the operator and how the poller treats the API,    *)
(* for any number of switches, any delays and any Retry-After.             *)
(***************************************************************************)
EXTENDS Service, TLAPS

(* TypeOK in parts, each with the variables that are assigned together.     *)
WorldType == api \in Answers /\ topo \subseteq Switches
PhaseType ==
  /\ phase \in {"down", "startup", "dark", "polling", "waiting", "dead"}
  /\ told \in {"", "dark", "cached", "polling"}
StoppedType == stopped \in BOOLEAN
StepType ==
  /\ step \in {"boxes", "networks", "topology", "settings", "detail"}
  /\ phase = "polling" => step # "boxes"
CycleType == turn \in 1..(N + 1) /\ nodes \subseteq Switches /\ fresh \subseteq Switches
CacheType == snapshot \subseteq Switches
ViewType == serving \in [Switches -> BOOLEAN] /\ error \in [Switches -> Errors]
TimeType == strikes \in 0..Overflow /\ sleep \in Nat /\ backoff \in Nat /\ quiet \in Nat
EndsType == ends \in 0..MaxEnds
-----------------------------------------------------------------------------
(* Delays. *)

LEMMA Ticks ==
  /\ Interval \in Nat /\ MaxBackoff \in Nat /\ DarkMax \in Nat /\ RestartSec \in Nat
  /\ 1 <= Interval /\ 1 <= MaxBackoff /\ 1 <= DarkMax /\ 1 <= RestartSec
<1>1. ASSUME NEW t \in {Interval, MaxBackoff, DarkMax, RestartSec} PROVE t \in Nat /\ 1 <= t
  <2>1. t \in Nat \ {0}
    BY TimesAreTicks
  <2> QED
    BY <2>1
<1> QED
  BY <1>1

(* A delay is at least the Retry-After that it honours, up to the ceiling.  *)
LEMMA DelayHonours ==
  ASSUME NEW hint \in RetryAfters \cup {NoHint}, NEW n, NEW d \in Delays(hint, n)
  PROVE  d \in Nat /\ (hint # NoHint => AtMost(hint, MaxBackoff) \in Nat
                                        /\ AtMost(hint, MaxBackoff) <= d)
<1>1. CASE hint # NoHint
  <2>1. hint \in Nat
    BY <1>1, RetryAftersAreTicks
  <2>2. d = Clamped(hint)
    BY <1>1 DEF Delays
  <2> QED
    BY <2>1, <2>2, Ticks DEF Clamped, AtLeast, AtMost
<1>2. CASE hint = NoHint
  <2>1. PICK j \in Jittered(Interval * 2 ^ AtLeast(n - 1, 0)) : d = Clamped(j)
    BY <1>2 DEF Delays
  <2>2. j \in Nat
    BY <2>1, Ticks DEF Jittered
  <2> QED
    BY <1>2, <2>1, <2>2, Ticks DEF Clamped, AtLeast, AtMost
<1> QED
  BY <1>1, <1>2
-----------------------------------------------------------------------------
(* The types, part by part. *)

LEMMA WorldStep == WorldType /\ [Next]_vars => WorldType'
<1> SUFFICES ASSUME WorldType, [Next]_vars PROVE WorldType'
  OBVIOUS
<1>1. CASE ApiChanges
  BY <1>1 DEF ApiChanges, WorldType
<1>2. CASE TopologyChanges
  BY <1>2 DEF TopologyChanges, WorldType
<1>3. UNCHANGED world \/ ApiChanges \/ TopologyChanges
  BY Zenon DEF Next, Work, World, Startup, Poll, Answered, Proceed, Restart, Probe,
     PayloadSwitch, PayloadAbsent, StartupFails, UnlistedBoxes, ServeLive, StartupLimited,
     ServeCached, GoDark, PollSwitch, PollAbsent, PollFails, Wake, PollLimited, EndCycle,
     EndCycleFails, EndStopped, Tick, Crash, Stop, ExitOnError, vars, world
<1> QED
  BY <1>1, <1>2, <1>3 DEF WorldType, world

(* The phases: what each step makes of them, and of the request in turn.    *)
LEMMA PhaseStep == PhaseType /\ [Next]_vars => PhaseType'
<1> SUFFICES ASSUME PhaseType, [Next]_vars PROVE PhaseType'
  OBVIOUS
<1>1. phase' = phase \/ phase' \in {"down", "startup", "dark", "polling", "waiting", "dead"}
  BY Zenon DEF Next, Work, World, Startup, Poll, Answered, Proceed, Restart, Probe,
     PayloadSwitch, PayloadAbsent, StartupFails, UnlistedBoxes, ServeLive, StartupLimited,
     ServeCached, GoDark, PollSwitch, PollAbsent, PollFails, Wake, PollLimited, EndCycle,
     EndCycleFails, EndStopped, Tick, Crash, Stop, ExitOnError, Down, Begin, SleepInterval,
     Sleep, ApiChanges, TopologyChanges, vars
<1>2. told' = told \/ told' = "" \/ told' = Asked
  BY Zenon DEF Next, Work, World, Startup, Poll, Answered, Proceed, Restart, Probe,
     PayloadSwitch, PayloadAbsent, StartupFails, UnlistedBoxes, ServeLive, StartupLimited,
     ServeCached, GoDark, PollSwitch, PollAbsent, PollFails, Wake, PollLimited, EndCycle,
     EndCycleFails, EndStopped, Tick, Crash, Stop, ExitOnError, Down, Ask, asked, ApiChanges,
     TopologyChanges, vars
<1> QED
  BY <1>1, <1>2 DEF PhaseType, Asked

LEMMA StoppedStep == StoppedType /\ [Next]_vars => StoppedType'
  BY Zenon DEF StoppedType, Next, Work, World, Startup, Poll, Answered, Proceed, Restart, Probe,
     PayloadSwitch, PayloadAbsent, StartupFails, UnlistedBoxes, ServeLive, StartupLimited,
     ServeCached, GoDark, PollSwitch, PollAbsent, PollFails, Wake, PollLimited, EndCycle,
     EndCycleFails, EndStopped, Tick, Crash, Stop, ExitOnError, Down, ApiChanges,
     TopologyChanges, vars

LEMMA StepStep == PhaseType /\ StepType /\ [Next]_vars => StepType'
<1> SUFFICES ASSUME PhaseType, StepType, [Next]_vars PROVE StepType'
  OBVIOUS
<1>1. CASE Answered
  <2>1. /\ step # "detail" /\ phase' = phase
        /\ step' = IF phase = "startup" THEN StartupOrder[step] ELSE CycleOrder[step]
        /\ phase \in {"startup", "polling"}
    BY <1>1 DEF Answered, Proceed, Requesting
  <2>2. CASE phase = "startup"
    BY <2>1, <2>2 DEF StepType, StartupOrder
  <2>3. CASE phase = "polling"
    BY <2>1, <2>3 DEF StepType, CycleOrder
  <2> QED
    BY <2>1, <2>2, <2>3
<1>2. \/ Answered
      \/ step' = step /\ (phase' = "polling" => phase = "polling")
      \/ step' = FirstStep /\ phase' # "polling"
      \/ step' = "networks" \/ step' = "topology"
  BY DEF Next, Work, World, Startup, Poll, Restart, Probe, PayloadSwitch, PayloadAbsent,
     StartupFails, UnlistedBoxes, ServeLive, StartupLimited, ServeCached, GoDark, PollSwitch,
     PollAbsent, PollFails, Wake, PollLimited, EndCycle, EndCycleFails, EndStopped, Tick, Crash,
     Stop, ExitOnError, Down, Begin, StartCycle, SleepInterval, Sleep, cycle, ApiChanges,
     TopologyChanges, vars
<1> QED
  BY <1>1, <1>2 DEF StepType, FirstStep

LEMMA CycleStep == WorldType /\ CycleType /\ [Next]_vars => CycleType'
<1> SUFFICES ASSUME WorldType, CycleType, [Next]_vars PROVE CycleType'
  OBVIOUS
<1>1. \/ turn' = turn /\ fresh' = fresh /\ nodes' \in {nodes, topo}
      \/ turn' = turn + 1 /\ turn \in nodes \cup Switches /\ nodes' = nodes
           /\ fresh' \in {fresh, fresh \cup {turn}}
      \/ turn' = 1 /\ nodes' = {} /\ fresh' \in {fresh, {}}
  BY DEF Next, Work, World, Startup, Poll, Answered, Proceed, Restart, Probe, PayloadSwitch,
     PayloadAbsent, StartupFails, UnlistedBoxes, ServeLive, StartupLimited, ServeCached, GoDark,
     PollSwitch, PollAbsent, PollFails, Wake, PollLimited, EndCycle, EndCycleFails, EndStopped,
     Tick, Crash, Stop, ExitOnError, Down, ApiChanges, TopologyChanges, vars, Begin, StartCycle,
     SleepInterval, Sleep, cycle
<1>2. CASE turn' = turn + 1 /\ turn \in nodes \cup Switches /\ nodes' = nodes
             /\ fresh' \in {fresh, fresh \cup {turn}}
  <2>1. turn \in 1..N /\ N \in Nat
    BY <1>2, NAssumption DEF CycleType, Switches
  <2>2. turn + 1 \in 1..(N + 1)
    BY <2>1
  <2> QED
    BY <1>2, <2>1, <2>2 DEF CycleType, Switches
<1>3. 1 \in 1..(N + 1)
  BY NAssumption
<1> QED
  BY <1>1, <1>2, <1>3 DEF WorldType, CycleType

LEMMA CacheStep == CycleType /\ CacheType /\ [Next]_vars => CacheType'
<1> SUFFICES ASSUME CycleType, CacheType, [Next]_vars PROVE CacheType'
  OBVIOUS
<1>1. snapshot' \in {snapshot, Switches, fresh}
  BY DEF Next, Work, World, Startup, Poll, Answered, Proceed, Restart, Probe, PayloadSwitch,
     PayloadAbsent, StartupFails, UnlistedBoxes, ServeLive, StartupLimited, ServeCached, GoDark,
     PollSwitch, PollAbsent, PollFails, Wake, PollLimited, EndCycle, EndCycleFails, EndStopped,
     Tick, Crash, Stop, ExitOnError, Down, ApiChanges, TopologyChanges, vars, Cached
<1> QED
  BY <1>1 DEF CycleType, CacheType

LEMMA EndsStep == EndsType /\ [Next]_vars => EndsType'
<1> SUFFICES ASSUME EndsType, [Next]_vars PROVE EndsType'
  OBVIOUS
<1>1. ends' = ends \/ (ends < MaxEnds /\ ends' = ends + 1)
  BY DEF Next, Work, World, Startup, Poll, Answered, Proceed, Restart, Probe, PayloadSwitch,
     PayloadAbsent, StartupFails, UnlistedBoxes, ServeLive, StartupLimited, ServeCached, GoDark,
     PollSwitch, PollAbsent, PollFails, Wake, PollLimited, EndCycle, EndCycleFails, EndStopped,
     Tick, Crash, Stop, ExitOnError, Down, ApiChanges, TopologyChanges, vars
<1> QED
  BY <1>1, MaxEndsIsNat DEF EndsType

(* What a step may do to the views: nothing, all of them or the one in turn.*)
LEMMA ViewEffects ==
  [Next]_vars =>
    \/ serving' = serving /\ error' = error
    \/ serving' = AllErrors(FALSE) /\ error' = AllErrors("")
    \/ serving' = AllErrors(TRUE) /\ error' = AllErrors("cached")
    \/ serving' = serving /\ (error' = AllErrors("limited") \/ error' = AllErrors("failed"))
    \/ PollSwitch
    \/ PollAbsent
BY DEF Next, Work, World, Startup, Poll, Answered, Proceed, Restart, Probe, PayloadSwitch,
   PayloadAbsent, StartupFails, UnlistedBoxes, ServeLive, StartupLimited, ServeCached, GoDark,
   PollSwitch, PollAbsent, PollFails, Wake, PollLimited, EndCycle, EndCycleFails, EndStopped,
   Tick, Crash, Stop, ExitOnError, Down, ApiChanges, TopologyChanges, vars, Begin, StartCycle,
   views, CachedError, MarkAllFailed

LEMMA ViewStep == ViewType /\ [Next]_vars => ViewType'
<1> SUFFICES ASSUME ViewType, [Next]_vars PROVE ViewType'
  OBVIOUS
<1>1. CASE PollSwitch
  <2>1. serving' = [serving EXCEPT ![turn] = FALSE] /\ error' = [error EXCEPT ![turn] = RefreshedError]
    BY <1>1 DEF PollSwitch
  <2>2. RefreshedError \in Errors
    BY DEF RefreshedError, Errors
  <2> QED
    BY <2>1, <2>2 DEF ViewType
<1>2. CASE PollAbsent
  <2>1. serving' = serving /\ error' = [error EXCEPT ![turn] = "absent"]
    BY <1>2 DEF PollAbsent
  <2> QED
    BY <2>1 DEF ViewType, Errors
<1>3. \A c \in BOOLEAN : AllErrors(c) \in [Switches -> BOOLEAN]
  BY DEF AllErrors
<1>4. \A e \in Errors : AllErrors(e) \in [Switches -> Errors]
  BY DEF AllErrors
<1> QED
  BY <1>1, <1>2, <1>3, <1>4, ViewEffects DEF ViewType, Errors

(* What a step may do to the sleep, and to the two pauses it must outlast.  *)
LEMMA TimeEffects ==
  [Next]_vars =>
    \/ UNCHANGED <<sleep, backoff, quiet>>
    \/ Tick
    \/ quiet' = quiet /\ backoff' = backoff /\ phase' = "waiting" /\ sleep' \in 1..Interval
    \/ phase' = "polling" /\ sleep' = 0 /\ backoff' = 0 /\ quiet' = quiet
    \/ sleep' \in {0, RestartSec} /\ backoff' = 0 /\ quiet' = quiet
    \/ sleep' = backoff /\ backoff' = backoff /\ quiet' = quiet
    \/ \E hint \in RetryAfters \cup {NoHint} :
         /\ Ask(hint)
         /\ \/ sleep' = 0 /\ backoff' = 0
            \/ UNCHANGED <<sleep, backoff>>
            \/ \E d \in Delays(hint, strikes + 1) : sleep' = AtMost(d, DarkMax) /\ backoff' = backoff
            \/ \E d \in Delays(hint, strikes + 1) : sleep' = d /\ backoff' = d
  BY DEF Next, Work, World, Startup, Poll, Answered, Proceed, Restart, Probe, PayloadSwitch,
     PayloadAbsent, StartupFails, UnlistedBoxes, ServeLive, StartupLimited, ServeCached, GoDark,
     PollSwitch, PollAbsent, PollFails, Wake, PollLimited, EndCycle, EndCycleFails, EndStopped,
     Tick, Crash, Stop, ExitOnError, Down, ApiChanges, TopologyChanges, vars, Begin, Sleep,
     SleepInterval, pause, asked

LEMMA TimeStep == TimeType /\ [Next]_vars => TimeType'
<1> SUFFICES ASSUME TimeType, [Next]_vars PROVE TimeType'
  OBVIOUS
<1>1. strikes' \in {0, strikes, OneMore}
  BY DEF Next, Work, World, Startup, Poll, Answered, Proceed, Restart, Probe, PayloadSwitch,
     PayloadAbsent, StartupFails, UnlistedBoxes, ServeLive, StartupLimited, ServeCached, GoDark,
     PollSwitch, PollAbsent, PollFails, Wake, PollLimited, EndCycle, EndCycleFails, EndStopped,
     Tick, Crash, Stop, ExitOnError, Down, ApiChanges, TopologyChanges, vars, Begin
<1>2. strikes' \in 0..Overflow
  BY <1>1, OverflowAssumption DEF TimeType, OneMore, AtMost
<1>3. sleep' \in Nat /\ backoff' \in Nat /\ quiet' \in Nat
  <2>1. CASE Tick
    BY <2>1 DEF Tick, Countdown, TimeType
  <2>2. ASSUME NEW hint \in RetryAfters \cup {NoHint}, Ask(hint)
        PROVE  quiet' \in Nat
    BY <2>2, Ticks, RetryAftersAreTicks DEF Ask, AtMost, TimeType
  <2>3. ASSUME NEW hint \in RetryAfters \cup {NoHint}, NEW d \in Delays(hint, strikes + 1)
        PROVE  d \in Nat /\ AtMost(d, DarkMax) \in Nat
    <3>1. d \in Nat
      BY DelayHonours
    <3> QED
      BY <3>1, Ticks DEF AtMost
  <2> QED
    BY <2>1, <2>2, <2>3, TimeEffects, Ticks DEF TimeType
<1> QED
  BY <1>2, <1>3 DEF TimeType
-----------------------------------------------------------------------------
Types ==
  /\ WorldType /\ PhaseType /\ StoppedType /\ StepType /\ CycleType /\ CacheType /\ ViewType
  /\ TimeType /\ EndsType

LEMMA TypesInit == Init => Types
<1> SUFFICES ASSUME Init PROVE Types
  OBVIOUS
<1>1. WorldType /\ PhaseType /\ StoppedType /\ CacheType
  BY DEF Init, WorldType, PhaseType, StoppedType, CacheType, Switches
<1>2. StepType
  BY DEF Init, StepType, FirstStep
<1>3. CycleType
  <2>1. N \in Nat /\ 1 <= N
    BY NAssumption
  <2>2. 1 \in 1..(N + 1)
    BY <2>1
  <2>3. turn = 1 /\ nodes = {} /\ fresh = {}
    BY DEF Init
  <2> QED
    BY <2>2, <2>3 DEF CycleType
<1>4. ViewType
  BY DEF Init, ViewType, AllErrors, Errors
<1>5. TimeType /\ EndsType
  <2>1. strikes = 0 /\ sleep = 0 /\ backoff = 0 /\ quiet = 0 /\ ends = 0
    BY DEF Init
  <2>2. 0 \in 0..Overflow /\ 0 \in 0..MaxEnds
    BY OverflowAssumption, MaxEndsIsNat
  <2> QED
    BY <2>1, <2>2 DEF TimeType, EndsType
<1> QED
  BY <1>1, <1>2, <1>3, <1>4, <1>5 DEF Types

LEMMA TypesStep == Types /\ [Next]_vars => Types'
  BY WorldStep, PhaseStep, StoppedStep, StepStep, CycleStep, CacheStep, ViewStep, TimeStep,
     EndsStep DEF Types

LEMMA TypesHold == Spec => []Types
  BY TypesInit, TypesStep, PTL DEF Spec

(* The type invariant, for any number of switches and any delays.           *)
THEOREM TypeCorrect == Spec => []TypeOK
<1>1. Types => TypeOK
  BY DEF Types, TypeOK, WorldType, PhaseType, StoppedType, StepType, CycleType, CacheType,
         ViewType, TimeType, EndsType
<1> QED
  BY <1>1, TypesHold, PTL
-----------------------------------------------------------------------------
(* An agent that serves the cache has an error to show. *)
Announced == \A s \in Switches : serving[s] => error[s] # ""

(* A frozen switch is announced, whatever the number of switches.           *)
THEOREM FrozenAnnounced == Spec => []FrozenIsAnnounced
<1>1. Init => Announced
  BY DEF Init, Announced, AllErrors
<1>2. Types /\ Announced /\ [Next]_vars => Announced'
  <2> SUFFICES ASSUME ViewType, Announced, [Next]_vars, NEW s \in Switches, serving'[s]
               PROVE  error'[s] # ""
    BY DEF Types, Announced
  <2>1. CASE PollSwitch
    <3>1. serving' = [serving EXCEPT ![turn] = FALSE]
          /\ error' = [error EXCEPT ![turn] = RefreshedError]
      BY <2>1 DEF PollSwitch
    <3>2. s # turn
      BY <3>1 DEF ViewType
    <3> QED
      BY <3>1, <3>2 DEF ViewType, Announced
  <2>2. CASE PollAbsent
    <3>1. serving' = serving /\ error' = [error EXCEPT ![turn] = "absent"]
      BY <2>2 DEF PollAbsent
    <3> QED
      BY <3>1 DEF ViewType, Announced
  <2> QED
    BY <2>1, <2>2, ViewEffects DEF Announced, AllErrors
<1>3. Announced => FrozenIsAnnounced
  BY DEF Announced, FrozenIsAnnounced
<1> QED
  BY <1>1, <1>2, <1>3, TypesHold, PTL DEF Spec
-----------------------------------------------------------------------------
LEMMA Turns ==
  ASSUME NEW s \in Switches, NEW t \in 1..(N + 1)
  PROVE  /\ s < N + 1 /\ ~(s < 1)
         /\ s < t + 1 /\ s # t => s < t
<1>1. N \in Nat
  BY NAssumption
<1>2. s \in 1..N
  BY DEF Switches
<1> QED
  BY <1>1, <1>2

(* While a cycle runs, every switch it has passed and left without an error *)
(* is one it has refreshed; when it has ended, every switch.                *)
Noted ==
  \A s \in Switches :
    (phase = "waiting" \/ (phase = "polling" /\ s < turn)) /\ error[s] = "" => s \in fresh

LEMMA PassedEffects ==
  [Next]_vars =>
    \/ phase' = phase /\ UNCHANGED <<turn, error, fresh>>
    \/ phase' \notin {"polling", "waiting"}
    \/ phase' = "polling" /\ turn' = 1
    \/ phase' = "waiting" /\ (error' = AllErrors("limited") \/ error' = AllErrors("failed"))
    \/ phase' = "waiting" /\ phase = "polling" /\ turn = N + 1 /\ UNCHANGED <<error, fresh>>
    \/ phase' = "polling" /\ PollSwitch
    \/ phase' = "polling" /\ PollAbsent
    \/ PayloadSwitch
  BY DEF Next, Work, World, Startup, Poll, Answered, Proceed, Restart, Probe, PayloadSwitch,
     PayloadAbsent, StartupFails, UnlistedBoxes, ServeLive, StartupLimited, ServeCached, GoDark,
     PollSwitch, PollAbsent, PollFails, Wake, PollLimited, EndCycle, EndCycleFails, EndStopped,
     Tick, Crash, Stop, ExitOnError, Down, ApiChanges, TopologyChanges, vars, Begin, StartCycle,
     cycle, views, Sleep, SleepInterval, MarkAllFailed

(* Between two cycles, a switch without an error is fresh, whatever the     *)
(* number of switches and however the cycle ended.                          *)
THEOREM SilenceIsFresh == Spec => []SilenceMeansFresh
<1>1. Init => Noted
  BY DEF Init, Noted
<1>2. Types /\ Noted /\ [Next]_vars => Noted'
  <2> SUFFICES ASSUME ViewType, CycleType, Noted, [Next]_vars,
                      NEW s \in Switches, error'[s] = "",
                      phase' = "waiting" \/ (phase' = "polling" /\ s < turn')
               PROVE  s \in fresh'
    BY DEF Types, Noted, Switches
  <2>0. s < N + 1 /\ ~(s < 1) /\ (s < turn + 1 /\ s # turn => s < turn)
    BY Turns DEF CycleType
  <2>1. CASE phase' = phase /\ UNCHANGED <<turn, error, fresh>>
    BY <2>1 DEF Noted
  <2>2. CASE phase' \notin {"polling", "waiting"} \/ PayloadSwitch
    BY <2>2 DEF PayloadSwitch
  <2>3. CASE phase' = "polling" /\ turn' = 1
    BY <2>0, <2>3
  <2>4. CASE error' = AllErrors("limited") \/ error' = AllErrors("failed")
    BY <2>4 DEF AllErrors
  <2>5. CASE phase' = "waiting" /\ phase = "polling" /\ turn = N + 1 /\ UNCHANGED <<error, fresh>>
    <3>1. s < turn
      BY <2>0, <2>5
    <3> QED
      BY <2>5, <3>1 DEF Noted
  <2>6. CASE phase' = "polling" /\ PollSwitch
    <3>1. /\ phase = "polling" /\ turn' = turn + 1 /\ fresh' = fresh \cup {turn}
          /\ error' = [error EXCEPT ![turn] = RefreshedError]
      BY <2>6 DEF PollSwitch
    <3>2. s < turn + 1
      BY <2>6, <3>1
    <3>3. CASE s = turn
      BY <3>1, <3>3
    <3>4. CASE s # turn
      <4>1. s < turn
        BY <2>0, <3>1, <3>2, <3>4
      <4>2. error'[s] = error[s]
        BY <3>1, <3>4 DEF ViewType
      <4> QED
        BY <3>1, <4>1, <4>2 DEF Noted
    <3> QED
      BY <3>3, <3>4
  <2>7. CASE phase' = "polling" /\ PollAbsent
    <3>1. /\ phase = "polling" /\ turn' = turn + 1 /\ fresh' = fresh
          /\ error' = [error EXCEPT ![turn] = "absent"]
      BY <2>7 DEF PollAbsent
    <3>2. s < turn + 1
      BY <2>7, <3>1
    <3>3. s # turn /\ error'[s] = error[s]
      BY <3>1 DEF ViewType
    <3>4. s < turn
      BY <2>0, <3>1, <3>2, <3>3
    <3> QED
      BY <3>1, <3>3, <3>4 DEF Noted
  <2> QED
    BY <2>1, <2>2, <2>3, <2>4, <2>5, <2>6, <2>7, PassedEffects
<1>3. Noted => SilenceMeansFresh
  BY DEF Noted, SilenceMeansFresh
<1> QED
  BY <1>1, <1>2, <1>3, TypesHold, PTL DEF Spec
-----------------------------------------------------------------------------
(* The poller that was sent a Retry-After waits at least as long.           *)
Patient ==
  told = "polling" =>
    /\ phase \in {"polling", "waiting", "dead"}
    /\ phase = "waiting" => quiet <= backoff
    /\ phase = "polling" => quiet = 0

LEMMA PatienceEffects ==
  [Next]_vars =>
    \/ UNCHANGED <<phase, told, quiet, backoff>>
    \/ told' = "" \/ (\E hint \in RetryAfters \cup {NoHint} : phase = "startup" /\ Ask(hint))
    \/ phase = "startup" /\ told' = told
    \/ phase = "down" /\ told' = told
    \/ phase = "dark" /\ told' = told
    \/ Tick
    \/ phase = "polling" /\ phase' = "waiting" /\ UNCHANGED <<told, quiet, backoff>>
    \/ Wake
    \/ \E hint \in RetryAfters \cup {NoHint} :
         /\ phase = "polling" /\ Ask(hint)
         /\ \/ phase' = "dead"
            \/ \E d \in Delays(hint, strikes + 1) : phase' = "waiting" /\ backoff' = d
  BY DEF Next, Work, World, Startup, Poll, Answered, Proceed, Restart, Probe, PayloadSwitch,
     PayloadAbsent, StartupFails, UnlistedBoxes, ServeLive, StartupLimited, ServeCached, GoDark,
     PollSwitch, PollAbsent, PollFails, PollLimited, EndCycle, EndCycleFails, EndStopped, Crash,
     Stop, ExitOnError, Down, ApiChanges, TopologyChanges, vars, Begin, Sleep, SleepInterval,
     pause, asked

(* No cycle runs before the Retry-After that the poller was sent has passed,*)
(* for any Retry-After and any configured ceiling.                          *)
THEOREM Polite == Spec => []PollerIsPolite
<1>1. Init => Patient
  BY DEF Init, Patient
<1>2. Types /\ Patient /\ [Next]_vars => Patient'
  <2> SUFFICES ASSUME TimeType, Patient, [Next]_vars, told' = "polling"
               PROVE  /\ phase' \in {"polling", "waiting", "dead"}
                      /\ phase' = "waiting" => quiet' <= backoff'
                      /\ phase' = "polling" => quiet' = 0
    BY DEF Types, Patient
  <2>1. CASE Tick
    BY <2>1 DEF Tick, Countdown, TimeType, Patient
  <2>2. CASE Wake
    BY <2>2 DEF Wake, TimeType, Patient, asked
  <2>3. ASSUME NEW hint \in RetryAfters \cup {NoHint}, phase = "startup", Ask(hint)
        PROVE  FALSE
    BY <2>3 DEF Ask, Asked, Patient
  <2>4. ASSUME NEW hint \in RetryAfters \cup {NoHint}, phase = "polling", Ask(hint),
               NEW d \in Delays(hint, strikes + 1), phase' = "waiting", backoff' = d
        PROVE  quiet' <= backoff'
    <3>1. d \in Nat /\ (hint # NoHint => AtMost(hint, MaxBackoff) <= d)
      BY DelayHonours
    <3>2. CASE hint = NoHint
      BY <2>4, <3>1, <3>2 DEF Ask, Patient, TimeType
    <3>3. CASE hint # NoHint
      BY <2>4, <3>1, <3>3 DEF Ask
    <3> QED
      BY <3>2, <3>3
  <2>5. ASSUME told' = told, phase \in {"startup", "down", "dark"}
        PROVE  FALSE
    BY <2>5 DEF Patient
  <2>6. CASE \/ UNCHANGED <<phase, told, quiet, backoff>>
             \/ phase = "polling" /\ phase' = "waiting" /\ UNCHANGED <<told, quiet, backoff>>
    BY <2>6 DEF Patient, TimeType
  <2> QED
    BY <2>1, <2>2, <2>3, <2>4, <2>5, <2>6, PatienceEffects
<1>3. Patient => PollerIsPolite
  BY DEF Patient, PollerIsPolite
<1> QED
  BY <1>1, <1>2, <1>3, TypesHold, PTL DEF Spec
-----------------------------------------------------------------------------
(* What is known of the request in turn: only a cycle whose topology has    *)
(* been answered gets past its first switch, and those of the response that *)
(* it has passed are fresh.                                                 *)
Covered ==
  phase = "polling" =>
    /\ step # "detail" => turn = 1
    /\ \A s \in nodes : s < turn => s \in fresh

LEMMA CoverEffects ==
  [Next]_vars =>
    \/ UNCHANGED <<phase, step, turn, nodes, fresh>>
    \/ phase' # "polling"
    \/ phase' = "polling" /\ turn' = 1
    \/ phase' = phase /\ step # "detail" /\ turn' = turn
    \/ phase = "polling" /\ PollSwitch
    \/ phase = "polling" /\ PollAbsent
    \/ PayloadSwitch
  BY DEF Next, Work, World, Startup, Poll, Answered, Proceed, Restart, Probe, PayloadSwitch,
     PayloadAbsent, StartupFails, UnlistedBoxes, ServeLive, StartupLimited, ServeCached, GoDark,
     PollSwitch, PollAbsent, PollFails, Wake, PollLimited, EndCycle, EndCycleFails, EndStopped,
     Tick, Crash, Stop, ExitOnError, Down, ApiChanges, TopologyChanges, vars, Begin, StartCycle,
     cycle, Sleep, SleepInterval

LEMMA CoveredStep == Types /\ Covered /\ [Next]_vars => Covered'
<1> SUFFICES ASSUME Types, Covered, [Next]_vars, phase' = "polling"
             PROVE  /\ step' # "detail" => turn' = 1
                    /\ \A s \in nodes' : s < turn' => s \in fresh'
  BY DEF Covered
<1>1. CycleType /\ CycleType'
  BY CycleStep DEF Types
<1>2. CASE turn' = 1
  <2>1. ASSUME NEW s \in nodes', s < 1 PROVE FALSE
    BY <1>1, <2>1, Turns DEF CycleType
  <2> QED
    BY <1>2, <2>1
<1>3. CASE phase = "polling" /\ (PollSwitch \/ PollAbsent)
  <2>1. /\ step' = step /\ step = "detail" /\ turn' = turn + 1 /\ nodes' = nodes
        /\ fresh \subseteq fresh' /\ (turn \in nodes => turn \in fresh')
    BY <1>3 DEF PollSwitch, PollAbsent
  <2>2. ASSUME NEW s \in nodes, s < turn + 1, s # turn PROVE s < turn
    BY <1>1, <2>2, Turns DEF CycleType
  <2> QED
    BY <1>3, <2>1, <2>2 DEF Covered
<1>4. CASE PayloadSwitch
  BY <1>4 DEF PayloadSwitch
<1>5. CASE phase' = phase /\ step # "detail" /\ turn' = turn
  BY <1>2, <1>5 DEF Covered
<1>6. CASE UNCHANGED <<phase, step, turn, nodes, fresh>>
  BY <1>6 DEF Covered
<1> QED
  BY <1>2, <1>3, <1>4, <1>5, <1>6, CoverEffects

LEMMA CoveredHolds == Spec => []Covered
<1>1. Init => Covered
  BY DEF Init, Covered
<1> QED
  BY <1>1, CoveredStep, TypesHold, PTL DEF Spec

(* What a step may write to the cache. *)
LEMMA CacheEffects ==
  [Next]_vars =>
    \/ snapshot' = snapshot
    \/ snapshot' = Switches
    \/ phase = "polling" /\ turn = N + 1 /\ snapshot' = fresh /\ fresh # {}
  BY DEF Next, Work, World, Startup, Poll, Answered, Proceed, Restart, Probe, PayloadSwitch,
     PayloadAbsent, StartupFails, UnlistedBoxes, ServeLive, StartupLimited, ServeCached, GoDark,
     PollSwitch, PollAbsent, PollFails, Wake, PollLimited, EndCycle, EndCycleFails, EndStopped,
     Tick, Crash, Stop, ExitOnError, Down, ApiChanges, TopologyChanges, vars, Cached

(* A cycle that has passed every switch has refreshed those it was told of. *)
LEMMA AllCovered ==
  ASSUME CycleType, Covered, phase = "polling", turn = N + 1
  PROVE  step = "detail" /\ nodes \subseteq fresh
<1>1. N + 1 # 1
  BY NAssumption
<1>2. \A s \in Switches : s < N + 1
  BY Turns DEF CycleType
<1> QED
  BY <1>1, <1>2 DEF CycleType, Covered

(* Once there is a topology cache there always is, and it loses a switch    *)
(* only to a cycle whose topology response lacked it: no failing request,   *)
(* failing write, shutdown or crash costs it one.                           *)
THEOREM CacheLosesAbsent == Spec => CacheLosesOnlyTheAbsent
<1>1. ASSUME Types, Covered, [Next]_vars
      PROVE  /\ snapshot # {} => snapshot' # {}
             /\ \A s \in snapshot \ snapshot' : s \notin nodes
  <2>1. CycleType /\ snapshot \subseteq Switches /\ Switches # {}
    BY <1>1, NAssumption DEF Types, CacheType, Switches
  <2>2. CASE snapshot' = snapshot \/ snapshot' = Switches
    BY <2>1, <2>2
  <2>3. CASE phase = "polling" /\ turn = N + 1 /\ snapshot' = fresh /\ fresh # {}
    BY <1>1, <2>1, <2>3, AllCovered
  <2> QED
    BY <1>1, <2>2, <2>3, CacheEffects
<1> QED
  BY <1>1, TypesHold, CoveredHolds, PTL DEF Spec, CacheLosesOnlyTheAbsent
-----------------------------------------------------------------------------
(* While the topology knows every switch, so does a request in flight that  *)
(* has been answered with it, and so does the cache, if there is one.       *)
Informed ==
  /\ phase \in {"down", "dark"} => step # "detail"
  /\ phase \in {"startup", "polling"} /\ step = "detail" => nodes = Switches
  /\ phase = "polling" /\ step = "settings" => nodes = Switches
  /\ snapshot \in {{}, Switches}

(* Startup does not depend on the API, nor does what is served: the process *)
(* ends by itself only if it has never had a cache, and then of a refusal   *)
(* that is not a rate limit, or of an OverflowError.  With a cache, startup *)
(* ends only in serving, and what serves goes on until it is stopped.       *)
OutageIsSurvived ==
  [][/\ phase' = "down" /\ phase # "down" /\ ends' = ends /\ ~stopped =>
          snapshot = {} /\ (api = "failing" \/ strikes + 1 >= Overflow)
     /\ snapshot # {} =>
          /\ snapshot' = Switches
          /\ Serving => Serving' \/ ends' # ends
          /\ phase = "startup" => phase' \in {"startup", "polling"} \/ ends' # ends]_vars

LEMMA InformedEffects ==
  [Next]_vars =>
    \/ UNCHANGED <<phase, step, nodes>>
    \/ phase' \in {"waiting", "dead"}
    \/ phase' \in {"down", "dark"} /\ step' = FirstStep
    \/ phase' = "startup" /\ phase \in {"down", "dark"} /\ step' = step
    \/ phase' = "polling" /\ step' \in {"networks", "topology"}
    \/ phase' = phase /\ Answered
  BY DEF Next, Work, World, Startup, Poll, Restart, Probe, PayloadSwitch, PayloadAbsent,
     StartupFails, UnlistedBoxes, ServeLive, StartupLimited, ServeCached, GoDark, PollSwitch,
     PollAbsent, PollFails, Wake, PollLimited, EndCycle, EndCycleFails, EndStopped, Tick, Crash,
     Stop, Answered, ExitOnError, Down, ApiChanges, TopologyChanges, vars, Begin, StartCycle,
     cycle, Sleep, SleepInterval

LEMMA InformedStep ==
  Types /\ Covered /\ Informed /\ topo = Switches /\ [Next]_vars => Informed'
<1> SUFFICES ASSUME Types, Covered, Informed, topo = Switches, [Next]_vars PROVE Informed'
  OBVIOUS
<1> DEFINE Flight ==
             /\ phase \in {"down", "dark"} => step # "detail"
             /\ phase \in {"startup", "polling"} /\ step = "detail" => nodes = Switches
             /\ phase = "polling" /\ step = "settings" => nodes = Switches
<1>0. Flight /\ StepType /\ PhaseType
  BY DEF Informed, Types
<1>1. ASSUME phase' = phase, Answered PROVE Flight'
  <2>1. /\ phase \in {"startup", "polling"} /\ step # "detail"
        /\ step' = IF phase = "startup" THEN StartupOrder[step] ELSE CycleOrder[step]
        /\ nodes' = IF step = "topology" THEN Switches ELSE nodes
    BY <1>1 DEF Answered, Proceed, Requesting
  <2>2. CASE phase = "startup"
    BY <1>0, <1>1, <2>1, <2>2 DEF StepType, StartupOrder
  <2>3. CASE phase = "polling"
    BY <1>0, <1>1, <2>1, <2>3 DEF StepType, CycleOrder
  <2> QED
    BY <2>1, <2>2, <2>3
<1>2. Flight'
  BY <1>0, <1>1, InformedEffects DEF FirstStep
<1>3. snapshot' \in {{}, Switches}
  <2>1. CASE snapshot' = snapshot \/ snapshot' = Switches
    BY <2>1 DEF Informed
  <2>2. CASE phase = "polling" /\ turn = N + 1 /\ snapshot' = fresh
    BY <1>0, <2>2, AllCovered DEF Types, CycleType
  <2> QED
    BY <2>1, <2>2, CacheEffects
<1> QED
  BY <1>2, <1>3 DEF Informed

(* How a process goes down, or a startup goes dark. *)
LEMMA DownEffects ==
  [Next]_vars =>
    \/ phase' = phase /\ (stopped' = stopped \/ ends' = ends + 1)
    \/ ends' = ends + 1
    \/ phase \in {"down", "dark"} /\ phase' = "startup"
    \/ phase = "startup" /\ step = "detail" /\ turn \in Switches \ nodes
    \/ phase = "startup" /\ api = "unlisted"
    \/ phase = "startup" /\ phase' = "polling" /\ stopped' = stopped
    \/ phase = "startup" /\ ~FallsBack /\ api = "failing" /\ phase' = "down"
    \/ phase = "startup" /\ ~FallsBack /\ phase' = "dark"
    \/ phase = "startup" /\ ~FallsBack /\ phase' = "down"
         /\ \E hint \in RetryAfters \cup {NoHint} : Overflows(hint, strikes + 1)
    \/ phase = "startup" /\ FallsBack /\ snapshot # Switches
    \/ phase = "polling" /\ stopped
    \/ phase \in {"polling", "waiting"} /\ phase' \in {"polling", "waiting", "dead"} /\ stopped' = stopped
  BY DEF Next, Work, World, Startup, Poll, Restart, Probe, PayloadSwitch, PayloadAbsent,
     StartupFails, UnlistedBoxes, ServeLive, StartupLimited, ServeCached, GoDark, PollSwitch,
     PollAbsent, PollFails, Wake, PollLimited, EndCycle, EndCycleFails, EndStopped, Tick, Crash,
     Stop, Answered, ExitOnError, Down, ApiChanges, TopologyChanges, vars, Begin, Sleep,
     SleepInterval

(* As long as the API answers with no topology that lacks a switch and with *)
(* no list of boxes that names none to choose, however it refuses, for any  *)
(* number of switches: the safety half of ServesThroughOutage.              *)
THEOREM SurvivesOutage ==
  Spec /\ [](topo = Switches /\ api # "unlisted") => OutageIsSurvived
<1>1. Init => Informed
  BY DEF Init, Informed, FirstStep
<1>2. ASSUME Types, Covered, Informed, topo = Switches, api # "unlisted", [Next]_vars
      PROVE  /\ phase' = "down" /\ phase # "down" /\ ends' = ends /\ ~stopped =>
                  snapshot = {} /\ (api = "failing" \/ strikes + 1 >= Overflow)
             /\ snapshot # {} =>
                  /\ snapshot' = Switches
                  /\ Serving => Serving' \/ ends' # ends
                  /\ phase = "startup" => phase' \in {"startup", "polling"} \/ ends' # ends
  <2>1. ends + 1 # ends
    BY <1>2, MaxEndsIsNat DEF Types, EndsType
  <2>2. ~(phase = "startup" /\ step = "detail" /\ turn \in Switches \ nodes)
    BY <1>2 DEF Informed
  <2>3. ~(FallsBack /\ snapshot # Switches) /\ (FallsBack <=> snapshot # {})
    BY <1>2 DEF Informed, FallsBack
  <2>4. (\E hint \in RetryAfters \cup {NoHint} : Overflows(hint, strikes + 1))
          => strikes + 1 >= Overflow
    BY DEF Overflows
  <2>5. snapshot # {} => snapshot' = Switches
    <3>1. Informed'
      BY <1>2, InformedStep
    <3>2. Switches # {}
      BY NAssumption DEF Switches
    <3>3. snapshot # {} => snapshot' # {}
      BY <1>2, <3>2, CacheEffects
    <3> QED
      BY <3>1, <3>3 DEF Informed
  <2>6. \/ phase' = phase /\ stopped' = stopped
        \/ ends' # ends
        \/ phase \in {"down", "dark"} /\ phase' = "startup"
        \/ phase = "startup" /\ phase' = "polling" /\ stopped' = stopped
        \/ phase = "startup" /\ snapshot = {} /\ phase' \in {"dark", "down"}
             /\ (phase' = "down" => api = "failing" \/ strikes + 1 >= Overflow)
        \/ phase = "polling" /\ stopped
        \/ phase \in {"polling", "waiting"} /\ phase' \in {"polling", "waiting", "dead"}
             /\ stopped' = stopped
    BY <1>2, <2>1, <2>2, <2>3, <2>4, DownEffects
  <2>7. phase' = "down" /\ phase # "down" /\ ends' = ends /\ ~stopped =>
          snapshot = {} /\ (api = "failing" \/ strikes + 1 >= Overflow)
    BY <2>6
  <2>8. snapshot # {} /\ Serving => Serving' \/ ends' # ends
    BY <2>6 DEF Serving
  <2>9. snapshot # {} /\ phase = "startup"
           => phase' \in {"startup", "polling"} \/ ends' # ends
    BY <2>6
  <2> QED
    BY <2>5, <2>7, <2>8, <2>9
<1> QED
  BY <1>1, <1>2, InformedStep, TypesHold, CoveredHolds, PTL DEF Spec, OutageIsSurvived
-----------------------------------------------------------------------------
(* No pause outlasts what the operator configured, whatever Retry-After the *)
(* API sends and however many strikes there have been: the poller never     *)
(* sleeps longer than the interval or max_backoff_seconds, a dark startup   *)
(* than dark_probe_max_seconds, nor does systemd wait longer than it says.  *)
PausesAreBounded ==
  /\ phase = "waiting" => sleep <= AtLeast(Interval, MaxBackoff)
  /\ phase = "dark" => sleep <= DarkMax
  /\ phase = "down" => sleep <= RestartSec

(* Nor is there ever none: what ends a cycle or a probe is followed by at   *)
(* least one tick without a request, even if the Retry-After was 0.         *)
NeverHammers ==
  [][Requesting /\ phase' \in {"waiting", "dark"} => sleep' >= 1]_vars

LEMMA DelayBounds ==
  ASSUME NEW hint \in RetryAfters \cup {NoHint}, NEW n, NEW d \in Delays(hint, n)
  PROVE  d \in 1..MaxBackoff
<1>1. ASSUME NEW t \in Nat PROVE Clamped(t) \in 1..MaxBackoff
  BY Ticks DEF Clamped, AtLeast, AtMost
<1>2. CASE hint # NoHint
  BY <1>1, <1>2, RetryAftersAreTicks DEF Delays
<1>3. CASE hint = NoHint
  <2>1. PICK j \in Jittered(Interval * 2 ^ AtLeast(n - 1, 0)) : d = Clamped(j)
    BY <1>3 DEF Delays
  <2>2. j \in Nat
    BY <2>1, Ticks DEF Jittered
  <2> QED
    BY <1>1, <2>1, <2>2
<1> QED
  BY <1>2, <1>3

LEMMA SleepEffects ==
  [Next]_vars =>
    \/ UNCHANGED <<phase, sleep, backoff>>
    \/ Tick
    \/ phase' \in {"startup", "polling", "dead"} /\ backoff' \in {0, backoff}
    \/ phase' = "down" /\ sleep' \in {0, RestartSec} /\ backoff' = 0
    \/ phase' = "waiting" /\ sleep' \in 1..Interval /\ backoff' = backoff
    \/ phase = "waiting" /\ phase' = "waiting" /\ sleep' = backoff /\ backoff' = backoff
    \/ \E hint \in RetryAfters \cup {NoHint} : \E d \in Delays(hint, strikes + 1) :
         \/ phase' = "dark" /\ sleep' = AtMost(d, DarkMax) /\ backoff' = backoff
         \/ phase' = "waiting" /\ sleep' = d /\ backoff' = d
  BY DEF Next, Work, World, Startup, Poll, Restart, Probe, PayloadSwitch, PayloadAbsent,
     StartupFails, UnlistedBoxes, ServeLive, StartupLimited, ServeCached, GoDark, PollSwitch,
     PollAbsent, PollFails, Wake, PollLimited, EndCycle, EndCycleFails, EndStopped, Crash, Stop,
     Answered, ExitOnError, Down, ApiChanges, TopologyChanges, vars, Begin, Sleep,
     SleepInterval, pause

Paused == PausesAreBounded /\ backoff <= MaxBackoff

LEMMA PauseStep ==
  Types /\ Paused /\ [Next]_vars
    => Paused' /\ (Requesting /\ phase' \in {"waiting", "dark"} => sleep' >= 1)
<1> SUFFICES ASSUME TimeType, Paused, [Next]_vars
             PROVE  /\ Paused'
                    /\ Requesting /\ phase' \in {"waiting", "dark"} => sleep' >= 1
  BY DEF Types
<1> USE Ticks DEF Paused, PausesAreBounded, AtLeast, Requesting
<1>1. CASE Tick
  BY <1>1 DEF Tick, Countdown, TimeType
<1>2. ASSUME NEW hint \in RetryAfters \cup {NoHint}, NEW d \in Delays(hint, strikes + 1),
             \/ phase' = "dark" /\ sleep' = AtMost(d, DarkMax) /\ backoff' = backoff
             \/ phase' = "waiting" /\ sleep' = d /\ backoff' = d
      PROVE  /\ Paused'
             /\ Requesting /\ phase' \in {"waiting", "dark"} => sleep' >= 1
  <2>1. d \in 1..MaxBackoff
    BY DelayBounds
  <2> QED
    BY <1>2, <2>1 DEF AtMost
<1>3. CASE \/ UNCHANGED <<phase, sleep, backoff>>
           \/ phase' \in {"startup", "polling", "dead"} /\ backoff' \in {0, backoff}
           \/ phase' = "down" /\ sleep' \in {0, RestartSec} /\ backoff' = 0
           \/ phase' = "waiting" /\ sleep' \in 1..Interval /\ backoff' = backoff
           \/ phase = "waiting" /\ phase' = "waiting" /\ sleep' = backoff /\ backoff' = backoff
  BY <1>3 DEF TimeType
<1> QED
  BY <1>1, <1>2, <1>3, SleepEffects

(* For any Retry-After, interval and ceilings. *)
THEOREM Pauses == Spec => []PausesAreBounded /\ NeverHammers
<1>1. Init => Paused
  <2>1. Init => phase = "startup" /\ backoff = 0
    BY DEF Init
  <2> QED
    BY <2>1, Ticks DEF Paused, PausesAreBounded
<1>2. Paused => PausesAreBounded
  BY DEF Paused
<1> QED
  BY <1>1, <1>2, PauseStep, TypesHold, PTL DEF Spec, NeverHammers
-----------------------------------------------------------------------------
(* An agent that has once been refreshed does not serve the cache again for *)
(* as long as its process serves, however often the API refuses.            *)
NeverFrozenAgain ==
  [][Serving /\ Serving' => \A s \in Switches : serving'[s] => serving[s]]_vars

LEMMA FreezeEffects ==
  [Next]_vars =>
    \/ serving' = serving
    \/ serving' = AllErrors(FALSE)
    \/ phase = "startup"
    \/ serving' = [serving EXCEPT ![turn] = FALSE]
  BY DEF Next, Work, World, Startup, Poll, Answered, Proceed, Restart, Probe, PayloadSwitch,
     PayloadAbsent, StartupFails, UnlistedBoxes, ServeLive, StartupLimited, ServeCached, GoDark,
     PollSwitch, PollAbsent, PollFails, Wake, PollLimited, EndCycle, EndCycleFails, EndStopped,
     Tick, Crash, Stop, ExitOnError, Down, ApiChanges, TopologyChanges, vars, Begin, views

(* Whatever the number of switches. *)
THEOREM StaysLive == Spec => NeverFrozenAgain
<1>1. Types /\ [Next]_vars
        => (Serving /\ Serving' => \A s \in Switches : serving'[s] => serving[s])
  BY FreezeEffects DEF Types, ViewType, Serving, AllErrors
<1> QED
  BY <1>1, TypesHold, PTL DEF Spec, NeverFrozenAgain
-----------------------------------------------------------------------------
(* The safety half of Recovers.  A cycle that the API answers throughout    *)
(* has found every switch and leaves those it has passed live; any cycle is *)
(* one such when it begins.                                                 *)
Recovering ==
  phase = "polling" =>
    /\ step \in {"settings", "detail"} => nodes = Switches
    /\ \A s \in Switches : s < turn => ~serving[s] /\ error[s] \in {"", "detail"}

(* While the API is up and knows every switch, such a cycle remains one,    *)
(* when it ends, and the save does not raise, every agent is live, and no   *)
(* step but a crash, a stop or a save that raises takes a live agent back.  *)
RecoveryIsKept ==
  [][api = "up" /\ topo = Switches /\ Recovering =>
       /\ Recovering'
       /\ phase = "polling" /\ ~stopped /\ phase' = "waiting" => Live' \/ ends' # ends
       /\ Live => Live' \/ ends' # ends]_vars

(* What the steps come to then. *)
Rests == UNCHANGED <<phase, step, turn, nodes, serving, error>>
Begins == turn' = 1 /\ step' \in {"networks", "topology"}

LEMMA StartupEffects ==
  Startup => phase \in {"startup", "dark", "down"} /\ (phase' = "polling" => Begins)
  BY DEF Startup, Restart, Probe, PayloadSwitch, PayloadAbsent, StartupFails, UnlistedBoxes,
     ServeLive, StartupLimited, ServeCached, GoDark, ExitOnError, Down, Begin, StartCycle,
     Begins

LEMMA PollEffects ==
  ASSUME Poll, api = "up"
  PROVE  \/ phase = "polling" /\ PollSwitch
         \/ phase = "polling" /\ step = "detail" /\ turn \in Switches \ nodes
         \/ phase = "polling" /\ ~stopped /\ turn = N + 1 /\ phase' = "waiting"
              /\ UNCHANGED <<stopped, serving, error>>
         \/ phase = "polling" /\ stopped /\ phase' = "down"
         \/ phase = "waiting" /\ phase' \in {"waiting", "polling"} /\ (phase' = "polling" => Begins)
              /\ UNCHANGED <<stopped, serving, error>>
  BY DEF Poll, PollSwitch, PollAbsent, PollFails, Wake, PollLimited, EndCycle, EndStopped, Down,
     Sleep, SleepInterval, StartCycle, views, Begins

LEMMA WorldEffects ==
  ASSUME World \/ Tick
  PROVE  \/ Rests /\ (stopped' = stopped \/ ends' = ends + 1)
         \/ phase' \in {"down", "waiting"} /\ ends' = ends + 1
  BY DEF World, Tick, Crash, Stop, EndCycleFails, Down, Sleep, SleepInterval, ApiChanges,
     TopologyChanges, cycle, views, Rests

(* Whatever the number of switches. *)
THEOREM KeepsRecovering == Spec => RecoveryIsKept
<1>1. ASSUME Types, Covered, [Next]_vars, api = "up", topo = Switches, Recovering
      PROVE  /\ Recovering'
             /\ phase = "polling" /\ ~stopped /\ phase' = "waiting" => Live' \/ ends' # ends
             /\ Live => Live' \/ ends' # ends
  <2>0. /\ ViewType /\ CycleType /\ CycleType' /\ ends + 1 # ends
        /\ \A s \in Switches : ~(s < 1) /\ s < N + 1
        /\ \A s \in Switches : s < turn + 1 /\ s # turn => s < turn
    BY <1>1, CycleStep, Turns, MaxEndsIsNat DEF Types, CycleType, EndsType
  <2>1. CASE Startup
    BY <1>1, <2>0, <2>1, StartupEffects DEF Recovering, Begins, Live, Serving
  <2>2. CASE World \/ Tick
    <3>1. CASE Rests /\ (stopped' = stopped \/ ends' = ends + 1)
      <4>1. Recovering' /\ phase' = phase
        BY <1>1, <3>1 DEF Rests, Recovering
      <4>2. Live => Live' \/ ends' # ends
        BY <2>0, <3>1 DEF Rests, Live, Serving
      <4> QED
        BY <4>1, <4>2
    <3>2. CASE phase' \in {"down", "waiting"} /\ ends' = ends + 1
      BY <2>0, <3>2 DEF Recovering
    <3> QED
      BY <2>2, <3>1, <3>2, WorldEffects
  <2>3. CASE UNCHANGED vars
    BY <1>1, <2>3 DEF vars, cycle, views, Recovering, Live, Serving
  <2>4. CASE Answered
    <3>1. /\ UNCHANGED <<phase, stopped, turn, serving, error>> /\ step # "detail"
          /\ phase \in {"startup", "polling"}
          /\ step' = IF phase = "startup" THEN StartupOrder[step] ELSE CycleOrder[step]
          /\ nodes' = IF step = "topology" THEN Switches ELSE nodes
      BY <1>1, <2>4 DEF Answered, Proceed, Requesting, views
    <3>2. phase = "polling" /\ step' \in {"settings", "detail"} => nodes' = Switches
      <4>1. StepType /\ (phase = "polling" /\ step = "settings" => nodes = Switches)
        BY <1>1 DEF Types, Recovering
      <4> QED
        BY <3>1, <4>1 DEF StepType, CycleOrder
    <3> QED
      BY <1>1, <3>1, <3>2 DEF Recovering, Live, Serving
  <2>5. CASE Poll
    <3>1. CASE phase = "polling" /\ PollSwitch
      <4>1. /\ phase' = "polling" /\ stopped' = stopped /\ step' = step /\ nodes' = nodes
            /\ serving' = [serving EXCEPT ![turn] = FALSE]
            /\ error' = [error EXCEPT ![turn] = RefreshedError] /\ turn' = turn + 1
        BY <3>1 DEF PollSwitch
      <4>2. RefreshedError \in {"", "detail"}
        BY DEF RefreshedError
      <4>3. ASSUME NEW s \in Switches
            PROVE  IF s = turn THEN ~serving'[s] /\ error'[s] \in {"", "detail"}
                   ELSE serving'[s] = serving[s] /\ error'[s] = error[s]
        BY <2>0, <4>1, <4>2 DEF ViewType
      <4> QED
        BY <1>1, <2>0, <3>1, <4>1, <4>3 DEF Recovering, Live, Serving
    <3>2. CASE phase = "polling" /\ step = "detail" /\ turn \in Switches \ nodes
      BY <1>1, <3>2 DEF Recovering
    <3>3. CASE phase = "polling" /\ ~stopped /\ turn = N + 1 /\ phase' = "waiting"
               /\ UNCHANGED <<stopped, serving, error>>
      BY <1>1, <2>0, <3>3 DEF Recovering, Live, Serving
    <3>4. CASE phase = "polling" /\ stopped /\ phase' = "down"
      BY <3>4 DEF Recovering, Live, Serving
    <3>5. CASE phase = "waiting" /\ phase' \in {"waiting", "polling"}
               /\ (phase' = "polling" => Begins) /\ UNCHANGED <<stopped, serving, error>>
      BY <2>0, <3>5 DEF Begins, Recovering, Live, Serving
    <3> QED
      BY <1>1, <2>5, <3>1, <3>2, <3>3, <3>4, <3>5, PollEffects
  <2> QED
    BY <1>1, <2>1, <2>2, <2>3, <2>4, <2>5 DEF Next, Work
<1> QED
  BY <1>1, TypesHold, CoveredHolds, PTL DEF Spec, RecoveryIsKept
=============================================================================
