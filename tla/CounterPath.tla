----------------------------- MODULE CounterPath -----------------------------
(***************************************************************************)
(* One counter's way from the switch to the SNMP manager, over restarts:   *)
(* the switch counts and is reset; the poll thread fetches a reading,      *)
(* replaces ctx.switch, saves the counter file and then the topology       *)
(* cache; the event loop reads ctx.switch twice per request (c64: first    *)
(* statsSinceTs, then the raw value) and feeds the store; the process      *)
(* stops, crashes, and starts again from the live API or from the cache.   *)
(* The manager adds up the differences of the folded answers.              *)
(* The steps of update and save are CounterStore's subject.  What comes of *)
(* them is here: a poll thread that dumps the store while the event loop   *)
(* feeds it may write fields of different moments.                         *)
(***************************************************************************)
EXTENDS CounterUpdate

CONSTANTS MaxEvents,   \* bound on what happens at the source: traffic, resets and
                       \* what the API leaves out
          MaxStarts,   \* bound on how often the process starts
          Omissions,   \* what the API may leave out together: a port's "counter", its
                       \* statsSinceTs ("since"), the whole "port"
          Modulus      \* 2^32 for a Counter32, 2^64 for a Counter64

ASSUME MaxEventsIsNat == MaxEvents \in Nat
ASSUME MaxStartsIsNat == MaxStarts \in Nat
ASSUME OmissionsAssumption == Omissions \subseteq SUBSET {"counter", "since", "port"}
ASSUME ModulusAssumption == Modulus \in Nat \ {0}

(* A reading as the API reports it, and what is left out of it.  "at" only  *)
(* dates it, for the properties: it is the number of events before it.      *)
Reading == [raw : Nat, since : Nat, at : Nat, lacks : SUBSET {"counter", "since", "port"}]
None == [raw |-> 0, since |-> 0, at |-> 0, lacks |-> {}]   \* at is > 0 otherwise
NoEntry == [offset |-> 0, last_raw |-> 0, stats_since |-> 0, at |-> 0]

VARIABLES
  switch,     \* the switch's counter now, and what the API leaves out of it
  total,      \* all the bytes it has counted
  view,       \* ctx.switch
  fetched,    \* what poll_once has fetched in this cycle
  poll,       \* where poll_once is: "idle", "fetched", "viewed", "dumping", "saved"
  held,       \* the entries the store has held since poll_once began to dump it
  read,       \* the statsSinceTs that c64 has taken, if it has: a set of one or none
  fed,        \* the entry that update is writing to the store, or NoEntry
  entry,      \* the store's entry, dated by the reading last fed to it
  file,       \* the counter file
  cache,      \* the topology cache, None if there is none
  mode,       \* "live", "cached" (serving_cache), "stopping", "down"
  starts,     \* how often the process has started
  answered,   \* the running process has answered
  published,  \* the last answer, before it is folded
  graphed,    \* the manager's sum of the differences of the answers it got
  mishaps     \* what has gone wrong so far:
              \* "torn": an answer combined two readings
              \* "aged": a process resumed from a reading older than its counter file
              \* "lost": a process resumed without an update of the one before, which
              \*   the counter file misses, or the file could not be read
              \* "mixed": a process resumed from a counter file of several moments
              \* "zeroed": a counter the API left out was fed as zero
              \* "undated": a reading was fed of which the API left out statsSinceTs
              \* "gone": a port that was not there was answered for

source == <<switch, total>>
polling == <<fetched, poll, held>>
request == <<read, fed>>
disk == <<file, cache>>
manager == <<published, graphed>>
vars == <<source, view, polling, request, entry, disk, mode, starts, answered, manager, mishaps>>

Dated(e, at) == [offset |-> e.offset, last_raw |-> e.last_raw,
                 stats_since |-> e.stats_since, at |-> at]
DatedEntry == [offset : Nat, last_raw : Nat, stats_since : Nat, at : Nat]

(* An entry whose fields are of different moments has no date. *)
Mixed(e) == e.at = 0 /\ e # NoEntry

TypeOK ==
  /\ switch \in Reading /\ total \in Nat
  /\ view \in Reading /\ fetched \in Reading /\ cache \in Reading
  /\ poll \in {"idle", "fetched", "viewed", "dumping", "saved"}
  /\ entry \in DatedEntry /\ file \in DatedEntry /\ fed \in DatedEntry
  /\ held \subseteq DatedEntry /\ read \in SUBSET Nat
  /\ mode \in {"live", "cached", "stopping", "down"}
  /\ starts \in Nat /\ answered \in BOOLEAN
  /\ published \in Nat /\ graphed \in Nat
  /\ mishaps \subseteq {"torn", "aged", "lost", "mixed", "zeroed", "undated", "gone"}

Init ==
  /\ switch = [raw |-> 0, since |-> 1, at |-> 1, lacks |-> {}] /\ total = 0
  /\ view = None /\ fetched = None /\ poll = "idle" /\ held = {}
  /\ read = {} /\ fed = NoEntry
  /\ entry = NoEntry /\ file = NoEntry /\ cache = None
  /\ mode = "down" /\ starts = 0
  /\ answered = FALSE /\ published = 0 /\ graphed = 0 /\ mishaps = {}
-----------------------------------------------------------------------------
(* The switch. *)

Traffic ==
  /\ switch.at <= MaxEvents
  /\ switch' = [switch EXCEPT !.raw = @ + 1, !.at = @ + 1]
  /\ total' = total + 1
  /\ UNCHANGED <<view, polling, request, entry, disk, mode, starts, answered, manager, mishaps>>

(* Counters go to zero; some firmware does not move statsSinceTs.           *)
Reset(silent) ==
  /\ switch.at <= MaxEvents
  /\ switch' = [switch EXCEPT !.raw = 0, !.since = @ + (IF silent THEN 0 ELSE 1), !.at = @ + 1]
  /\ UNCHANGED <<total, view, polling, request, entry, disk, mode, starts, answered, manager,
                 mishaps>>
(* The API's reports leave something out; that they no longer do needs no   *)
(* bound.                                                                   *)
Omit(out) ==
  /\ switch.lacks # out /\ (out # {} => switch.at <= MaxEvents)
  /\ switch' = [switch EXCEPT !.lacks = out, !.at = @ + 1]
  /\ UNCHANGED <<total, view, polling, request, entry, disk, mode, starts, answered, manager,
                 mishaps>>

(* What is left out reads as 0: raw.get(name) or 0, stats_since or 0, both  *)
(* of a port that is not there.                                             *)
Report ==
  [switch EXCEPT !.raw = IF switch.lacks \cap {"counter", "port"} = {} THEN @ ELSE 0,
                 !.since = IF switch.lacks \cap {"since", "port"} = {} THEN @ ELSE 0]
-----------------------------------------------------------------------------
(* poll_once, on the executor thread. *)

Running == mode \in {"live", "cached", "stopping"}

Fetch ==
  /\ mode \in {"live", "cached"} /\ poll = "idle"
  /\ fetched' = Report /\ poll' = "fetched"
  /\ UNCHANGED <<source, view, held, request, entry, disk, mode, starts, answered, manager,
                 mishaps>>

ReplaceView ==
  /\ Running /\ poll = "fetched"
  /\ view' = fetched /\ poll' = "viewed"
  /\ mode' = IF mode = "cached" THEN "live" ELSE mode
  /\ UNCHANGED <<source, fetched, held, request, entry, disk, starts, answered, manager,
                 mishaps>>

(* save begins to walk the live entries.  update goes on meanwhile. *)
DumpCounters ==
  /\ Running /\ poll = "viewed"
  /\ poll' = "dumping" /\ held' = {entry}
  /\ UNCHANGED <<source, view, fetched, request, entry, disk, mode, starts, answered, manager,
                 mishaps>>

(* What the dump may have met, the update that is being written included;   *)
(* each field is of one of these.  An entry that was not there at first is  *)
(* not dumped.                                                              *)
Met == held \cup (IF fed = NoEntry THEN {} ELSE {fed})
Mixtures ==
  {e \in [offset : {m.offset : m \in Met}, last_raw : {m.last_raw : m \in Met},
          stats_since : {m.stats_since : m \in Met}, at : {0}] :
     \A m \in Met : e # Dated(m, 0)}
Dumps == IF NoEntry \in held THEN {NoEntry} ELSE Met \cup Mixtures

(* A failed write is swallowed, and none is tried if nothing has changed. *)
SaveCounters(ok) ==
  /\ Running /\ poll = "dumping"
  /\ file' \in IF ok THEN Dumps ELSE {file}
  /\ poll' = "saved" /\ held' = {}
  /\ UNCHANGED <<source, view, fetched, request, entry, cache, mode, starts, answered, manager,
                 mishaps>>

(* So is a failed write of the cache. *)
SaveSnapshot(ok) ==
  /\ Running /\ poll = "saved"
  /\ cache' = IF ok THEN fetched ELSE cache
  /\ poll' = "idle" /\ fetched' = None
  /\ UNCHANGED <<source, view, held, request, entry, file, mode, starts, answered, manager,
                 mishaps>>

(* A 429 for another switch leaves poll_once, this switch's view already    *)
(* replaced and neither file saved; so does the RuntimeError of a dump that *)
(* meets a new counter; any other failure leaves before the view is.        *)
PollAborts ==
  /\ Running /\ poll \in {"fetched", "viewed", "dumping"}
  /\ poll' = "idle" /\ fetched' = None /\ held' = {}
  /\ UNCHANGED <<source, view, request, entry, disk, mode, starts, answered, manager, mishaps>>
-----------------------------------------------------------------------------
(* An SNMP request, on the event loop. *)

ReadSince ==
  /\ mode \in {"live", "cached"} /\ read = {} /\ fed = NoEntry
  /\ read' = {view.since}
  /\ UNCHANGED <<source, view, polling, fed, entry, disk, mode, starts, answered, manager, mishaps>>

(* counter() reads ctx.switch again for the raw value and feeds the store.  *)
New(since) ==
  IF entry = NoEntry THEN First(view.raw, since)
  ELSE Updated(entry, view.raw, since)

Feed ==
  \E since \in read :
    /\ mode \in {"live", "cached"} /\ "port" \notin view.lacks
    /\ fed' = Dated(New(since), view.at)
    /\ read' = {}
    /\ mishaps' = mishaps \cup (IF since # view.since THEN {"torn"} ELSE {})
                           \cup (IF "counter" \in view.lacks THEN {"zeroed"} ELSE {})
                           \cup (IF "since" \in view.lacks THEN {"undated"} ELSE {})
    /\ UNCHANGED <<source, view, polling, entry, disk, mode, starts, answered, manager>>

(* as_counter32 and as_counter64; the mutant's mask is one short.           *)
MutantCounter(value) == value % (Modulus - 1)
Counter(value) == value % Modulus

(* The manager adds the difference to the last answer, modulo the counter's *)
(* width; before the first it was at 0, like the switch.                    *)
Publish(value) ==
  /\ published' = value
  /\ graphed' = graphed + ((Counter(value) - Counter(published)) % Modulus)

(* The entry is written, and a dump in progress may take it up. *)
Answer ==
  /\ mode \in {"live", "cached"} /\ fed # NoEntry
  /\ entry' = fed
  /\ held' = IF poll = "dumping" THEN held \cup {fed} ELSE held
  /\ Publish(Value(fed)) /\ answered' = TRUE
  /\ fed' = NoEntry
  /\ UNCHANGED <<source, view, fetched, poll, read, disk, mode, starts, mishaps>>

(* counter() does not find the port, of which the tree still has a row. *)
AnswerGone ==
  /\ mode \in {"live", "cached"} /\ read # {} /\ "port" \in view.lacks
  /\ Publish(0) /\ answered' = TRUE
  /\ read' = {}
  /\ mishaps' = mishaps \cup {"gone"}
  /\ UNCHANGED <<source, view, polling, fed, entry, disk, mode, starts>>
-----------------------------------------------------------------------------
(* The life of the process. *)

(* Shutdown saves the counter file; poll_once may still be running. *)
Stop(ok) ==
  /\ mode \in {"live", "cached"} /\ read = {} /\ fed = NoEntry
  /\ file' = IF ok THEN entry ELSE file
  /\ mode' = "stopping"
  /\ UNCHANGED <<source, view, polling, request, entry, cache, starts, answered, manager, mishaps>>

Ended ==
  /\ mode' = "down"
  /\ view' = None /\ fetched' = None /\ poll' = "idle" /\ held' = {}
  /\ read' = {} /\ fed' = NoEntry
  /\ UNCHANGED <<source, entry, disk, starts, answered, manager, mishaps>>

Exit == mode = "stopping" /\ poll = "idle" /\ Ended

Crash == Running /\ Ended

(* The store is loaded from its file, or starts empty if that cannot be     *)
(* read. "entry" still holds what the process before had in memory.         *)
Loaded(readable) == IF readable THEN file ELSE NoEntry

Resume(reading, loaded) ==
  /\ mode = "down" /\ starts < MaxStarts
  /\ starts' = starts + 1
  /\ view' = reading
  /\ entry' = loaded
  /\ answered' = FALSE
  /\ mishaps' = mishaps \cup (IF loaded # entry THEN {"lost"} ELSE {})
                         \cup (IF reading.at < loaded.at THEN {"aged"} ELSE {})
                         \cup (IF Mixed(loaded) THEN {"mixed"} ELSE {})
  /\ UNCHANGED <<source, polling, request, file, manager>>

(* The API answers: the payload is served and cached. *)
StartLive(readable, ok) ==
  /\ Resume(Report, Loaded(readable))
  /\ mode' = "live"
  /\ cache' = IF ok THEN Report ELSE cache

(* It does not: the cached payload is served. *)
StartCached(readable) ==
  /\ cache # None
  /\ Resume(cache, Loaded(readable))
  /\ mode' = "cached"
  /\ UNCHANGED cache
-----------------------------------------------------------------------------
Next ==
  \/ Traffic \/ (\E silent \in BOOLEAN : Reset(silent))
  \/ (\E out \in Omissions \cup {{}} : Omit(out))
  \/ Fetch \/ ReplaceView \/ DumpCounters \/ PollAborts
  \/ (\E ok \in BOOLEAN : SaveCounters(ok) \/ SaveSnapshot(ok) \/ Stop(ok) \/ StartCached(ok))
  \/ (\E readable, ok \in BOOLEAN : StartLive(readable, ok))
  \/ ReadSince \/ Feed \/ Answer \/ AnswerGone
  \/ Exit \/ Crash

Spec == Init /\ [][Next]_vars
-----------------------------------------------------------------------------
(* Nothing is invented: no answer exceeds the bytes the switch has counted, *)
(* over any sequence of resets, failed saves, crashes and restarts, unless  *)
(* a request combined two readings, a process resumed from a reading older  *)
(* than its own counter file or from a file dumped in the middle of an      *)
(* update, or a reading was fed from which the API had left the counter out *)
(* or statsSinceTs: a reset that such a reading shows by its value is       *)
(* folded again when the timestamp is back.                                 *)
NothingInvented ==
  published > total => mishaps \cap {"torn", "aged", "mixed", "zeroed", "undated"} # {}

(* Nor on the manager's graph, to which a counter that falls is one that    *)
(* has wrapped: there an update that a restart loses and a port that was    *)
(* gone show as well.                                                       *)
GraphInventsNothing == graphed > total => mishaps # {}

(* The published value falls at a restart only, and only when the process   *)
(* resumes without an update: the counter file misses it or could not be    *)
(* read.  After a shutdown that saved the file, and a start that reads it,  *)
(* the value rises across any resets, whichever reading the process resumes *)
(* from and whatever the API leaves out.  But for a port that is gone: 0.   *)
FallsOnlyAfterLoss ==
  [][published' < published => (~answered /\ "lost" \in mishaps) \/ "port" \in view.lacks]_vars

(* "counters are frozen, so rates read zero until the API recovers": a      *)
(* process serving the cache never counts what the switch did not, on       *)
(* requests that read one reading each.                                     *)
CacheInventsNothing ==
  mode = "cached" /\ answered /\ "torn" \notin mishaps => published <= total
=============================================================================
