---------------------------- MODULE CounterStore ----------------------------
(***************************************************************************)
(* counters.py: the persistent monotonic offsets, with the two threads     *)
(* that use one store.  The event loop answers SNMP requests (update) and  *)
(* saves on shutdown; the executor thread saves at the end of poll_once.   *)
(* Nothing locks the dictionary: json.dump walks the live entries in pure  *)
(* Python, so the field-by-field writes of update and the field-by-field   *)
(* reads of save interleave at the grain modelled here.                    *)
(***************************************************************************)
EXTENDS CounterUpdate

CONSTANTS Keys,       \* counters, "<mac>|<port>|<counter>"
          Readings,   \* the <<raw, statsSinceTs>> the API can report for each;
                      \* statsSinceTs is 0 when absent
          MaxOffset   \* bound: a reading that would fold beyond it is not fed

ASSUME KeysExist == Keys # {}
ASSUME ReadingsAreInts == Readings \in [Keys -> SUBSET (Int \X Nat)]
ASSUME MaxOffsetIsNat == MaxOffset \in Nat

Loop == "loop"        \* the asyncio event loop
Poll == "poll"        \* the executor thread running poll_once
Threads == {Loop, Poll}

Nothing == [k \in Keys |-> 0]
NoEntries == [k \in Keys |-> Blank]

VARIABLES
  phase,      \* "up", "stopping", "closing", "stopped", "down"
  known,      \* the keys of _state
  state,      \* _state; Blank where the key is absent
  dirty,      \* _dirty
  diskKeys,   \* the counter file: its keys ...
  disk,       \* ... and entries
  pc,         \* where each thread is
  call,       \* the update the event loop is executing
  at,         \* the key whose entry each thread's save is dumping
  dumped,     \* the keys each save has dumped completely
  walked,     \* the keys _state had when each save began to iterate it
  image,      \* the temporary file of each save
  final,      \* the last save of the shutdown succeeded and is the last word
  served, published, carried   \* see MonotonicCounter

memory == <<known, state, dirty>>
file == <<diskKeys, disk>>
saving == <<at, dumped, walked, image>>
promise == <<served, published, carried>>
vars == <<phase, memory, file, pc, call, saving, final, promise>>

SaveSteps ==
  {"open", "dump", "dump_last_raw", "dump_stats_since", "replace", "clear"}
UpdateSteps == {"set_offset", "set_last_raw", "set_stats_since"}

TypeOK ==
  /\ phase \in {"up", "stopping", "closing", "stopped", "down"}
  /\ known \subseteq Keys /\ state \in [Keys -> Entry] /\ dirty \in BOOLEAN
  /\ diskKeys \subseteq Keys /\ disk \in [Keys -> Entry]
  /\ pc \in [Threads -> {"idle"} \cup SaveSteps \cup UpdateSteps]
  /\ call \in [key : Keys, new : Entry]
  /\ at \in [Threads -> Keys]
  /\ dumped \in [Threads -> SUBSET Keys] /\ walked \in [Threads -> SUBSET Keys]
  /\ image \in [Threads -> [Keys -> Entry]]
  /\ final \in BOOLEAN
  /\ served \subseteq Keys
  /\ published \in [Keys -> Nat] /\ carried \in [Keys -> Nat]

NoKey == CHOOSE k \in Keys : TRUE
NoCall == [key |-> NoKey, new |-> Blank]

Init ==
  /\ phase = "up"
  /\ pc = [t \in Threads |-> "idle"]
  /\ call = NoCall
  /\ at = [t \in Threads |-> NoKey]
  /\ dumped = [t \in Threads |-> {}] /\ walked = [t \in Threads |-> {}]
  /\ image = [t \in Threads |-> NoEntries]
  /\ known = {} /\ state = NoEntries /\ dirty = FALSE
  /\ diskKeys = {} /\ disk = NoEntries
  /\ final = FALSE
  /\ served = {} /\ published = Nothing /\ carried = Nothing
-----------------------------------------------------------------------------
(* update: the event loop feeds a reading and answers the value. *)

(* The mutant goes on answering while the last save is written. *)
MutantAnswering == phase # "down" /\ pc[Loop] = "idle"
Answering == phase \in {"up", "stopping"} /\ pc[Loop] = "idle"

Answer(k, v) ==
  /\ served' = served \cup {k}
  /\ published' = [published EXCEPT ![k] = v]
  /\ UNCHANGED carried

(* A key never seen before gets a whole entry in one dictionary store. *)
UpdateNew(k, raw, since) ==
  /\ Answering /\ k \notin known
  /\ known' = known \cup {k}
  /\ state' = [state EXCEPT ![k] = First(raw, since)]
  /\ dirty' = TRUE
  /\ Answer(k, raw)
  /\ UNCHANGED <<phase, file, pc, call, saving, final>>

(* Otherwise the new entry is computed from the old one, and _dirty set ... *)
UpdateKnown(k, raw, since) ==
  /\ Answering /\ k \in known
  /\ Fold(state[k], raw, since) <= MaxOffset
  /\ dirty' = (dirty \/ Changed(state[k], raw, since))
  /\ call' = [key |-> k, new |-> Updated(state[k], raw, since)]
  /\ pc' = [pc EXCEPT ![Loop] = "set_offset"]
  /\ UNCHANGED <<phase, known, state, file, saving, final, promise>>

(* ... before the three assignments to the entry, each visible to a save in progress. *)
SetOffset ==
  /\ pc[Loop] = "set_offset"
  /\ state' = [state EXCEPT ![call.key].offset = call.new.offset]
  /\ pc' = [pc EXCEPT ![Loop] = "set_last_raw"]
  /\ UNCHANGED <<phase, known, dirty, file, call, saving, final, promise>>

SetLastRaw ==
  /\ pc[Loop] = "set_last_raw"
  /\ state' = [state EXCEPT ![call.key].last_raw = call.new.last_raw]
  /\ pc' = [pc EXCEPT ![Loop] = "set_stats_since"]
  /\ UNCHANGED <<phase, known, dirty, file, call, saving, final, promise>>

SetStatsSince ==
  /\ pc[Loop] = "set_stats_since"
  /\ state' = [state EXCEPT ![call.key].stats_since = call.new.stats_since]
  /\ pc' = [pc EXCEPT ![Loop] = "idle"]
  /\ call' = NoCall
  /\ Answer(call.key, Value(call.new))
  /\ UNCHANGED <<phase, known, dirty, file, saving, final>>
-----------------------------------------------------------------------------
(* save: dump the live dictionary to a temporary file, rename it into place.*)

(* Nothing to write: save returns at once unless it is forced. *)
BeginSave(t, force) ==
  /\ pc[t] = "idle"
  /\ dirty \/ force
  /\ pc' = [pc EXCEPT ![t] = "open"]

(* poll_once saves when a cycle ends; a cycle that is in flight when the    *)
(* process is told to stop still gets here.                                 *)
PollSave ==
  /\ phase # "down"
  /\ BeginSave(Poll, FALSE)
  /\ UNCHANGED <<phase, memory, file, call, saving, final, promise>>

Open(t) ==
  /\ pc[t] = "open"
  /\ pc' = [pc EXCEPT ![t] = "dump"]
  /\ dumped' = [dumped EXCEPT ![t] = {}]
  /\ walked' = [walked EXCEPT ![t] = known]
  /\ image' = [image EXCEPT ![t] = NoEntries]
  /\ UNCHANGED <<phase, memory, file, call, at, final, promise>>

(* Each turn of the dictionary's iterator first checks that no key was      *)
(* added since it was created.                                              *)
Resized(t) == known # walked[t]

DumpOffset(t, k) ==
  /\ pc[t] = "dump" /\ ~Resized(t)
  /\ k \in walked[t] \ dumped[t]
  /\ image' = [image EXCEPT ![t] = [@ EXCEPT ![k].offset = state[k].offset]]
  /\ at' = [at EXCEPT ![t] = k]
  /\ pc' = [pc EXCEPT ![t] = "dump_last_raw"]
  /\ UNCHANGED <<phase, memory, file, call, dumped, walked, final, promise>>

DumpLastRaw(t) ==
  /\ pc[t] = "dump_last_raw"
  /\ image' = [image EXCEPT ![t] = [@ EXCEPT ![at[t]].last_raw = state[at[t]].last_raw]]
  /\ pc' = [pc EXCEPT ![t] = "dump_stats_since"]
  /\ UNCHANGED <<phase, memory, file, call, at, dumped, walked, final, promise>>

DumpStatsSince(t) ==
  /\ pc[t] = "dump_stats_since"
  /\ image' =
       [image EXCEPT ![t] = [@ EXCEPT ![at[t]].stats_since = state[at[t]].stats_since]]
  /\ dumped' = [dumped EXCEPT ![t] = @ \cup {at[t]}]
  /\ at' = [at EXCEPT ![t] = NoKey]
  /\ pc' = [pc EXCEPT ![t] = "dump"]
  /\ UNCHANGED <<phase, memory, file, call, walked, final, promise>>

DumpEnd(t) ==
  /\ pc[t] = "dump" /\ ~Resized(t)
  /\ dumped[t] = walked[t]
  /\ pc' = [pc EXCEPT ![t] = "replace"]
  /\ UNCHANGED <<phase, memory, file, call, saving, final, promise>>

(* The save is over, one way or another; its temporary file is gone. *)
EndSave(t) ==
  /\ pc' = [pc EXCEPT ![t] = "idle"]
  /\ at' = [at EXCEPT ![t] = NoKey]
  /\ dumped' = [dumped EXCEPT ![t] = {}]
  /\ walked' = [walked EXCEPT ![t] = {}]
  /\ image' = [image EXCEPT ![t] = NoEntries]

(* os.replace: the rename is atomic, and whichever save comes last wins. *)
Replace(t) ==
  /\ pc[t] = "replace"
  /\ diskKeys' = dumped[t] /\ disk' = image[t]
  /\ pc' = [pc EXCEPT ![t] = "clear"]
  /\ final' = (t = Loop)
  /\ UNCHANGED <<phase, memory, call, saving, promise>>

(* _dirty = False, whatever update has marked since the dump began.  The   *)
(* event loop goes on with the shutdown when its forced save returns.       *)
Returned(t) == IF t = Loop /\ phase = "closing" THEN "stopped" ELSE phase

ClearDirty(t) ==
  /\ pc[t] = "clear"
  /\ dirty' = FALSE
  /\ phase' = Returned(t)
  /\ EndSave(t)
  /\ UNCHANGED <<known, state, file, call, final, promise>>

(* RuntimeError "dictionary changed size during iteration": the temporary   *)
(* file is removed and the error leaves save.  On the poll thread the cycle *)
(* fails; the event loop cannot meet it, for nothing else adds keys.        *)
DictChanged(t) ==
  /\ pc[t] = "dump" /\ Resized(t)
  /\ EndSave(t)
  /\ UNCHANGED <<phase, memory, file, call, final, promise>>

(* An OSError (disk full, directory not writable) is swallowed. *)
SaveFails(t) ==
  /\ pc[t] \in {"open", "dump", "replace"}
  /\ phase' = Returned(t)
  /\ final' = (final /\ t = Poll)
  /\ EndSave(t)
  /\ UNCHANGED <<memory, file, call, promise>>
-----------------------------------------------------------------------------
(* The life of the process. *)

(* The signal handler calls Poller.stop, which saves; SNMP is answered on   *)
(* until _serve has been scheduled again.                                   *)
Shutdown ==
  /\ phase = "up"
  /\ BeginSave(Loop, TRUE)
  /\ phase' = "stopping"
  /\ UNCHANGED <<memory, file, call, saving, final, promise>>

(* _serve stops the agents and saves once more. *)
CloseAgents ==
  /\ phase = "stopping"
  /\ BeginSave(Loop, TRUE)
  /\ phase' = "closing"
  /\ final' = FALSE
  /\ UNCHANGED <<memory, file, call, saving, promise>>

Forget ==
  /\ known' = {} /\ state' = NoEntries /\ dirty' = FALSE
  /\ pc' = [t \in Threads |-> "idle"] /\ call' = NoCall
  /\ at' = [t \in Threads |-> NoKey]
  /\ dumped' = [t \in Threads |-> {}] /\ walked' = [t \in Threads |-> {}]
  /\ image' = [t \in Threads |-> NoEntries]

(* asyncio.run waits for the executor thread before the process ends. *)
Exit ==
  /\ phase = "stopped" /\ pc[Poll] = "idle"
  /\ phase' = "down"
  /\ Forget
  /\ UNCHANGED <<file, final, promise>>

(* Power loss or SIGKILL, between any two steps. *)
Crash ==
  /\ phase # "down"
  /\ phase' = "down" /\ final' = FALSE
  /\ Forget
  /\ UNCHANGED <<file, promise>>

Owed == [k \in Keys |-> IF k \in served THEN published[k] ELSE carried[k]]

(* load: a file that cannot be read leaves the store empty. *)
Start(readable) ==
  /\ phase = "down"
  /\ phase' = "up" /\ final' = FALSE
  /\ known' = (IF readable THEN diskKeys ELSE {})
  /\ state' = (IF readable THEN disk ELSE NoEntries)
  /\ served' = {} /\ published' = Nothing
  /\ carried' = (IF readable /\ final THEN Owed ELSE Nothing)
  /\ UNCHANGED <<dirty, file, pc, call, saving>>
-----------------------------------------------------------------------------
Update ==
  \/ \E k \in Keys : \E r \in Readings[k] :
       UpdateNew(k, Clamp(r[1]), r[2]) \/ UpdateKnown(k, Clamp(r[1]), r[2])
  \/ SetOffset \/ SetLastRaw \/ SetStatsSince

Save(t) ==
  \/ Open(t) \/ (\E k \in Keys : DumpOffset(t, k)) \/ DumpLastRaw(t)
  \/ DumpStatsSince(t) \/ DumpEnd(t) \/ Replace(t) \/ ClearDirty(t)
  \/ DictChanged(t) \/ SaveFails(t)

Life == Shutdown \/ CloseAgents \/ Exit \/ Crash \/ (\E ok \in BOOLEAN : Start(ok))

Next == Update \/ PollSave \/ (\E t \in Threads : Save(t)) \/ Life

Spec == Init /\ [][Next]_vars
-----------------------------------------------------------------------------
(* Correctness. *)

(* The store keeps the promise of MonotonicCounter: whatever readings the   *)
(* API supplies and however the two threads interleave, no answer is lower  *)
(* than an earlier one of the same process, nor, after a shutdown whose     *)
(* last save had the last word, than the answers of the process before.     *)
M == INSTANCE MonotonicCounter
       WITH served <- served, published <- published, carried <- carried
Promise == M!Spec

(* When a shutdown's last save had the last word, the file holds exactly    *)
(* what memory held: no entry is missing and none is torn, although the     *)
(* poll thread may have been dumping, renaming or failing all the while.    *)
CleanImage ==
  phase = "stopped" /\ final => diskKeys = known /\ \A k \in known : disk[k] = state[k]
=============================================================================
