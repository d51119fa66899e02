------------------------- MODULE CounterStoreProofs -------------------------
(***************************************************************************)
(* CounterStore keeps MonotonicCounter's promise for every set of          *)
(* counters, whatever readings the API can report and however large.       *)
(***************************************************************************)
EXTENDS CounterStore, TLAPS

USE KeysExist, ReadingsAreInts, MaxOffsetIsNat

(* The sentinel values of idle threads have the types of real ones. *)
LEMMA Sentinels ==
  /\ NoKey \in Keys
  /\ NoCall \in [key : Keys, new : Entry]
  /\ Blank \in Entry /\ NoEntries \in [Keys -> Entry]
  /\ Nothing \in [Keys -> Nat]
<1>1. NoKey \in Keys
  BY DEF NoKey
<1> QED
  BY <1>1 DEF NoCall, Blank, Entry, NoEntries, Nothing

(* A reading is a natural number once it has been clamped. *)
LEMMA ReadingTypes ==
  ASSUME NEW k \in Keys, NEW r \in Readings[k]
  PROVE  Clamp(r[1]) \in Nat /\ r[2] \in Nat
<1>1. r \in Int \X Nat
  OBVIOUS
<1> QED
  BY <1>1 DEF Clamp

(* Writing one field of one entry leaves a well-typed table of entries. *)
LEMMA FieldWrite ==
  ASSUME NEW f \in [Keys -> Entry], NEW k \in Keys, NEW n \in Nat
  PROVE  /\ [f EXCEPT ![k].offset = n] \in [Keys -> Entry]
         /\ [f EXCEPT ![k].last_raw = n] \in [Keys -> Entry]
         /\ [f EXCEPT ![k].stats_since = n] \in [Keys -> Entry]
BY DEF Entry

(* What update does to one entry, whatever the reading: the value published *)
(* for it rises by what the switch counted since the last reading, or, once *)
(* the counter was reset, by what it has counted anew; nothing is lost and  *)
(* nothing is counted twice when the same reading is fed again, as it is by *)
(* every request between two polls; and a reading that does not mark the    *)
(* store dirty leaves nothing to save.                                      *)
THEOREM UpdateIsExact ==
  ASSUME NEW e \in Entry, NEW raw \in Nat, NEW since \in Nat
  PROVE  LET new == Updated(e, raw, since)
             reset == ResetByTs(e, since) \/ ResetByValue(e, raw)
         IN  /\ new \in Entry
             /\ Value(new) = Value(e) + (IF reset THEN raw ELSE raw - e.last_raw)
             /\ Value(new) >= Value(e)
             /\ Updated(new, raw, since) = new
             /\ Changed(e, raw, since) \/ new = e
<1> DEFINE new == Updated(e, raw, since)
<1>1. e \in [offset : Nat, last_raw : Nat, stats_since : Nat]
  BY DEF Entry
<1>2. /\ new = [offset |-> Fold(e, raw, since), last_raw |-> raw, stats_since |-> Keep(e, since)]
      /\ new.offset = Fold(e, raw, since) /\ new.last_raw = raw
      /\ new.stats_since = Keep(e, since)
  BY DEF Updated
<1>3. Fold(e, raw, since) \in Nat /\ Keep(e, since) \in Nat
  BY <1>1 DEF Fold, Keep
<1>4. new \in Entry
  BY <1>2, <1>3 DEF Entry
<1>5. Value(new) = Value(e) + (IF ResetByTs(e, since) \/ ResetByValue(e, raw)
                               THEN raw ELSE raw - e.last_raw)
  BY <1>1, <1>2 DEF Value, Fold
<1>6. Value(new) >= Value(e)
  BY <1>1, <1>5 DEF Value, ResetByValue
<1>7. Updated(new, raw, since) = new
  <2>1. Keep(new, since) = new.stats_since
    BY <1>2 DEF Keep
  <2>2. ~ResetByTs(new, since) /\ ~ResetByValue(new, raw)
    BY <1>1, <1>2 DEF ResetByTs, ResetByValue, Keep
  <2>3. Fold(new, raw, since) = new.offset
    BY <2>2 DEF Fold
  <2>4. Updated(new, raw, since)
          = [offset |-> new.offset, last_raw |-> raw, stats_since |-> new.stats_since]
    BY <2>1, <2>3 DEF Updated
  <2> QED
    BY <1>2, <2>4
<1>8. Changed(e, raw, since) \/ new = e
  BY <1>1 DEF Changed, Updated, Fold, Keep, ResetByTs, ResetByValue
<1> QED
  BY <1>4, <1>5, <1>6, <1>7, <1>8

(* Type correctness: every field of every entry, in memory, in a save in    *)
(* progress and on disk, is a natural number (update's max(0, raw)).        *)
THEOREM TypeCorrect == Spec => []TypeOK
<1> USE DEF TypeOK, Threads, Loop, Poll, SaveSteps, UpdateSteps
<1>1. Init => TypeOK
  <2> SUFFICES ASSUME Init PROVE TypeOK
    OBVIOUS
  <2>1. image \in [Threads -> [Keys -> Entry]] /\ at \in [Threads -> Keys]
    BY Sentinels DEF Init
  <2> QED
    BY <2>1, Sentinels DEF Init
<1>2. TypeOK /\ [Next]_vars => TypeOK'
  <2> SUFFICES ASSUME TypeOK, [Next]_vars PROVE TypeOK'
    OBVIOUS
  <2> USE Sentinels
  <2>1. ASSUME NEW k \in Keys, NEW r \in Readings[k], UpdateNew(k, Clamp(r[1]), r[2])
        PROVE  TypeOK'
    <3> DEFINE e == First(Clamp(r[1]), r[2])
    <3>1. e \in Entry
      BY ReadingTypes DEF Entry, First
    <3> HIDE DEF e
    <3>2. state' = [state EXCEPT ![k] = e]
      BY <2>1 DEF UpdateNew, e
    <3>3. state' \in [Keys -> Entry]
      BY <3>1, <3>2
    <3> QED
      BY <2>1, <3>3, ReadingTypes DEF UpdateNew, Answer, file, saving
  <2>2. ASSUME NEW k \in Keys, NEW r \in Readings[k], UpdateKnown(k, Clamp(r[1]), r[2])
        PROVE  TypeOK'
    <3>1. Updated(state[k], Clamp(r[1]), r[2]) \in Entry
      BY ReadingTypes DEF Updated, Fold, Keep, Entry
    <3>2. dirty' \in BOOLEAN
      BY <2>2 DEF UpdateKnown, Changed
    <3>3. call' \in [key : Keys, new : Entry]
      BY <2>2, <3>1 DEF UpdateKnown
    <3> QED
      BY <2>2, <3>2, <3>3 DEF UpdateKnown, file, saving, promise
  <2>3. CASE SetOffset
    <3>1. state' \in [Keys -> Entry]
      BY <2>3 DEF SetOffset, Entry
    <3> QED  BY <2>3, <3>1 DEF SetOffset, file, saving, promise
  <2>4. CASE SetLastRaw
    <3>1. state' \in [Keys -> Entry]
      BY <2>4 DEF SetLastRaw, Entry
    <3> QED  BY <2>4, <3>1 DEF SetLastRaw, file, saving, promise
  <2>5. CASE SetStatsSince
    <3>1. state' \in [Keys -> Entry]
      BY <2>5 DEF SetStatsSince, Entry
    <3>2. Value(call.new) \in Nat /\ call.key \in Keys
      BY DEF Value, Entry
    <3> QED  BY <2>5, <3>1, <3>2 DEF SetStatsSince, Answer, file, saving
  <2>6. CASE PollSave
    BY <2>6 DEF PollSave, BeginSave, memory, file, saving, promise
  <2>7. ASSUME NEW t \in Threads, Open(t) PROVE TypeOK'
    BY <2>7 DEF Open, memory, file, promise
  <2>8. ASSUME NEW t \in Threads, NEW k \in Keys, DumpOffset(t, k) PROVE TypeOK'
    <3> DEFINE row == [image[t] EXCEPT ![k].offset = state[k].offset]
    <3>a. image[t] \in [Keys -> Entry] /\ k \in Keys
      OBVIOUS
    <3>b. state[k].offset \in Nat
      BY <3>a DEF Entry
    <3>0. row \in [Keys -> Entry]
      BY <3>a, <3>b, FieldWrite
    <3>1. image' = [image EXCEPT ![t] = row]
      BY <2>8 DEF DumpOffset
    <3> HIDE DEF row
    <3>2. image' \in [Threads -> [Keys -> Entry]]
      BY <3>0, <3>1
    <3> QED  BY <2>8, <3>2 DEF DumpOffset, memory, file, promise
  <2>9. ASSUME NEW t \in Threads, DumpLastRaw(t) PROVE TypeOK'
    <3> DEFINE row == [image[t] EXCEPT ![at[t]].last_raw = state[at[t]].last_raw]
    <3>a. image[t] \in [Keys -> Entry] /\ at[t] \in Keys
      OBVIOUS
    <3>b. state[at[t]].last_raw \in Nat
      BY <3>a DEF Entry
    <3>0. row \in [Keys -> Entry]
      BY <3>a, <3>b, FieldWrite
    <3>1. image' = [image EXCEPT ![t] = row]
      BY <2>9 DEF DumpLastRaw
    <3> HIDE DEF row
    <3>2. image' \in [Threads -> [Keys -> Entry]]
      BY <3>0, <3>1
    <3> QED  BY <2>9, <3>2 DEF DumpLastRaw, memory, file, promise
  <2>10. ASSUME NEW t \in Threads, DumpStatsSince(t) PROVE TypeOK'
    <3> DEFINE row == [image[t] EXCEPT ![at[t]].stats_since = state[at[t]].stats_since]
    <3>a. image[t] \in [Keys -> Entry] /\ at[t] \in Keys
      OBVIOUS
    <3>b. state[at[t]].stats_since \in Nat
      BY <3>a DEF Entry
    <3>0. row \in [Keys -> Entry]
      BY <3>a, <3>b, FieldWrite
    <3>1. image' = [image EXCEPT ![t] = row]
      BY <2>10 DEF DumpStatsSince
    <3> HIDE DEF row
    <3>2. image' \in [Threads -> [Keys -> Entry]]
      BY <3>0, <3>1
    <3> QED  BY <2>10, <3>2 DEF DumpStatsSince, memory, file, promise
  <2>11. ASSUME NEW t \in Threads, DumpEnd(t) PROVE TypeOK'
    BY <2>11 DEF DumpEnd, memory, file, saving, promise
  <2>12. ASSUME NEW t \in Threads, Replace(t) PROVE TypeOK'
    BY <2>12 DEF Replace, memory, saving, promise
  <2>13. ASSUME NEW t \in Threads, ClearDirty(t) PROVE TypeOK'
    BY <2>13 DEF ClearDirty, EndSave, Returned, file, promise
  <2>14. ASSUME NEW t \in Threads, DictChanged(t) PROVE TypeOK'
    BY <2>14 DEF DictChanged, EndSave, memory, file, promise
  <2>15. ASSUME NEW t \in Threads, SaveFails(t) PROVE TypeOK'
    BY <2>15 DEF SaveFails, EndSave, Returned, memory, file, promise
  <2>16. CASE Shutdown
    BY <2>16 DEF Shutdown, BeginSave, memory, file, saving, promise
  <2>17. CASE CloseAgents
    BY <2>17 DEF CloseAgents, BeginSave, memory, file, saving, promise
  <2>18. CASE Exit
    BY <2>18 DEF Exit, Forget, file, promise
  <2>19. CASE Crash
    BY <2>19 DEF Crash, Forget, file, promise
  <2>20. ASSUME NEW ok \in BOOLEAN, Start(ok) PROVE TypeOK'
    BY <2>20 DEF Start, Owed, file, saving
  <2>21. CASE UNCHANGED vars
    BY <2>21 DEF vars, memory, file, saving, promise
  <2> QED
    BY <2>1, <2>2, <2>3, <2>4, <2>5, <2>6, <2>7, <2>8, <2>9, <2>10, <2>11, <2>12,
       <2>13, <2>14, <2>15, <2>16, <2>17, <2>18, <2>19, <2>20, <2>21
    DEF Next, Update, Save, Life
<1> QED
  BY <1>1, <1>2, PTL DEF Spec
-----------------------------------------------------------------------------
(* The strengthening behind the promise. *)

Covers(v, k) == v >= carried[k] /\ (k \in served => v >= published[k])
Updating(k) == pc[Loop] \in UpdateSteps /\ call.key = k
Dumping == {"dump", "dump_last_raw", "dump_stats_since", "replace", "clear"}

(* Where the event loop can be in each phase of the process. *)
InvPhase ==
  /\ phase = "up" => pc[Loop] \notin SaveSteps
  /\ phase = "closing" => pc[Loop] \in SaveSteps
  /\ phase \in {"stopped", "down"} => pc[Loop] = "idle"

(* Outside an update, every entry already stands for what was answered and  *)
(* for what a clean restart carried over; a counter without an entry owes   *)
(* nothing.                                                                 *)
InvEntries ==
  phase # "down" =>
    /\ served \subseteq known
    /\ \A k \in Keys \ known : carried[k] = 0
    /\ \A k \in known : ~Updating(k) => Covers(Value(state[k]), k)

(* Inside one, the call does, and the entry is being brought up to it.      *)
InvCall ==
  pc[Loop] \in UpdateSteps =>
    /\ call.key \in known
    /\ Covers(Value(call.new), call.key)
    /\ pc[Loop] # "set_offset" => state[call.key].offset = call.new.offset
    /\ pc[Loop] = "set_stats_since" => state[call.key].last_raw = call.new.last_raw

(* The event loop's own dump is exact: it is the only writer of entries.    *)
InvDump ==
  pc[Loop] \in Dumping =>
    /\ walked[Loop] = known /\ dumped[Loop] \subseteq known
    /\ \A k \in dumped[Loop] : image[Loop][k] = state[k]
    /\ pc[Loop] \in {"dump_last_raw", "dump_stats_since"} =>
         /\ at[Loop] \in known
         /\ image[Loop][at[Loop]].offset = state[at[Loop]].offset
    /\ pc[Loop] = "dump_stats_since" =>
         image[Loop][at[Loop]].last_raw = state[at[Loop]].last_raw
    /\ pc[Loop] \in {"replace", "clear"} => dumped[Loop] = known

(* What the file holds once the shutdown's last save has the last word. *)
InvFinal ==
  /\ phase = "closing" /\ pc[Loop] # "clear" => ~final
  /\ final /\ phase \in {"closing", "stopped"} =>
       diskKeys = known /\ \A k \in known : disk[k] = state[k]
  /\ final /\ phase = "down" =>
       \A k \in Keys : IF k \in diskKeys THEN Value(disk[k]) >= Owed[k] ELSE Owed[k] = 0

Inv == InvPhase /\ InvEntries /\ InvCall /\ InvDump /\ InvFinal
-----------------------------------------------------------------------------
(* A process that has just started on an empty store owes nothing. *)
LEMMA InvInit == Init => Inv
BY Sentinels DEF Init, Inv, InvPhase, InvEntries, InvCall, InvDump, InvFinal, Dumping,
   Nothing, SaveSteps, UpdateSteps, Threads, Loop, Poll

(* Every step of either thread preserves the strengthening. *)
LEMMA InvStep == TypeOK /\ Inv /\ [Next]_vars => Inv'
<1> SUFFICES ASSUME TypeOK, Inv, [Next]_vars PROVE Inv'
  OBVIOUS
<1> USE Sentinels
<1> USE DEF TypeOK, Inv, InvPhase, InvEntries, InvCall, InvDump, InvFinal, Value, Covers,
    Updating, Dumping, SaveSteps, UpdateSteps, Threads, Loop, Poll, Entry, Owed, Nothing
<1>1. ASSUME NEW k \in Keys, NEW r \in Readings[k], UpdateNew(k, Clamp(r[1]), r[2])
      PROVE  Inv'
  BY <1>1 DEF UpdateNew, First, Answering, Answer, Clamp, file, saving
<1>2. ASSUME NEW k \in Keys, NEW r \in Readings[k], UpdateKnown(k, Clamp(r[1]), r[2])
      PROVE  Inv'
  BY <1>2 DEF UpdateKnown, Updated, Answering, Fold, ResetByValue, Clamp, file, saving, promise
<1>3. CASE SetOffset
  BY <1>3 DEF SetOffset, file, saving, promise
<1>4. CASE SetLastRaw
  BY <1>4 DEF SetLastRaw, file, saving, promise
<1>5. CASE SetStatsSince
  BY <1>5 DEF SetStatsSince, Answer, file, saving
<1>6. CASE PollSave
  BY <1>6 DEF PollSave, BeginSave, memory, file, saving, promise
<1>7. ASSUME NEW t \in Threads, Open(t) PROVE Inv'
  BY <1>7 DEF Open, memory, file, promise
<1>8. ASSUME NEW t \in Threads, NEW k \in Keys, DumpOffset(t, k) PROVE Inv'
  BY <1>8 DEF DumpOffset, Resized, memory, file, promise
<1>9. ASSUME NEW t \in Threads, DumpLastRaw(t) PROVE Inv'
  <2>1. InvPhase' /\ InvEntries' /\ InvCall' /\ InvFinal'
    BY <1>9 DEF DumpLastRaw, memory, file, promise
  <2>2. InvDump'
    <3>1. CASE t = Poll
      BY <1>9, <3>1 DEF DumpLastRaw, memory, file, promise
    <3>2. CASE t = Loop
      <4> DEFINE row == [image[t] EXCEPT ![at[t]].last_raw = state[at[t]].last_raw]
      <4>1. /\ image[t] \in [Keys -> Entry] /\ at[t] \in known
            /\ image'[t] = row
        BY <1>9, <3>2 DEF DumpLastRaw, memory, file, promise
      <4>2. row[at[t]] = [image[t][at[t]] EXCEPT !.last_raw = state[at[t]].last_raw]
            /\ \A k \in Keys \ {at[t]} : row[k] = image[t][k]
        BY <4>1
      <4> QED
        BY <1>9, <3>2, <4>1, <4>2 DEF DumpLastRaw, memory, file, promise
    <3> QED  BY <3>1, <3>2
  <2> QED  BY <2>1, <2>2
<1>10. ASSUME NEW t \in Threads, DumpStatsSince(t) PROVE Inv'
  <2>1. InvPhase' /\ InvEntries' /\ InvCall' /\ InvFinal'
    BY <1>10 DEF DumpStatsSince, memory, file, promise
  <2>2. InvDump'
    <3>1. CASE t = Poll
      BY <1>10, <3>1 DEF DumpStatsSince, memory, file, promise
    <3>2. CASE t = Loop
      <4> DEFINE row == [image[t] EXCEPT ![at[t]].stats_since = state[at[t]].stats_since]
      <4>1. /\ image[t] \in [Keys -> Entry] /\ at[t] \in known
            /\ image'[t] = row
        BY <1>10, <3>2 DEF DumpStatsSince, memory, file, promise
      <4>2. row[at[t]] = [image[t][at[t]] EXCEPT !.stats_since = state[at[t]].stats_since]
            /\ \A k \in Keys \ {at[t]} : row[k] = image[t][k]
        BY <4>1
      <4>3. row[at[t]] = state[at[t]]
        <5> DEFINE a == image[t][at[t]]
                   b == state[at[t]]
        <5>1. a \in Entry /\ b \in Entry /\ a.offset = b.offset /\ a.last_raw = b.last_raw
          BY <1>10, <3>2, <4>1 DEF DumpStatsSince
        <5>2. [a EXCEPT !.stats_since = b.stats_since] = b
          BY <5>1 DEF Entry
        <5> QED  BY <4>2, <5>2
      <4> QED
        BY <1>10, <3>2, <4>1, <4>2, <4>3 DEF DumpStatsSince, memory, file, promise
    <3> QED  BY <3>1, <3>2
  <2> QED  BY <2>1, <2>2
<1>11. ASSUME NEW t \in Threads, DumpEnd(t) PROVE Inv'
  BY <1>11 DEF DumpEnd, memory, file, saving, promise
<1>12. ASSUME NEW t \in Threads, Replace(t) PROVE Inv'
  BY <1>12 DEF Replace, memory, saving, promise
<1>13. ASSUME NEW t \in Threads, ClearDirty(t) PROVE Inv'
  BY <1>13 DEF ClearDirty, EndSave, Returned, file, promise
<1>14. ASSUME NEW t \in Threads, DictChanged(t) PROVE Inv'
  BY <1>14 DEF DictChanged, EndSave, Resized, memory, file, promise
<1>15. ASSUME NEW t \in Threads, SaveFails(t) PROVE Inv'
  BY <1>15 DEF SaveFails, EndSave, Returned, memory, file, promise
<1>16. CASE Shutdown
  BY <1>16 DEF Shutdown, BeginSave, memory, file, saving, promise
<1>17. CASE CloseAgents
  BY <1>17 DEF CloseAgents, BeginSave, memory, file, saving, promise
<1>18. CASE Exit
  BY <1>18 DEF Exit, Forget, file, promise
<1>19. CASE Crash
  BY <1>19 DEF Crash, Forget, file, promise
<1>20. ASSUME NEW ok \in BOOLEAN, Start(ok) PROVE Inv'
  BY <1>20 DEF Start, file, saving
<1>21. CASE UNCHANGED vars
  BY <1>21 DEF vars, memory, file, saving, promise
<1> QED
  BY <1>1, <1>2, <1>3, <1>4, <1>5, <1>6, <1>7, <1>8, <1>9, <1>10, <1>11,
     <1>12, <1>13, <1>14, <1>15, <1>16, <1>17, <1>18, <1>19, <1>20, <1>21
  DEF Next, Update, Save, Life

(* The store's steps are MonotonicCounter's: an answer is never lower than  *)
(* an earlier one of the same process, nor, after a shutdown whose last     *)
(* save had the last word, than those of the process before; for every set  *)
(* of counters and every reading the API can report (counters.py, update    *)
(* and save).                                                               *)
THEOREM KeepsPromise == Spec => Promise
<1>1. Init => M!Init
  BY DEF Init, M!Init, M!Nothing, Nothing
<1>2. TypeOK /\ Inv /\ [Next]_vars => [M!Next]_M!promise
  <2> SUFFICES ASSUME TypeOK, Inv, [Next]_vars, promise' # promise
               PROVE  M!Next
    BY DEF M!promise, promise
  <2> USE DEF M!Next, M!Serve, M!Restart, M!Owed, M!Nothing
  <2>1. ASSUME NEW k \in Keys, NEW r \in Readings[k], UpdateNew(k, Clamp(r[1]), r[2])
        PROVE  M!Serve(k)
    BY <2>1, ReadingTypes DEF UpdateNew, Answer, Answering, TypeOK, Inv, InvEntries
  <2>2. CASE SetStatsSince
    <3>1. /\ call.key \in Keys /\ Value(call.new) \in Nat
          /\ Covers(Value(call.new), call.key)
      BY <2>2 DEF SetStatsSince, TypeOK, Inv, InvCall, UpdateSteps, Value, Entry
    <3> QED  BY <2>2, <3>1 DEF SetStatsSince, Answer, Covers, TypeOK
  <2>3. ASSUME NEW ok \in BOOLEAN, Start(ok) PROVE M!Restart
    BY <2>3 DEF Start, Owed, Nothing
  <2> QED
    BY <2>1, <2>2, <2>3
    DEF Next, Update, UpdateKnown, SetOffset, SetLastRaw, PollSave, BeginSave, Save, Open,
        DumpOffset, DumpLastRaw, DumpStatsSince, DumpEnd, Replace, ClearDirty, DictChanged,
        SaveFails, EndSave, Life, Shutdown, CloseAgents, Exit, Crash, vars, promise
<1> QED
  BY <1>1, <1>2, TypeCorrect, InvInit, InvStep, PTL DEF Spec, Promise, M!Spec

(* What a clean shutdown leaves in the file is what memory held, although   *)
(* another thread may have been dumping and renaming the same file.         *)
THEOREM CleanShutdownIsExact == Spec => []CleanImage
<1>1. Inv => CleanImage
  BY DEF Inv, InvFinal, CleanImage
<1> QED
  BY <1>1, TypeCorrect, InvInit, InvStep, PTL DEF Spec

(* The forced saves of a shutdown, the one of the signal handler and the    *)
(* last, write exactly what memory holds when they are renamed into place,  *)
(* and never meet the RuntimeError of a dictionary that changes under them, *)
(* which would leave the signal handler before it has set "stopping".       *)
ForcedSavesAreExact ==
  [][/\ pc[Loop] = "dump" => ~Resized(Loop)
     /\ pc[Loop] = "replace" /\ pc'[Loop] = "clear" =>
          diskKeys' = known /\ \A k \in known : disk'[k] = state[k]]_vars

(* Whatever the poll thread dumps, renames or adds meanwhile.               *)
THEOREM ForcedSaves == Spec => ForcedSavesAreExact
<1>1. ASSUME TypeOK, Inv, [Next]_vars, pc[Loop] = "replace", pc'[Loop] = "clear"
      PROVE  diskKeys' = known /\ \A k \in known : disk'[k] = state[k]
  <2>1. Replace(Loop)
    BY <1>1 DEF TypeOK, Threads, Loop, Poll, Next, Update, UpdateNew, UpdateKnown, Answering,
       SetOffset, SetLastRaw, SetStatsSince, PollSave, BeginSave, Save, Open, DumpOffset,
       DumpLastRaw, DumpStatsSince, DumpEnd, Replace, ClearDirty, DictChanged, SaveFails, EndSave,
       Life, Shutdown, CloseAgents, Exit, Crash, Forget, Start, vars, saving
  <2>2. dumped[Loop] = known /\ \A k \in known : image[Loop][k] = state[k]
    BY <1>1 DEF Inv, InvDump, Dumping
  <2> QED
    BY <2>1, <2>2 DEF Replace
<1>2. Inv /\ pc[Loop] = "dump" => ~Resized(Loop)
  BY DEF Inv, InvDump, Dumping, Resized
<1> QED
  BY <1>1, <1>2, TypeCorrect, InvInit, InvStep, PTL DEF Spec, ForcedSavesAreExact
=============================================================================
