---------------------------- MODULE CounterUpdate ----------------------------
(***************************************************************************)
(* The arithmetic of CounterStore.update in counters.py: how one reading   *)
(* of one counter changes its entry.                                       *)
(***************************************************************************)
EXTENDS Integers

Entry == [offset : Nat, last_raw : Nat, stats_since : Nat]
Blank == [offset |-> 0, last_raw |-> 0, stats_since |-> 0]

(* The value published for an entry. *)
Value(e) == e.offset + e.last_raw

(* raw = max(0, int(raw)); the mutant stores a negative reading as it came. *)
MutantClamp(raw) == raw
Clamp(raw) == IF raw < 0 THEN 0 ELSE raw

(* The first reading of a counter. *)
First(raw, since) == [offset |-> 0, last_raw |-> raw, stats_since |-> since]

(* The two signals of a reset: statsSinceTs advances, or the value falls.   *)
(* 0 is an absent statsSinceTs.  The mutant ignores the fall.               *)
ResetByTs(e, since) == since # 0 /\ e.stats_since # 0 /\ since > e.stats_since
MutantResetByValue(e, raw) == FALSE
ResetByValue(e, raw) == raw < e.last_raw

(* Either folds the last raw value into the offset; the mutant folds what   *)
(* the reading differs by.                                                  *)
MutantFold(e, raw, since) ==
  IF ResetByTs(e, since) \/ ResetByValue(e, raw) THEN e.offset + e.last_raw - raw ELSE e.offset
Fold(e, raw, since) ==
  IF ResetByTs(e, since) \/ ResetByValue(e, raw) THEN e.offset + e.last_raw ELSE e.offset

(* What update compares to decide whether there is anything to save. *)
Changed(e, raw, since) == raw # e.last_raw \/ since # e.stats_since

(* since or prev_since; the mutant never moves on from the first timestamp. *)
MutantKeep(e, since) == IF e.stats_since # 0 THEN e.stats_since ELSE since
Keep(e, since) == IF since # 0 THEN since ELSE e.stats_since

Updated(e, raw, since) ==
  [offset |-> Fold(e, raw, since), last_raw |-> raw, stats_since |-> Keep(e, since)]
=============================================================================
