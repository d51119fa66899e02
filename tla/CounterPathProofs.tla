--------------------------- MODULE CounterPathProofs ---------------------------
(***************************************************************************)
(* What CounterPath.tla publishes, for any number of events and restarts,  *)
(* any omissions and any counter width.  The argument: every reading and   *)
(* every entry of the store stems from a moment of the switch's past, and  *)
(* two moments tell how much traffic lies between them.  That past is not  *)
(* in the state; the invariant says that there is one, T, the traffic at   *)
(* each event, that accounts for all that is held (History, Ledger).       *)
(***************************************************************************)
EXTENDS CounterPath, TLAPS

(* From the reading (raw, since) of moment "at" to a later one: the counter *)
(* went on, or it was reset and now holds part of the traffic in between.   *)
Grows(T, raw, since, at, b) ==
  at <= b.at =>
    /\ T[at] <= T[b.at]
    /\ \/ b.raw = raw + (T[b.at] - T[at]) /\ b.since = since
       \/ b.raw <= T[b.at] - T[at]

(* A reading that tells what its statsSinceTs is. *)
Stamped(b) == "since" \notin b.lacks

(* The readings S, and the switch sw that has counted n, agree with T. *)
Past(T, sw, n) ==
  /\ T \in [Nat -> Nat] /\ T[0] = 0 /\ T[sw.at] = n
  /\ sw \in Reading /\ 1 <= sw.at /\ 1 <= sw.since /\ sw.raw <= n
Sound(T, sw, b) ==
  /\ b \in Reading /\ b.at <= sw.at /\ b.raw <= T[b.at]
  /\ b.lacks = {} /\ 1 <= b.at => 1 <= b.since
  /\ Stamped(b) => Grows(T, sw.raw, sw.since, sw.at, b)
  /\ b.lacks = {} => Grows(T, b.raw, b.since, b.at, sw)
History(T, S, sw, n) ==
  /\ Past(T, sw, n)
  /\ \A b \in S : Sound(T, sw, b)
  /\ \A a, b \in S : a.lacks = {} /\ Stamped(b) => Grows(T, a.raw, a.since, a.at, b)

(* So do the entries E of the store: none is ahead of the traffic. *)
Accounted(T, sw, e) ==
  /\ e \in DatedEntry /\ e.at <= sw.at /\ Value(e) <= T[e.at]
  /\ Grows(T, e.last_raw, e.stats_since, e.at, sw)
Ledger(T, S, E, sw) ==
  /\ \A e \in E : Accounted(T, sw, e)
  /\ \A e \in E, b \in S : Stamped(b) => Grows(T, e.last_raw, e.stats_since, e.at, b)
-----------------------------------------------------------------------------
(* A reading taken now, and none at all, can join the readings. *)
LEMMA GrowsToNone ==
  ASSUME NEW T \in [Nat -> Nat], NEW raw \in Nat, NEW since \in Nat, NEW at \in Nat
  PROVE  Grows(T, raw, since, at, None)
<1>1. None.at = 0 /\ None.raw = 0
  BY DEF None
<1>2. at <= 0 => at = 0
  OBVIOUS
<1>3. T[0] \in Nat
  OBVIOUS
<1> QED
  BY <1>1, <1>2, <1>3 DEF Grows

LEMMA GrowsToReport ==
  ASSUME NEW n, switch \in Reading, NEW T, Past(T, switch, n), NEW raw \in Nat, NEW since \in Nat,
         NEW at \in Nat, Grows(T, raw, since, at, switch), Stamped(switch)
  PROVE  Grows(T, raw, since, at, Report)
<1>1. /\ Report.at = switch.at
      /\ Report.raw = 0 \/ (Report.raw = switch.raw /\ Report.since = switch.since)
  BY DEF Report, Reading, Stamped
<1>2. T[at] \in Nat /\ T[switch.at] \in Nat
  BY DEF Past, Reading
<1> QED
  BY <1>1, <1>2 DEF Grows

LEMMA ReportIs ==
  ASSUME switch \in Reading
  PROVE  /\ Report \in Reading /\ Report.at = switch.at /\ Report.lacks = switch.lacks
         /\ Report.raw \in Nat /\ Report.raw <= switch.raw
         /\ Report.lacks = {} => Report = switch
<1>1. switch.raw \in Nat /\ switch.since \in Nat
  BY DEF Reading
<1> DEFINE raw == IF switch.lacks \cap {"counter", "port"} = {} THEN switch.raw ELSE 0
           since == IF switch.lacks \cap {"since", "port"} = {} THEN switch.since ELSE 0
           cleared == [switch EXCEPT !.raw = raw]
<1>2. raw \in Nat /\ raw <= switch.raw /\ since \in Nat
  BY <1>1
<1>3. Report = [cleared EXCEPT !.since = since]
  BY DEF Report
<1>4. switch.lacks = {} => raw = switch.raw /\ since = switch.since
  OBVIOUS
<1> HIDE DEF raw, since
<1>5. cleared \in Reading /\ cleared.raw = raw /\ cleared.at = switch.at
      /\ cleared.lacks = switch.lacks
  BY <1>2 DEF Reading
<1>6. switch.lacks = {} => cleared = switch
  BY <1>4 DEF Reading
<1>10. cleared.since = switch.since
  BY DEF Reading
<1> HIDE DEF cleared
<1>7. Report \in Reading
  BY <1>2, <1>3, <1>5 DEF Reading
<1>8. Report.raw = raw /\ Report.at = switch.at /\ Report.lacks = switch.lacks
  BY <1>3, <1>5 DEF Reading
<1>9. switch.lacks = {} => Report = switch
  BY <1>3, <1>4, <1>6, <1>10 DEF Reading
<1> QED
  BY <1>2, <1>7, <1>8, <1>9

LEMMA ReportIsSound ==
  ASSUME NEW n, NEW T, Past(T, switch, n)
  PROVE  /\ Sound(T, switch, Report) /\ Sound(T, switch, None)
         /\ Report.lacks = {} => Report = switch
<1>1. /\ Report \in Reading /\ Report.raw \in Nat /\ Report.raw <= switch.raw
      /\ Report.lacks = {} => Report = switch
  BY ReportIs DEF Past
<1>0. Report.at = switch.at /\ Report.lacks = switch.lacks
  BY ReportIs DEF Past
<1>2. /\ switch \in Reading /\ switch.raw \in Nat /\ switch.since \in Nat /\ switch.at \in Nat
      /\ T \in [Nat -> Nat] /\ T[switch.at] = n /\ n \in Nat /\ T[0] = 0
      /\ 1 <= switch.at /\ 1 <= switch.since /\ switch.raw <= n
  BY DEF Past, Reading
<1>3. Grows(T, switch.raw, switch.since, switch.at, switch)
  BY <1>2 DEF Grows
<1>4. Stamped(Report) => Grows(T, switch.raw, switch.since, switch.at, Report)
  BY <1>0, <1>2, <1>3, GrowsToReport DEF Stamped
<1>5. Report.lacks = {} => Grows(T, Report.raw, Report.since, Report.at, switch)
  BY <1>1, <1>3
<1>6. Sound(T, switch, Report)
  <2>2. Report.raw <= T[Report.at]
    <3>1. Report.raw \in Nat /\ Report.raw <= switch.raw /\ switch.raw <= n
          /\ switch.raw \in Nat /\ n \in Nat
      BY <1>1, <1>2
    <3>2. T[Report.at] = n
      BY <1>0, <1>2
    <3> QED
      BY <3>1, <3>2
  <2>3. Report.at <= switch.at
    BY <1>0, <1>2
  <2>4. Report.lacks = {} => 1 <= Report.since
    BY <1>1, <1>2
  <2> QED
    BY <1>1, <1>4, <1>5, <2>2, <2>3, <2>4 DEF Sound
<1>7. Sound(T, switch, None)
  <2>1. None.at = 0 /\ None.raw = 0 /\ None.since = 0 /\ None \in Reading
    BY DEF None, Reading
  <2>2. Grows(T, switch.raw, switch.since, switch.at, None)
    BY <1>2, GrowsToNone
  <2>3. Grows(T, None.raw, None.since, None.at, switch)
    BY <1>2, <2>1 DEF Grows
  <2>4. None.at <= switch.at /\ None.raw <= T[None.at] /\ ~(1 <= None.at)
    BY <1>2, <2>1
  <2> QED
    BY <2>1, <2>2, <2>3, <2>4 DEF Sound
<1> QED
  BY <1>1, <1>6, <1>7

LEMMA Joins ==
  ASSUME NEW T, NEW S, NEW n, History(T, S, switch, n)
  PROVE  History(T, S \cup {None, Report}, switch, n)
<1>1. /\ Past(T, switch, n) /\ T \in [Nat -> Nat] /\ T[0] = 0 /\ switch \in Reading
      /\ switch.at \in Nat
  BY DEF History, Past, Reading
<1>2. \A b \in S \cup {None, Report} : Sound(T, switch, b)
  BY <1>1, ReportIsSound DEF History
<1>3. ASSUME NEW a \in S \cup {None, Report}, NEW b \in S \cup {None, Report}, a.lacks = {},
             Stamped(b)
      PROVE  Grows(T, a.raw, a.since, a.at, b)
  <2>1. /\ a.raw \in Nat /\ a.since \in Nat /\ a.at \in Nat
        /\ b.raw \in Nat /\ b.since \in Nat /\ b.at \in Nat
        /\ b.raw <= T[b.at] /\ Grows(T, a.raw, a.since, a.at, switch)
    BY <1>2, <1>3 DEF Sound, Reading
  <2>2. CASE b = None
    BY <1>1, <2>1, <2>2, GrowsToNone
  <2>3. CASE b = Report
    <3>1. Stamped(switch)
      BY <1>1, <1>3, <2>3, ReportIs DEF Stamped
    <3> QED
      BY <1>1, <2>1, <2>3, <3>1, GrowsToReport
  <2>4. CASE a = None
    <3>1. a.raw = 0 /\ a.at = 0
      BY <2>4 DEF None
    <3>2. T[b.at] \in Nat
      BY <1>1, <2>1
    <3> QED
      BY <1>1, <2>1, <3>1, <3>2 DEF Grows
  <2>5. CASE a = Report
    <3>1. a = switch
      BY <1>1, <1>3, <2>5, ReportIsSound
    <3> QED
      BY <1>2, <1>3, <3>1 DEF Sound
  <2>6. CASE a \in S /\ b \in S
    BY <1>3, <2>6 DEF History
  <2> QED
    BY <2>2, <2>3, <2>4, <2>5, <2>6
<1> QED
  BY <1>1, <1>2, <1>3 DEF History

LEMMA LedgerJoins ==
  ASSUME NEW T, NEW S, NEW E, NEW n, Past(T, switch, n), Ledger(T, S, E, switch)
  PROVE  Ledger(T, S \cup {None, Report}, E, switch)
<1> SUFFICES ASSUME NEW e \in E, NEW b \in {None, Report}, Stamped(b)
             PROVE  Grows(T, e.last_raw, e.stats_since, e.at, b)
  BY DEF Ledger
<1>1. /\ e.last_raw \in Nat /\ e.stats_since \in Nat /\ e.at \in Nat
      /\ Grows(T, e.last_raw, e.stats_since, e.at, switch)
  BY DEF Ledger, Accounted, DatedEntry
<1>2. T \in [Nat -> Nat] /\ switch \in Reading
  BY DEF Past
<1>3. CASE b = None
  BY <1>1, <1>2, <1>3, GrowsToNone
<1>4. CASE b = Report
  <2>1. Stamped(switch)
    BY <1>2, <1>4, ReportIs DEF Stamped
  <2> QED
    BY <1>1, <1>2, <1>4, <2>1, GrowsToReport
<1> QED
  BY <1>3, <1>4
-----------------------------------------------------------------------------
(* What happens at the source extends the past by one moment. *)
LEMMA SourceMoves ==
  ASSUME NEW T, NEW S, NEW sw, NEW n, History(T, S, sw, n),
         NEW sw2 \in Reading, NEW n2 \in Nat, sw2.at = sw.at + 1, 1 <= sw2.since,
         \/ n2 = n /\ sw2.raw = 0
         \/ n2 - n \in 0..1 /\ sw2.raw = sw.raw + (n2 - n) /\ sw2.since = sw.since
  PROVE  \E T2 : /\ History(T2, S, sw2, n2)
                 /\ \A E : Ledger(T, S, E, sw) => Ledger(T2, S, E, sw2)
<1> DEFINE T2 == [T EXCEPT ![sw2.at] = n2]
<1>1. /\ T \in [Nat -> Nat] /\ T[0] = 0 /\ T[sw.at] = n /\ n \in Nat
      /\ sw \in Reading /\ sw.at \in Nat /\ sw.raw \in Nat /\ sw.since \in Nat
      /\ 1 <= sw.at /\ sw.raw <= n
      /\ sw2.at \in Nat /\ sw2.raw \in Nat /\ sw2.since \in Nat
  BY DEF History, Past, Reading
<1>2. /\ T2 \in [Nat -> Nat] /\ T2[sw2.at] = n2
      /\ \A i \in Nat : i <= sw.at => T2[i] = T[i]
  BY <1>1
<1> HIDE DEF T2
<1>3. Past(T2, sw2, n2)
  <2>1. T2[0] = 0
    BY <1>1, <1>2
  <2>2. sw2.raw <= n2
    BY <1>1
  <2>3. 1 <= sw2.at
    BY <1>1
  <2> QED
    BY <1>2, <2>1, <2>2, <2>3 DEF Past
<1>4. ASSUME NEW raw \in Nat, NEW since \in Nat, NEW at \in Nat, at <= sw.at,
             Grows(T, raw, since, at, sw)
      PROVE  Grows(T2, raw, since, at, sw2)
  <2>1. T[at] \in Nat /\ T2[at] = T[at]
    BY <1>1, <1>2, <1>4
  <2>2. /\ T[at] <= n
        /\ (sw.raw = raw + (n - T[at]) /\ sw.since = since) \/ sw.raw <= n - T[at]
    BY <1>1, <1>4 DEF Grows
  <2>3. T2[at] <= n2
    BY <1>1, <2>1, <2>2
  <2>4. \/ sw2.raw = raw + (n2 - T[at]) /\ sw2.since = since
        \/ sw2.raw <= n2 - T[at]
    BY <1>1, <2>1, <2>2
  <2> QED
    BY <1>2, <2>1, <2>3, <2>4 DEF Grows
<1>5. ASSUME NEW raw, NEW since, NEW at \in Nat, NEW b \in Reading, at <= sw.at, b.at <= sw.at,
             Grows(T, raw, since, at, b)
      PROVE  Grows(T2, raw, since, at, b)
  <2>1. b.at \in Nat /\ T2[at] = T[at] /\ T2[b.at] = T[b.at]
    BY <1>2, <1>5 DEF Reading
  <2> QED
    BY <1>5, <2>1 DEF Grows
<1>6. ASSUME NEW b \in S PROVE Sound(T2, sw2, b) /\ b \in Reading /\ b.at \in Nat /\ b.at <= sw.at
                               /\ b.raw \in Nat /\ b.since \in Nat
  <2>1. /\ b \in Reading /\ b.at \in Nat /\ b.raw \in Nat /\ b.since \in Nat /\ b.at <= sw.at
        /\ b.raw <= T[b.at]
        /\ b.lacks = {} /\ 1 <= b.at => 1 <= b.since
        /\ b.lacks = {} => Grows(T, b.raw, b.since, b.at, sw)
    BY <1>6 DEF History, Sound, Reading
  <2>2. b.at <= sw2.at /\ ~(sw2.at <= b.at)
    <3>1. sw.at \in Nat /\ b.at \in Nat /\ b.at <= sw.at /\ sw2.at = sw.at + 1
      BY <1>1, <2>1
    <3> QED
      BY <3>1
  <2>3. Grows(T2, sw2.raw, sw2.since, sw2.at, b)
    BY <2>2 DEF Grows
  <2>4. b.lacks = {} => Grows(T2, b.raw, b.since, b.at, sw2)
    BY <1>4, <2>1
  <2>5. b.raw <= T2[b.at]
    BY <1>2, <2>1
  <2> QED
    BY <2>1, <2>2, <2>3, <2>4, <2>5 DEF Sound
<1>7. ASSUME NEW a \in S, NEW b \in S, a.lacks = {}, Stamped(b)
      PROVE  Grows(T2, a.raw, a.since, a.at, b)
  <2>1. Grows(T, a.raw, a.since, a.at, b)
    BY <1>7 DEF History
  <2> QED
    BY <1>5, <1>6, <2>1
<1>8. ASSUME NEW E, Ledger(T, S, E, sw) PROVE Ledger(T2, S, E, sw2)
  <2>1. ASSUME NEW e \in E
        PROVE  /\ e \in DatedEntry /\ e.last_raw \in Nat /\ e.stats_since \in Nat /\ e.at \in Nat
               /\ e.at <= sw.at /\ Value(e) <= T[e.at]
               /\ Grows(T, e.last_raw, e.stats_since, e.at, sw)
    BY <1>8, <2>1 DEF Ledger, Accounted, DatedEntry
  <2>2. ASSUME NEW e \in E PROVE Accounted(T2, sw2, e)
    <3>1. e.at <= sw2.at
      BY <1>1, <2>1
    <3>2. Value(e) <= T2[e.at]
      BY <1>2, <2>1
    <3>3. Grows(T2, e.last_raw, e.stats_since, e.at, sw2)
      BY <1>4, <2>1
    <3> QED
      BY <2>1, <3>1, <3>2, <3>3 DEF Accounted
  <2>3. ASSUME NEW e \in E, NEW b \in S, Stamped(b)
        PROVE  Grows(T2, e.last_raw, e.stats_since, e.at, b)
    <3>1. Grows(T, e.last_raw, e.stats_since, e.at, b)
      BY <1>8, <2>3 DEF Ledger
    <3> QED
      BY <1>5, <1>6, <2>1, <3>1
  <2> QED
    BY <2>2, <2>3 DEF Ledger
<1>9. History(T2, S, sw2, n2)
  BY <1>3, <1>6, <1>7 DEF History
<1> QED
  BY <1>8, <1>9
-----------------------------------------------------------------------------
(* A reading that is fed to the store dates its entry to itself. *)
LEMMA NewIs ==
  ASSUME entry \in DatedEntry, view \in Reading, NEW since \in Nat
  PROVE  /\ Dated(New(since), view.at) \in DatedEntry
         /\ Dated(New(since), view.at).at = view.at /\ Dated(New(since), view.at).last_raw = view.raw
         /\ Value(Dated(New(since), view.at)) = Value(New(since)) /\ Value(New(since)) \in Nat
         /\ Value(entry) \in Nat /\ Value(entry) <= Value(New(since))
         /\ since # 0 => Dated(New(since), view.at).stats_since = since
<1>1. /\ entry.offset \in Nat /\ entry.last_raw \in Nat /\ entry.stats_since \in Nat
      /\ view.raw \in Nat /\ view.at \in Nat
  BY DEF DatedEntry, Reading
<1>2. CASE entry = NoEntry
  <2>1. New(since) = First(view.raw, since)
    BY <1>2 DEF New
  <2>2. Value(entry) = 0
    BY <1>2 DEF NoEntry, Value
  <2> QED
    BY <1>1, <2>1, <2>2 DEF First, Dated, DatedEntry, Value
<1>3. CASE entry # NoEntry
  <2>1. New(since) = Updated(entry, view.raw, since)
    BY <1>3 DEF New
  <2>2. /\ New(since).last_raw = view.raw
        /\ New(since).stats_since = IF since # 0 THEN since ELSE entry.stats_since
        /\ New(since).offset = Fold(entry, view.raw, since)
    BY <2>1 DEF Updated, Keep
  <2>3. /\ Fold(entry, view.raw, since) \in Nat
        /\ entry.offset + entry.last_raw <= Fold(entry, view.raw, since) + view.raw
    BY <1>1 DEF Fold, ResetByTs, ResetByValue
  <2>4. Value(New(since)) = Fold(entry, view.raw, since) + view.raw
    BY <2>2 DEF Value
  <2>5. Value(entry) = entry.offset + entry.last_raw
    BY DEF Value
  <2> QED
    BY <1>1, <2>2, <2>3, <2>4, <2>5 DEF Dated, DatedEntry, Value
<1> QED
  BY <1>2, <1>3

(* The store adds no more than the traffic since its last reading. *)
LEMMA NewAddsTraffic ==
  ASSUME NEW T \in [Nat -> Nat], entry \in DatedEntry, view \in Reading,
         1 <= view.since, view.raw <= T[view.at],
         entry.at <= view.at, Value(entry) <= T[entry.at],
         Grows(T, entry.last_raw, entry.stats_since, entry.at, view)
  PROVE  Value(New(view.since)) <= T[view.at]
<1>1. /\ entry.offset \in Nat /\ entry.last_raw \in Nat /\ entry.stats_since \in Nat
      /\ entry.at \in Nat /\ view.raw \in Nat /\ view.since \in Nat /\ view.at \in Nat
      /\ T[view.at] \in Nat /\ T[entry.at] \in Nat
  BY DEF DatedEntry, Reading
<1>2. CASE entry = NoEntry
  <2>1. New(view.since) = First(view.raw, view.since)
    BY <1>2 DEF New
  <2> QED
    BY <1>1, <2>1 DEF First, Value
<1>3. CASE entry # NoEntry
  <2>1. New(view.since) = Updated(entry, view.raw, view.since)
    BY <1>3 DEF New
  <2>2. Value(New(view.since)) = Fold(entry, view.raw, view.since) + view.raw
    BY <2>1 DEF Updated, Value
  <2>3. /\ T[entry.at] <= T[view.at]
        /\ \/ view.raw = entry.last_raw + (T[view.at] - T[entry.at])
              /\ view.since = entry.stats_since
           \/ view.raw <= T[view.at] - T[entry.at]
    BY DEF Grows
  <2>4. entry.offset + entry.last_raw <= T[entry.at]
    BY DEF Value
  <2>5. CASE view.raw <= T[view.at] - T[entry.at]
    <3>1. Fold(entry, view.raw, view.since) <= entry.offset + entry.last_raw
      BY <1>1 DEF Fold
    <3>2. Fold(entry, view.raw, view.since) \in Nat
      BY <1>1 DEF Fold
    <3> QED
      BY <1>1, <2>2, <2>4, <2>5, <3>1, <3>2
  <2>6. CASE view.raw = entry.last_raw + (T[view.at] - T[entry.at])
             /\ view.since = entry.stats_since
    <3>1. Fold(entry, view.raw, view.since) = entry.offset
      BY <1>1, <2>3, <2>6 DEF Fold, ResetByTs, ResetByValue
    <3> QED
      BY <1>1, <2>2, <2>3, <2>4, <2>6, <3>1
  <2> QED
    BY <2>3, <2>5, <2>6
<1> QED
  BY <1>2, <1>3

(* So the ledger still balances ... *)
LEMMA NewIsAccounted ==
  ASSUME NEW T, NEW S, NEW E, NEW n, History(T, S, switch, n), Ledger(T, S, E, switch),
         view \in S, entry \in E, view.lacks = {}, 1 <= view.at, entry.at <= view.at
  PROVE  Ledger(T, S, E \cup {Dated(New(view.since), view.at)}, switch)
<1>1. /\ T \in [Nat -> Nat] /\ switch \in Reading /\ switch.at \in Nat
      /\ view \in Reading /\ view.at \in Nat /\ view.at <= switch.at /\ view.raw <= T[view.at]
      /\ 1 <= view.since /\ view.since \in Nat /\ view.since # 0
      /\ Grows(T, view.raw, view.since, view.at, switch)
      /\ \A b \in S : Stamped(b) => Grows(T, view.raw, view.since, view.at, b)
  BY DEF History, Past, Sound, Reading
<1>2. /\ entry \in DatedEntry /\ Value(entry) <= T[entry.at]
      /\ Grows(T, entry.last_raw, entry.stats_since, entry.at, view)
  BY DEF Ledger, Accounted, Stamped
<1>3. Value(New(view.since)) <= T[view.at]
  BY <1>1, <1>2, NewAddsTraffic
<1> DEFINE e == Dated(New(view.since), view.at)
<1>4. /\ e \in DatedEntry /\ e.at = view.at /\ e.last_raw = view.raw /\ e.stats_since = view.since
      /\ Value(e) = Value(New(view.since))
  BY <1>1, <1>2, NewIs
<1> HIDE DEF e
<1>5. Accounted(T, switch, e)
  BY <1>1, <1>3, <1>4 DEF Accounted
<1>6. \A b \in S : Stamped(b) => Grows(T, e.last_raw, e.stats_since, e.at, b)
  BY <1>1, <1>4
<1>7. Ledger(T, S, E \cup {e}, switch)
  BY <1>5, <1>6 DEF Ledger
<1> QED
  BY <1>7 DEF e

(* ... and no entry in it is ahead of the switch. *)
LEMMA NoneIsAhead ==
  ASSUME NEW T, NEW S, NEW E, NEW sw, NEW n, History(T, S, sw, n), Ledger(T, S, E, sw), NEW e \in E
  PROVE  Value(e) <= n
<1>1. /\ T \in [Nat -> Nat] /\ sw \in Reading /\ sw.at \in Nat /\ T[sw.at] = n
  BY DEF History, Past, Reading
<1>2. /\ e \in DatedEntry /\ e.at \in Nat /\ e.offset \in Nat /\ e.last_raw \in Nat
      /\ e.at <= sw.at /\ Value(e) <= T[e.at] /\ Grows(T, e.last_raw, e.stats_since, e.at, sw)
  BY DEF Ledger, Accounted, DatedEntry
<1>3. T[e.at] <= n /\ T[e.at] \in Nat /\ n \in Nat
  BY <1>1, <1>2 DEF Grows
<1>4. Value(e) \in Nat
  BY <1>2 DEF Value
<1> QED
  BY <1>2, <1>3, <1>4
-----------------------------------------------------------------------------
(* No mishap of those that can overstate the traffic. *)
Clean == mishaps \cap {"torn", "aged", "mixed", "zeroed", "undated"} = {}

OrderInv ==
  /\ mode = "down" => poll = "idle" /\ fed = NoEntry
  /\ mode # "down" => 1 <= view.at
  /\ poll # "idle" => 1 <= fetched.at
  /\ cache # None => 1 <= cache.at
  /\ 1 <= switch.at
  /\ poll = "fetched" => view.at <= fetched.at
  /\ view.at <= switch.at /\ cache.at <= switch.at /\ fetched.at <= switch.at
  /\ Clean /\ mode # "down" => entry.at <= view.at /\ fed.at <= view.at

(* The entries that are, or may come to be, the store's or the file's.  A   *)
(* file that mixes moments is not among them until a process resumes from   *)
(* it, which is a mishap.                                                   *)
Books == {NoEntry, entry, fed} \cup held \cup {e \in {file} : ~Mixed(e)}

Accounts(T, S, E, sw, n, clean) == History(T, S, sw, n) /\ (clean => Ledger(T, S, E, sw))
AccountsInv == \E T : Accounts(T, {view, fetched, cache}, Books, switch, total, Clean)

(* Mishaps other than an overstatement show in what the answers do.         *)
AnswersInv ==
  /\ Clean => published <= total
  /\ answered \/ "lost" \notin mishaps => published <= Value(entry)
  /\ fed # NoEntry => Value(entry) <= Value(fed)
  /\ mishaps = {} => graphed <= published

Inv == TypeOK /\ OrderInv /\ AccountsInv /\ AnswersInv

LEMMA InitTypes == Init => TypeOK /\ OrderInv
<1> SUFFICES ASSUME Init PROVE TypeOK /\ OrderInv
  OBVIOUS
<1>1. None \in Reading /\ NoEntry \in DatedEntry /\ None.at = 0 /\ NoEntry.at = 0
  BY DEF None, Reading, NoEntry, DatedEntry
<1>2. switch \in Reading /\ switch.at = 1
  BY DEF Init, Reading
<1>3. TypeOK
  BY <1>1, <1>2 DEF Init, TypeOK
<1>4. OrderInv
  BY <1>1, <1>2 DEF Init, OrderInv
<1> QED
  BY <1>3, <1>4

(* Folding, subtracting and folding again keeps natural numbers. *)
LEMMA ModuloIsNat ==
  ASSUME NEW m \in Nat \ {0}, NEW a \in Int
  PROVE  a % m \in Nat
OBVIOUS

(* What happens at the source, field by field. *)
LEMMA SourceFields ==
  ASSUME switch \in Reading, total \in Nat,
         Traffic \/ (\E silent \in BOOLEAN : Reset(silent))
           \/ (\E out \in Omissions \cup {{}} : Omit(out))
  PROVE  /\ switch' \in Reading /\ switch'.at = switch.at + 1 /\ switch'.since >= switch.since
         /\ total' \in Nat
         /\ \/ total' = total /\ switch'.raw = 0
            \/ /\ total' - total \in 0..1 /\ switch'.raw = switch.raw + (total' - total)
               /\ switch'.since = switch.since
<1>0. switch.at \in Nat /\ switch.raw \in Nat /\ switch.since \in Nat
  BY DEF Reading
<1>1. CASE Traffic
  <2> DEFINE r == [switch EXCEPT !.raw = switch.raw + 1]
  <2>1. /\ switch' = [switch EXCEPT !.raw = switch.raw + 1, !.at = switch.at + 1]
        /\ total' = total + 1
    BY <1>1 DEF Traffic
  <2>2. r \in Reading
    BY <1>0 DEF Reading
  <2>3. switch' = [r EXCEPT !.at = switch.at + 1]
    BY <2>1
  <2> HIDE DEF r
  <2>4. switch' \in Reading
    BY <1>0, <2>2, <2>3 DEF Reading
  <2>5. /\ switch'.raw = switch.raw + 1 /\ switch'.at = switch.at + 1
        /\ switch'.since = switch.since
    BY <2>1 DEF Reading
  <2>6. /\ switch'.since >= switch.since /\ total' \in Nat
        /\ total' - total \in 0..1 /\ switch'.raw = switch.raw + (total' - total)
    BY <1>0, <2>1, <2>5
  <2> QED
    BY <2>4, <2>5, <2>6
<1>2. ASSUME NEW silent \in BOOLEAN, Reset(silent)
      PROVE  /\ switch' \in Reading /\ switch'.at = switch.at + 1 /\ switch'.since >= switch.since
             /\ total' = total /\ switch'.raw = 0
  <2>1. PICK d \in 0..1 :
          /\ switch' = [switch EXCEPT !.raw = 0, !.since = switch.since + d, !.at = switch.at + 1]
          /\ total' = total
  <3> DEFINE d == IF silent THEN 0 ELSE 1
  <3>1. d \in 0..1
    OBVIOUS
  <3>2. /\ switch' = [switch EXCEPT !.raw = 0, !.since = switch.since + d, !.at = switch.at + 1]
        /\ total' = total
    BY <1>2 DEF Reset
  <3> HIDE DEF d
  <3> QED
    BY <3>1, <3>2
  <2> DEFINE r == [switch EXCEPT !.raw = 0]
             q == [r EXCEPT !.since = switch.since + d]
  <2>2. switch' = [q EXCEPT !.at = switch.at + 1]
    BY <2>1
  <2>3. r \in Reading
    BY DEF Reading
  <2> HIDE DEF r
  <2>4. q \in Reading
    BY <1>0, <2>3 DEF Reading
  <2> HIDE DEF q
  <2>5. switch' \in Reading
    BY <1>0, <2>2, <2>4 DEF Reading
  <2>6. switch'.raw = 0 /\ switch'.at = switch.at + 1 /\ switch'.since = switch.since + d
    BY <2>1 DEF Reading
  <2> QED
    BY <1>0, <2>1, <2>5, <2>6
<1>3. ASSUME NEW out \in Omissions \cup {{}}, Omit(out)
      PROVE  /\ switch' \in Reading /\ switch'.at = switch.at + 1 /\ switch'.since = switch.since
             /\ total' = total /\ switch'.raw = switch.raw
  <2> DEFINE r == [switch EXCEPT !.lacks = out]
  <2>1. switch' = [switch EXCEPT !.lacks = out, !.at = switch.at + 1] /\ total' = total
    BY <1>3 DEF Omit
  <2>2. out \in SUBSET {"counter", "since", "port"}
    BY OmissionsAssumption
  <2>3. r \in Reading
    BY <2>2 DEF Reading
  <2>4. switch' = [r EXCEPT !.at = switch.at + 1]
    BY <2>1
  <2> HIDE DEF r
  <2>5. switch' \in Reading
    BY <1>0, <2>3, <2>4 DEF Reading
  <2>6. /\ switch'.raw = switch.raw /\ switch'.at = switch.at + 1
        /\ switch'.since = switch.since
    BY <2>1 DEF Reading
  <2> QED
    BY <2>1, <2>5, <2>6
<1>4. total' = total => total' - total \in 0..1 /\ switch.raw = switch.raw + (total' - total)
  BY <1>0
<1>5. switch'.since = switch.since => switch'.since >= switch.since
  BY <1>0
<1> QED
  BY <1>1, <1>2, <1>3, <1>4, <1>5

(* Whatever the dump meets, what it writes is an entry, of no date if it    *)
(* mixes several.                                                           *)
LEMMA DumpsAreEntries ==
  ASSUME held \subseteq DatedEntry, fed \in DatedEntry
  PROVE  \A e \in Dumps : e \in DatedEntry /\ (e \in {NoEntry} \cup held \cup {fed} \/ Mixed(e))
<1> SUFFICES ASSUME NEW e \in Dumps
             PROVE  e \in DatedEntry /\ (e \in {NoEntry} \cup held \cup {fed} \/ Mixed(e))
  OBVIOUS
<1>1. Met \subseteq DatedEntry /\ Met \subseteq held \cup {fed} /\ NoEntry \in DatedEntry
  BY DEF Met, NoEntry, DatedEntry
<1>2. CASE e \in Mixtures
  <2>1. PICK f \in Met, g \in Met, h \in Met :
          e = [offset |-> f.offset, last_raw |-> g.last_raw, stats_since |-> h.stats_since, at |-> 0]
    BY <1>2 DEF Mixtures
  <2>2. f.offset \in Nat /\ g.last_raw \in Nat /\ h.stats_since \in Nat
    BY <1>1 DEF DatedEntry
  <2>3. e \in DatedEntry /\ e.at = 0
    BY <2>1, <2>2 DEF DatedEntry
  <2> QED
    BY <2>3 DEF Mixed
<1>3. CASE e \in Met \cup {NoEntry}
  BY <1>1, <1>3
<1> QED
  BY <1>2, <1>3 DEF Dumps

LEMMA TypeStep == TypeOK /\ [Next]_vars => TypeOK'
<1> SUFFICES ASSUME TypeOK, [Next]_vars PROVE TypeOK'
  OBVIOUS
<1> USE DEF TypeOK
<1>1. /\ None \in Reading /\ Report \in Reading /\ NoEntry \in DatedEntry
      /\ switch.at \in Nat /\ switch.raw \in Nat /\ switch.since \in Nat /\ view.since \in Nat
  BY ReportIs DEF None, NoEntry, Reading, DatedEntry
<1>2. CASE Traffic \/ (\E silent \in BOOLEAN : Reset(silent))
             \/ (\E out \in Omissions \cup {{}} : Omit(out))
  <2>1. switch' \in Reading
    BY <1>2, SourceFields
  <2>2. total' \in Nat
    BY <1>2, SourceFields
  <2>3. UNCHANGED <<view, polling, request, entry, disk, mode, starts, answered, manager, mishaps>>
    BY <1>2 DEF Traffic, Reset, Omit
  <2> QED
    BY <2>1, <2>2, <2>3 DEF polling, request, disk, manager
<1>3. CASE Fetch
  BY <1>1, <1>3 DEF Fetch, source, request, disk, manager
<1>4. CASE ReplaceView
  BY <1>4 DEF ReplaceView, source, request, disk, manager
<1>5. CASE DumpCounters \/ PollAborts
  BY <1>1, <1>5 DEF DumpCounters, PollAborts, source, request, disk, manager
<1>6. ASSUME NEW ok \in BOOLEAN, SaveCounters(ok) PROVE TypeOK'
  <2>1. file' \in DatedEntry
    BY <1>6, DumpsAreEntries DEF SaveCounters
  <2> QED
    BY <1>6, <2>1 DEF SaveCounters, source, request, manager
<1>7. ASSUME NEW ok \in BOOLEAN, SaveSnapshot(ok) \/ Stop(ok) PROVE TypeOK'
  BY <1>1, <1>7 DEF SaveSnapshot, Stop, source, request, manager, polling
<1>8. ASSUME NEW readable \in BOOLEAN, NEW ok \in BOOLEAN,
             StartLive(readable, ok) \/ StartCached(readable)
      PROVE  TypeOK'
  <2>1. PICK reading \in Reading, loaded \in {file, NoEntry} :
          Resume(reading, loaded) /\ cache' \in {cache, Report} /\ mode' \in {"live", "cached"}
    BY <1>1, <1>8 DEF StartLive, StartCached, Loaded
  <2>2. mishaps' \subseteq {"torn", "aged", "lost", "mixed", "zeroed", "undated", "gone"}
    BY <2>1 DEF Resume
  <2>3. /\ starts' = starts + 1 /\ view' = reading /\ entry' = loaded /\ answered' = FALSE
        /\ UNCHANGED <<switch, total, fetched, poll, held, read, fed, file, published, graphed>>
    BY <2>1 DEF Resume, source, polling, request, manager
  <2>4. starts' \in Nat /\ view' \in Reading /\ entry' \in DatedEntry /\ cache' \in Reading
    BY <1>1, <2>1, <2>3
  <2> QED
    BY <2>1, <2>2, <2>3, <2>4
<1>9. CASE \E readable \in BOOLEAN : StartCached(readable)
  BY <1>8, <1>9
<1>10. CASE ReadSince
  BY <1>1, <1>10 DEF ReadSince, source, polling, disk, manager
<1>11. ASSUME NEW value \in Nat, Publish(value) PROVE published' \in Nat /\ graphed' \in Nat
  <2>1. Modulus \in Nat \ {0}
    BY ModulusAssumption
  <2>2. Counter(value) \in Nat /\ Counter(published) \in Nat
    BY <2>1, ModuloIsNat DEF Counter
  <2>3. (Counter(value) - Counter(published)) % Modulus \in Nat
    BY <2>1, <2>2, ModuloIsNat
  <2> QED
    BY <1>11, <2>3 DEF Publish
<1>12. CASE Feed
  <2>1. PICK since \in read : /\ fed' = Dated(New(since), view.at) /\ read' = {}
                             /\ mishaps' = mishaps
                                  \cup (IF since # view.since THEN {"torn"} ELSE {})
                                  \cup (IF "counter" \in view.lacks THEN {"zeroed"} ELSE {})
                                  \cup (IF "since" \in view.lacks THEN {"undated"} ELSE {})
    BY <1>12 DEF Feed
  <2>2. fed' \in DatedEntry
    BY <2>1, NewIs
  <2>3. mishaps' \subseteq {"torn", "aged", "lost", "mixed", "zeroed", "undated", "gone"}
    BY <2>1
  <2>4. read' \in SUBSET Nat
    BY <2>1
  <2> QED
    BY <1>12, <2>2, <2>3, <2>4 DEF Feed, source, polling, disk, manager
<1>13. CASE Answer
  <2>1. Value(fed) \in Nat
    BY DEF DatedEntry, Value
  <2>2. published' \in Nat /\ graphed' \in Nat
    BY <1>11, <1>13, <2>1 DEF Answer
  <2>3. entry' \in DatedEntry /\ held' \subseteq DatedEntry /\ fed' \in DatedEntry
    BY <1>1, <1>13 DEF Answer
  <2> QED
    BY <1>13, <2>2, <2>3 DEF Answer, source, disk
<1>14. CASE AnswerGone
  <2>1. published' \in Nat /\ graphed' \in Nat
    BY <1>11, <1>14 DEF AnswerGone
  <2> QED
    BY <1>1, <1>14, <2>1 DEF AnswerGone, source, polling, disk
<1>15. CASE Ended
  BY <1>1, <1>15 DEF Ended, source, disk, manager
<1>16. CASE UNCHANGED vars
  BY <1>16 DEF vars, source, polling, request, disk, manager
<1> QED
  BY <1>2, <1>3, <1>4, <1>5, <1>6, <1>8, <1>9, <1>10, <1>12, <1>13, <1>15, <1>16, <1>7, <1>14
     DEF Next, Exit, Crash

LEMMA OrderStep == TypeOK /\ OrderInv /\ [Next]_vars => OrderInv'
<1> SUFFICES ASSUME TypeOK, OrderInv, [Next]_vars PROVE OrderInv'
  OBVIOUS
<1>1. /\ view.at \in Nat /\ fetched.at \in Nat /\ cache.at \in Nat /\ switch.at \in Nat
      /\ entry.at \in Nat /\ file.at \in Nat /\ fed.at \in Nat
      /\ None.at = 0 /\ Report.at = switch.at /\ NoEntry.at = 0
  BY ReportIs DEF TypeOK, Reading, DatedEntry, None, NoEntry
<1>2. CASE Traffic \/ (\E silent \in BOOLEAN : Reset(silent))
             \/ (\E out \in Omissions \cup {{}} : Omit(out))
  <2>1. switch'.at = switch.at + 1
    BY <1>2, SourceFields DEF TypeOK
  <2>2. UNCHANGED <<view, polling, request, entry, disk, mode, starts, answered, manager, mishaps>>
    BY <1>2 DEF Traffic, Reset, Omit
  <2> QED
    BY <1>1, <2>1, <2>2 DEF polling, request, disk, OrderInv, Clean
<1>3. CASE Fetch
  BY <1>1, <1>3 DEF Fetch, source, request, disk, OrderInv, Clean
<1>4. CASE ReplaceView
  BY <1>1, <1>4 DEF ReplaceView, Running, source, request, disk, OrderInv, Clean
<1>5. CASE DumpCounters \/ PollAborts
  BY <1>1, <1>5 DEF DumpCounters, PollAborts, Running, source, request, disk, OrderInv, Clean
<1>6. ASSUME NEW ok \in BOOLEAN, SaveCounters(ok) \/ SaveSnapshot(ok) \/ Stop(ok) PROVE OrderInv'
  <2>1. /\ cache' \in {cache, fetched} /\ (cache' = cache \/ poll # "idle")
        /\ fetched' \in {fetched, None}
        /\ UNCHANGED <<switch, view, entry, fed, mishaps>>
    BY <1>6 DEF SaveCounters, SaveSnapshot, Stop, Running, source, polling, request
  <2>2. mode # "down" /\ mode' # "down"
    BY <1>6 DEF SaveCounters, SaveSnapshot, Stop, Running
  <2>3. poll' # "idle" => /\ poll # "idle" /\ fetched' = fetched
                          /\ poll' = "fetched" => poll = "fetched"
    BY <1>6 DEF SaveCounters, SaveSnapshot, Stop, polling
  <2> QED
    BY <1>1, <2>1, <2>2, <2>3 DEF OrderInv, Clean
<1>7. ASSUME NEW reading \in Reading, NEW loaded \in {file, NoEntry}, Resume(reading, loaded),
             1 <= reading.at, reading.at <= switch.at,
             mode' # "down", cache' # None => 1 <= cache'.at, cache'.at <= switch.at
      PROVE  OrderInv'
  <2>1. /\ mode = "down" /\ view' = reading /\ entry' = loaded
        /\ mishaps' = mishaps \cup (IF loaded # entry THEN {"lost"} ELSE {})
                              \cup (IF reading.at < loaded.at THEN {"aged"} ELSE {})
                              \cup (IF Mixed(loaded) THEN {"mixed"} ELSE {})
        /\ UNCHANGED <<switch, fetched, poll, fed, file>>
    BY <1>7 DEF Resume, source, polling, request
  <2>2. Clean' => ~(reading.at < loaded.at)
    BY <2>1 DEF Clean
  <2>3. reading.at \in Nat /\ loaded.at \in Nat
    BY <1>1 DEF Reading
  <2>4. Clean' => entry'.at <= view'.at
    BY <1>1, <2>1, <2>2, <2>3
  <2>5. fed' = NoEntry
    BY <2>1 DEF OrderInv
  <2>6. fed'.at <= view'.at
    BY <1>1, <2>1, <2>3, <2>5
  <2> QED
    BY <1>7, <2>1, <2>4, <2>6 DEF OrderInv
<1>8. ASSUME NEW readable \in BOOLEAN, NEW ok \in BOOLEAN, StartLive(readable, ok)
      PROVE  OrderInv'
  <2>1. Report \in Reading /\ 1 <= Report.at /\ Report.at <= switch.at
    BY <1>1, ReportIs DEF TypeOK, OrderInv
  <2>2. cache'.at <= switch.at /\ (cache' # None => 1 <= cache'.at)
    BY <1>1, <1>8, <2>1 DEF StartLive, OrderInv
  <2> QED
    BY <1>7, <1>8, <2>1, <2>2 DEF StartLive, Loaded
<1>9. ASSUME NEW readable \in BOOLEAN, StartCached(readable) PROVE OrderInv'
  <2>1. cache \in Reading /\ 1 <= cache.at /\ cache.at <= switch.at /\ cache' = cache
    BY <1>9 DEF StartCached, TypeOK, OrderInv
  <2> QED
    BY <1>7, <1>9, <2>1 DEF StartCached, Loaded
<1>10. CASE ReadSince \/ AnswerGone
  <2>1. mishaps \subseteq mishaps' /\ UNCHANGED <<switch, view, fetched, poll, cache, entry, fed, mode>>
    BY <1>10 DEF ReadSince, AnswerGone, source, polling, disk
  <2>2. Clean' => Clean
    BY <2>1 DEF Clean
  <2> QED
    BY <2>1, <2>2 DEF OrderInv
<1>11. CASE Feed
  <2>1. PICK since \in read : fed' = Dated(New(since), view.at) /\ mishaps \subseteq mishaps'
    BY <1>11 DEF Feed
  <2>2. fed'.at = view.at
    BY <2>1, NewIs DEF TypeOK
  <2>3. mode # "down" /\ UNCHANGED <<switch, view, fetched, poll, cache, entry, mode>>
    BY <1>11 DEF Feed, source, polling, disk
  <2>4. Clean' => Clean
    BY <2>1 DEF Clean
  <2> QED
    BY <1>1, <2>2, <2>3, <2>4 DEF OrderInv
<1>12. CASE Answer
  <2>1. /\ entry' = fed /\ fed' = NoEntry /\ mode # "down"
        /\ UNCHANGED <<switch, view, fetched, poll, cache, mode, mishaps>>
    BY <1>12 DEF Answer, source, disk
  <2> QED
    BY <1>1, <2>1 DEF OrderInv, Clean
<1>13. CASE Ended
  BY <1>1, <1>13 DEF Ended, source, disk, OrderInv
<1>14. CASE UNCHANGED vars
  BY <1>14 DEF vars, source, polling, request, disk, OrderInv, Clean
<1> QED
  BY <1>2, <1>3, <1>4, <1>5, <1>6, <1>8, <1>9, <1>10, <1>11, <1>12, <1>13, <1>14
     DEF Next, Exit, Crash
-----------------------------------------------------------------------------
(* The past that accounts for everything is extended or kept by every step. *)
LEMMA HistoryShrinks ==
  ASSUME NEW T, NEW S, NEW R, NEW E, NEW F, NEW sw, NEW n, NEW c, NEW d,
         R \subseteq S, F \subseteq E, d => c, Accounts(T, S, E, sw, n, c)
  PROVE  Accounts(T, R, F, sw, n, d)
BY DEF Accounts, History, Ledger

LEMMA Kept ==
  ASSUME AccountsInv, source' = source,
         {view, fetched, cache}' \subseteq {view, fetched, cache} \cup {None, Report},
         Books' \subseteq Books, Clean' => Clean
  PROVE  AccountsInv'
<1>1. PICK T : Accounts(T, {view, fetched, cache}, Books, switch, total, Clean)
  BY DEF AccountsInv
<1> DEFINE S == {view, fetched, cache} \cup {None, Report}
<1>2. Accounts(T, S, Books, switch, total, Clean)
  <2>1. History(T, {view, fetched, cache}, switch, total) /\ Past(T, switch, total)
    BY <1>1 DEF Accounts, History
  <2>2. History(T, S, switch, total)
    BY <2>1, Joins
  <2>3. ASSUME Clean PROVE Ledger(T, S, Books, switch)
    <3>1. Ledger(T, {view, fetched, cache}, Books, switch)
      BY <1>1, <2>3 DEF Accounts
    <3> QED
      BY <2>1, <3>1, LedgerJoins
  <2> HIDE DEF S
  <2> QED
    BY <2>2, <2>3 DEF Accounts
<1>3. Accounts(T, {view', fetched', cache'}, Books', switch, total, Clean')
  BY <1>2, HistoryShrinks
<1>4. Accounts(T, {view', fetched', cache'}, Books', switch', total', Clean')
  BY <1>3 DEF source
<1> QED
  BY <1>4 DEF AccountsInv

(* After a mishap that can overstate, only the readings must agree. *)
LEMMA KeptUnclean ==
  ASSUME AccountsInv, source' = source,
         {view, fetched, cache}' \subseteq {view, fetched, cache} \cup {None, Report}, ~Clean'
  PROVE  AccountsInv'
<1>1. PICK T : History(T, {view, fetched, cache}, switch, total)
  BY DEF AccountsInv, Accounts
<1> DEFINE S == {view, fetched, cache} \cup {None, Report}
<1>2. History(T, S, switch, total)
  BY <1>1, Joins
<1>3. History(T, {view', fetched', cache'}, switch, total)
  BY <1>2 DEF History
<1>4. Accounts(T, {view', fetched', cache'}, Books', switch', total', Clean')
  BY <1>3 DEF Accounts, source
<1> QED
  BY <1>4 DEF AccountsInv

LEMMA AccountsInit == Init => AccountsInv
<1> SUFFICES ASSUME Init PROVE AccountsInv
  OBVIOUS
<1> DEFINE T == [i \in Nat |-> 0]
<1>1. /\ switch \in Reading /\ switch.at = 1 /\ switch.raw = 0 /\ switch.since = 1 /\ total = 0
      /\ view = None /\ fetched = None /\ cache = None /\ entry = NoEntry /\ file = NoEntry
  BY DEF Init, Reading
<1>2. /\ None \in Reading /\ None.at = 0 /\ None.raw = 0 /\ None.since = 0
      /\ NoEntry \in DatedEntry /\ NoEntry.at = 0 /\ NoEntry.last_raw = 0
      /\ NoEntry.stats_since = 0 /\ Value(NoEntry) = 0
  BY DEF None, Reading, NoEntry, DatedEntry, Value
<1>3. T \in [Nat -> Nat] /\ T[0] = 0 /\ T[1] = 0
  OBVIOUS
<1> HIDE DEF T
<1>4. Past(T, switch, total)
  BY <1>1, <1>3 DEF Past
<1>5. Sound(T, switch, None)
  BY <1>4, ReportIsSound
<1>6. Grows(T, 0, 0, 0, None) /\ Grows(T, 0, 0, 0, switch)
  BY <1>1, <1>2, <1>3 DEF Grows
<1>7. History(T, {view, fetched, cache}, switch, total)
  BY <1>1, <1>2, <1>4, <1>5, <1>6 DEF History
<1>8. Accounted(T, switch, NoEntry)
  BY <1>1, <1>2, <1>3, <1>6 DEF Accounted
<1>9. Books = {NoEntry}
  BY <1>1 DEF Init, Books, Mixed
<1>10. Ledger(T, {view, fetched, cache}, Books, switch)
  BY <1>1, <1>2, <1>6, <1>8, <1>9 DEF Ledger
<1> QED
  BY <1>7, <1>10 DEF AccountsInv, Accounts

LEMMA AccountsStep == TypeOK /\ OrderInv /\ AccountsInv /\ [Next]_vars => AccountsInv'
<1> SUFFICES ASSUME TypeOK, OrderInv, AccountsInv, [Next]_vars PROVE AccountsInv'
  OBVIOUS
<1>1. CASE Traffic \/ (\E silent \in BOOLEAN : Reset(silent))
             \/ (\E out \in Omissions \cup {{}} : Omit(out))
  <2>1. PICK T : Accounts(T, {view, fetched, cache}, Books, switch, total, Clean)
    BY DEF AccountsInv
  <2>2. /\ switch' \in Reading /\ switch'.at = switch.at + 1 /\ total' \in Nat
        /\ \/ total' = total /\ switch'.raw = 0
           \/ total' - total \in 0..1 /\ switch'.raw = switch.raw + (total' - total)
              /\ switch'.since = switch.since
        /\ switch'.since >= switch.since
    BY <1>1, SourceFields DEF TypeOK
  <2>3. 1 <= switch'.since
    <3>1. switch.since \in Nat /\ 1 <= switch.since /\ switch'.since \in Nat
      BY <2>1, <2>2 DEF Accounts, History, Past, Reading
    <3> QED
      BY <2>2, <3>1
  <2>4. PICK U : /\ History(U, {view, fetched, cache}, switch', total')
                 /\ \A E : Ledger(T, {view, fetched, cache}, E, switch)
                           => Ledger(U, {view, fetched, cache}, E, switch')
    BY <2>1, <2>2, <2>3, SourceMoves DEF Accounts
  <2>5. UNCHANGED <<view, fetched, cache, entry, fed, held, file, mishaps>>
    BY <1>1 DEF Traffic, Reset, Omit, polling, request, disk
  <2>6. (Clean' <=> Clean) /\ Books' = Books
    BY <2>5 DEF Clean, Books, Mixed
  <2>7. Accounts(U, {view', fetched', cache'}, Books', switch', total', Clean')
    BY <2>1, <2>4, <2>5, <2>6 DEF Accounts
  <2> QED
    BY <2>7 DEF AccountsInv
<1>2. CASE Feed
  <2>1. PICK T : Accounts(T, {view, fetched, cache}, Books, switch, total, Clean)
    BY DEF AccountsInv
  <2>2. PICK since \in read :
          /\ fed' = Dated(New(since), view.at)
          /\ mishaps' = mishaps \cup (IF since # view.since THEN {"torn"} ELSE {})
                                \cup (IF "counter" \in view.lacks THEN {"zeroed"} ELSE {})
                                \cup (IF "since" \in view.lacks THEN {"undated"} ELSE {})
    BY <1>2 DEF Feed
  <2>3. /\ mode # "down" /\ "port" \notin view.lacks
        /\ UNCHANGED <<switch, total, view, fetched, cache, entry, held, file>>
    BY <1>2 DEF Feed, source, polling, disk
  <2>4. Clean' => Clean /\ since = view.since /\ view.lacks \cap {"counter", "since"} = {}
    BY <2>2 DEF Clean
  <2>5. view.lacks \subseteq {"counter", "since", "port"}
    BY DEF TypeOK, Reading
  <2>6. Books' \subseteq Books \cup {Dated(New(since), view.at)}
    BY <2>2, <2>3 DEF Books, Mixed
  <2>7. ASSUME Clean'
        PROVE  Ledger(T, {view, fetched, cache}, Books \cup {Dated(New(since), view.at)}, switch)
    <3>1. since = view.since /\ view.lacks = {} /\ Clean
      BY <2>3, <2>4, <2>5, <2>7
    <3>2. 1 <= view.at /\ entry.at <= view.at /\ entry \in Books
      BY <2>3, <3>1 DEF OrderInv, Books
    <3>3. History(T, {view, fetched, cache}, switch, total)
          /\ Ledger(T, {view, fetched, cache}, Books, switch)
      BY <2>1, <3>1 DEF Accounts
    <3> QED
      BY <3>1, <3>2, <3>3, NewIsAccounted
  <2>8. Clean' => Ledger(T, {view, fetched, cache}, Books', switch)
    BY <2>6, <2>7 DEF Ledger
  <2>9. Accounts(T, {view', fetched', cache'}, Books', switch', total', Clean')
    BY <2>1, <2>3, <2>8 DEF Accounts
  <2> QED
    BY <2>9 DEF AccountsInv
<1>3. ASSUME NEW ok \in BOOLEAN, SaveCounters(ok)
      PROVE  /\ UNCHANGED <<source, view, fetched, cache, mishaps>>
             /\ Books' \subseteq Books
  <2>1. file' \in {NoEntry, file, fed} \cup held \/ Mixed(file')
    BY <1>3, DumpsAreEntries DEF SaveCounters, TypeOK
  <2>2. held' = {} /\ UNCHANGED <<source, view, fetched, cache, mishaps, entry, fed>>
    BY <1>3 DEF SaveCounters, request
  <2> QED
    BY <2>1, <2>2 DEF Books, Mixed
<1>4. ASSUME NEW reading \in {cache, Report}, NEW loaded \in {file, NoEntry},
             Resume(reading, loaded), cache' \in {cache, Report}
      PROVE  AccountsInv'
  <2>1. /\ entry' = loaded /\ view' = reading
        /\ mishaps' = mishaps \cup (IF loaded # entry THEN {"lost"} ELSE {})
                              \cup (IF reading.at < loaded.at THEN {"aged"} ELSE {})
                              \cup (IF Mixed(loaded) THEN {"mixed"} ELSE {})
        /\ UNCHANGED <<source, fetched, held, fed, file>>
    BY <1>4 DEF Resume, polling, request
  <2>2. Clean' => Clean
    BY <2>1 DEF Clean
  <2>3. {view, fetched, cache}' \subseteq {view, fetched, cache} \cup {None, Report}
    BY <1>4, <2>1
  <2>4. CASE Mixed(loaded)
    <3>1. ~Clean'
      BY <2>1, <2>4 DEF Clean
    <3> QED
      BY <2>1, <2>3, <3>1, KeptUnclean
  <2>5. CASE ~Mixed(loaded)
    <3>1. Books' \subseteq Books
      BY <2>1, <2>5 DEF Books, Mixed
    <3> QED
      BY <2>1, <2>2, <2>3, <3>1, Kept
  <2> QED
    BY <2>4, <2>5
<1>5. ASSUME \/ Fetch \/ ReplaceView \/ DumpCounters \/ PollAborts \/ ReadSince \/ Answer \/ AnswerGone
             \/ Exit \/ Crash \/ UNCHANGED vars
             \/ \E ok \in BOOLEAN : SaveSnapshot(ok) \/ Stop(ok)
      PROVE  /\ source' = source
             /\ {view, fetched, cache}' \subseteq {view, fetched, cache} \cup {None, Report}
             /\ Books' \subseteq Books
             /\ mishaps \subseteq mishaps'
  <2>1. /\ source' = source /\ mishaps \subseteq mishaps'
        /\ {view, fetched, cache}' \subseteq {view, fetched, cache} \cup {None, Report}
    BY <1>5 DEF Fetch, ReplaceView, DumpCounters, PollAborts, SaveSnapshot, Stop, ReadSince, Answer,
       AnswerGone, Exit, Crash, Ended, vars, polling, disk
  <2>2. /\ entry' \in {entry, fed} /\ fed' \in {fed, NoEntry} /\ file' \in {file, entry}
        /\ held' \subseteq held \cup {entry, fed}
    BY <1>5 DEF Fetch, ReplaceView, DumpCounters, PollAborts, SaveSnapshot, Stop, ReadSince, Answer,
       AnswerGone, Exit, Crash, Ended, vars, polling, request, disk
  <2>3. Books' \subseteq Books
    BY <2>2 DEF Books, Mixed
  <2> QED
    BY <2>1, <2>3
<1>6. mishaps \subseteq mishaps' => (Clean' => Clean)
  BY DEF Clean
<1>7. CASE \E ok \in BOOLEAN : SaveCounters(ok)
  <2>1. {view, fetched, cache}' \subseteq {view, fetched, cache} \cup {None, Report}
        /\ source' = source /\ Books' \subseteq Books /\ mishaps' = mishaps
    BY <1>3, <1>7
  <2> QED
    BY <1>6, <2>1, Kept
<1>8. CASE \/ \E readable \in BOOLEAN : StartCached(readable)
           \/ \E readable, ok \in BOOLEAN : StartLive(readable, ok)
  <2>1. \E reading \in {cache, Report}, loaded \in {file, NoEntry} :
          Resume(reading, loaded) /\ cache' \in {cache, Report}
    BY <1>8 DEF StartLive, StartCached, Loaded
  <2> QED
    BY <1>4, <2>1
<1> QED
  BY <1>1, <1>2, <1>5, <1>6, <1>7, <1>8, Kept DEF Next
-----------------------------------------------------------------------------
(* A counter that does not fall is followed by the manager's sum. *)
LEMMA FoldedDifference ==
  ASSUME NEW m \in Nat \ {0}, NEW p \in Nat, NEW v \in Nat, p <= v
  PROVE  ((v % m) - (p % m)) % m <= v - p
<1> DEFINE a == v \div m  b == p \div m  r == v % m  s == p % m
<1>1. /\ a \in Nat /\ b \in Nat /\ r \in 0..(m - 1) /\ s \in 0..(m - 1)
      /\ v = m * a + r /\ p = m * b + s
  OBVIOUS
<1> HIDE DEF a, b, r, s
<1>2. CASE s <= r
  <2>1. (r - s) % m = r - s
    BY <1>1, <1>2
  <2>2. b <= a
    BY <1>1
  <2>3. m * b <= m * a /\ m * b \in Nat /\ m * a \in Nat
    BY <1>1, <2>2
  <2>4. (r - s) % m <= v - p
    BY <1>1, <2>1, <2>3
  <2> QED
    BY <2>4 DEF r, s
<1>3. CASE r < s
  <2>1. (r - s) % m = r - s + m
    BY <1>1, <1>3
  <2>2. b + 1 <= a
    BY <1>1, <1>3
  <2>3. m * (b + 1) <= m * a /\ m * (b + 1) = m * b + m /\ m * b \in Nat /\ m * a \in Nat
    BY <1>1, <2>2
  <2>4. (r - s) % m <= v - p
    BY <1>1, <2>1, <2>3
  <2> QED
    BY <2>4 DEF r, s
<1> QED
  BY <1>1, <1>2, <1>3

(* Every answer respects the one before, or a mishap is to blame. *)
LEMMA AnswersStep == Inv /\ [Next]_vars => AnswersInv'
<1> SUFFICES ASSUME TypeOK, OrderInv, AccountsInv, AnswersInv, [Next]_vars PROVE AnswersInv'
  BY DEF Inv
<1>1. /\ published \in Nat /\ graphed \in Nat /\ total \in Nat
      /\ Value(fed) \in Nat /\ Value(entry) \in Nat
  BY DEF TypeOK, DatedEntry, Value
<1>2. CASE Answer
  <2>1. /\ fed # NoEntry /\ answered' /\ entry' = fed /\ fed' = NoEntry /\ Publish(Value(fed))
        /\ UNCHANGED <<total, mishaps>>
    BY <1>2 DEF Answer, source
  <2>2. published' = Value(fed)
    BY <2>1 DEF Publish
  <2>3. ASSUME Clean PROVE Value(fed) <= total
    <3>1. PICK T : Accounts(T, {view, fetched, cache}, Books, switch, total, Clean)
      BY DEF AccountsInv
    <3>2. /\ History(T, {view, fetched, cache}, switch, total)
          /\ Ledger(T, {view, fetched, cache}, Books, switch)
      BY <2>3, <3>1 DEF Accounts
    <3>3. fed \in Books
      BY DEF Books
    <3> HIDE DEF Books
    <3> QED
      BY <3>2, <3>3, NoneIsAhead
  <2>4. Clean' => published' <= total'
    BY <2>1, <2>2, <2>3 DEF Clean
  <2>5. ASSUME mishaps' = {} PROVE graphed' <= published'
    <3>1. mishaps = {}
      BY <2>1, <2>5
    <3>2. graphed <= published /\ published <= Value(fed)
      BY <1>1, <2>1, <3>1 DEF AnswersInv
    <3> DEFINE d == (Counter(Value(fed)) - Counter(published)) % Modulus
    <3>3. graphed' = graphed + d
      BY <2>1 DEF Publish
    <3>4. d <= Value(fed) - published
      BY <1>1, <3>2, ModulusAssumption, FoldedDifference DEF Counter
    <3>5. d \in Int
      BY <1>1, ModulusAssumption DEF Counter
    <3> HIDE DEF d
    <3>6. published' = Value(fed) /\ Value(fed) \in Nat /\ published \in Nat /\ graphed \in Nat
      BY <1>1, <2>2
    <3> QED
      BY <3>2, <3>3, <3>4, <3>5, <3>6
  <2>6. published' <= Value(entry')
    BY <1>1, <2>1, <2>2
  <2> QED
    BY <2>1, <2>4, <2>5, <2>6 DEF AnswersInv
<1>3. CASE AnswerGone
  <2>1. published' = 0 /\ UNCHANGED <<total, entry, fed>> /\ "gone" \in mishaps'
    BY <1>3 DEF AnswerGone, Publish, source
  <2> QED
    BY <1>1, <2>1 DEF AnswersInv
<1>4. CASE Feed
  <2>1. PICK since \in read : fed' = Dated(New(since), view.at) /\ mishaps \subseteq mishaps'
    BY <1>4 DEF Feed
  <2>2. UNCHANGED <<total, published, graphed, entry, answered>>
    BY <1>4 DEF Feed, source, manager
  <2>3. Value(entry') <= Value(fed')
    BY <2>1, <2>2, NewIs DEF TypeOK
  <2>4. /\ Clean' => Clean
        /\ mishaps' = {} => mishaps = {}
        /\ "lost" \notin mishaps' => "lost" \notin mishaps
    BY <2>1 DEF Clean
  <2> QED
    BY <2>2, <2>3, <2>4 DEF AnswersInv
<1>5. ASSUME NEW reading, NEW loaded, Resume(reading, loaded) PROVE AnswersInv'
  <2>1. /\ mode = "down" /\ entry' = loaded /\ ~answered'
        /\ UNCHANGED <<total, published, graphed, fed>>
        /\ mishaps' = mishaps \cup (IF loaded # entry THEN {"lost"} ELSE {})
                              \cup (IF reading.at < loaded.at THEN {"aged"} ELSE {})
                              \cup (IF Mixed(loaded) THEN {"mixed"} ELSE {})
    BY <1>5 DEF Resume, source, request, manager
  <2>2. /\ Clean' => Clean
        /\ mishaps' = {} => mishaps = {}
        /\ "lost" \notin mishaps' => "lost" \notin mishaps /\ entry' = entry
    BY <2>1 DEF Clean
  <2>3. fed' = NoEntry
    BY <2>1 DEF OrderInv
  <2> QED
    BY <2>1, <2>2, <2>3 DEF AnswersInv
<1>6. CASE Traffic
  BY <1>1, <1>6 DEF Traffic, request, disk, manager, AnswersInv, Clean, TypeOK
<1>7. ASSUME UNCHANGED <<total, published, graphed, entry, answered, mishaps>>, fed' \in {fed, NoEntry}
      PROVE  AnswersInv'
  BY <1>7 DEF AnswersInv, Clean, Value
<1>8. CASE \E readable, ok \in BOOLEAN : StartLive(readable, ok)
  <2>1. \E loaded : Resume(Report, loaded)
    BY <1>8 DEF StartLive
  <2> QED
    BY <1>5, <2>1
<1>9. CASE \E readable \in BOOLEAN : StartCached(readable)
  <2>1. \E loaded : Resume(cache, loaded)
    BY <1>9 DEF StartCached
  <2> QED
    BY <1>5, <2>1
<1>10. CASE \/ \E silent \in BOOLEAN : Reset(silent)
           \/ \E out \in Omissions \cup {{}} : Omit(out)
           \/ Fetch \/ ReplaceView \/ DumpCounters \/ PollAborts
           \/ \E ok \in BOOLEAN : SaveCounters(ok) \/ SaveSnapshot(ok) \/ Stop(ok)
           \/ ReadSince \/ Exit \/ Crash \/ UNCHANGED vars
  <2>1. /\ UNCHANGED <<total, published, graphed, entry, answered, mishaps>>
        /\ fed' \in {fed, NoEntry}
    BY <1>10 DEF Reset, Omit, Fetch, ReplaceView, DumpCounters, PollAborts, SaveCounters, SaveSnapshot,
       Stop, ReadSince, Exit, Crash, Ended, source, request, manager, vars
  <2> QED
    BY <1>7, <2>1
<1> QED
  BY <1>2, <1>3, <1>6, <1>8, <1>9, <1>10, <1>4 DEF Next

LEMMA InvHolds == Spec => []Inv
<1>1. Init => Inv
  <2>1. Init => AnswersInv
    BY DEF Init, AnswersInv, NoEntry, Value
  <2> QED
    BY <2>1, InitTypes, AccountsInit DEF Inv
<1>2. Inv /\ [Next]_vars => Inv'
  BY TypeStep, OrderStep, AccountsStep, AnswersStep DEF Inv
<1> QED
  BY <1>1, <1>2, PTL DEF Spec
-----------------------------------------------------------------------------
(* The type invariant: every published value and every sum is a natural     *)
(* number.                                                                  *)
THEOREM TypeCorrect == Spec => []TypeOK
<1>1. Inv => TypeOK
  BY DEF Inv
<1> QED
  BY <1>1, InvHolds, PTL

(* No answer exceeds the bytes the switch has counted, over any number of   *)
(* resets, failed saves, crashes and restarts, but after the mishaps named. *)
THEOREM Invents == Spec => []NothingInvented
<1>1. Inv => NothingInvented
  <2> SUFFICES ASSUME TypeOK, AnswersInv, Clean PROVE ~(published > total)
    BY DEF Inv, NothingInvented, Clean
  <2>1. published <= total /\ published \in Nat /\ total \in Nat
    BY DEF AnswersInv, TypeOK
  <2> QED
    BY <2>1
<1> QED
  BY <1>1, InvHolds, PTL

(* Without a mishap, the manager's graph shows no more either, for any      *)
(* width of the counter.                                                    *)
THEOREM GraphInvents == Spec => []GraphInventsNothing
<1>1. Inv => GraphInventsNothing
  <2> SUFFICES ASSUME TypeOK, AnswersInv, mishaps = {} PROVE ~(graphed > total)
    BY DEF Inv, GraphInventsNothing
  <2>1. Clean
    BY DEF Clean
  <2>2. /\ published <= total /\ graphed <= published
        /\ published \in Nat /\ total \in Nat /\ graphed \in Nat
    BY <2>1 DEF AnswersInv, TypeOK
  <2> QED
    BY <2>2
<1> QED
  BY <1>1, InvHolds, PTL

(* A published value falls only at a restart that loses an update, which    *)
(* the counter file misses or which cannot be read from it, or where the    *)
(* port is gone.                                                            *)
THEOREM FallsAfterLoss == Spec => FallsOnlyAfterLoss
<1>1. Inv /\ [Next]_vars =>
        [published' < published => (~answered /\ "lost" \in mishaps) \/ "port" \in view.lacks]_vars
  <2> SUFFICES ASSUME TypeOK, AnswersInv, [Next]_vars, published' < published,
                      answered \/ "lost" \notin mishaps, "port" \notin view.lacks
               PROVE  FALSE
    BY DEF Inv
  <2>1. published \in Nat
    BY DEF TypeOK
  <2>2. published' # published
    BY <2>1
  <2>3. Answer
    BY <2>2 DEF Next, Traffic, Reset, Omit, Fetch, ReplaceView, DumpCounters, PollAborts, SaveCounters,
       SaveSnapshot, Stop, StartLive, StartCached, Resume, ReadSince, Feed, AnswerGone, Exit, Crash,
       Ended, vars, manager
  <2>4. published' = Value(fed) /\ fed # NoEntry
    BY <2>3 DEF Answer, Publish
  <2>5. Value(entry) \in Nat /\ Value(fed) \in Nat /\ Value(entry) <= Value(fed)
    BY <2>4 DEF TypeOK, AnswersInv, DatedEntry, Value
  <2>6. published <= Value(entry)
    BY DEF AnswersInv
  <2> QED
    BY <2>1, <2>4, <2>5, <2>6
<1> QED
  BY <1>1, InvHolds, PTL DEF Spec, FallsOnlyAfterLoss
-----------------------------------------------------------------------------
(* Whatever goes wrong on the way, the manager's graph and what the store   *)
(* published differ by whole wraps of the counter: a fall is graphed as a   *)
(* wrap that never was, and a rise of more than the width lacks one.        *)
GraphIsOffByWraps == (graphed - published) % Modulus = 0

Wraps == \E q \in Int : graphed = published + Modulus * q

LEMMA FoldedSum ==
  ASSUME NEW m \in Nat \ {0}, NEW p \in Nat, NEW v \in Nat, NEW q \in Int
  PROVE  \E w \in Int : p + m * q + (((v % m) - (p % m)) % m) = v + m * w
<1> DEFINE a == v \div m  b == p \div m  r == v % m  s == p % m
<1>1. /\ a \in Nat /\ b \in Nat /\ r \in 0..(m - 1) /\ s \in 0..(m - 1)
      /\ v = m * a + r /\ p = m * b + s
  OBVIOUS
<1> HIDE DEF a, b, r, s
<1>2. /\ m * (b + q - a) = m * b + m * q - m * a
      /\ m * (b + q - a + 1) = m * b + m * q - m * a + m
      /\ m * a \in Int /\ m * b \in Int /\ m * q \in Int
  BY <1>1
<1>3. CASE s <= r
  <2>1. (r - s) % m = r - s
    BY <1>1, <1>3
  <2>2. p + m * q + ((r - s) % m) = v + m * (b + q - a) /\ b + q - a \in Int
    BY <1>1, <1>2, <2>1
  <2> QED
    BY <2>2 DEF r, s
<1>4. CASE r < s
  <2>1. (r - s) % m = r - s + m
    BY <1>1, <1>4
  <2>2. p + m * q + ((r - s) % m) = v + m * (b + q - a + 1) /\ b + q - a + 1 \in Int
    BY <1>1, <1>2, <2>1
  <2> QED
    BY <2>2 DEF r, s
<1> QED
  BY <1>1, <1>3, <1>4

LEMMA WholeWraps ==
  ASSUME NEW m \in Nat \ {0}, NEW q \in Int
  PROVE  (m * q) % m = 0
OBVIOUS

(* For any width of the counter. *)
THEOREM GraphOffByWraps == Spec => []GraphIsOffByWraps
<1>1. Init => Wraps
  BY ModulusAssumption DEF Init, Wraps
<1>2. Inv /\ Wraps /\ [Next]_vars => Wraps'
  <2> SUFFICES ASSUME Inv, NEW q \in Int, graphed = published + Modulus * q, [Next]_vars
               PROVE  Wraps'
    BY DEF Wraps
  <2>1. ASSUME NEW v \in Nat, Publish(v) PROVE Wraps'
    <3>1. published \in Nat /\ Modulus \in Nat \ {0}
      BY ModulusAssumption DEF Inv, TypeOK
    <3>2. PICK w \in Int : published + Modulus * q
                             + (((v % Modulus) - (published % Modulus)) % Modulus)
                           = v + Modulus * w
      BY <3>1, FoldedSum
    <3> QED
      BY <2>1, <3>2 DEF Publish, Counter, Wraps
  <2>2. CASE Answer
    BY <2>1, <2>2 DEF Answer, Inv, TypeOK, DatedEntry, Value
  <2>3. CASE AnswerGone
    BY <2>1, <2>3 DEF AnswerGone
  <2>4. CASE UNCHANGED manager
    BY <2>4 DEF manager, Wraps
  <2> QED
    BY <2>2, <2>3, <2>4 DEF Next, Traffic, Reset, Omit, Fetch, ReplaceView, DumpCounters,
       PollAborts, SaveCounters, SaveSnapshot, Stop, StartLive, StartCached, Resume, ReadSince,
       Feed, Exit, Crash, Ended, vars, manager
<1>3. Inv /\ Wraps => GraphIsOffByWraps
  <2> SUFFICES ASSUME Inv, NEW q \in Int, graphed = published + Modulus * q
               PROVE  GraphIsOffByWraps
    BY DEF Wraps
  <2>1. graphed - published = Modulus * q
    BY ModulusAssumption DEF Inv, TypeOK
  <2> QED
    BY <2>1, WholeWraps, ModulusAssumption DEF GraphIsOffByWraps
<1> QED
  BY <1>1, <1>2, <1>3, InvHolds, PTL DEF Spec
=============================================================================
