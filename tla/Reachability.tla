---------------------------- MODULE Reachability ----------------------------
(***************************************************************************)
(* reachability.py and its readers.  One executor thread at a time checks  *)
(* the switch by ICMP and debounces what it observes; the event loop reads *)
(* the verdict twice, with no lock, to answer fwSwitchOnline and           *)
(* fwProxyIcmpStatus; poll_once, on another thread, replaces the switch    *)
(* whose "online" field stands in for a missing verdict.                   *)
(***************************************************************************)
EXTENDS Integers, Sequences

CONSTANTS FailThreshold, RecoverThreshold

ASSUME FailAssumption == FailThreshold \in Nat \ {0}
ASSUME RecoverAssumption == RecoverThreshold \in Nat \ {0}

(* How one echo can end: on the ICMP socket, and by the ping binary.        *)
SocketEnds == {"reply", "timeout", "error", "unattemptable"}
BinaryEnds == {"reply", "none", "unattemptable"}

VARIABLES
  state,       \* the verdict: "up", "down", "unknown"
  rtt,         \* rtt_ms is a number
  fails, oks,  \* the debounce counters
  pending,     \* the observation whose verdict feed has yet to draw, or "none"
  online,      \* the API's "online" field
  asks,        \* what is asked for: "online" (switch_online) or "icmp" (snmp_status)
  reader,      \* how far the answer is: "idle", "first", "second"
  answer,      \* the last one: "up", "down", "unknown"
  held,        \* the right answers since it was asked for
  moved,       \* the API's field has changed since
  history      \* the last conclusive checks, "reply" or "missed"

debounce == <<state, rtt, fails, oks, pending, history>>
reading == <<asks, reader, answer, held>>
vars == <<debounce, online, reading, moved>>

Ceiling == IF FailThreshold > RecoverThreshold THEN FailThreshold ELSE RecoverThreshold

Verdicts == {"up", "down", "unknown"}

TypeOK ==
  /\ state \in Verdicts /\ rtt \in BOOLEAN
  /\ fails \in 0..Ceiling /\ oks \in 0..Ceiling
  /\ pending \in {"none", "up", "down"}
  /\ online \in {"up", "down"} /\ answer \in Verdicts
  /\ asks \in {"online", "icmp"} /\ reader \in {"idle", "first", "second"}
  /\ held \subseteq Verdicts /\ moved \in BOOLEAN
  /\ history \in Seq({"reply", "missed"}) /\ Len(history) <= Ceiling

Init ==
  /\ state = "unknown" /\ rtt = FALSE
  /\ fails = 0 /\ oks = 0 /\ pending = "none"
  /\ online \in {"up", "down"}
  /\ asks = "online" /\ reader = "idle" /\ answer = "unknown" /\ held = {} /\ moved = FALSE
  /\ history = <<>>
-----------------------------------------------------------------------------
(* ping_once: the binary is tried when the socket cannot be.  The mutant    *)
(* counts a check the network refused as a missing reply.                   *)
MutantObserved(socket, binary) ==
  CASE socket = "reply" \/ (socket = "unattemptable" /\ binary = "reply") -> "up"
    [] socket = "unattemptable" /\ binary = "unattemptable" -> "unknown"
    [] OTHER -> "down"
Observed(socket, binary) ==
  CASE socket = "reply" \/ (socket = "unattemptable" /\ binary = "reply") -> "up"
    [] socket = "timeout" \/ (socket = "unattemptable" /\ binary = "none") -> "down"
    [] OTHER -> "unknown"

(* What became of the echo: the switch answered it, or it was sent in vain. *)
Replied(socket, binary) ==
  socket = "reply" \/ (socket = "unattemptable" /\ binary = "reply")
Missed(socket, binary) ==
  socket = "timeout" \/ (socket = "unattemptable" /\ binary = "none")

(* The last Ceiling of them. *)
Recorded(h, x) ==
  IF Len(h) < Ceiling THEN Append(h, x) ELSE Append(Tail(h), x)

(* Counters beyond the ceiling are not told apart. *)
OneMore(n) == IF n < Ceiling THEN n + 1 ELSE n

(* What an answer should say. *)
Right(what, verdict, field) ==
  IF what = "online" /\ verdict = "unknown" THEN field ELSE verdict

(* Every right answer while one is on its way. *)
Note(verdict, field) ==
  held' = IF reader = "idle" THEN held ELSE held \cup {Right(asks, verdict, field)}

(* check, up to the point where feed has counted: an unknown observation    *)
(* leaves everything but last_checked alone.  The mutant feeds it like any  *)
(* other.                                                                   *)
MutantConclusive(observed) == TRUE
Conclusive(observed) == observed # "unknown"
FailsAfter(observed) == IF observed = "up" THEN 0 ELSE OneMore(fails)
OksAfter(observed) == IF observed = "up" THEN OneMore(oks) ELSE 0

Check(socket, binary) ==
  LET observed == Observed(socket, binary) IN
  /\ pending = "none" /\ Conclusive(observed)
  /\ pending' = observed
  /\ rtt' = (observed = "up")
  /\ fails' = FailsAfter(observed) /\ oks' = OksAfter(observed)
  /\ history' = CASE Missed(socket, binary) -> Recorded(history, "missed")
                  [] Replied(socket, binary) -> Recorded(history, "reply")
                  [] OTHER -> history
  /\ UNCHANGED <<state, online, reading, moved>>

(* feed's last assignment: the verdict, once its threshold is reached.  The *)
(* mutant wants the run of replies to be longer than the threshold.         *)
Failed == pending = "down" /\ fails >= FailThreshold
MutantRecovered == pending = "up" /\ oks > RecoverThreshold
Recovered == pending = "up" /\ oks >= RecoverThreshold

Verdict ==
  /\ pending # "none"
  /\ state' = CASE Recovered -> "up" [] Failed -> "down" [] OTHER -> state
  /\ pending' = "none"
  /\ Note(state', online)
  /\ UNCHANGED <<rtt, fails, oks, history, online, asks, reader, answer, moved>>

(* poll_once replaces ctx.switch. *)
PollOnline ==
  /\ online' = IF online = "up" THEN "down" ELSE "up"
  /\ moved' = (moved \/ reader # "idle")
  /\ Note(state, online')
  /\ UNCHANGED <<debounce, asks, reader, answer>>
-----------------------------------------------------------------------------
(* switch_online and snmp_status: is the verdict up?  If not, and read      *)
(* again, is it down?  If not, the API's field, or unknown.  The mutant     *)
(* takes any verdict that was not up for a denial, at the second.           *)

MutantDenies(verdict) == verdict # "unknown"
Denies(verdict) == verdict = "down"

Ask(what) ==
  /\ reader = "idle"
  /\ asks' = what
  /\ held' = {Right(what, state, online)} /\ moved' = FALSE
  /\ IF state = "up"
       THEN reader' = "idle" /\ answer' = "up"
       ELSE reader' = "first" /\ UNCHANGED answer
  /\ UNCHANGED <<debounce, online>>

SecondRead ==
  /\ reader = "first"
  /\ IF Denies(state)
       THEN reader' = "idle" /\ answer' = "down"
       ELSE reader' = "second" /\ UNCHANGED answer
  /\ UNCHANGED <<debounce, online, asks, held, moved>>

(* The mutant has switch_online answer no when ICMP has no verdict.         *)
MutantOtherwise == IF asks = "online" THEN "down" ELSE "unknown"
Otherwise == IF asks = "online" THEN online ELSE "unknown"

FallBack ==
  /\ reader = "second"
  /\ reader' = "idle" /\ answer' = Otherwise
  /\ UNCHANGED <<debounce, online, asks, held, moved>>

Next ==
  \/ \E socket \in SocketEnds, binary \in BinaryEnds : Check(socket, binary)
  \/ Verdict \/ PollOnline
  \/ (\E what \in {"online", "icmp"} : Ask(what))
  \/ SecondRead \/ FallBack

Spec == Init /\ [][Next]_vars
-----------------------------------------------------------------------------
(* Correctness. *)

LastAre(n, x) ==
  Len(history) >= n /\ \A i \in (Len(history) - n + 1)..Len(history) : history[i] = x

(* A verdict is earned: down takes fail_threshold conclusive checks in a    *)
(* row that the switch did not answer, up takes recover_threshold that it   *)
(* did, however many inconclusive ones lie between them.                    *)
VerdictIsEarned ==
  [][state' # state => \/ state' = "down" /\ LastAre(FailThreshold, "missed")
                       \/ state' = "up" /\ LastAre(RecoverThreshold, "reply")]_vars

(* And it is given: an outage that long is a down verdict, and the end of   *)
(* one an up, with no sticky state in between.                              *)
VerdictIsGiven ==
  pending = "none" => /\ LastAre(FailThreshold, "missed") => state = "down"
                      /\ LastAre(RecoverThreshold, "reply") => state = "up"

Answered(what) == reader = "idle" /\ held # {} /\ asks = what

(* fwSwitchOnline was true to the best evidence at some moment of the       *)
(* request, although the verdict may change between its reads, as long as   *)
(* poll_once does not replace the switch as well.                           *)
OnlineWasRight == Answered("online") /\ ~moved => answer \in held

(* fwProxyIcmpStatus, too, was the verdict at some moment of the request,   *)
(* but for one case: the verdict goes from down to up between the reads,    *)
(* and the answer is an unknown that it never was.                          *)
IcmpWasRight ==
  Answered("icmp") => answer \in held \/ (answer = "unknown" /\ held = {"down", "up"})
=============================================================================
