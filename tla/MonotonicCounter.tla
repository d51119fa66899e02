-------------------------- MODULE MonotonicCounter --------------------------
(***************************************************************************)
(* What the counter store promises an SNMP manager: the value served for a *)
(* counter never falls while one process lives, and after a clean restart  *)
(* it never falls below what the previous process last served.  An unclean *)
(* restart (a crash, a state file that cannot be written or read) carries  *)
(* no promise over.                                                        *)
(***************************************************************************)
EXTENDS Naturals

CONSTANT Keys          \* the counters, "<mac>|<port>|<counter>"

VARIABLES served,      \* the counters the running process has answered
          published,   \* the value last answered for each of them
          carried      \* what the last clean restart carried over

promise == <<served, published, carried>>

Nothing == [k \in Keys |-> 0]

Init == served = {} /\ published = Nothing /\ carried = Nothing

(* One answer to the manager: any value no lower than what binds it. *)
Serve(k) ==
  /\ published'[k] \in Nat
  /\ published'[k] >= carried[k]
  /\ k \in served => published'[k] >= published[k]
  /\ published' = [published EXCEPT ![k] = published'[k]]
  /\ served' = served \cup {k}
  /\ UNCHANGED carried

(* The obligation a clean restart takes over from the process that ended. *)
Owed == [k \in Keys |-> IF k \in served THEN published[k] ELSE carried[k]]

Restart ==
  /\ carried' \in {Owed, Nothing}
  /\ served' = {}
  /\ published' = Nothing

Next == (\E k \in Keys : Serve(k)) \/ Restart

Spec == Init /\ [][Next]_promise
=============================================================================
