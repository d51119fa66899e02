--------------------------- MODULE MCCounterStore ---------------------------
(* CounterStore for TLC. *)
EXTENDS CounterStore, TLC

CONSTANTS k1, k2

(* k1 carries traffic and is reset in each of the ways update tells apart,  *)
(* by its value, by its timestamp, and without one; k2 is an idle counter   *)
(* that is first asked for at any moment.                                   *)
MCReadings == k1 :> {<<-1, 0>>, <<1, 1>>, <<1, 2>>} @@ k2 :> {<<1, 1>>}
=============================================================================
