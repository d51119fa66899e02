---------------------------- MODULE MCCounterPath ----------------------------
(* CounterPath for TLC. *)
EXTENDS CounterPath

(* What the rest of a behaviour depends on: once no further process starts, *)
(* nobody reads the files any more, and when the last one has ended nobody  *)
(* is answered.                                                             *)
Matters ==
  IF starts < MaxStarts THEN vars
  ELSE IF mode = "down" THEN <<mode>>
  ELSE <<source, view, fetched, poll, request, entry, mode, answered, manager, mishaps>>
=============================================================================
