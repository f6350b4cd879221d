--------------------------- MODULE MCRepeatUntil ---------------------------
(* RepeatUntil on a small set of threads and few iterations. *)
EXTENDS RepeatUntil
=============================================================================
