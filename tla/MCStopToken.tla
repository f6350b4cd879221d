---------------------------- MODULE MCStopToken ----------------------------
(* StopToken on small sets of threads and registrations. *)
EXTENDS StopToken
=============================================================================
