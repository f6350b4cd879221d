----------------------------- MODULE MCRunLoop -----------------------------
(* RunLoop on small sets of threads and operations. *)
EXTENDS RunLoop
=============================================================================
