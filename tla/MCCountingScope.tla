-------------------------- MODULE MCCountingScope --------------------------
(* CountingScope on small sets of threads, associations and joins. *)
EXTENDS CountingScope
=============================================================================
