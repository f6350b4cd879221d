--------------------------- MODULE MCScopedWork ----------------------------
(* ScopedWork with few jobs. *)
EXTENDS ScopedWork
=============================================================================
