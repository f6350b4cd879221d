--------------------------- MODULE MCSpawnFuture ---------------------------
(* SpawnFuture, with its three threads. *)
EXTENDS SpawnFuture
=============================================================================
