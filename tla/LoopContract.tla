---------------------------- MODULE LoopContract ----------------------------
(***************************************************************************)
(* What a run loop promises: operations are executed one at a time, in the *)
(* order in which they were enqueued, and run() returns when it was told   *)
(* to finish and nothing is left to execute.                               *)
(*                                                                         *)
(* RunLoop implements this specification (Contract there).                 *)
(***************************************************************************)
EXTENDS Sequences

CONSTANT Operations     \* the operations ever scheduled on the loop

VARIABLES
    queue,      \* enqueued and not yet executed, oldest first
    finished,   \* finish() was called
    returned    \* run() returned

vars == <<queue, finished, returned>>

Init ==
    /\ queue = <<>>
    /\ finished = FALSE
    /\ returned = FALSE

Enqueue(op) ==
    /\ ~finished
    /\ queue' = Append(queue, op)
    /\ UNCHANGED <<finished, returned>>

Execute ==
    /\ ~returned
    /\ queue # <<>>
    /\ queue' = Tail(queue)
    /\ UNCHANGED <<finished, returned>>

Finish ==
    /\ ~finished
    /\ finished' = TRUE
    /\ UNCHANGED <<queue, returned>>

Return ==
    /\ finished /\ ~returned
    /\ queue = <<>>
    /\ returned' = TRUE
    /\ UNCHANGED <<queue, finished>>

Next == (\E op \in Operations : Enqueue(op)) \/ Execute \/ Finish \/ Return

Spec == Init /\ [][Next]_vars
=============================================================================
