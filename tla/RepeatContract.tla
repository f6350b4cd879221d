--------------------------- MODULE RepeatContract ---------------------------
(***************************************************************************)
(* What repeat_until() promises: children run one after the other, each    *)
(* started only when the one before it has succeeded, and the receiver is  *)
(* answered once, with how the last of them ended unless something else    *)
(* ended the loop between two children. Neither threads nor an epoch.      *)
(*                                                                         *)
(* RepeatUntil implements this specification (Contract there).             *)
(***************************************************************************)

CONSTANT None   \* no completion

Completions == {"value", "error", "stopped"}

VARIABLES
    running,    \* a child is running
    ended,      \* how the last child ended, until the next is considered
    answer      \* the completion of the receiver

vars == <<running, ended, answer>>

-----------------------------------------------------------------------------

Init == ~running /\ ended = None /\ answer = None

StartChild ==
    /\ ~running /\ ended = None /\ answer = None
    /\ running' = TRUE
    /\ UNCHANGED <<ended, answer>>

ChildEnds(kind) ==
    /\ running
    /\ running' = FALSE
    /\ ended' = kind
    /\ UNCHANGED answer

(* Only a value lets the loop go on. *)
Again ==
    /\ ended = "value" /\ answer = None
    /\ ended' = None
    /\ UNCHANGED <<running, answer>>

(* The receiver gets what the last child sent, or the error of the         *)
(* predicate.                                                              *)
Answer ==
    /\ ended # None /\ answer = None
    /\ \/ answer' = ended
       \/ ended = "value" /\ answer' = "error"
    /\ UNCHANGED <<running, ended>>

(* Between two children, stop was requested or the next one cannot be made.*)
GiveUp ==
    /\ ~running /\ ended = None /\ answer = None
    /\ answer' \in {"stopped", "error"}
    /\ UNCHANGED <<running, ended>>

Next ==
    \/ StartChild \/ Again \/ Answer \/ GiveUp
    \/ \E kind \in Completions : ChildEnds(kind)

Spec == Init /\ [][Next]_vars
=============================================================================
