----------------------------- MODULE Signatures -----------------------------
(***************************************************************************)
(* The completions that senders declare: completion_signatures.hpp and     *)
(* detail/type_traits.hpp, with what the adaptors compute in on.hpp.       *)
(*                                                                         *)
(* A list of signatures is the set of completions that it allows. Of the   *)
(* types of their arguments only one matters here, std::exception_ptr,     *)
(* which is how an exception is sent.                                      *)
(***************************************************************************)

Completions == {"value", "error", "exception", "stopped"}

Tag(completion) ==
    CASE completion = "value" -> "set_value"
      [] completion \in {"error", "exception"} -> "set_error"
      [] completion = "stopped" -> "set_stopped"

(* The completions of one tag: gather_signatures. *)
Gather(tag, declared) == {c \in declared : Tag(c) = tag}

(* Lists are concatenated, and duplicates dropped. *)
Unique(lists) == UNION lists

(* maybe_type_list *)
Maybe(include, list) == IF include THEN list ELSE {}

Errors(declared) == Gather("set_error", declared)

SendsStopped(declared) == Gather("set_stopped", declared) # {}

-----------------------------------------------------------------------------

(* What a callable, given to then() or one of its sisters, makes of a      *)
(* completion: what it returns is sent as a value.                         *)
AdaptorSignature(tag, c) == IF Tag(c) = tag THEN {"value"} ELSE {c}

(* A callable can only throw when it is called. *)
InvokeThrows(tag, throws, declared) == throws /\ Gather(tag, declared) # {}

(* Mutant: the callable is thought never to throw. *)
AdaptorDeclares_NoException(tag, throws, declared) ==
    Unique({AdaptorSignature(tag, c) : c \in declared})

AdaptorDeclares(tag, throws, declared) ==
    Unique({AdaptorSignature(tag, c) : c \in declared}
             \union {Maybe(InvokeThrows(tag, throws, declared), {"exception"})})

(* The sender that let_value() and its sisters put in the place of a       *)
(* completion.                                                             *)
LetSignature(tag, c, child) == IF Tag(c) = tag THEN child ELSE {c}

LetDeclares(tag, throws, declared, child) ==
    Unique({LetSignature(tag, c, child) : c \in declared}
             \union {Maybe(InvokeThrows(tag, throws, declared), {"exception"})})

(* There is always one value, the variant. *)
IntoVariantDeclares(throws, declared) ==
    Unique({{"value"}, Errors(declared), Maybe(throws, {"exception"}),
            Maybe(SendsStopped(declared), {"stopped"})})

StartsOnDeclares(scheduled, declared) ==
    Unique({declared, Errors(scheduled), {"exception"},
            Maybe(SendsStopped(scheduled), {"stopped"})})

OnDeclares(startsOn) == Unique({startsOn, {"exception", "stopped"}})
=============================================================================
