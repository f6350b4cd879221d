------------------------------ MODULE WhenAll ------------------------------
(***************************************************************************)
(* The operation state of when_all (include/bexec/when_all.hpp and         *)
(* detail/when_all.hpp).                                                   *)
(*                                                                         *)
(* Every child completes on a thread of its own, or nested in a call that  *)
(* makes it complete: its start(), or a request_stop() on the source that  *)
(* the children's environment offers. Such a request comes from the first  *)
(* child that fails or stops, or from the stop callback of the receiver.   *)
(* A countdown elects the child that answers the receiver, and from the    *)
(* answer on the operation state may be destroyed.                         *)
(*                                                                         *)
(* Every thread is the stack of the activities that it is inside of.       *)
(* An exception thrown while a child is connected or its value is stored   *)
(* is an error of that child. The values themselves are left out.          *)
(***************************************************************************)
EXTENDS Integers, Sequences, FiniteSets, SequencesExt, Signatures

CONSTANTS
    Children,   \* the child operations
    Start,      \* start() of the operation, and the thread that calls it
    Cancel,     \* the stop callback of the receiver's token, and the thread
                \* that requests stop
    Senders,    \* what when_all() is called with
    Null        \* no child, or no error

ASSUME ActivitiesAssumption ==
    /\ Start # Cancel /\ Start # Null /\ Cancel # Null
    /\ {Start, Cancel, Null} \intersect Children = {}
    /\ Children # {} /\ IsFiniteSet(Children)
    /\ Null \notin [of : Children, as : {"error", "exception"}]

(* What every child may send, and whether exceptions may leave the storing *)
(* and moving of values and errors, the connecting of a child, and the     *)
(* construction of the stop callback.                                      *)
ASSUME SendersAssumption == \A s \in Senders :
    /\ s.declares \in [Children -> SUBSET Completions]
    /\ s.stores \in BOOLEAN /\ s.connects \in BOOLEAN
    /\ s.registers \in BOOLEAN

VARIABLES
    senders,    \* the senders
    remaining,  \* remaining
    terminal,   \* terminal
    error,      \* error: what is stored, and whose it is
    values,     \* values: the children whose values are stored
    source,     \* stop was requested of stop_source
    stop,       \* stop was requested of the receiver's token
    callback,   \* on_stop
    starting,   \* the child whose start() is under way
    answers,    \* the completions that the receiver got
    pc,         \* the progress of every activity
    stack       \* the activities that every thread is inside of

stateVars == <<remaining, terminal, error, values, source>>
receiverVars == <<stop, callback, answers>>
vars == <<senders, stateVars, receiverVars, starting, pc, stack>>

-----------------------------------------------------------------------------

Activities == Children \union {Start, Cancel}

(* One thread for start(), one for a stop request, one for every child.    *)
Threads == Activities

Labels == {"idle", "register", "start", "running", "value", "error",
           "exception", "stopped", "store", "store_exception", "request_stop",
           "callbacks", "count", "finish", "deliver", "done"}

-----------------------------------------------------------------------------
(* What when_all() declares *)

(* Every child has a value to send, so that all of them can succeed. *)
SendsValue(s) == \A c \in Children : "value" \in s.declares[c]

Nothrow(s) == ~s.stores /\ ~s.registers

(* The errors of the children, and what when_all() itself may meet. *)
ErrorList(s) ==
    Unique({Errors(s.declares[c]) : c \in Children}
             \union {Maybe(~Nothrow(s), {"exception"})})

Declared(s) ==
    Unique({Maybe(SendsValue(s), {"value"}), ErrorList(s),
            Maybe(\E c \in Children : SendsStopped(s.declares[c]), {"stopped"})})

(* A child whose connecting may throw needs room for the exception. *)
WellFormed(s) == s.connects => "exception" \in ErrorList(s)

-----------------------------------------------------------------------------

Init ==
    /\ senders \in {s \in Senders : WellFormed(s)}
    /\ remaining = Cardinality(Children)
    /\ terminal = "none"
    /\ error = Null
    /\ values = {}
    /\ source = FALSE
    /\ stop = FALSE
    /\ callback = "none"
    /\ starting = Null
    /\ answers = <<>>
    /\ pc = [a \in Activities |-> IF a = Start THEN "register" ELSE "idle"]
    /\ stack = [t \in Threads |-> IF t = Start THEN <<Start>> ELSE <<>>]

UnderWay(a) == pc[a] \notin {"idle", "running", "done"}

(* The innermost activity of a thread is the one that runs. *)
Runs(t, a) == stack[t] # <<>> /\ Last(stack[t]) = a

At(t, a, label) == Runs(t, a) /\ pc[a] = label

Goto(a, label) ==
    /\ pc' = [pc EXCEPT ![a] = label]
    /\ UNCHANGED stack

Push(t, a) == [stack EXCEPT ![t] = Append(@, a)]

Pop(t) == [stack EXCEPT ![t] = Front(@)]

(* The innermost activity of the thread is over. *)
Leave(t) ==
    /\ pc' = [pc EXCEPT ![Last(stack[t])] = "done"]
    /\ stack' = Pop(t)

Enter(t, a, label) ==
    /\ pc' = [pc EXCEPT ![a] = label]
    /\ stack' = Push(t, a)

Within(t, a) == a \in Range(stack[t])

-----------------------------------------------------------------------------
(* start() *)

(* register_stop_callback(): a token that was stopped already has the      *)
(* callback invoked in its constructor.                                    *)
Register(t) ==
    /\ At(t, Start, "register")
    /\ IF stop
       THEN /\ callback' = "fired"
            /\ pc' = [pc EXCEPT ![Start] = "start", ![Cancel] = "request_stop"]
            /\ stack' = Push(t, Cancel)
       ELSE callback' = "registered" /\ Goto(Start, "start")
    /\ UNCHANGED <<senders, stateVars, stop, answers, starting>>

(* start_error(): the registration failed. *)
RegisterFails(t) ==
    /\ At(t, Start, "register")
    /\ senders.registers
    /\ terminal' = "error"
    /\ remaining' = 0
    /\ answers' = Append(answers, "exception")
    /\ Leave(t)
    /\ UNCHANGED <<senders, error, values, source, stop, callback, starting>>

(* start_one(), in any order: no child is told from another. A child that  *)
(* cannot be connected has failed.                                         *)
StartOne(t, c) ==
    /\ At(t, Start, "start") /\ starting = Null
    /\ pc[c] = "idle"
    /\ starting' = c
    /\ \/ Goto(c, "running")
       \/ senders.connects /\ Enter(t, c, "exception")
    /\ UNCHANGED <<senders, stateVars, receiverVars>>

(* The start() of a child returns; after the last one, so does start().    *)
StartReturns(t) ==
    /\ At(t, Start, "start") /\ starting # Null
    /\ starting' = Null
    /\ IF \A c \in Children : pc[c] # "idle"
       THEN Leave(t)
       ELSE UNCHANGED <<pc, stack>>
    /\ UNCHANGED <<senders, stateVars, receiverVars>>

-----------------------------------------------------------------------------
(* Completion of a child *)

ChildCompletes(t, c, completion) ==
    /\ pc[c] = "running"
    /\ completion \in senders.declares[c]
    /\ \/ t = c /\ stack[t] = <<>>
       \/ At(t, Start, "start") /\ starting = c
       \/ \E a \in Activities : At(t, a, "callbacks")
    /\ Enter(t, c, completion)
    /\ UNCHANGED <<senders, stateVars, receiverVars, starting>>

(* child_value(): what the storing of the value throws is an error. *)
ChildValue(t, c) ==
    /\ At(t, c, "value")
    /\ \/ values' = values \union {c} /\ Goto(c, "count")
       \/ senders.stores /\ Goto(c, "exception") /\ UNCHANGED values
    /\ UNCHANGED <<senders, remaining, terminal, error, source, receiverVars,
                   starting>>

(* A child that decides stores its error, if it has one, and stops the     *)
(* others.                                                                 *)
Decided(c) ==
    CASE pc[c] = "error" -> "store"
      [] pc[c] = "exception" -> "store_exception"
      [] pc[c] = "stopped" -> "request_stop"

Fails(t, c) == Runs(t, c) /\ pc[c] \in {"error", "exception", "stopped"}

TerminalKind(c) == IF pc[c] = "stopped" THEN "stopped" ELSE "error"

(* Mutant: the terminal state is set, not compared and exchanged. *)
ChildTerminal_Set(t, c) ==
    /\ Fails(t, c)
    /\ terminal' = TerminalKind(c)
    /\ Goto(c, Decided(c))
    /\ UNCHANGED <<senders, remaining, error, values, source, receiverVars,
                   starting>>

(* Mutant: a child that stops does not stop its siblings. *)
ChildTerminal_NoStop(t, c) ==
    /\ Fails(t, c)
    /\ terminal' = IF terminal = "none" THEN TerminalKind(c) ELSE terminal
    /\ Goto(c, IF terminal = "none" /\ pc[c] # "stopped" THEN Decided(c)
               ELSE "count")
    /\ UNCHANGED <<senders, remaining, error, values, source, receiverVars,
                   starting>>

(* child_error() and child_stopped(): the first of them decides. *)
ChildTerminal(t, c) ==
    /\ Fails(t, c)
    /\ terminal' = IF terminal = "none" THEN TerminalKind(c) ELSE terminal
    /\ Goto(c, IF terminal = "none" THEN Decided(c) ELSE "count")
    /\ UNCHANGED <<senders, remaining, error, values, source, receiverVars,
                   starting>>

(* store_error(). When storing an error throws, the exception is stored. *)
StoreError(t, c) ==
    /\ Runs(t, c) /\ pc[c] \in {"store", "store_exception"}
    /\ \/ pc[c] = "store" /\ error' = [of |-> c, as |-> "error"]
       \/ /\ pc[c] = "store_exception" \/ senders.stores
          /\ error' = [of |-> c, as |-> "exception"]
    /\ Goto(c, "request_stop")
    /\ UNCHANGED <<senders, remaining, terminal, values, source, receiverVars,
                   starting>>

(* stop_source.request_stop(), of a child or of the stop callback. Only    *)
(* the first request runs callbacks, in which children may complete, and   *)
(* touches the source again when they have returned.                       *)
RequestStop(t, a) ==
    /\ At(t, a, "request_stop")
    /\ source' = TRUE
    /\ IF source /\ a = Cancel
       THEN Leave(t)
       ELSE Goto(a, IF source THEN "count" ELSE "callbacks")
    /\ UNCHANGED <<senders, remaining, terminal, error, values, receiverVars,
                   starting>>

CallbacksReturn(t, a) ==
    /\ At(t, a, "callbacks")
    /\ IF a = Cancel THEN Leave(t) ELSE Goto(a, "count")
    /\ UNCHANGED <<senders, stateVars, receiverVars, starting>>

(* Mutant: the countdown elects one child too early. *)
Count_Early(t, c) ==
    /\ At(t, c, "count")
    /\ remaining' = remaining - 1
    /\ IF remaining <= 2
       THEN Goto(c, "finish")
       ELSE Leave(t)
    /\ UNCHANGED <<senders, terminal, error, values, source, receiverVars,
                   starting>>

Count(t, c) ==
    /\ At(t, c, "count")
    /\ remaining' = remaining - 1
    /\ IF remaining = 1
       THEN Goto(c, "finish")
       ELSE Leave(t)
    /\ UNCHANGED <<senders, terminal, error, values, source, receiverVars,
                   starting>>

(* Mutant: a stop callback is waited for even by a child nested in it. *)
Finish_SelfWait(t, c) ==
    /\ At(t, c, "finish")
    /\ ~UnderWay(Cancel)
    /\ callback' = "reset"
    /\ Goto(c, "deliver")
    /\ UNCHANGED <<senders, stateVars, stop, answers, starting>>

(* Mutant: a stop callback that is running is not waited for. *)
Finish_NoWait(t, c) ==
    /\ At(t, c, "finish")
    /\ callback' = "reset"
    /\ Goto(c, "deliver")
    /\ UNCHANGED <<senders, stateVars, stop, answers, starting>>

(* finish_one(): on_stop.reset() waits for a stop callback that is running *)
(* on another thread, not for one that it is in itself.                    *)
Finish(t, c) ==
    /\ At(t, c, "finish")
    /\ UnderWay(Cancel) => Within(t, Cancel)
    /\ callback' = "reset"
    /\ Goto(c, "deliver")
    /\ UNCHANGED <<senders, stateVars, stop, answers, starting>>

(* deliver_error() or deliver_success(). Joining the values may throw      *)
(* inside the try of deliver_success(), and the exception is the answer.   *)
(* A move of the error or of the values into the parameter that throws     *)
(* does so in the noexcept finish_one(), which ends the program: no step.  *)
Answer ==
    CASE terminal = "error" -> {error.as}
      [] terminal = "stopped" -> {"stopped"}
      [] terminal = "none" ->
           {"value"} \union Maybe(SendsValue(senders) /\ senders.stores,
                                  {"exception"})

Deliver(t, c) ==
    /\ At(t, c, "deliver")
    /\ \E answer \in Answer : answers' = Append(answers, answer)
    /\ Leave(t)
    /\ UNCHANGED <<senders, stateVars, stop, callback, starting>>

-----------------------------------------------------------------------------
(* The receiver's token *)

StopReceiver ==
    /\ ~stop
    /\ stop' = TRUE
    /\ UNCHANGED <<senders, stateVars, callback, answers, starting, pc, stack>>

FireCallback ==
    /\ stop /\ callback = "registered"
    /\ callback' = "fired"
    /\ Enter(Cancel, Cancel, "request_stop")
    /\ UNCHANGED <<senders, stateVars, stop, answers, starting>>

-----------------------------------------------------------------------------

(* What a thread does inside when_all. *)
Step(t) ==
    \/ Register(t)
    \/ StartReturns(t)
    \/ \E c \in Children :
         \/ StartOne(t, c) \/ ChildValue(t, c) \/ ChildTerminal(t, c)
         \/ StoreError(t, c) \/ Count(t, c) \/ Finish(t, c) \/ Deliver(t, c)
    \/ \E a \in Children \union {Cancel} :
         RequestStop(t, a) \/ CallbacksReturn(t, a)

Next ==
    \/ \E t \in Threads :
         \/ Step(t)
         \/ RegisterFails(t)
         \/ \E c \in Children, completion \in Completions :
              ChildCompletes(t, c, completion)
    \/ StopReceiver \/ FireCallback

Spec == Init /\ [][Next]_vars

(* The threads are scheduled, and a stop request that was made reaches the *)
(* registered callback. Children complete only as they like.               *)
FairSpec ==
    /\ Spec
    /\ \A t \in Threads : WF_vars(Step(t))
    /\ WF_vars(FireCallback)

-----------------------------------------------------------------------------
(* Properties *)

TypeOK ==
    /\ senders \in Senders
    /\ remaining \in 0 .. Cardinality(Children)
    /\ terminal \in {"none", "error", "stopped"}
    /\ error \in [of : Children, as : {"error", "exception"}] \union {Null}
    /\ values \in SUBSET Children
    /\ source \in BOOLEAN /\ stop \in BOOLEAN
    /\ callback \in {"none", "registered", "fired", "reset"}
    /\ starting \in Children \union {Null}
    /\ answers \in Seq(Completions)
    /\ pc \in [Activities -> Labels]
    /\ stack \in [Threads -> Seq(Activities)]

(* The receiver is answered once, when nobody is left to change the answer *)
(* or to read the state: every child was counted, a success has the values *)
(* of all, and an error has its error stored. No child touches the         *)
(* operation state afterwards, which allows the receiver to destroy it.    *)
(* The answer is one that the sender declares, be it an exception that     *)
(* when_all() has met itself, and no empty value of children that have     *)
(* none.                                                                   *)
AnswerComplete ==
    /\ Len(answers) <= 1
    /\ answers # <<>> =>
          /\ \A c \in Children : ~UnderWay(c)
          /\ answers[1] \in Declared(senders)
    /\ \A c \in Children : pc[c] = "deliver" =>
          /\ answers = <<>>
          /\ \A d \in Children \ {c} : pc[d] = "done"
          /\ terminal = "none" => values = Children
          /\ terminal = "error" => error # Null
          /\ terminal = "error" \/ error = Null

(* When a child delivers, the stop callback is over or runs around the     *)
(* delivery, and can no longer start.                                      *)
CallbackQuiescent ==
    \A t \in Threads, c \in Children :
        At(t, c, "deliver") =>
            /\ callback # "registered"
            /\ UnderWay(Cancel) => Within(t, Cancel)

(* Nor should the stop callback touch the operation state after the answer.*)
(* But the request_stop() that it calls runs the stop callbacks of the     *)
(* children, the last of them may complete there and the receiver be       *)
(* answered, all before the source is locked again.                        *)
CancelLeft == answers # <<>> => ~UnderWay(Cancel)

(* The first child that fails or stops decides for good, and the error     *)
(* that is stored first stays.                                             *)
FirstDecides ==
    [][/\ terminal # "none" => terminal' = terminal
       /\ error # Null => error' = error]_<<terminal, error>>

(* A failure, and a stop of the receiver's token that was registered with, *)
(* stop the remaining children.                                            *)
StopSpreads ==
    /\ (terminal # "none" /\ \E c \in Children : pc[c] = "running")
           ~> (source \/ answers # <<>>)
    /\ (stop /\ callback = "registered") ~> (source \/ callback = "reset")

(* Once every child has completed, the receiver is answered: the countdown *)
(* elects somebody, who does not wait for a callback that waits for it.    *)
Answered ==
    (\A c \in Children : pc[c] \notin {"idle", "running"}) ~> (answers # <<>>)
=============================================================================
