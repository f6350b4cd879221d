---------------------------- MODULE SpawnFuture ----------------------------
(***************************************************************************)
(* The heap state behind the sender that spawn_future() returns            *)
(* (include/bexec/detail/associate.hpp).                                   *)
(*                                                                         *)
(* The state outlives both the child operation and the future, and must be *)
(* destroyed by whichever is the last to need it. Three activities use it: *)
(* the owner of the future, which abandons or consumes it; the callback    *)
(* that a stop request of the consumer runs; the completion of the child.  *)
(* Each happens once. The callback and the completion run on threads of    *)
(* their own, or nested in a call that caused them, on its thread: the     *)
(* constructor of a callback whose token was stopped invokes it, and a     *)
(* child may complete while it is started or from its own stop callback.   *)
(*                                                                         *)
(* The sections of mutex_ are actions. Once a thread has set out to        *)
(* destroy the state, what another thread that would touch it does is      *)
(* undefined, and it does nothing here.                                    *)
(***************************************************************************)
EXTENDS Integers, Sequences, FiniteSets, SequencesExt, Functions

CONSTANTS
    Owner,      \* the thread that owns the future
    Stopper,    \* the thread that requests stop of the consumer
    Worker      \* a thread on which the child may complete

ASSUME ThreadsAssumption == Cardinality({Owner, Stopper, Worker}) = 3

VARIABLES
    alive,      \* the state is allocated
    associations,   \* the scope associations held: association_, then the
                    \* local that destroy_self() moves it to
    completed,  \* completed_
    stopped,    \* stopped_
    abandoned,  \* abandoned_
    cancelling, \* cancelling_
    consumer,   \* consumer_ is set
    stop,       \* stop was requested of the consumer's token
    callback,   \* stop_callback_: the registration with that token
    answers,    \* the completions that the consumer received
    pc,         \* the progress of every activity
    on          \* the thread it runs on

flags == <<completed, stopped, abandoned, cancelling, consumer>>
stateVars == <<alive, associations, flags>>
consumerVars == <<stop, callback, answers>>
vars == <<stateVars, consumerVars, pc, on>>

-----------------------------------------------------------------------------

Activities == {"owner", "cancel", "complete"}

Threads == {Owner, Stopper, Worker}

Labels == {"idle", "construct", "starting", "holding", "abandon",
           "request_stop", "callbacks", "consume", "try_cancel",
           "finish_cancellation", "complete", "deliver", "deliver_stopped",
           "destroy", "release", "done"}

(* These touch the state. *)
Uses == {"abandon", "request_stop", "callbacks", "consume", "try_cancel",
         "finish_cancellation", "complete", "deliver", "destroy"}

Answers == {"result", "stopped"}

Init ==
    /\ alive = TRUE
    /\ associations = 0
    /\ completed = FALSE
    /\ stopped = FALSE
    /\ abandoned = FALSE
    /\ cancelling = FALSE
    /\ consumer = FALSE
    /\ stop = FALSE
    /\ callback = "none"
    /\ answers = <<>>
    /\ pc = [a \in Activities |-> IF a = "owner" THEN "construct" ELSE "idle"]
    /\ on = [a \in Activities |-> CASE a = "owner" -> Owner
                                    [] a = "cancel" -> Stopper
                                    [] a = "complete" -> Worker]

(* A completion nests in whatever caused it, a cancellation in start(). *)
Nested(a) ==
    CASE a = "owner" -> {"cancel", "complete"}
      [] a = "cancel" -> {"complete"}
      [] a = "complete" -> {}

UnderWay(a) == pc[a] \notin {"idle", "done"}

(* The state is there for this activity: nobody else destroys it.          *)
Usable(a) == alive /\ \A b \in Activities \ {a} : pc[b] # "destroy"

(* The thread of the activity is at this point of it. *)
At(a, label) ==
    /\ pc[a] = label
    /\ label \in Uses => Usable(a)
    /\ \A b \in Nested(a) : on[b] = on[a] => ~UnderWay(b)

Goto(a, label) == pc' = [pc EXCEPT ![a] = label]

-----------------------------------------------------------------------------
(* The constructor of the state: the child is started if the scope         *)
(* associates it, and otherwise counts as stopped.                         *)

Associate ==
    /\ At("owner", "construct")
    /\ associations' = 1
    /\ Goto("owner", "starting")
    /\ UNCHANGED <<alive, flags, consumerVars, on>>

Refuse ==
    /\ At("owner", "construct")
    /\ pc' = [pc EXCEPT !["owner"] = "starting", !["complete"] = "complete"]
    /\ on' = [on EXCEPT !["complete"] = Owner]
    /\ UNCHANGED <<stateVars, consumerVars>>

ConstructReturns ==
    /\ At("owner", "starting")
    /\ Goto("owner", "holding")
    /\ UNCHANGED <<stateVars, consumerVars, on>>

(* The child sends its completion: on a thread of its own, or inside its   *)
(* start(), or from the callback that a stop request runs.                 *)
ChildCompletes(t) ==
    /\ pc["complete"] = "idle" /\ associations = 1
    /\ \/ t = Worker
       \/ t = Owner /\ pc["owner"] = "starting"
       \/ \E a \in {"owner", "cancel"} : pc[a] = "callbacks" /\ on[a] = t
    /\ Goto("complete", "complete")
    /\ on' = [on EXCEPT !["complete"] = t]
    /\ UNCHANGED <<stateVars, consumerVars>>

(* Mutant: a cancellation under way does not hold the completion back. *)
Complete_Cancelling ==
    /\ At("complete", "complete")
    /\ completed' = TRUE
    /\ consumer' = (consumer /\ (stopped \/ abandoned))
    /\ Goto("complete", IF stopped \/ abandoned THEN "destroy"
                        ELSE IF consumer THEN "deliver"
                        ELSE "done")
    /\ UNCHANGED <<alive, associations, stopped, abandoned, cancelling,
                   consumerVars, on>>

(* Mutant: an abandoned future is left to its owner. *)
Complete_Abandoned ==
    /\ At("complete", "complete")
    /\ completed' = TRUE
    /\ consumer' = (consumer /\ (cancelling \/ stopped))
    /\ Goto("complete", IF cancelling THEN "done"
                        ELSE IF stopped THEN "destroy"
                        ELSE IF consumer THEN "deliver"
                        ELSE "done")
    /\ UNCHANGED <<alive, associations, stopped, abandoned, cancelling,
                   consumerVars, on>>

(* complete(): the result was stored before. *)
Complete ==
    /\ At("complete", "complete")
    /\ completed' = TRUE
    /\ consumer' = (consumer /\ (cancelling \/ stopped \/ abandoned))
    /\ Goto("complete", IF cancelling THEN "done"
                        ELSE IF stopped \/ abandoned THEN "destroy"
                        ELSE IF consumer THEN "deliver"
                        ELSE "done")
    /\ UNCHANGED <<alive, associations, stopped, abandoned, cancelling,
                   consumerVars, on>>

-----------------------------------------------------------------------------
(* The owner of the future *)

DropFuture ==
    /\ At("owner", "holding")
    /\ Goto("owner", "abandon")
    /\ UNCHANGED <<stateVars, consumerVars, on>>

(* Mutant: abandoning a future destroys its state. *)
Abandon_Destroy ==
    /\ At("owner", "abandon")
    /\ abandoned' = ~completed
    /\ Goto("owner", "destroy")
    /\ UNCHANGED <<alive, associations, completed, stopped, cancelling, consumer,
                   consumerVars, on>>

Abandon ==
    /\ At("owner", "abandon")
    /\ abandoned' = ~completed
    /\ Goto("owner", IF completed THEN "destroy" ELSE "request_stop")
    /\ UNCHANGED <<alive, associations, completed, stopped, cancelling, consumer,
                   consumerVars, on>>

(* start() of the connected future. It registers the stop callback, whose  *)
(* constructor invokes it when stop was requested already ...              *)
StartFuture ==
    /\ At("owner", "holding")
    /\ IF stop
       THEN /\ callback' = "fired"
            /\ pc' = [pc EXCEPT !["owner"] = "consume",
                                !["cancel"] = "try_cancel"]
            /\ on' = [on EXCEPT !["cancel"] = Owner]
       ELSE /\ callback' = "registered"
            /\ Goto("owner", "consume")
            /\ UNCHANGED on
    /\ UNCHANGED <<stateVars, stop, answers>>

(* Mutant: a cancellation that came first is not looked at. *)
Consume_NotStopped ==
    /\ At("owner", "consume")
    /\ consumer' = ~completed
    /\ Goto("owner", IF completed THEN "deliver" ELSE "done")
    /\ UNCHANGED <<alive, associations, completed, stopped, abandoned,
                   cancelling, consumerVars, on>>

(* ... and then consume() runs. *)
Consume ==
    /\ At("owner", "consume")
    /\ consumer' = (~completed /\ ~stopped)
    /\ Goto("owner", IF completed THEN "deliver"
                     ELSE IF stopped THEN "deliver_stopped"
                     ELSE "done")
    /\ UNCHANGED <<alive, associations, completed, stopped, abandoned,
                   cancelling, consumerVars, on>>

-----------------------------------------------------------------------------
(* Stop requests *)

(* request_stop() on the source of the consumer's token. *)
StopConsumer ==
    /\ ~stop
    /\ stop' = TRUE
    /\ UNCHANGED <<stateVars, callback, answers, pc, on>>

FireCallback ==
    /\ stop
    /\ callback = "registered"
    /\ callback' = "fired"
    /\ Goto("cancel", "try_cancel")
    /\ UNCHANGED <<stateVars, stop, answers, on>>

TryCancel ==
    /\ At("cancel", "try_cancel")
    /\ IF completed \/ stopped
       THEN Goto("cancel", "done") /\ UNCHANGED cancelling
       ELSE Goto("cancel", "request_stop") /\ cancelling' = TRUE
    /\ UNCHANGED <<alive, associations, completed, stopped, abandoned, consumer,
                   consumerVars, on>>

(* stop_source_.request_stop(), from abandon() and try_cancel(): the       *)
(* child's callback runs, and then the source is touched again.            *)
RequestStop(a) ==
    /\ At(a, "request_stop")
    /\ Goto(a, "callbacks")
    /\ UNCHANGED <<stateVars, consumerVars, on>>

CallbacksReturn(a) ==
    /\ At(a, "callbacks")
    /\ Goto(a, IF a = "owner" THEN "done" ELSE "finish_cancellation")
    /\ UNCHANGED <<stateVars, consumerVars, on>>

(* Mutant: the stored result is delivered, stored or not. *)
FinishCancellation_Result ==
    /\ At("cancel", "finish_cancellation")
    /\ cancelling
    /\ cancelling' = FALSE
    /\ stopped' = (stopped \/ ~completed)
    /\ consumer' = IF completed /\ (abandoned \/ stopped) THEN consumer
                   ELSE FALSE
    /\ Goto("cancel", IF completed /\ (abandoned \/ stopped) THEN "destroy"
                      ELSE IF consumer THEN "deliver"
                      ELSE "done")
    /\ UNCHANGED <<alive, associations, completed, abandoned, consumerVars, on>>

FinishCancellation ==
    /\ At("cancel", "finish_cancellation")
    /\ cancelling
    /\ cancelling' = FALSE
    /\ stopped' = (stopped \/ ~completed)
    /\ consumer' = IF completed /\ (abandoned \/ stopped) THEN consumer
                   ELSE FALSE
    /\ Goto("cancel", IF completed /\ (abandoned \/ stopped) THEN "destroy"
                      ELSE IF ~consumer THEN "done"
                      ELSE IF completed THEN "deliver"
                      ELSE "deliver_stopped")
    /\ UNCHANGED <<alive, associations, completed, abandoned, consumerVars, on>>

-----------------------------------------------------------------------------
(* Delivering the answer and destroying the state *)

(* future_receiver resets the stop callback first, which waits for a       *)
(* callback that runs on another thread, but not for one that it is in.    *)
MayReset(a) == UnderWay("cancel") => on["cancel"] = on[a]

Deliver(a) ==
    /\ At(a, "deliver") /\ MayReset(a)
    /\ callback' = "reset"
    /\ answers' = Append(answers, "result")
    /\ Goto(a, "destroy")
    /\ UNCHANGED <<stateVars, stop, on>>

DeliverStopped(a) ==
    /\ At(a, "deliver_stopped") /\ MayReset(a)
    /\ callback' = "reset"
    /\ answers' = Append(answers, "stopped")
    /\ Goto(a, "done")
    /\ UNCHANGED <<stateVars, stop, on>>

(* destroy_self() moves the association out, destroys and deallocates the  *)
(* state, and releases the association last.                               *)
Destroy(a) ==
    /\ At(a, "destroy")
    /\ alive' = FALSE
    /\ Goto(a, "release")
    /\ UNCHANGED <<associations, flags, consumerVars, on>>

Release(a) ==
    /\ At(a, "release")
    /\ associations' = 0
    /\ Goto(a, "done")
    /\ UNCHANGED <<alive, flags, consumerVars, on>>

-----------------------------------------------------------------------------

(* The steps of the code; the others are its users'. *)
Step ==
    \/ Associate \/ Refuse \/ ConstructReturns
    \/ Complete \/ Abandon \/ Consume
    \/ FireCallback \/ TryCancel \/ FinishCancellation
    \/ \E a \in {"owner", "cancel"} : RequestStop(a) \/ CallbacksReturn(a)
    \/ \E a \in Activities :
         Deliver(a) \/ DeliverStopped(a) \/ Destroy(a) \/ Release(a)

Next ==
    \/ Step
    \/ \E t \in Threads : ChildCompletes(t)
    \/ DropFuture \/ StartFuture \/ StopConsumer

Spec == Init /\ [][Next]_vars

(* Calls that are under way go on: the steps of three threads, all of      *)
(* which lead forward, so that one condition is enough. No child has to    *)
(* complete, and no owner has to use the future.                           *)
FairSpec == Spec /\ WF_vars(Step)

-----------------------------------------------------------------------------
(* Properties *)

TypeOK ==
    /\ alive \in BOOLEAN /\ associations \in {0, 1}
    /\ completed \in BOOLEAN /\ stopped \in BOOLEAN
    /\ abandoned \in BOOLEAN /\ cancelling \in BOOLEAN
    /\ consumer \in BOOLEAN /\ stop \in BOOLEAN
    /\ callback \in {"none", "registered", "fired", "reset"}
    /\ answers \in Seq(Answers)
    /\ pc \in [Activities -> Labels]
    /\ on \in [Activities -> Threads]

(* The parts of the protocol that keep the state alive for those who are   *)
(* still to use it: a cancellation holds the completion back until it is   *)
(* over, and nothing is delivered while it runs, so that complete(),       *)
(* try_cancel(), finish_cancellation() and a delivery never touch a state  *)
(* that another of them destroyed, and one of them at most destroys it.    *)
SettlingSafe ==
    /\ \A a \in {"cancel", "complete"} : pc[a] \in Uses => Usable(a)
    /\ pc["owner"] \in {"deliver", "destroy"} => Usable("owner")

(* abandon() never touches a destroyed state. Once it has set abandoned_   *)
(* and let the mutex go, the completion of the child destroys the state,   *)
(* whose stop source abandon() then requests stop of.                      *)
AbandonSafe ==
    pc["owner"] \in {"abandon", "request_stop", "callbacks"} => Usable("owner")

(* consume() never touches a destroyed state. start() registers the stop   *)
(* callback before it calls consume(): a cancellation in between sets      *)
(* stopped_, and a completion of the child then destroys the state.        *)
ConsumeSafe == pc["owner"] = "consume" => Usable("owner")

(* The child operation lives in the state, which is not destroyed before   *)
(* the child has completed, whether or not anybody waits for the result;   *)
(* the scope counts the association for as long.                           *)
ChildKeepsState ==
    /\ ~completed => alive
    /\ associations = 1 \/ completed \/ pc["owner"] = "construct"
                        \/ pc["complete"] = "complete"

(* The consumer gets one answer: the result, if the child has completed,   *)
(* or stopped, if it asked for it; none once the future is abandoned.      *)
AnswerJustified ==
    /\ Len(answers) <= 1
    /\ "result" \in Range(answers) => completed
    /\ "stopped" \in Range(answers) => stop
    /\ abandoned => answers = <<>>

(* Once started, a future answers when the child has completed, and also   *)
(* when the consumer asked to stop, even if the child ignores the request; *)
(* unless consume() has run into a destroyed state.                        *)
FutureAnswered ==
    (callback # "none" /\ (completed \/ stop))
        ~> (answers # <<>> \/ ~ConsumeSafe)

(* The state is destroyed and the scope left, whoever is the last: the     *)
(* completion of an abandoned child, or of a cancelled one, or the answer. *)
StateReclaimed ==
    (pc["owner"] = "done" /\ completed) ~> (~alive /\ associations = 0)
=============================================================================
