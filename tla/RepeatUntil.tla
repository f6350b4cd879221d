---------------------------- MODULE RepeatUntil ----------------------------
(***************************************************************************)
(* The operation state of repeat_until (include/bexec/repeat_until.hpp and *)
(* detail/repeat_until.hpp).                                               *)
(*                                                                         *)
(* A child may complete inside its start(), or later on any thread, also   *)
(* while start() is still returning. The drain loop and the completion     *)
(* race to advance an epoch; the one that loses goes on with the stored    *)
(* completion, so that inline completions become iterations of a loop and  *)
(* late ones enter it anew.                                                *)
(*                                                                         *)
(* A thread has two frames: drain() and, inside a child's start() or on    *)
(* its own, finish_child(). Going on to drain() is the last thing that     *)
(* finish_child() does, and replaces its frame. That a completion nested   *)
(* in drain() never does so is a property, Exclusive.                      *)
(***************************************************************************)
EXTENDS Integers

CONSTANTS
    Threads,        \* the threads that start the operation or complete a child
    None,           \* no completion
    MaxChildren,    \* the predicate holds after so many children at the latest
    NeedExceptionPtr    \* need_exception_ptr: storing a completion, the
                        \* predicate or the factory may throw

ASSUME NoneAssumption == None \notin {"value", "error", "stopped"}

ASSUME MaxChildrenAssumption == MaxChildren \in Nat \ {0}

ASSUME NeedExceptionPtrAssumption == NeedExceptionPtr \in BOOLEAN

VARIABLES
    started,    \* start() was called
    epoch,      \* epoch_
    current,    \* current_: the child operation
    child_epoch,\* the epoch that the receiver of the child holds
    stored,     \* stored_: the completion of the child
    stop,       \* stop was requested of the receiver's token
    answer,     \* the completion of the receiver
    answers,    \* how often the receiver was completed
    drain,      \* progress of every thread inside drain()
    drained,    \* drain(): its child_epoch
    finish,     \* progress of every thread inside finish_child()
    finished    \* finish_child(): the child_epoch of its receiver

receiverVars == <<stop, answer, answers>>
childVars == <<current, child_epoch>>
frames == <<drain, drained, finish, finished>>
vars == <<started, epoch, childVars, stored, receiverVars, frames>>

-----------------------------------------------------------------------------

Completions == {"value", "error", "stopped"}

(* A child operation completes after it was started; it then lies in       *)
(* current_ until the next iteration.                                      *)
Currents == {"none", "running", "completing", "done"}

DrainPcs == {"none", "check", "load", "connect", "start", "cas", "process"}

FinishPcs == {"none", "store", "cas", "process"}

Init ==
    /\ started = FALSE
    /\ epoch = 0
    /\ current = "none"
    /\ child_epoch = 0
    /\ stored = None
    /\ stop = FALSE
    /\ answer = None
    /\ answers = 0
    /\ drain = [t \in Threads |-> "none"]
    /\ drained = [t \in Threads |-> 0]
    /\ finish = [t \in Threads |-> "none"]
    /\ finished = [t \in Threads |-> 0]

(* The receiver is completed; the operation may be destroyed from here on. *)
Complete(kind) ==
    /\ answer' = kind
    /\ answers' = answers + 1
    /\ UNCHANGED stop

LeaveDrain(t) ==
    /\ drain' = [drain EXCEPT ![t] = "none"]
    /\ drained' = [drained EXCEPT ![t] = 0]
    /\ UNCHANGED <<finish, finished>>

LeaveFinish(t) ==
    /\ finish' = [finish EXCEPT ![t] = "none"]
    /\ finished' = [finished EXCEPT ![t] = 0]
    /\ UNCHANGED <<drain, drained>>

(* A thread that is inside a completion works on that first. *)
Drains(t, label) == drain[t] = label /\ finish[t] = "none"

-----------------------------------------------------------------------------
(* start() and drain() *)

Start(t) ==
    /\ ~started
    /\ drain[t] = "none" /\ finish[t] = "none"
    /\ started' = TRUE
    /\ drain' = [drain EXCEPT ![t] = "check"]
    /\ UNCHANGED <<epoch, childVars, stored, receiverVars, drained, finish,
                   finished>>

(* The last child is destroyed, then the receiver's token is asked. *)
DrainCheck(t) ==
    /\ Drains(t, "check")
    /\ current' = "none"
    /\ IF stop
       THEN Complete("stopped") /\ LeaveDrain(t)
       ELSE /\ drain' = [drain EXCEPT ![t] = "load"]
            /\ UNCHANGED <<receiverVars, drained, finish, finished>>
    /\ UNCHANGED <<started, epoch, child_epoch, stored>>

DrainLoad(t) ==
    /\ Drains(t, "load")
    /\ drained' = [drained EXCEPT ![t] = epoch]
    /\ drain' = [drain EXCEPT ![t] = "connect"]
    /\ UNCHANGED <<started, epoch, childVars, stored, receiverVars, finish,
                   finished>>

(* The factory is called and its sender connected and started. *)
DrainConnect(t) ==
    /\ Drains(t, "connect")
    /\ current' = "running"
    /\ child_epoch' = drained[t]
    /\ drain' = [drain EXCEPT ![t] = "start"]
    /\ UNCHANGED <<started, epoch, stored, receiverVars, drained, finish,
                   finished>>

(* The factory or connect() throws. Where only connect() can, there is no  *)
(* exception to declare, and it ends the program, which is no step.        *)
DrainConnectThrows(t) ==
    /\ Drains(t, "connect")
    /\ NeedExceptionPtr
    /\ Complete("error")
    /\ LeaveDrain(t)
    /\ UNCHANGED <<started, epoch, childVars, stored>>

StartReturns(t) ==
    /\ Drains(t, "start")
    /\ drain' = [drain EXCEPT ![t] = "cas"]
    /\ UNCHANGED <<started, epoch, childVars, stored, receiverVars, drained,
                   finish, finished>>

(* Mutant: the loop ends whether or not the child has completed. *)
DrainCas_Leaves(t) ==
    /\ Drains(t, "cas")
    /\ epoch' = IF epoch = drained[t] THEN epoch + 1 ELSE epoch
    /\ LeaveDrain(t)
    /\ UNCHANGED <<started, childVars, stored, receiverVars>>

DrainCas(t) ==
    /\ Drains(t, "cas")
    /\ IF epoch = drained[t]
       THEN epoch' = epoch + 1 /\ LeaveDrain(t)
       ELSE /\ drain' = [drain EXCEPT ![t] = "process"]
            /\ UNCHANGED <<epoch, drained, finish, finished>>
    /\ UNCHANGED <<started, childVars, stored, receiverVars>>

-----------------------------------------------------------------------------
(* Completion of a child *)

(* On any thread that does nothing else, or inside start(). *)
ChildCompletes(t) ==
    /\ current = "running"
    /\ finish[t] = "none"
    /\ drain[t] \in {"none", "start"}
    /\ current' = "completing"
    /\ finish' = [finish EXCEPT ![t] = "store"]
    /\ finished' = [finished EXCEPT ![t] = child_epoch]
    /\ UNCHANGED <<started, epoch, child_epoch, stored, receiverVars, drain,
                   drained>>

(* child_value(), child_error() and child_stopped(). Storing a value or an *)
(* error may throw, and then the exception is stored.                      *)
ChildStores(t, kind) ==
    /\ finish[t] = "store"
    /\ stored' = kind
    /\ current' = "done"
    /\ finish' = [finish EXCEPT ![t] = "cas"]
    /\ UNCHANGED <<started, epoch, child_epoch, receiverVars, drain, drained,
                   finished>>

(* Mutant: a completion is processed by whoever sends it. *)
FinishCas_Processes(t) ==
    /\ finish[t] = "cas"
    /\ epoch' = IF epoch = finished[t] THEN epoch + 1 ELSE epoch
    /\ finish' = [finish EXCEPT ![t] = "process"]
    /\ UNCHANGED <<started, childVars, stored, receiverVars, drain, drained,
                   finished>>

FinishCas(t) ==
    /\ finish[t] = "cas"
    /\ IF epoch = finished[t]
       THEN epoch' = epoch + 1 /\ LeaveFinish(t)
       ELSE /\ finish' = [finish EXCEPT ![t] = "process"]
            /\ UNCHANGED <<epoch, drain, drained, finished>>
    /\ UNCHANGED <<started, childVars, stored, receiverVars>>

-----------------------------------------------------------------------------
(* process_stored_completion() *)

Processes(t) == Drains(t, "process") \/ finish[t] = "process"

LeaveFrame(t) ==
    IF finish[t] = "process" THEN LeaveFinish(t) ELSE LeaveDrain(t)

(* Mutant: an error, too, is put to the predicate. *)
ProcessAgain_Error(t) ==
    /\ Processes(t)
    /\ stored \in {"value", "error"} /\ epoch < MaxChildren
    /\ finish[t] = "process" => drain[t] = "none"
    /\ stored' = None
    /\ drain' = [drain EXCEPT ![t] = "check"]
    /\ finish' = [finish EXCEPT ![t] = "none"]
    /\ drained' = [drained EXCEPT ![t] = 0]
    /\ finished' = [finished EXCEPT ![t] = 0]
    /\ UNCHANGED <<started, epoch, childVars, receiverVars>>

(* The predicate does not hold: the loop goes on, in the frame of drain()  *)
(* that is there or in a new one.                                          *)
ProcessAgain(t) ==
    /\ Processes(t)
    /\ stored = "value" /\ epoch < MaxChildren
    /\ finish[t] = "process" => drain[t] = "none"
    /\ stored' = None
    /\ drain' = [drain EXCEPT ![t] = "check"]
    /\ finish' = [finish EXCEPT ![t] = "none"]
    /\ drained' = [drained EXCEPT ![t] = 0]
    /\ finished' = [finished EXCEPT ![t] = 0]
    /\ UNCHANGED <<started, epoch, childVars, receiverVars>>

(* The predicate holds, or throws if it may, or there is an error or a     *)
(* stop.                                                                   *)
ProcessAnswer(t, kind) ==
    /\ Processes(t)
    /\ \/ kind = stored
       \/ kind = "error" /\ stored = "value" /\ NeedExceptionPtr
    /\ Complete(kind)
    /\ LeaveFrame(t)
    /\ UNCHANGED <<started, epoch, childVars, stored>>

-----------------------------------------------------------------------------

(* request_stop() on the source of the receiver's token. *)
StopReceiver ==
    /\ ~stop
    /\ stop' = TRUE
    /\ UNCHANGED <<started, epoch, childVars, stored, answer, answers, frames>>

(* The steps of a call that is under way. *)
Continue(t) ==
    \/ DrainCheck(t) \/ DrainLoad(t) \/ DrainConnect(t)
    \/ DrainConnectThrows(t) \/ StartReturns(t) \/ DrainCas(t)
    \/ FinishCas(t) \/ ProcessAgain(t)
    \/ \E kind \in Completions : ChildStores(t, kind) \/ ProcessAnswer(t, kind)

Next ==
    \/ \E t \in Threads : Start(t) \/ ChildCompletes(t) \/ Continue(t)
    \/ StopReceiver

Spec == Init /\ [][Next]_vars

(* Threads are scheduled; a child completes when it likes, or never. *)
FairSpec == Spec /\ \A t \in Threads : WF_vars(Continue(t))

-----------------------------------------------------------------------------
(* Properties *)

TypeOK ==
    /\ started \in BOOLEAN
    /\ epoch \in Nat
    /\ current \in Currents
    /\ child_epoch \in Nat
    /\ stored \in Completions \union {None}
    /\ stop \in BOOLEAN
    /\ answer \in Completions \union {None}
    /\ answers \in Nat
    /\ drain \in [Threads -> DrainPcs]
    /\ drained \in [Threads -> Nat]
    /\ finish \in [Threads -> FinishPcs]
    /\ finished \in [Threads -> Nat]

(* The frames that use more of the operation than the epoch: the child, the *)
(* stored completion, the factory, the predicate or the receiver.          *)
DrainOwns(t) == Drains(t, "check") \/ Drains(t, "load")
                \/ Drains(t, "connect") \/ Drains(t, "process")

FinishOwns(t) == finish[t] \in {"store", "process"}

Inside(t) == drain[t] # "none" \/ finish[t] # "none"

(* The race for the epoch hands the operation from one to the other: one   *)
(* thread at a time uses it, a child is destroyed only after its start()   *)
(* has returned and its completion was stored, a completion that is nested *)
(* in drain() never loops on its own, so that the stack does not grow with *)
(* the iterations, and nobody is inside once the receiver was answered.    *)
Exclusive ==
    /\ \A t, u \in Threads :
         (DrainOwns(t) \/ FinishOwns(t)) /\ (DrainOwns(u) \/ FinishOwns(u))
             => t = u
    /\ \A t \in Threads : Drains(t, "check") =>
         /\ current \in {"none", "done"}
         /\ \A u \in Threads \ {t} : ~Inside(u)
    /\ \A t \in Threads : finish[t] = "process" => drain[t] = "none"
    /\ answer # None => answers = 1 /\ \A t \in Threads : ~Inside(t)

(* After a child has completed, the next one is started or the receiver is *)
(* answered: the completion is lost neither between start() and the        *)
(* compare-exchange after it, nor on another thread.                       *)
KeepsGoing ==
    (started /\ current # "running") ~> (answer # None \/ current = "running")

(* The operation implements its contract. A child has ended when its       *)
(* completion is stored.                                                   *)
Contract == INSTANCE RepeatContract WITH
    running <- current \in {"running", "completing"},
    ended <- stored

ContractSpec == Contract!Spec
=============================================================================
