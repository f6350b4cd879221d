------------------------------ MODULE RunLoop ------------------------------
(***************************************************************************)
(* run_loop and its schedule operation (include/bexec/run_loop.hpp).       *)
(*                                                                         *)
(* Producers push operations on a Treiber stack; the thread inside run()   *)
(* takes the whole stack, reverses it and executes the batch. When there   *)
(* is nothing to do that thread parks on a condition variable, and a       *)
(* counter of parked waiters tells producers whether there is anybody to   *)
(* notify. A counter of threads inside enqueue() and finish() keeps run()  *)
(* from returning, and its owner from destroying the loop, under their     *)
(* feet.                                                                   *)
(*                                                                         *)
(* The stack is modelled as the sequence of its operations, top first: a   *)
(* push compares the top only, and pushing on an equal top is right        *)
(* whatever is below it. Every atomic access is an action. The critical    *)
(* section of a notifier holds the notification alone and is one action.   *)
(***************************************************************************)
EXTENDS Integers, Sequences, FiniteSets, SequencesExt

CONSTANTS
    Threads,        \* the threads that use the loop
    Runner,         \* the one that calls run()
    Operations,     \* the operations ever scheduled, each started once
    Null,           \* the null pointer
    EarlyLoad       \* the load of waiting_ may take effect before the
                    \* compare-exchange that precedes it is visible to the
                    \* waiter: both are acquire/release, neither is
                    \* sequentially consistent

ASSUME ThreadsAssumption == IsFiniteSet(Threads)

ASSUME RunnerAssumption == Runner \in Threads

ASSUME NullAssumption == Null \notin Operations

ASSUME EarlyLoadAssumption == EarlyLoad \in BOOLEAN

VARIABLES
    stack,      \* head_: the stack of enqueued operations
    closed,     \* head_ is run_loop_closed_stack()
    state,      \* state_
    waiting,    \* waiting_
    producers,  \* producers_
    mutex,      \* mutex_ is held by the thread inside run()
    run,        \* progress of run()
    batch,      \* run(): the operations taken and not yet executed
    pc,         \* progress of every thread inside enqueue() and finish()
    op,         \* enqueue(): the operation
    top,        \* enqueue(): the top of the stack last seen
    early,      \* the value of waiting_ before the compare-exchange
    todo,       \* the operations that were never started
    executed    \* the operations that were executed

loopVars == <<stack, closed, state, waiting, producers, mutex>>
runVars == <<run, batch, executed>>
callVars == <<pc, op, top, early, todo>>
vars == <<loopVars, runVars, callVars>>

-----------------------------------------------------------------------------

States == {"starting", "running", "finishing", "finished"}

RunPcs == {"idle", "pop", "check", "drain", "drain_pop", "close", "closed",
           "park", "register", "check_work", "check_state", "sleep", "woken",
           "unpark", "execute", "executing", "returned"}

CallPcs == {"idle", "enqueue", "load", "cas", "finish", "finish_cas",
            "wake", "notify", "wake_all", "notify_all", "leave"}

Init ==
    /\ stack = <<>>
    /\ closed = FALSE
    /\ state = "starting"
    /\ waiting = 0
    /\ producers = 0
    /\ mutex = FALSE
    /\ run = "idle"
    /\ batch = <<>>
    /\ pc = [t \in Threads |-> "idle"]
    /\ op = [t \in Threads |-> Null]
    /\ top = [t \in Threads |-> Null]
    /\ early = [t \in Threads |-> 0]
    /\ todo = Operations
    /\ executed = {}

Top == IF stack = <<>> THEN Null ELSE Head(stack)

Goto(t, label) == pc' = [pc EXCEPT ![t] = label]

(* User code: outside of every call, and inside execute() on the thread    *)
(* that runs the loop.                                                     *)
InUserCode(t) ==
    /\ pc[t] = "idle"
    /\ t = Runner => run \in {"idle", "executing", "returned"}

(* The contract of finish(): it is called once, every enqueue() has        *)
(* published its operation by then, and none follows.                      *)
Finishing ==
    \/ state \in {"finishing", "finished"}
    \/ \E t \in Threads : pc[t] \in {"finish", "finish_cas"}

-----------------------------------------------------------------------------
(* enqueue(), called by the start() of a schedule operation *)

EnqueueStart(t, o) ==
    /\ InUserCode(t)
    /\ ~Finishing
    /\ o \in todo
    /\ todo' = todo \ {o}
    /\ op' = [op EXCEPT ![t] = o]
    /\ Goto(t, "enqueue")
    /\ UNCHANGED <<loopVars, runVars, top, early>>

(* The checkpoint, for enqueue() and for finish(). *)
Enter(t) ==
    /\ pc[t] \in {"enqueue", "finish"}
    /\ producers' = producers + 1
    /\ early' = [early EXCEPT ![t] = waiting]
    /\ Goto(t, IF pc[t] = "enqueue" THEN "load" ELSE "finish_cas")
    /\ UNCHANGED <<stack, closed, state, waiting, mutex, runVars, op, top,
                   todo>>

EnqueueLoad(t) ==
    /\ pc[t] = "load"
    /\ top' = [top EXCEPT ![t] = Top]
    /\ early' = [early EXCEPT ![t] = waiting]
    /\ Goto(t, "cas")
    /\ UNCHANGED <<loopVars, runVars, op, todo>>

EnqueueCas(t) ==
    /\ pc[t] = "cas"
    /\ IF ~closed /\ Top = top[t]
       THEN /\ stack' = <<op[t]>> \o stack
            /\ op' = [op EXCEPT ![t] = Null]
            /\ top' = [top EXCEPT ![t] = Null]
            /\ Goto(t, "wake")
            /\ UNCHANGED early
       ELSE /\ top' = [top EXCEPT ![t] = Top]
            /\ early' = [early EXCEPT ![t] = waiting]
            /\ UNCHANGED <<stack, op, pc>>
    /\ UNCHANGED <<closed, state, waiting, producers, mutex, runVars, todo>>

(* wake_one_waiter() and wake_all_waiters(): the load of waiting_, which   *)
(* skips the notification when nobody is parked.                           *)
WakeLoad(t) ==
    /\ pc[t] \in {"wake", "wake_all"}
    /\ \E seen \in {waiting} \union (IF EarlyLoad THEN {early[t]} ELSE {}) :
          Goto(t, IF seen = 0 THEN "leave"
                  ELSE IF pc[t] = "wake" THEN "notify" ELSE "notify_all")
    /\ early' = [early EXCEPT ![t] = 0]
    /\ UNCHANGED <<loopVars, runVars, op, top, todo>>

(* Mutant: the notification is sent without the mutex. *)
Notify_Unlocked(t) ==
    /\ pc[t] \in {"notify", "notify_all"}
    /\ run' = IF run = "sleep" THEN "woken" ELSE run
    /\ Goto(t, "leave")
    /\ UNCHANGED <<loopVars, batch, executed, op, top, early, todo>>

(* Lock the mutex, notify, unlock it. There is one waiter at most, so that *)
(* notify_one() and notify_all() wake the same.                            *)
Notify(t) ==
    /\ pc[t] \in {"notify", "notify_all"}
    /\ ~mutex
    /\ run' = IF run = "sleep" THEN "woken" ELSE run
    /\ Goto(t, "leave")
    /\ UNCHANGED <<loopVars, batch, executed, op, top, early, todo>>

Leave(t) ==
    /\ pc[t] = "leave"
    /\ producers' = producers - 1
    /\ Goto(t, "idle")
    /\ UNCHANGED <<stack, closed, state, waiting, mutex, runVars, op, top,
                   early, todo>>

-----------------------------------------------------------------------------
(* finish() *)

FinishStart(t) ==
    /\ InUserCode(t)
    /\ ~Finishing
    /\ \A u \in Threads : pc[u] \notin {"enqueue", "load", "cas"}
    /\ Goto(t, "finish")
    /\ UNCHANGED <<loopVars, runVars, op, top, early, todo>>

(* Mutant: finish() leaves without waking the waiter. *)
FinishCas_NoWake(t) ==
    /\ pc[t] = "finish_cas"
    /\ state' = "finishing"
    /\ Goto(t, "leave")
    /\ UNCHANGED <<stack, closed, waiting, producers, mutex, runVars, op, top,
                   early, todo>>

FinishCas(t) ==
    /\ pc[t] = "finish_cas"
    /\ state' = "finishing"
    /\ Goto(t, "wake_all")
    /\ UNCHANGED <<stack, closed, waiting, producers, mutex, runVars, op, top,
                   early, todo>>

-----------------------------------------------------------------------------
(* run() *)

BeginRun ==
    /\ run = "idle" /\ pc[Runner] = "idle"
    /\ state' = IF state = "starting" THEN "running" ELSE state
    /\ run' = "pop"
    /\ UNCHANGED <<stack, closed, waiting, producers, mutex, batch, executed,
                   callVars>>

(* Mutant: the batch is executed in the order of the stack. *)
PopAll_NotReversed ==
    /\ run \in {"pop", "drain_pop"}
    /\ stack # <<>>
    /\ batch' = stack
    /\ stack' = <<>>
    /\ run' = "execute"
    /\ UNCHANGED <<closed, state, waiting, producers, mutex, executed,
                   callVars>>

(* try_pop_all() and reverse(), first at the top of the loop and again     *)
(* when no producer is left.                                               *)
PopAll ==
    /\ run \in {"pop", "drain_pop"}
    /\ stack # <<>>
    /\ batch' = Reverse(stack)
    /\ stack' = <<>>
    /\ run' = "execute"
    /\ UNCHANGED <<closed, state, waiting, producers, mutex, executed,
                   callVars>>

PopNothing ==
    /\ run \in {"pop", "drain_pop"}
    /\ stack = <<>>
    /\ run' = IF run = "pop" THEN "check" ELSE "close"
    /\ UNCHANGED <<loopVars, batch, executed, callVars>>

CheckState ==
    /\ run = "check"
    /\ run' = IF state = "finishing" THEN "drain" ELSE "park"
    /\ UNCHANGED <<loopVars, batch, executed, callVars>>

(* Mutant: run() does not wait for the threads inside enqueue(), finish(). *)
DrainProducers_NoSpin ==
    /\ run = "drain"
    /\ run' = "drain_pop"
    /\ UNCHANGED <<loopVars, batch, executed, callVars>>

(* Spin until no thread is inside enqueue() or finish(). *)
DrainProducers ==
    /\ run = "drain"
    /\ producers = 0
    /\ run' = "drain_pop"
    /\ UNCHANGED <<loopVars, batch, executed, callVars>>

(* try_finish_empty() *)
CloseStack ==
    /\ run = "close"
    /\ IF stack = <<>>
       THEN closed' = TRUE /\ run' = "closed"
       ELSE run' = "park" /\ UNCHANGED closed
    /\ UNCHANGED <<stack, state, waiting, producers, mutex, batch, executed,
                   callVars>>

SetFinished ==
    /\ run = "closed"
    /\ state' = "finished"
    /\ run' = "returned"
    /\ UNCHANGED <<stack, closed, waiting, producers, mutex, batch, executed,
                   callVars>>

(* Parking: the waiter is counted, with the mutex held, before it looks    *)
(* for work, and wait() gives the mutex up and sleeps in one step.         *)
ParkLock ==
    /\ run = "park"
    /\ ~mutex
    /\ mutex' = TRUE
    /\ run' = "register"
    /\ UNCHANGED <<stack, closed, state, waiting, producers, batch, executed,
                   callVars>>

(* Mutant: the waiter looks for work before it is counted as parked. *)
ParkRegister_Late ==
    /\ run = "register"
    /\ waiting' = waiting + 1
    /\ run' = "sleep"
    /\ mutex' = FALSE
    /\ UNCHANGED <<stack, closed, state, producers, batch, executed, callVars>>

ParkRegister ==
    /\ run = "register"
    /\ waiting' = waiting + 1
    /\ run' = "check_work"
    /\ UNCHANGED <<stack, closed, state, producers, mutex, batch, executed,
                   callVars>>

ParkCheckWork ==
    /\ run = "check_work"
    /\ run' = IF stack # <<>> THEN "unpark" ELSE "check_state"
    /\ UNCHANGED <<loopVars, batch, executed, callVars>>

ParkCheckState ==
    /\ run = "check_state"
    /\ IF state = "finishing"
       THEN run' = "unpark" /\ UNCHANGED mutex
       ELSE run' = "sleep" /\ mutex' = FALSE
    /\ UNCHANGED <<stack, closed, state, waiting, producers, batch, executed,
                   callVars>>

(* The condition variable may wake a waiter that nobody notified.          *)
WakesSpuriously ==
    /\ run = "sleep"
    /\ run' = "woken"
    /\ UNCHANGED <<loopVars, batch, executed, callVars>>

(* A waiter that woke takes the mutex again and evaluates the predicate.   *)
ParkWakes ==
    /\ run = "woken"
    /\ ~mutex
    /\ mutex' = TRUE
    /\ run' = "check_work"
    /\ UNCHANGED <<stack, closed, state, waiting, producers, batch, executed,
                   callVars>>

Unpark ==
    /\ run = "unpark"
    /\ waiting' = waiting - 1
    /\ mutex' = FALSE
    /\ run' = "pop"
    /\ UNCHANGED <<stack, closed, state, producers, batch, executed, callVars>>

(* execute_all(): the next operation of the batch completes its receiver,  *)
(* whose code runs before execute() returns.                               *)
Execute ==
    /\ run = "execute"
    /\ batch # <<>>
    /\ executed' = executed \union {Head(batch)}
    /\ batch' = Tail(batch)
    /\ run' = "executing"
    /\ UNCHANGED <<loopVars, callVars>>

ExecuteReturns ==
    /\ run = "executing" /\ pc[Runner] = "idle"
    /\ run' = "execute"
    /\ UNCHANGED <<loopVars, batch, executed, callVars>>

BatchDone ==
    /\ run = "execute"
    /\ batch = <<>>
    /\ run' = "pop"
    /\ UNCHANGED <<loopVars, batch, executed, callVars>>

-----------------------------------------------------------------------------

(* The steps of an enqueue() or finish() that is under way. *)
Call(t) ==
    \/ Enter(t) \/ EnqueueLoad(t) \/ EnqueueCas(t)
    \/ WakeLoad(t) \/ Notify(t) \/ Leave(t) \/ FinishCas(t)

(* The steps of run(). *)
Run ==
    \/ BeginRun \/ PopAll \/ PopNothing \/ CheckState
    \/ DrainProducers \/ CloseStack \/ SetFinished
    \/ ParkLock \/ ParkRegister \/ ParkCheckWork \/ ParkCheckState
    \/ ParkWakes \/ Unpark
    \/ Execute \/ ExecuteReturns \/ BatchDone

Next ==
    \/ \E t \in Threads :
         \/ \E o \in Operations : EnqueueStart(t, o)
         \/ FinishStart(t)
         \/ Call(t)
    \/ Run
    \/ WakesSpuriously

Spec == Init /\ [][Next]_vars

(* The system schedules the threads; run() is called; completions that the *)
(* loop executes return. Nobody is helped by a spurious wakeup.            *)
FairSpec == Spec /\ WF_vars(Run) /\ \A t \in Threads : WF_vars(Call(t))

-----------------------------------------------------------------------------
(* Properties *)

TypeOK ==
    /\ stack \in Seq(Operations)
    /\ closed \in BOOLEAN
    /\ state \in States
    /\ waiting \in Nat
    /\ producers \in Nat
    /\ mutex \in BOOLEAN
    /\ run \in RunPcs
    /\ batch \in Seq(Operations)
    /\ pc \in [Threads -> CallPcs]
    /\ op \in [Threads -> Operations \union {Null}]
    /\ top \in [Threads -> Operations \union {Null}]
    /\ early \in [Threads -> Nat]
    /\ todo \in SUBSET Operations
    /\ executed \in SUBSET Operations

(* The thread inside run() never sleeps on work or on finish() unless a    *)
(* thread that is to wake it is on its way: the wait counter closes the    *)
(* window between the predicate and the sleep.                             *)
NoLostWakeup ==
    run = "sleep" /\ (stack # <<>> \/ state = "finishing")
        => \E t \in Threads :
             pc[t] \in {"wake", "notify", "wake_all", "notify_all"}

(* The thread inside run() never sleeps on queued work while the producers *)
(* that enqueued it have decided not to wake it: a producer that saw no    *)
(* waiter has published its operation before the predicate is evaluated,   *)
(* "which then observes the queued work and keeps the waiter out of        *)
(* wait()" (pop_all_blocking()).                                           *)
NoSleepOnWork ==
    run = "sleep" /\ stack # <<>>
        => \E t \in Threads : pc[t] \in {"wake", "notify"}

(* When run() returns, its owner may destroy the loop: no thread is inside *)
(* enqueue() or finish(), the destructor's assertions hold, and nothing    *)
(* that was enqueued is left behind. The stack is closed only when nobody  *)
(* comes with an operation any more.                                       *)
LoopMayBeDestroyed ==
    /\ run = "returned" =>
        /\ \A t \in Threads : pc[t] = "idle"
        /\ stack = <<>> /\ closed
        /\ state = "finished"
        /\ executed = Operations \ todo
    /\ \A t \in Threads : pc[t] \in {"load", "cas"} => ~closed

(* Every operation that was enqueued is executed, with or without finish().*)
OperationsExecuted ==
    \A o \in Operations : (o \notin todo) ~> (o \in executed)

(* run() returns after finish(). *)
RunReturns == (state = "finishing") ~> (run = "returned")

(* The loop implements its contract: first in, first out, from the         *)
(* compare-exchange of enqueue() on.                                       *)
Contract == INSTANCE LoopContract WITH
    queue <- batch \o Reverse(stack),
    finished <- state \in {"finishing", "finished"},
    returned <- (run = "returned")

ContractSpec == Contract!Spec
=============================================================================
