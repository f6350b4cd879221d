------------------------------ MODULE SyncWait ------------------------------
(***************************************************************************)
(* sync_wait() of a sender that is made of tasks, adaptors and factories:  *)
(* include/bexec/sync_wait.hpp, task.hpp, awaitable.hpp, on.hpp, then.hpp, *)
(* into_variant.hpp, just.hpp and detail/let.hpp, over what the run loop   *)
(* promises.                                                               *)
(*                                                                         *)
(* The operations are nested: each one starts the next, which it owns, and *)
(* receives its completion. Operation 1 answers sync_wait(), the innermost *)
(* one is of a factory, just() or another, or of any other sender. Every   *)
(* handler ends with the call that it makes                                *)
(* to another operation and uses nothing afterwards, so that what a thread *)
(* does is the call it is in, and no stack is needed.                      *)
(*                                                                         *)
(* The run loop is LoopContract, which RunLoop implements.                 *)
(***************************************************************************)
EXTENDS Integers, Sequences, FiniteSets, Signatures

CONSTANTS
    Main,       \* the thread that calls sync_wait()
    Pool,       \* the thread of the scheduler given to starts_on() or on()
    Other,      \* a thread that completes senders of no scheduler
    Depth,      \* the number of nested tasks and adaptors
    Awaits,     \* how many senders a task awaits at most
    Programs,   \* the senders that sync_wait() is called with
    None        \* no completion

ASSUME DepthAssumption == Depth \in Nat \ {0} /\ Awaits \in Nat

ASSUME DistinctAssumption ==
    /\ Main # Pool /\ Main # Other /\ Pool # Other
    /\ None \notin Completions

VARIABLES
    program,    \* the sender: what its operations are, and may do
    phase,      \* progress of sync_wait()
    result,     \* sync_wait_state: value, error, stopped
    calls,      \* the call that every thread is in
    waits,      \* where an operation waits for a thread to call it
    alive,      \* the operations that are constructed
    sent,       \* the completion that an operation sent
    carrier,    \* the thread that it sent it on
    stored,     \* stored_ of an on() operation
    left,       \* how many senders a task may still await
    queue, finished, returned   \* the run loop

loopVars == <<queue, finished, returned>>
sentVars == <<sent, carrier>>
opVars == <<alive, stored, left>>
vars == <<program, phase, result, calls, waits, sentVars, opVars, loopVars>>

-----------------------------------------------------------------------------

Threads == {Main, Pool, Other}

Innermost == Depth + 1

Adaptors == 1 .. Depth

Operations == 1 .. Innermost

LetKinds == {"let_value", "let_error", "let_stopped"}

(* then() and its sisters, and into_variant(). *)
TransformKinds == {"then", "upon_error", "upon_stopped", "into_variant"}

Kinds == {"task", "starts_on", "on"} \union LetKinds \union TransformKinds

Leaves == {"other", "just", "just_error", "just_stopped"}

(* A sender: the kinds of its operations from the outermost one to the     *)
(* innermost; which of the callables may throw, or, of into_variant(), the *)
(* storing of a value; what the sender upstream of let_value() and its     *)
(* sisters may send, and what scheduling on the scheduler of starts_on()   *)
(* and on() may.                                                           *)
ASSUME ProgramsAssumption == \A p \in Programs :
    /\ \A n \in Adaptors : p.kind[n] \in Kinds /\ p.throws[n] \in BOOLEAN
    /\ p.kind[Innermost] \in Leaves
    /\ p.upstream \subseteq Completions
    /\ "value" \in p.pool /\ p.pool \subseteq Completions

kind == program.kind

throws == program.throws

IsLet(n) == kind[n] \in LetKinds

Transforms(n) == kind[n] \in TransformKinds

(* The completions that an adaptor acts upon, and does not pass on. *)
SelectedTag(k) ==
    CASE k \in {"then", "let_value", "into_variant"} -> "set_value"
      [] k \in {"upon_error", "let_error"} -> "set_error"
      [] k \in {"upon_stopped", "let_stopped"} -> "set_stopped"

Selects(n, completion) == SelectedTag(kind[n]) = Tag(completion)

-----------------------------------------------------------------------------
(* Programs *)

JustDeclares(k) ==
    CASE k = "just" -> {"value"}
      [] k = "just_error" -> {"error"}
      [] k = "just_stopped" -> {"stopped"}
      [] k = "other" -> Completions

TaskDeclares == {"value", "exception", "stopped"}

(* The completions that the sender of operation n declares, given those of *)
(* the next one.                                                           *)
SenderDeclares(p, n, child) ==
    LET k == p.kind[n]
    IN  CASE k \in Leaves -> JustDeclares(k)
          [] k = "task" -> TaskDeclares
          [] k = "starts_on" -> StartsOnDeclares(p.pool, child)
          [] k = "on" -> OnDeclares(child)
          [] k = "into_variant" -> IntoVariantDeclares(p.throws[n], child)
          [] k \in LetKinds ->
               LetDeclares(SelectedTag(k), p.throws[n], p.upstream, child)
          [] OTHER -> AdaptorDeclares(SelectedTag(k), p.throws[n], child)

(* The completions that the senders of all the operations declare. *)
Declared(p) ==
    LET declared[n \in Operations] ==
          SenderDeclares(p, n, declared[n + 1])
    IN  declared

(* The operations that are constructed with operation n, which has them    *)
(* inside: then() and its like have no state of their own.                 *)
Together(n) ==
    {m \in n .. Innermost : \A i \in n .. m - 1 : Transforms(i)}

(* Connecting a task or a sender of a factory throws nothing, and no       *)
(* transformation of them does. The values and callables are moved.        *)
NothrowConnect(n) ==
    \E m \in Together(n) : kind[m] \in {"task", "just", "just_error", "just_stopped"}

(* The scheduler in the environment that an operation finds: that of       *)
(* sync_wait(), or the one that an operation around it puts there, unless  *)
(* there is a task between them, whose environment is empty.               *)
Scheduler(k, n) ==
    LET around == {i \in 1 .. n - 1 : k[i] \in {"starts_on", "on", "task"}}
        nearest == CHOOSE i \in around : \A j \in around : j <= i
    IN  IF around = {} THEN "loop"
        ELSE IF k[nearest] = "task" THEN "none" ELSE "pool"

(* on() is connected only where there is a scheduler, and starts what it   *)
(* has been given through starts_on().                                     *)
OnIsConnected(k, n) ==
    /\ Scheduler(k, n) # "none"
    /\ n < Depth /\ k[n + 1] = "starts_on"

(* into_variant() takes a sender that declares a value. *)
WellFormed(p) ==
    \A n \in Adaptors :
        /\ p.kind[n] = "on" => OnIsConnected(p.kind, n)
        /\ p.kind[n] = "into_variant" => "value" \in Declared(p)[n + 1]

Loop == INSTANCE LoopContract

Idle == [at |-> "idle", op |-> 0, completion |-> None]

Init ==
    /\ program \in {p \in Programs : WellFormed(p)}
    /\ phase = "connect"
    /\ result = None
    /\ calls = [t \in Threads |-> Idle]
    /\ waits = [n \in Operations |-> "nowhere"]
    /\ alive = [n \in Operations |-> FALSE]
    /\ sent = [n \in Operations |-> None]
    /\ carrier = [n \in Operations |-> None]
    /\ stored = [n \in Operations |-> None]
    /\ left = [n \in Operations |-> 0]
    /\ Loop!Init

At(t, at, n) == calls[t].at = at /\ calls[t].op = n

Call(t, at, n, completion) ==
    calls' = [calls EXCEPT ![t] =
                 [at |-> at, op |-> n, completion |-> completion]]

Return(t) == calls' = [calls EXCEPT ![t] = Idle]

(* Operation n completes its receiver, which belongs to the operation      *)
(* around it.                                                              *)
Send(t, n, completion) ==
    /\ sent' = [sent EXCEPT ![n] = completion]
    /\ carrier' = [carrier EXCEPT ![n] = t]
    /\ Call(t, "receive", n - 1, completion)

(* Operation n is constructed by the one around it, and started. *)
Construct(t, n) ==
    /\ alive' = [m \in Operations |-> alive[m] \/ m \in Together(n)]
    /\ left' = [m \in Operations |-> IF m \in Together(n) THEN Awaits ELSE left[m]]
    /\ Call(t, "start", n, None)
    /\ UNCHANGED stored

(* The callable of let_value() and its sisters may throw, or constructing  *)
(* what it returns.                                                        *)
StartThrows(n) == (IsLet(n) /\ throws[n]) \/ ~NothrowConnect(n + 1)

(* Operation n starts the next one, or sends the exception that            *)
(* constructing it throws.                                                 *)
StartNext(t, n) ==
    \/ Construct(t, n + 1) /\ UNCHANGED sentVars
    \/ StartThrows(n) /\ Send(t, n, "exception") /\ UNCHANGED opVars

(* Operation n starts an operation of a scheduler. *)
Schedule(t, n, where) ==
    /\ IF where = "loop"
       THEN Loop!Enqueue(n) /\ UNCHANGED waits
       ELSE waits' = [waits EXCEPT ![n] = where] /\ UNCHANGED loopVars
    /\ Return(t)

-----------------------------------------------------------------------------
(* task: detail::task_operation, its promise, and sender_awaitable *)

TaskStart(t, n) ==
    /\ At(t, "start", n) /\ kind[n] = "task"
    /\ Call(t, "body", n, None)
    /\ UNCHANGED <<program, phase, result, waits, sentVars, opVars, loopVars>>

(* co_await constructs the operation in the frame. What that throws, the   *)
(* body throws.                                                            *)
TaskAwaits(t, n) ==
    /\ At(t, "body", n) /\ left[n] > 0
    /\ alive' = [m \in Operations |-> alive[m] \/ m \in Together(n + 1)]
    /\ left' = [m \in Operations |->
                   IF m \in Together(n + 1) THEN Awaits
                   ELSE IF m = n THEN left[m] - 1 ELSE left[m]]
    /\ Call(t, "start", n + 1, None)
    /\ UNCHANGED <<program, phase, result, waits, sentVars, stored, loopVars>>

(* co_return, or an exception that leaves the body; final_suspend(). *)
TaskEnds(t, n) ==
    /\ At(t, "body", n)
    /\ \E completion \in {"value", "exception"} : Send(t, n, completion)
    /\ UNCHANGED <<program, phase, result, waits, opVars, loopVars>>

(* A value or an error resumes the body, and the operation that was        *)
(* awaited ends with the expression. unhandled_stopped() ends the task and *)
(* leaves the coroutine where it is.                                       *)
TaskReceives(t, n) ==
    /\ At(t, "receive", n) /\ kind[n] = "task"
    /\ IF calls[t].completion = "stopped"
       THEN Send(t, n, "stopped") /\ UNCHANGED alive
       ELSE /\ Call(t, "body", n, None)
            /\ alive' = [m \in Operations |-> alive[m] /\ m <= n]
            /\ sent' = [m \in Operations |-> IF m <= n THEN sent[m] ELSE None]
            /\ UNCHANGED carrier
    /\ UNCHANGED <<program, phase, result, waits, stored, left, loopVars>>

-----------------------------------------------------------------------------
(* starts_on, and let_value, let_error, let_stopped: after one operation, *)
(* in a scheduler or upstream, comes another                              *)

(* start_schedule(); connecting to the scheduler may throw. *)
StartsOnStart(t, n) ==
    /\ At(t, "start", n) /\ kind[n] = "starts_on"
    /\ \/ Schedule(t, n, "pool") /\ UNCHANGED sentVars
       \/ Send(t, n, "exception") /\ UNCHANGED <<waits, loopVars>>
    /\ UNCHANGED <<program, phase, result, opVars>>

(* The upstream sender completes at once, or some time on any thread. *)
LetStart(t, n) ==
    /\ At(t, "start", n) /\ IsLet(n)
    /\ \/ \E completion \in program.upstream :
            Call(t, "first", n, completion) /\ UNCHANGED <<waits, loopVars>>
       \/ Schedule(t, n, "anywhere")
    /\ UNCHANGED <<program, phase, result, sentVars, opVars>>

Continues(n, completion) ==
    IF kind[n] = "starts_on" THEN completion = "value"
    ELSE Selects(n, completion)

(* Mutant: a completion that is not selected gets lost. *)
FirstCompletes_Dropped(t, n) ==
    /\ At(t, "first", n) /\ (kind[n] = "starts_on" \/ IsLet(n))
    /\ IF Continues(n, calls[t].completion)
       THEN StartNext(t, n)
       ELSE Return(t) /\ UNCHANGED <<sentVars, opVars>>
    /\ UNCHANGED <<program, phase, result, waits, loopVars>>

FirstCompletes(t, n) ==
    /\ At(t, "first", n) /\ (kind[n] = "starts_on" \/ IsLet(n))
    /\ IF Continues(n, calls[t].completion)
       THEN StartNext(t, n)
       ELSE Send(t, n, calls[t].completion) /\ UNCHANGED opVars
    /\ UNCHANGED <<program, phase, result, waits, loopVars>>

(* The second completion is passed on. *)
SecondCompletes(t, n) ==
    /\ At(t, "receive", n) /\ (kind[n] = "starts_on" \/ IsLet(n))
    /\ Send(t, n, calls[t].completion)
    /\ UNCHANGED <<program, phase, result, waits, opVars, loopVars>>

-----------------------------------------------------------------------------
(* on *)

OnStart(t, n) ==
    /\ At(t, "start", n) /\ kind[n] = "on"
    /\ StartNext(t, n)
    /\ UNCHANGED <<program, phase, result, waits, loopVars>>

(* Mutant: the handler goes on after an exception. *)
OnStores_GoesOn(t, n) ==
    /\ At(t, "receive", n) /\ kind[n] = "on"
    /\ stored' = [stored EXCEPT ![n] = calls[t].completion]
    /\ waits' = [waits EXCEPT ![n] = "pool"]
    /\ \/ Return(t) /\ UNCHANGED sentVars
       \/ Send(t, n, "exception")
    /\ UNCHANGED <<program, phase, result, alive, left, loopVars>>

(* store_value(), store_error() or store_stopped(), and start_final(). If  *)
(* either throws, the receiver gets that at once.                          *)
OnStores(t, n) ==
    /\ At(t, "receive", n) /\ kind[n] = "on"
    /\ \/ /\ stored' = [stored EXCEPT ![n] = calls[t].completion]
          /\ Schedule(t, n, Scheduler(kind, n))
          /\ UNCHANGED sentVars
       \/ /\ Send(t, n, "exception")
          /\ UNCHANGED <<stored, waits, loopVars>>
    /\ UNCHANGED <<program, phase, result, alive, left>>

(* Mutant: the completion of the scheduler is passed on, and not the one   *)
(* that was stored.                                                        *)
OnDelivers_Scheduled(t, n) ==
    /\ At(t, "first", n) /\ kind[n] = "on"
    /\ Send(t, n, calls[t].completion)
    /\ UNCHANGED <<program, phase, result, waits, opVars, loopVars>>

(* deliver_stored(), unless the scheduler has failed. *)
OnDelivers(t, n) ==
    /\ At(t, "first", n) /\ kind[n] = "on"
    /\ Send(t, n, IF calls[t].completion = "value"
                  THEN stored[n] ELSE calls[t].completion)
    /\ UNCHANGED <<program, phase, result, waits, opVars, loopVars>>

-----------------------------------------------------------------------------
(* then, upon_error, upon_stopped and into_variant *)

(* pass_through_operation *)
TransformStart(t, n) ==
    /\ At(t, "start", n) /\ Transforms(n)
    /\ Call(t, "start", n + 1, None)
    /\ UNCHANGED <<program, phase, result, waits, sentVars, opVars, loopVars>>

(* completion_adaptor_receiver: what the callable returns is the value,    *)
(* and what it throws the error.                                           *)
ThenReceives(t, n) ==
    /\ At(t, "receive", n) /\ kind[n] \in {"then", "upon_error", "upon_stopped"}
    /\ IF Selects(n, calls[t].completion)
       THEN \/ Send(t, n, "value")
            \/ throws[n] /\ Send(t, n, "exception")
       ELSE Send(t, n, calls[t].completion)
    /\ UNCHANGED <<program, phase, result, waits, opVars, loopVars>>

(* The value is stored in the variant, which may throw. *)
IntoVariantReceives(t, n) ==
    /\ At(t, "receive", n) /\ kind[n] = "into_variant"
    /\ \/ Send(t, n, calls[t].completion)
       \/ /\ calls[t].completion = "value" /\ throws[n]
          /\ Send(t, n, "exception")
    /\ UNCHANGED <<program, phase, result, waits, opVars, loopVars>>

-----------------------------------------------------------------------------
(* The innermost operation, and the threads *)

(* just(), just_error() and just_stopped() complete inside start(). *)
JustStart(t) ==
    /\ At(t, "start", Innermost) /\ kind[Innermost] # "other"
    /\ \E completion \in JustDeclares(kind[Innermost]) :
         Send(t, Innermost, completion)
    /\ UNCHANGED <<program, phase, result, waits, opVars, loopVars>>

OtherStart(t) ==
    /\ At(t, "start", Innermost) /\ kind[Innermost] = "other"
    /\ \/ /\ \E completion \in Completions : Send(t, Innermost, completion)
          /\ UNCHANGED <<waits, loopVars>>
       \/ /\ \E where \in {"loop", "anywhere"} : Schedule(t, Innermost, where)
          /\ UNCHANGED sentVars
    /\ UNCHANGED <<program, phase, result, opVars>>

OtherCompletes(t) ==
    /\ At(t, "first", Innermost)
    /\ Send(t, Innermost, calls[t].completion)
    /\ UNCHANGED <<program, phase, result, waits, opVars, loopVars>>

(* What an operation that waits for a thread may be called with. *)
Awaited(n) ==
    CASE n = Innermost -> JustDeclares(kind[n])
      [] n \in Adaptors /\ IsLet(n) -> program.upstream
      [] OTHER -> program.pool

(* A thread calls an operation that waits for it. *)
Complete(t, n) ==
    /\ calls[t] = Idle
    /\ \/ waits[n] = "pool" /\ t = Pool
       \/ waits[n] = "anywhere" /\ t # Main
    /\ waits' = [waits EXCEPT ![n] = "nowhere"]
    /\ \E completion \in Awaited(n) : Call(t, "first", n, completion)
    /\ UNCHANGED <<program, phase, result, sentVars, opVars, loopVars>>

-----------------------------------------------------------------------------
(* sync_wait() *)

(* The sender is connected and started, inside of which it may complete. *)
Connect ==
    /\ phase = "connect"
    /\ phase' = "start"
    /\ Construct(Main, 1)
    /\ UNCHANGED <<program, result, waits, sentVars, loopVars>>

Run ==
    /\ phase = "start" /\ calls[Main] = Idle
    /\ phase' = "run"
    /\ UNCHANGED <<program, result, calls, waits, sentVars, opVars, loopVars>>

(* The loop executes an operation. Nobody requests stop of the token that  *)
(* sync_wait() offers.                                                     *)
LoopExecutes ==
    /\ phase = "run" /\ calls[Main] = Idle
    /\ Loop!Execute
    /\ Call(Main, "first", Head(queue), "value")
    /\ UNCHANGED <<program, phase, result, waits, sentVars, opVars>>

(* sync_wait_receiver stores the completion; storing a value may throw. *)
Receive(t) ==
    /\ At(t, "receive", 0)
    /\ \/ result' = calls[t].completion
       \/ calls[t].completion = "value" /\ result' = "exception"
    /\ Call(t, "finish", 0, None)
    /\ UNCHANGED <<program, phase, waits, sentVars, opVars, loopVars>>

Finish(t) ==
    /\ At(t, "finish", 0)
    /\ Loop!Finish
    /\ Return(t)
    /\ UNCHANGED <<program, phase, result, waits, sentVars, opVars>>

(* run() returns, the result is read, and everything is destroyed. *)
LoopReturns ==
    /\ phase = "run" /\ calls[Main] = Idle
    /\ Loop!Return
    /\ phase' = "returned"
    /\ alive' = [n \in Operations |-> FALSE]
    /\ UNCHANGED <<program, result, calls, waits, sentVars, stored, left>>

-----------------------------------------------------------------------------

(* A handler of operation n goes on. *)
Handle(t, n) ==
    \/ TaskStart(t, n) \/ TaskAwaits(t, n) \/ TaskEnds(t, n)
    \/ TaskReceives(t, n)
    \/ StartsOnStart(t, n) \/ LetStart(t, n) \/ FirstCompletes(t, n)
    \/ SecondCompletes(t, n)
    \/ OnStart(t, n) \/ OnStores(t, n) \/ OnDelivers(t, n)
    \/ TransformStart(t, n) \/ ThenReceives(t, n) \/ IntoVariantReceives(t, n)

Step(t) ==
    \/ \E n \in Adaptors : Handle(t, n)
    \/ JustStart(t) \/ OtherStart(t) \/ OtherCompletes(t)
    \/ Receive(t) \/ Finish(t)

Wait == Connect \/ Run \/ LoopExecutes \/ LoopReturns

Next ==
    \/ \E t \in Threads :
         \/ Step(t)
         \/ \E n \in Operations : Complete(t, n)
    \/ Wait

Spec == Init /\ [][Next]_vars

(* Threads run, and sync_wait() goes on; what an operation waits for comes *)
(* when it likes, or never.                                                *)
FairSpec == Spec /\ WF_vars(Wait) /\ \A t \in Threads : WF_vars(Step(t))

-----------------------------------------------------------------------------
(* Properties *)

TypeOK ==
    /\ program \in Programs
    /\ phase \in {"connect", "start", "run", "returned"}
    /\ result \in Completions \union {None}
    /\ calls \in [Threads ->
            [at : {"idle", "start", "body", "first", "receive", "finish"},
             op : 0 .. Innermost, completion : Completions \union {None}]]
    /\ waits \in [Operations -> {"nowhere", "pool", "anywhere"}]
    /\ alive \in [Operations -> BOOLEAN]
    /\ sent \in [Operations -> Completions \union {None}]
    /\ carrier \in [Operations -> Threads \union {None}]
    /\ stored \in [Operations -> Completions \union {None}]
    /\ left \in [Operations -> 0 .. Awaits]
    /\ queue \in Seq(Operations) /\ finished \in BOOLEAN /\ returned \in BOOLEAN

Busy == {t \in Threads : calls[t] # Idle}

Waiting == {n \in Operations : waits[n] # "nowhere"}

(* The operations that a thread is in, will call, or the loop executes. *)
InUse == {calls[t].op : t \in Busy} \union Waiting
            \union {queue[i] : i \in 1 .. Len(queue)}

(* From the start of sync_wait() until it has told the loop to finish, the *)
(* computation is in one hand: of one thread, or of one operation that     *)
(* waits or is queued. No completion comes twice or on two threads, and no *)
(* operation is called before it is constructed, after it has completed or *)
(* when it was destroyed, be it by run() returning on another thread.      *)
OneHand ==
    /\ Cardinality(Busy) + Cardinality(Waiting) + Len(queue)
         = IF phase = "connect" \/ finished THEN 0 ELSE 1
    /\ \A n \in InUse \ {0} : alive[n] /\ sent[n] = None

(* The thread on which on() delivers what it has stored. *)
Deliverer(n) == IF Scheduler(kind, n) = "loop" THEN Main ELSE Pool

(* What an operation may send on a thread, once the one inside it has sent *)
(* what it has, or nothing: by the kind of the operation.                  *)
TaskFollows(inner, completion) ==
    IF completion = "stopped" THEN inner = "stopped"
    ELSE inner = None /\ completion \in {"value", "exception"}

StartsOnFollows(inner, completion) ==
    IF inner = None
    THEN completion \in {"exception"} \union (program.pool \ {"value"})
    ELSE completion = inner

LetFollows(n, inner, completion) ==
    IF inner = None
    THEN \/ completion \in program.upstream /\ ~Selects(n, completion)
         \/ completion = "exception" /\ StartThrows(n)
    ELSE completion = inner

TransformFollows(n, inner, completion) ==
    /\ inner # None
    /\ IF Selects(n, inner)
       THEN completion = "value" \/ (completion = "exception" /\ throws[n])
       ELSE completion = inner

OnFollows(t, n, inner, completion) ==
    \/ completion = "exception"
    \/ /\ inner # None
       /\ t = Deliverer(n)
       /\ \/ completion = inner
          \/ t = Pool /\ completion \in program.pool \ {"value"}

Follows(t, n, inner, completion) ==
    CASE kind[n] = "task" -> TaskFollows(inner, completion)
      [] kind[n] = "starts_on" -> StartsOnFollows(inner, completion)
      [] kind[n] = "on" -> OnFollows(t, n, inner, completion)
      [] IsLet(n) -> LetFollows(n, inner, completion)
      [] Transforms(n) -> TransformFollows(n, inner, completion)

(* What an operation sends follows from what it was sent. A task is        *)
(* stopped by the operation that it awaits alone. starts_on() and let_*    *)
(* pass on what the operation that they started sends; if there is none,   *)
(* the scheduler or the upstream sender has sent what they do not select,  *)
(* or starting it has failed. then(), its sisters and into_variant() make  *)
(* a value, or the exception of their callable, of what they select, and   *)
(* pass on everything else. on() sends what its sender sent, be it a value,*)
(* an error or a stop, on the thread of the scheduler that it was started  *)
(* with; it fails with that scheduler, or with an exception. All others    *)
(* send on the thread that they were called on. sync_wait() returns what   *)
(* operation 1 sent, unless storing its value has thrown.                  *)
Faithful ==
    /\ \A n \in Adaptors : alive[n] /\ sent[n] # None =>
         /\ Follows(carrier[n], n, sent[n + 1], sent[n])
         /\ kind[n] # "on" /\ sent[n + 1] # None => carrier[n] = carrier[n + 1]
    /\ finished =>
         /\ sent[1] # None
         /\ result = sent[1] \/ (sent[1] = "value" /\ result = "exception")

(* let_value() and its sisters also send what constructing the second      *)
(* operation throws, which they do not declare unless the callable may     *)
(* throw. Around them, upon_error() makes a value of it.                   *)
LetHides(n) == IsLet(n) /\ ~throws[n] /\ ~NothrowConnect(n + 1)

Undeclared(n, completion) ==
    \E m \in n .. Depth :
        /\ LetHides(m)
        /\ \/ completion = "exception"
           \/ /\ completion = "value"
              /\ \E i \in n .. m - 1 : kind[i] = "upon_error"

(* No operation completes in a way that its sender does not declare, but   *)
(* where let_value() or a sister hides an exception. sync_wait() has room  *)
(* for what it gets, and for what storing it throws.                       *)
Declares ==
    LET declared == Declared(program)
    IN  /\ \A n \in Operations : sent[n] # None =>
             sent[n] \in declared[n] \/ Undeclared(n, sent[n])
        /\ result # None =>
             \/ result \in declared[1] \union {"exception"}
             \/ Undeclared(1, result)

(* sync_wait() goes on until it returns or waits for another party. *)
Returns == (phase = "start") ~> (phase = "returned" \/ Waiting # {})
=============================================================================
