# TLA+ models of bexec

bexec is a header-only sender/receiver library (P2300 style) for C++20. Almost
all of its logic is in templates whose objects live on other people's stacks,
are destroyed by whoever is last, and complete on any thread. The models here
are about exactly that: which thread is last, what it may still touch, who is
answered, and how often.

File references are relative to `src/`.

## 1. Inventory

| Part | Source | State it keeps | Operations | Hard behaviour | What makes it correct |
|---|---|---|---|---|---|
| simple_counting_scope | `include/bexec/counting_scope.hpp`, `detail/counting_scope.hpp` | `word_` (count + closed, join-needed, joining bits), `joiners_` (Treiber stack of waiters), the waiters' `next` | `close`, `try_associate`, `disassociate`, start of a join, drain, destructor check | lock-free loops of many threads; last disassociate against a starting join; drain against waiters that free themselves | joins answered once, only when drained; the word agrees with what it counts; no access after the owner may destroy the scope |
| counting_scope | same | a simple scope and a stop source | the same, `request_stop`, `wrap` | the child sees two stop tokens | as above, and stop reaches the children |
| inplace_stop_source / token / callback | `include/bexec/stop_token.hpp` | `state_` (lock + requested bit), intrusive callback list, `requester_thread_` | register, unregister, `request_stop`, destructor | unregistration while a callback is popped or running, from inside the callback, or after the source died | a callback fires at most once, is never touched after its destructor returned, unregistration always returns |
| run_loop | `include/bexec/run_loop.hpp` | `head_` stack, `state_`, `waiting_`, `producers_`, mutex, condition variable | schedule/enqueue, `finish`, `run` | producers skip the notification if nobody waits; the loop dies as soon as `run()` returns | no lost wakeup, nothing dropped, FIFO execution, nobody inside when `run()` returns |
| spawn_future | `include/bexec/detail/associate.hpp` | heap state: completed / stopped / abandoned / cancelling flags, the consumer, an association | abandon, consume, try_cancel, finish_cancellation, complete, destroy_self | owner, stop request and completion in any order, nested in each other or on three threads | one answer; the state is freed once, by the last who needs it |
| when_all | `include/bexec/when_all.hpp`, `detail/when_all.hpp` | countdown, terminal state, error, values, a stop source and a stop callback | start, value/error/stopped of a child, stop callback, finish | children complete inline, in a stop callback, or in parallel; the receiver destroys everything when answered | one complete answer, the first failure decides and stops the others, nobody left inside |
| spawn | `detail/associate.hpp` | heap operation, two-step release | start, complete | the child completes while `start()` has not returned | freed once, by the second of the two |
| associate | `include/bexec/associate.hpp`, `detail/associate.hpp` | association, child operation, a stop callback on each upstream token | start, complete, stop | two tokens fire at the same time | one answer, association released once and last |
| repeat_until | `include/bexec/repeat_until.hpp`, `detail/repeat_until.hpp` | the child, its stored completion, an epoch | start, child completions, drain loop | inline completions must not recurse; completions on other threads must not be lost | exactly one child at a time, one answer |
| sync_wait | `include/bexec/sync_wait.hpp` | run_loop and result on the waiter's stack | completion, `finish`, `run` | the loop is destroyed while the completing thread may be inside `finish()` | the result is stored before `run()` returns |
| task, awaitable bridge | `include/bexec/task.hpp`, `awaitable.hpp` | coroutine frame, stored completion, awaited operation in the frame | await, resume, stop | completion on another thread, or inside the awaited `start()`, while `await_suspend` still runs; a stop ends the task while it stays suspended | resumed once by each awaited operation, completes once |
| starts_on, on | `include/bexec/on.hpp` | two child operations and the stored result | scheduler hops | either hop may throw or be stopped | one answer, delivered on the right scheduler |
| let_* | `include/bexec/let.hpp`, `detail/let.hpp` | first and second operation, stored arguments | construct the second from a completion of the first | construction may throw | arguments outlive the second operation |
| then, upon_*, into_variant, just* | `include/bexec/then.hpp`, `into_variant.hpp`, `just.hpp`, `detail/then.hpp`, `detail/operation.hpp` | the callable and the receiver | a completion is mapped inside one call | the callable, or storing a value, throws in the middle of the completion | one kind of completion is mapped, the others passed on, and whatever is sent was declared |
| completion signatures | `include/bexec/completion_signatures.hpp`, `detail/type_traits.hpp`, `on.hpp`, `detail/when_all.hpp` | none at run time | each adaptor computes a list from those of its senders | the declaration is computed in one place and kept to in another | no operation sends what its sender does not declare |
| environments, CPOs, concepts, generator | several | none shared | one call | none | type level, or one stack |

How they interact. A scope counts associations; `associate`, `spawn` and
`spawn_future` hold one each and give it back last. A join operation waits in
the scope's stack and is completed by the thread that gave back the last
association, or by the scheduler of the join's receiver. Stop requests travel
through `inplace_stop_source`: `when_all` and `spawn_future` own one and
register a callback with the token of their receiver. `run_loop` is the
scheduler that `sync_wait` drives. All of it is plain calls; everything shared
is an atomic word, a mutex section or an intrusive list.

The places where this goes wrong without a test noticing are the `hazards` of
`PROJECT.json`, each at its line, with the properties that watch it.

## 2. Modules

| Module | Models | Used by |
|---|---|---|
| `ScopeContract` | what a scope promises: associations come and go while open, a join is answered only when none is left, and then the scope is shut | refined by `CountingScope` |
| `CountingScope` | simple_counting_scope, one action per atomic access | `MCCountingScope`, `CountingScope_proofs` |
| `CountingScope_proofs` | inductive invariant and refinement, for all constants | |
| `StopContract` | what a stop source promises: one request, each callback once and one at a time, destructors that return when it is over | refined by `StopToken` |
| `StopToken` | stop source, token, callback, one action per lock section or atomic access | `MCStopToken`, `StopToken_proofs` |
| `StopToken_proofs` | inductive invariant and refinement, for any threads and registrations | |
| `LoopContract` | what a loop promises: a queue, executed in order, until finished and empty | refined by `RunLoop` |
| `RunLoop` | run_loop and its schedule operation | `MCRunLoop`, `RunLoop_proofs` |
| `RunLoop_proofs` | inductive invariant and refinement, for any threads and operations | |
| `SpawnFuture` | the heap state of spawn_future | `MCSpawnFuture`, `SpawnFuture_proofs` |
| `SpawnFuture_proofs` | inductive invariant | |
| `Signatures` | completion signatures, and what the adaptors declare | `SyncWait`, `WhenAll` |
| `WhenAll` | the operation state of when_all, and what it declares | `MCWhenAll`, `WhenAll_proofs` |
| `WhenAll_proofs` | inductive invariant, for any number of children and any senders | |
| `ScopedWork` | spawn, associate and the stop callback on two tokens, over `ScopeContract` | `MCScopedWork`, `ScopedWork_proofs` |
| `ScopedWork_proofs` | inductive invariant, for any jobs and joins | |
| `SyncWait` | sync_wait of nested tasks, starts_on, on, let_*, then, upon_* and into_variant over just* or another sender, over `LoopContract` | `MCSyncWait`, `SyncWait_proofs` |
| `SyncWait_proofs` | inductive invariant, for any depth and any programs | |
| `RepeatContract` | what repeat_until promises: one child after the other, one answer that follows from the last | refined by `RepeatUntil` |
| `RepeatUntil` | the operation state of repeat_until, one action per access to the epoch or the stored completion | `MCRepeatUntil`, `RepeatUntil_proofs` |
| `RepeatUntil_proofs` | inductive invariant and refinement, for all constants | |

Conventions. `pc` holds, for every thread or activity, the next access to
shared state; a call that returned leaves its thread `idle` with its locals
reset. A name ending in an underscore suffix with a capital
(`Disassociated_NoJoin`) is a plausible bug in the definition that follows it;
it is not part of any next-state relation and only documents what a property
can tell apart. Variables keep the names of the members they stand for.

### CountingScope

`word` is a record for the packed `word_`; the count never exceeds
`max_associations`, the number of association identities. `live` is the ghost
set of identities that the count stands for. `phase` follows every join
operation: a join `starting` has not had its compare-exchange, `registered` is
on the stack, `scheduled` was handed to the scheduler of its receiver by
`complete_deferred`, `done` has been answered and its memory may be gone. The
weak compare-exchanges fail spuriously in the code; here this is a stuttering
step, as they reload an unchanged word. `Destroy` is the owner's: it is taken
only when every join it started was answered and no thread is inside
`try_associate`, but without any promise about threads that are still giving an
association back, since those are the ones the destructor must cope with. The
destructor's `std::terminate()` branch is its guard.

Handles (association, token) are modelled by what they hold, not as objects;
`association::reset()` is why no two threads give back the same one.

### StopToken

The list is modelled pointer by pointer (`next`, `prev_ptr`, `head`), because
its consistency while callbacks register and unregister is the question.
`flag_ptr` is the address of `removed_during_callback` in a frame of
`request_stop()`, named by the thread that owns the frame. A thread inside a
callback is in user code again, and may construct and destroy registrations,
its own included. Spinning is not a step: a thread that cannot take the lock,
or that waits for `completed`, is simply not enabled, so that waiting for ever
shows up as a liveness violation and not as a live loop. For `StopContract`, the
callback that runs is the record that the one thread inside `request_stop()` has
in its hands, and a registration is gone when its destructor returns, so that a
destructor that does not wait shows as a step that the contract does not have.
A constructor that finds stop requested calls its callback itself, in one step
(`AddRefused`). The thread holds nothing of the source then, and the constructor
does nothing more when the callback returns, so that the registrations which the
callback constructs and destroys are what the thread does in its next steps.

### RunLoop

Threads that produce, and the one thread inside `run()`, take one action per
atomic access. `head_` with its intrusive `next` is the sequence `stack`; a
push compares only the top, and that is what its action compares. The constant
`EarlyLoad` states the memory model: with `FALSE` the accesses form one total
order; with `TRUE` the load of `waiting_` in `wake_one_waiter()` may yield the
value from before the compare-exchange on `head_` that precedes it in program
order, which acquire/release allows. `WakesSpuriously` is the condition variable
returning to its predicate without a notification; no fairness is assumed of it.

### SpawnFuture

Three activities: owner, cancellation, completion. Each has a `pc` and the
thread it runs `on`, so that a completion nested in a stop callback nested in
`start()` is told from one on a worker. Mutex sections are single actions.
After a thread has set out to destroy the state, what another one would do with
it is undefined, and the model lets it do nothing: the property that this does
not happen is stated separately (`SettlingSafe`, `AbandonSafe`,
`ConsumeSafe`). Paths on which allocation or construction throws are left out.

### Signatures

A list of completion signatures is the set of completions it allows: `value`,
`error`, `exception` (a `set_error` of a `std::exception_ptr`) and `stopped`.
Concatenating lists and dropping duplicates is a union, gathering by tag a
subset. The operators follow the metafunctions one by one, and state no
property of their own: the question is whether the operations keep to them, and
that is asked where completions are sent, in `Declares` of `SyncWait` and in
`AnswerComplete` of `WhenAll`. Whether a callable or a constructor is `noexcept`
is a choice of the program (`throws`) or of the sender (`stores`, `connects`,
`registers`), which both the declaration and the operation go by.

### WhenAll

Every thread has the stack of activities it is inside of, so that a child
completes on its own thread, in its `start()`, or in a stop callback of any
thread. `Senders` says what every child may send and what may throw: the
storing, moving and joining of values and errors, the connecting of a child,
the construction of the stop callback. An exception while a child is connected
or its value stored is an error of that child; one while its error is stored
takes the place of the error; one while the values are joined, inside the `try`
of `deliver_success()`, is the answer. A move into that function's parameter, or
of the error, that throws ends the program in the `noexcept` `finish_one()`, and
is no step.
The values themselves are left out; `values` is the set of children whose
values are stored. All children complete when they like, or never, with what
they declare, and declare at most one kind of value, without which `when_all`
declares none itself.

### ScopedWork

The composition: the scope is not modelled again but is `ScopeContract`, whose
associations are the jobs; run `counting_scope` and theorem
`ScopeImplementsContract` say that the code's scope is one. A job is an
operation of `spawn()` or a sender of `associate()` with the operation it is
connected to. Its owner makes, starts and drops it; its child completes on a
thread of its own, inside `start()` (which makes no difference here) or nested
in its stop callback. `callback` stands for the two registrations that
`scope_stop_callback` makes; they behave as `StopToken` shows: firing once, and
destroyed only after a callback on another thread is over. The child is any
operation that registers a stop callback when started and destroys it before it
completes, as the ones of the library do. A copy of a sender asks for its own
association, exactly as a new sender does, so it is one.

### SyncWait

The other composition: the run loop is `LoopContract`, whose operations are the
schedule operations of the nested senders. Operations 1 to `Depth` are tasks and
adaptors, each of which constructs and starts the next and receives its
completion; operation 1 belongs to `sync_wait()`, and the innermost one is a
factory (`just`, `just_error`, `just_stopped`) or any other sender, which
completes inline, on the loop, or on some other thread. The constant `Programs`
has the senders that are tried, `WellFormed` picks those that compile. `then()`,
`upon_*()` and `into_variant()` have no operation of their own: theirs is
constructed together with that of the sender inside (`Together`), and only their
receiver acts. `Scheduler` follows the environments: that of
`sync_wait()` has the loop, `starts_on()` and `on()` put theirs in front of it,
and a task has none, so that `on()` cannot be connected inside a task unless
something in between has a scheduler.

No stacks are needed. Every handler of these operations (start, a completion,
`await_suspend`, `final_suspend`) ends with the call it makes and uses nothing
when that returns (`task.hpp:49-51` and 89, `awaitable.hpp:242`); this was read in
the code, and the model takes it for granted: a handler that went on using its
operation would not show. The guards of the operation's existence are therefore at
the call (`InUse`), and `calls` is the innermost call of a thread. A throw is a
choice between going on and sending `"exception"`, wherever the code has a
`catch`, and where the program's callables may throw if the code asks for that.

`Faithful` says, by the kind of an operation, what it may send once the operation
inside it has sent what it did, or nothing: values, errors and stops, of all kinds
(`Follows`), and the thread on which that happens (`carrier`), which for `on()` is
the one of its start, whatever it delivers, and for all others that of the
operation inside.

`Declares` compares every completion that an operation sends with what its
sender declares. It leaves out two cases in which the code itself falls short,
see under Findings: a second sender of `let_*` that cannot be connected
(`LetHides`), and an error of the scheduler that `on()` returns to, which does
not show because the model has one scheduler beside the loop, and `on()` returns
either to the loop, which does not fail, or to the one it came through.
`Undeclared` is how far the first case reaches: every operation around such a
`let_*` may pass the exception on, and an `upon_error()` among them makes a value
of it, so that a sender may send a value that declares none.

`finish()` is one step of `LoopContract`, and `OneHand` says that nothing else is
going on by then: every `enqueue` happens before it and it is called once, which
is what `RunLoop` assumes. That the thread inside `finish()` has left when
`run()` returns is `LoopMayBeDestroyed` of `RunLoop`.

### RepeatUntil

A thread has at most two frames, `drain()` and inside it `finish_child()`; the
tail call from the second to the first replaces its frame. `drained` and
`finished` are the epochs these frames hold as locals. The predicate and the
factory may do anything that they may do in C++: hold or not, throw or not; the
predicate holds at the latest after `MaxChildren` children, the only bound.
What a child sent is one of three kinds; an exception while it is stored is an
error, as in the code.

## 3. Runs

| Run | Instance | States | What it shows |
|---|---|---|---|
| `counting_scope` | 3 threads, 2 associations, 2 joins | 167k | joins answered once and only when drained; drain and registration never strand or touch a dead waiter; a thread inside a destroyed scope is impossible; implements `ScopeContract`; joins on a closed scope are answered |
| `stop_token` | 3 threads, 3 registrations | 261k | lock, list and flags consistent; callbacks one-shot; no record used after it is gone; requests reach every callback; unregistration returns; implements `StopContract` |
| `run_loop` | runner + 2 producers, 3 operations, sequentially consistent | 73k | no lost wakeup, nothing dropped, FIFO, loop destructible when `run()` returns, everything executed, `run()` returns after `finish()` |
| `run_loop_early_load` | the same, `EarlyLoad` | violation | the reordering makes `enqueue()` skip the notification, and the waiter sleeps on the queued operation (`NoSleepOnWork`) |
| `spawn_future` | 3 activities, 3 threads | 266 | settling a cancellation against a completion: one answer, freed once, never used by the other after |
| `spawn_future_abandon` | the same | violation | `abandon()` requests stop of a state the completion destroyed |
| `spawn_future_consume` | the same | violation | `consume()` called on a state the completion destroyed |
| `when_all` | 3 children in 5 combinations of what they declare and what throws, receiver's stop, nested completions | 166k | one complete answer that is declared, no child left inside, the first failure decides, stop spreads, always answered |
| `repeat_until` | 3 threads, at most 4 children | 1k | the race for the epoch hands the operation to one thread at a time, completions are not lost, implements `RepeatContract` |
| `scoped_work` | 1 spawned operation, 1 associated sender, 1 join, stop of the scope and of both environments | 80k | an answered join means that no job is left; nobody uses a destroyed job; one stop signal per child; completed children are reclaimed |
| `sync_wait` | `Depth` 3 of any kinds (4016 programs), `Awaits` 2, 3 threads | 593k | the computation is in one hand until the loop is told to finish, nothing is used before it exists or after it completed or was destroyed; completions are passed on as the adaptors say, on the thread they say, and are declared; `sync_wait()` returns unless it waits for another party |
| `when_all_cancel` | 2 children | violation | the stop callback outlives the answer |

Why the bounds suffice. Every pairwise race of a scope needs two threads; the
third gives a concurrent associate, a second drain attempt, or a compare-
exchange that fails and is retried. Two associations tell "last" from "not
last"; two joins tell "on top of the stack" from "below", which is what the
drain's cursor is about. For the stop list three records give a head, a middle
and an end, and the third thread stands between requester and destroyer. Three
operations and two producers give batches of more than one, a batch enqueued
during a batch, and a push that lost its compare-exchange. Three children of
`when_all` give a first failure, a second one to be ignored and one that only
counts. Jobs of `ScopedWork` meet only in the scope, so one of each kind gives
every race of a job with its own child and stop tokens, and one job beside
another that keeps the scope from draining. Four children of `repeat_until` give
runs of inline and late completions in any alternation, and three threads a
starter, a completer and one more that would be there if the hand-over failed.
Three operations of `SyncWait` nest any two of the kinds in a third (`on()`
around its `starts_on()` in or around one more), and a task that awaits twice
reuses the place of the awaited operation. `Depth` and `Awaits` bound the
program that is run, not the code. `MCPrograms` has every nesting of tasks,
schedulers and `let_*` over a sender that may do anything, with everything that
can throw throwing, and every nesting with a transformation in it over every
leaf, with and without throwing callables, where less is declared below; the
second part has at most one task (over another sender, none), since a task
declares the same whatever it awaits; and every nesting of `let_*` with `then()`
and `upon_error()` over one completion of a factory, where little else is declared
than what they hide. `MCSenders` has children that send
anything and nothing throws, children that only succeed and everything throws,
and one child without a value among others, once for each completion that it
may have instead, with a stop callback that may fail to register.
But for `MaxChildren` and `Awaits` nothing is counted inside the
specifications: every join, registration, operation and child happens once, so
the state spaces are finite by themselves;
in `CountingScope` associations are taken and given back for ever.

Deadlock is not checked: in all eight systems every call may have returned, and
then nothing is left to do. Waiting for ever is covered by the liveness
properties.

### Fairness

* Threads that are inside a call go on (`WF` on the steps of a call, per
  thread): the operating system schedules them. No fairness is assumed of the
  start of a call, except as follows.
* `CountingScope`: associated work ends some day (`SF` that somebody starts to
  give an association back; strong, because the only thread that is free may be
  in other calls again and again), and the scheduler given a join's completion
  runs it (`WF`). `JoinAnswered` speaks of closed scopes only: on an open scope
  new associations may hold a join up for ever, and so does the code.
* `StopToken`: weak fairness of the lock is enough, because registrations are
  finitely many. With an unbounded supply the spinlock gives no such promise.
* `RunLoop`: `run()` and the calls go on; a parked thread wakes when notified,
  and spuriously at will (`WakesSpuriously`, without fairness).
* `SpawnFuture`, `WhenAll`, `ScopedWork`, `RepeatUntil`, `SyncWait`: steps of the code only. Children complete, owners
  use their future and stop is requested at will, or never.

### Findings

Four runs end in a violation, each of a sentence the repository itself states.

1. `run_loop.hpp:147` against the comment at 186-189: the argument that a
   producer which saw `waiting_ == 0` need not notify needs a total order of
   four accesses of which none is sequentially consistent. The run shows an
   `enqueue()` that pushes, reads the old `waiting_` and leaves, while the waiter,
   registered, read the old `head_` and sleeps on queued work (`NoSleepOnWork`).
   On machines whose read-modify-writes are full barriers it does not show.
2. `detail/associate.hpp:710`: `abandon()` uses the state's stop source after it
   unlocked with `abandoned_` set, when a completion already destroys the state
   (`docs/counting-scope.md:584` calls the operations serialized).
3. `detail/associate.hpp:920`: the stop callback is registered before
   `consume()`; a cancellation and a completion in between destroy the state
   `consume()` is called on.
4. `detail/when_all.hpp:59`: the last child may complete inside the
   `request_stop()` that the receiver's stop callback calls; the receiver is
   answered, may destroy the operation, and the source in it is locked again
   (`docs/design.md:497` relies on the operation being alive until completion).

Smaller ones without a run, met while the definitions were written:

* `generator.hpp:127`: the move assignment takes the frame and leaves `started_`,
  so that the assertion of `begin()` fails on a fresh generator that was moved
  into one that was begun.
* `docs/design.md:490` speaks of a mutex in `when_all`; the code arbitrates with
  an atomic.
* `docs/design.md:554-556` says that tasks await tasks through symmetric
  continuation transfer; `task_final_awaiter` (`task.hpp:49`) and
  `sender_awaitable::resume` (`awaitable.hpp:259`) resume by a nested call, so
  that a task which awaits inline completions in a loop grows the stack. The
  depth of the stack is not modelled.
* `let_*`: the comment at `detail/type_traits.hpp:226-229` says that only the
  callable can throw, and `let_completion_signatures` adds
  `set_error(std::exception_ptr)` for it alone; `detail/let.hpp:263-284` also
  catches what connecting the second sender throws and sends it. `Declares`
  fails without `Undeclared`.
* `on`: an error of the scheduler it returns to is forwarded (`on.hpp:191-195`),
  and `on_completion_signatures` (`on.hpp:133-141`) declares the errors of the
  scheduler it goes to only.
* `repeat_until`: where nothing but connecting the child may throw, that ends in
  `std::terminate()` (`detail/repeat_until.hpp:280-284`); `docs/design.md:429`
  sends it to the receiver. In `RepeatUntil` this throw is a step only where
  `NeedExceptionPtr` holds.
* `when_all`: `deliver_success` takes the values by value
  (`detail/when_all.hpp:326`), so that a move that throws does so in the
  `noexcept` `finish_one()`, before the `try` that is there for it; joining the
  values throws inside it (lines 338-350).
* `then`, `upon_*`: `docs/design.md:170-174` says that `exception_ptr` is always
  added; the code adds it if the callable may throw
  (`detail/type_traits.hpp:160-164`), and `AdaptorDeclares` follows the code.

## 4. Proofs

`CountingScope_proofs` proves, for any sets of threads, associations (finite)
and joins, and with no assumption but that `Null` and `Sentinel` are no joins:

* `Invariance`: the inductive invariant `Inv`;
* `TypeCorrect`, `WordCorrect`, `JoinsOnlyDrained`, `JoinsAnsweredOnce`,
  `CursorSafe`, `DestroySafe`: the types, and the invariants of run `counting_scope`;
* `ListIsStack`, `NoJoinLost`: what the list of waiting joins is, and who drains it;
* `ScopeImplementsContract`: the refinement of `ScopeContract`.

The invariants are not inductive as they stand. That a join is answered on a
drained scope only depends on who may be draining: `OwnsAssociation` and
`OwnsWaiter` say that a thread in the middle of a call owns what it names,
`CompletionsMatch` ties the number of answers to the phase, `StartedScope` says
that a join past its compare-exchange finds a scope that is joining or joined,
and `OneDrain` that at most one thread drains, and that the sentinel is there
exactly when the drain has its list. `Chain` is the part about the stack: the
stack, or the drainer's private list, is a `next`-linked chain of registered
joins: it is stated locally, by the predecessor and successor of every join, so
that no recursion and no induction over data is needed. `SomebodyWaits` says that a joining scope has an
association that will trigger the drain, and `Destroyed` that after the
destructor no pc touches the scope. The preservation proof has one lemma per
action, and one step per conjunct that the action can disturb. That the chain is
one list, and not several or a circle, is a fact about all joins at once:
`JoinersAreStack` has a sequence without repetition whose elements are the
registered joins, and every step leaves it alone, puts a join in front or takes
the first away. `NoJoinStranded` follows: a registered join is in the list of a
scope that still has associations, or somebody drains.

`RepeatUntil_proofs` proves, for any threads and any `MaxChildren`, assuming
only that `None` is not a completion: `Invariance`, `TypeCorrect`,
`EpochExcludes` (property `Exclusive`) and `RepeatImplementsContract`.
`Exclusive` is not inductive: that nobody else is inside when the loop goes on
needs to know what a thread has learnt from losing the race. The strengthening
has one part for the number of threads in each frame (`OneEach`), one that says
that the answer ends everything (`Unanswered`), and three that relate a frame or
the child to the epoch: a `drain()` before its compare-exchange whose epoch is
stale knows that the completion is stored and its sender gone (`DrainKnows`); a
`finish_child()` finds its epoch advanced if and only if `drain()` has left
(`FinishKnows`); and so would the child that still runs (`ChildKnows`). The
proof has one lemma per part. `CompletionsKept` is the converse of `Exclusive`, that
there is not one thread too few either: while the receiver is not answered, a child
runs or a thread is at a step after which the operation goes on (`NotLost`), since a
thread leaves without an answer only if it leaves a running child or the other thread
behind (`Occupied`).

`WhenAll_proofs` proves, for any finite set of children, any senders and any
nesting of the calls, from the assumptions that `WhenAll` states of its
constants: `Invariance`, `TypeCorrect`, `AnswersComplete`
(`AnswerComplete`), `Quiescent` (`CallbackQuiescent`) and `FirstDecidesHolds`
(`FirstDecides`). None of them is inductive. That the child that delivers is the
last needs the count (`Elected`: `remaining` is the number of children not
counted, unless the registration failed before any was started, `Refused`); that
the answer is whole needs to know that an error without a value in its slot has
a child about to store it, who is not counted yet (`Arbitrated`); that it is
declared needs that of everything under way and stored (`Justified`). For the
stop callback the stacks matter: an activity that is under way is on one stack,
once (`Stacked`), so the thread on whose stack the delivering child is, is the
only one for which `on_stop.reset()` need not wait. Every step leaves the stacks
alone, pushes one activity or pops one (`Moves`), and only `Finish` leads to a
delivery (`Deliveries`); from these two lemmas `StackedStep` and `ResetStep`
follow without looking at the actions again. The other conjuncts have one lemma
each, with one step per action.

Four more theorems concern what happens at the end. `OnlyTailLeft` (`OnlyTail`)
says how far the violation of `CancelLeft` goes: after the answer nothing is left of
a stop callback but the return from the callbacks of its request. `ResetsProceed`
(`NoCircularWait`) says that whoever waits in `on_stop.reset()` waits for another
thread, which waits for nobody; `Below`, on which both rest, says what an activity is
called by. `AnswerNotLost` (`AnswerSent`) and `StopNotLost` (`StopSent`) say that the
receiver has been answered once all children are counted, and that a failure that was
decided reaches the stop source.

`StopToken_proofs` proves, for any threads and any registrations, assuming only
that the two special pointers are told from everything else: `Invariance`,
`TypeCorrect`, `LockWorks` (`MutualExclusion`), `ListCorrect`
(`ListConsistent`), `RunsOnce` (`OneShot`, from the invariant and one step per
action: a record is invoked after the request, once, and while it is constructed,
registered or being destroyed), `FlagsCorrect` (`FlagsOwned`),
`NoUseAfter` (`NoUseAfterUnregister`) and `SourceImplementsContract` (the
refinement of `StopContract`). That a plain store opens the lock and
takes no request back needs to know what the word was: `Locked` says that
whoever holds the lock remembers the word as it is. `Owned` says that a
registration or unregistration under way owns its record, `Tracked` that a
record is linked, in the hands of the request_stop() that its flag names, or
over, and `Held` the same from the side of request_stop(). `ListConsistent`
speaks of an open lock only; `Chained` says how the list is linked while
somebody is in it: a record being published is its head already (`Coming`), one
being unlinked still has its back link (`Gone`), and the others are linked by
their neighbours (`WellLinked`), so that insertion and removal from any place
are shown without induction along the list. What the holder of the lock may rely
on are the lemmas `LockFacts` and `LockedList`. The refinement needs, besides, that
a callback that is under way was counted (`Counted`), and that its record is not
completed and not linked (`CalleeFacts`), so that the two destructors that return
on another thread find it over or never to run. `WaitsEnd` (`NoCircularWait`) is about
those that wait: they do so only while the callback runs on another thread, and that
thread is not in a destructor that waits, since it is the one that requested stop, and
its own destructors do not wait (`Popped`).

`ListIsWhole` (`ListIsSequence`) is what `Chained` cannot say, being about neighbours:
the linked records are one sequence, in the order of the links, from the head to the
null pointer. Every step leaves that sequence alone, puts a record in front of it or
takes one out from any place (`Linking`). `RequestsArrive` (`NoRequestMissed`): once stop
was requested, a callback that was not invoked is with its constructor, in the hands of
`request_stop()`, or linked while `request_stop()` is not done. That one leaves an empty
list, and nothing is linked after it, since a registration that finds the bit set does
not link its record (`Drained`). A record that is neither linked nor in hand was called
(`Counted`, `Finished`) or has a constructor that goes on (`Attended`).

`RunLoop_proofs` proves, for any finite set of threads (the counter of producers
is a cardinality) and any operations, assuming only that the runner is one of
the threads and that the null pointer is no operation: `Invariance`, `TypeCorrect`,
`DestructionSafe` (`LoopMayBeDestroyed`), `LoopImplementsContract` (the
refinement of `LoopContract`) and, where the accesses to `waiting_` and `head_`
have one order (`~EarlyLoad`), `WakeupsArrive` (`NoLostWakeup`); that this
assumption is needed is what the run `run_loop_early_load` shows. What run()
knows about the other threads is the counter, so `Counted` ties it to the threads
inside; `FinishLast` says that no push follows finish(), and `Ending` what run()
has made sure of at each step of its way out, so that the last look at the stack
stays true until the stack is closed. `Accounted` follows every operation from its
thread to the stack, the batch and its execution, and `Wakes` says that a
producer whose work the runner has not seen will see the runner waiting.

`ScopedWork_proofs` proves, for any spawned operations, associated senders and
joins: `Invariance`, `TypeCorrect`, `JoinSafe` (`JoinMeansGone`) and
`DestroyedAlone` (`NobodyInside`). Jobs meet in the scope only, so the invariant
takes each by itself: `SpawnPhases` and `SenderPhases` list where start() and the
completion may be together, and what is left of the child; `Associated` says that
whatever may run still has its association; `Callbacks` that a registration is
gone after its reset, unless the completion is nested in its own call.
`NoneLeftBehind` (`JobsEnd`) and `NoStopMissed` (`StopsArrive`) are the other
direction, that what must be done is not left to nobody: whoever destroys a child goes
on to give its association back (`Leaving`), and until the completion destroys it a
registration waits or was called (`Registered`).

`SyncWait_proofs` proves, for any programs of any depth and any number of awaits:
`Invariance`, `TypeCorrect`, `HandHolds` (`OneHand`) and `FaithfulHolds`
(`Faithful`). `Hand` says where the computation is, and `Called` and `WaitedFor`
that the operations around that place are constructed and have not completed
(`Reached`), and those inside it have not either (`Fresh`), or have just sent what
is at hand. Every step passes the hand to the same operation, to the one inside it
or to the one around it, so that the proof needs no induction along the nesting:
the actions are instances of four moves (`SendMove`, `DownMove`, `ParkMove`,
`TakeMove`), each shown to keep the invariant once. `Whole` is there because a
transformation starts the operation inside it without constructing it, and
`Connected` because on() is connected only where there is a scheduler to return to.

`DeclaresHolds` (`Declares`) has an invariant of its own, `Declaring`: whatever is sent,
offered by a thread or in the queue is declared by the sender it is from, or
`Undeclared`. Its steps need one fact about each kind of operation, that what it makes
of a declared completion is declared too, which the operators of `Signatures` decide,
and one about `Declared`, a recursive function along the nesting: that it satisfies its
equation (`DeclaredEquation`). A function that solves it for the innermost `k`
operations can be made to solve it for one more; a least `k` at which that fails
(`WFMin`) stands for the induction.

`KeepsOn` (`NeverStuck`) says that sync_wait() is never left without somebody who goes
on, and returns with a result. `Hand` says who has the computation; `Expected` adds that
schedulers and senders upstream complete only to operations that have a handler for it,
and `Concluded` that the result is stored before the loop is told to finish. That a
thread is in a call that is handled (`Handled`) stands for its next action being enabled,
and as the loop is not told to finish before, no guard of `LoopContract` is in its way.

What connects these two modules with the contracts that they are composed of is
`LoopIsContract` (`Spec => Loop!Spec`) and `ScopeIsContract` (`Spec => Scope!Spec`, in
`ScopedWork_proofs`). They follow from how the actions are written; that the contracts
hold of the code is `LoopImplementsContract` and `ScopeImplementsContract`.

`SpawnFuture_proofs` proves `Invariance`, `TypeCorrect`, `SettlesOnce`
(`SettlingSafe`), `ChildIsKept` (`ChildKeepsState`) and `AnswersJustified`
(`AnswerJustified`). The states are finitely many, so that the proof adds not
generality but the reason: `Settled` says that one activity at most delivers the
result or destroys the state, `Flags` and `Registration` what the flags and the
callback tell of the others, and `NoUse` that a state which is gone has nobody
left whom they would send there. `Nesting` is what lets the reset of the stop
callback rely on the callback being over. What it does not give is `AbandonSafe`
and `ConsumeSafe`, which are false: `NoUse` has nothing to say of an owner in
`request_stop` or `callbacks`, and of one in `consume` only that it was stopped.
`HazardsAreKnown` (`HazardsKnown`) says exactly when they fail, `ResetsProceed`
(`NoCircularWait`) that an answer which waits for the stop callback waits for a
cancellation that goes on, and `LastOneFinishes` (`NothingLeft`) that when all calls are
over nothing is left to do; its inductive part, `Owed`, names for everything to be done
who will do it.

Only model-checked: liveness (`JoinAnswered`, `StopReachesCallbacks`,
`UnregisterReturns`, `OperationsExecuted`, `RunReturns`, `FutureAnswered`,
`StateReclaimed`, `StopSpreads`, `Answered`, `KeepsGoing`, `ChildrenEnd`, `Returns`),
as temporal proofs under fairness are out of the provers' reach. What most of them rest
on is safety, and proved: that whoever must go on exists and is not held up
(`NoJoinLost`, `WaitsEnd`, `WakeupsArrive`, `LastOneFinishes`, `StopNotLost`,
`RequestsArrive`, `AnswerNotLost`, `CompletionsKept`, `NoneLeftBehind`, `NoStopMissed`,
`KeepsOn`), so that fairness adds no more than that this thread takes its next steps.
Every other property of a passing run is stated by a theorem, for all constants. The
`TypeOK` of every specification of code is proved, and no run lists one, as what a
wrong type would break the other invariants say. What the four violating runs refute
cannot be proved; that it fails in no other way is proved of `AbandonSafe`,
`ConsumeSafe` and `CancelLeft`.

## 5. What the models leave out

* `std::terminate()`: a path that ends in it is no step, so that nothing is claimed
  of it (a throwing connect of `repeat_until` that is not declared, a throwing move
  where `when_all` delivers).
* Memory order, but for `EarlyLoad`: accesses of one object are in one total
  order, and accesses of different objects in program order.
* Values, errors and types of completions, but for the type of exceptions;
  exceptions other than those named. Values and callables are moved without
  throwing, and a sender of `when_all` has one kind of value.
* In `SyncWait`, what a handler does after the call it makes (nothing, as the code is
  written), the sender upstream of `let_*` (it completes with what the
  program says, at once or on any thread) and any scheduler but the loop and one
  other.
* A second `run()` or `finish()` and an `enqueue` that does not happen before
  `finish()`, all against the documented contract of the loop; copies of handles,
  null stop tokens, overflow of the 61-bit count (the limit itself, at which
  `try_associate` refuses, is modelled).
* The components marked `not_modelled` in `PROJECT.json`, for good: environments
  and concepts, which are compile-time dispatch, and `generator`, which is
  resumed by its one caller on one stack.
* Of the type level, what does not decide which completions are sent: the tuple
  and variant types of values, the check that a receiver accepts a list, and how
  `noexcept` is detected.
* Tasks driven by hand (`start()`, `result()`), native awaitables,
  `set_continuation()`, schedulers that complete inside `start()`.

## 6. Plan

What is there: the scope and everything that works in it, stop tokens, the run
loop and `sync_wait` of nested tasks, adaptors and factories over it, `when_all`
and `repeat_until`, and what they declare. Next, in this order:

1. `WhenAll`, `SpawnFuture` and `ScopedWork` over `StopContract`, instead of stop
   callbacks of their own.
2. Over that, in one module, a scope, its stop source and the children that register
   with it.
3. Tasks driven by hand (`start()`, `result()`), and `into_variant` and `when_all`
   of senders with several kinds of value.
