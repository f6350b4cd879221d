--------------------------- MODULE CountingScope ---------------------------
(***************************************************************************)
(* simple_counting_scope (include/bexec/counting_scope.hpp), which         *)
(* counting_scope wraps: the lock-free state machine behind associations,  *)
(* close() and join().                                                     *)
(*                                                                         *)
(* Two atomics carry the whole scope. word_ packs the number of            *)
(* associations with three state bits, and every operation but close() is  *)
(* a compare-exchange loop on the complete word; joiners_ is a Treiber     *)
(* stack of waiting join operations that is drained once, by an exchange   *)
(* that leaves a sentinel behind. One action is one atomic access with the *)
(* thread-local work up to the next one. The accesses are interleaved in   *)
(* one total order: the acquire/release annotations are taken to make that *)
(* order observable.                                                       *)
(*                                                                         *)
(* The compare-exchanges are the weak form. A spurious failure reloads the *)
(* word it already had, hence is a stuttering step here.                   *)
(***************************************************************************)
EXTENDS Integers, FiniteSets

CONSTANTS
    Threads,        \* the threads that call into the scope
    Associations,   \* one identity per unit of max_associations
    Waiters,        \* the join operations, each started at most once
    Null,           \* the null pointer
    Sentinel        \* the scope's own address, as a drained list head

ASSUME AssociationsAssumption == IsFiniteSet(Associations)

ASSUME PointersAssumption ==
    /\ Null \notin Waiters
    /\ Sentinel \notin Waiters \union {Null}

VARIABLES
    word,       \* word_: association count and state bits
    joiners,    \* joiners_: top of the stack of waiting joins, or Sentinel
    next,       \* scope_join_waiter::next of every join operation
    phase,      \* where every join operation is in its life
    completions,\* how often the receiver of every join was completed
    live,       \* associations that are counted in the word
    alive,      \* the scope has not been destroyed
    pc,         \* the next atomic access of every thread
    bits,       \* the word a compare-exchange loop last saw
    head,       \* register_joiner: the list head last seen
    list,       \* complete_registered_joins: the drain's cursor
    assoc,      \* the association a thread is giving back
    waiter      \* the join operation a thread is starting

vars == <<word, joiners, next, phase, completions, live, alive, pc, bits,
          head, list, assoc, waiter>>

shared == <<word, joiners, next, phase, completions, live, alive>>
locals == <<bits, head, list, assoc, waiter>>

-----------------------------------------------------------------------------
(* The packed word. *)

max_associations == Cardinality(Associations)

Words == [count : 0 .. max_associations,
          closed : BOOLEAN, join_needed : BOOLEAN, join_running : BOOLEAN]

unused == [count |-> 0, closed |-> FALSE,
           join_needed |-> FALSE, join_running |-> FALSE]

(* The encoding of a joined scope: closed_bit alone. A scope closed before *)
(* its first use has the same word.                                        *)
closed_bit == [count |-> 0, closed |-> TRUE,
               join_needed |-> FALSE, join_running |-> FALSE]

(* Mutant: the drain runs whenever the count returns to zero. *)
is_joined_AnyZero(w) == w.count = 0

is_joined(w) == w = closed_bit

(* close: the closed bit is set. *)
Closed(w) == [w EXCEPT !.closed = TRUE]

(* start_join with associations out: the scope is joining. *)
Joining(w) == [w EXCEPT !.join_running = TRUE]

(* try_associate: one more association, and a join is needed. *)
Associated(w) ==
    [count |-> w.count + 1, closed |-> w.closed,
     join_needed |-> TRUE, join_running |-> w.join_running]

(* Mutant: the last disassociate leaves the joining bits alone. *)
Disassociated_NoJoin(w) == [w EXCEPT !.count = w.count - 1]

(* disassociate: one association fewer; the last one under a join makes    *)
(* the word joined in the same write.                                      *)
Disassociated(w) ==
    IF w.count = 1 /\ w.join_running
    THEN closed_bit
    ELSE [w EXCEPT !.count = w.count - 1]

-----------------------------------------------------------------------------

Phases == {"new", "starting", "registered", "scheduled", "done"}

PcValues == {"idle", "associate", "disassociate", "drain_exchange", "drain",
             "join", "register_load", "register"}

Init ==
    /\ word = unused
    /\ joiners = Null
    /\ next = [w \in Waiters |-> Null]
    /\ phase = [w \in Waiters |-> "new"]
    /\ completions = [w \in Waiters |-> 0]
    /\ live = {}
    /\ alive = TRUE
    /\ pc = [t \in Threads |-> "idle"]
    /\ bits = [t \in Threads |-> unused]
    /\ head = [t \in Threads |-> Null]
    /\ list = [t \in Threads |-> Null]
    /\ assoc = [t \in Threads |-> Null]
    /\ waiter = [t \in Threads |-> Null]

(* The local variables of a call that returned are dead. *)
Return(t) ==
    /\ pc' = [pc EXCEPT ![t] = "idle"]
    /\ bits' = [bits EXCEPT ![t] = unused]
    /\ head' = [head EXCEPT ![t] = Null]
    /\ list' = [list EXCEPT ![t] = Null]
    /\ assoc' = [assoc EXCEPT ![t] = Null]
    /\ waiter' = [waiter EXCEPT ![t] = Null]

(* The receiver of join w gets its completion; the join operation may be   *)
(* destroyed by its owner from here on.                                    *)
Complete(w) ==
    /\ phase' = [phase EXCEPT ![w] = "done"]
    /\ completions' = [completions EXCEPT ![w] = @ + 1]

-----------------------------------------------------------------------------
(* close(): one fetch_or, no completion. *)
Close(t) ==
    /\ pc[t] = "idle" /\ alive
    /\ word' = Closed(word)
    /\ UNCHANGED <<joiners, next, phase, completions, live, alive, pc, locals>>

(* try_associate() *)
TryAssociateLoad(t) ==
    /\ pc[t] = "idle" /\ alive
    /\ bits' = [bits EXCEPT ![t] = word]
    /\ pc' = [pc EXCEPT ![t] = "associate"]
    /\ UNCHANGED <<shared, head, list, assoc, waiter>>

(* A closed or full scope refuses, on the word last seen. *)
TryAssociateRefused(t) ==
    /\ pc[t] = "associate"
    /\ bits[t].closed \/ bits[t].count = max_associations
    /\ Return(t)
    /\ UNCHANGED shared

(* Mutant: the closed bit is not looked at again inside the loop. *)
TryAssociateCas_Closed(t) ==
    /\ pc[t] = "associate"
    /\ bits[t].count < max_associations
    /\ word = bits[t]
    /\ word' = Associated(bits[t])
    /\ \E a \in Associations \ live : live' = live \union {a}
    /\ Return(t)
    /\ UNCHANGED <<joiners, next, phase, completions, alive>>

TryAssociateCas(t) ==
    /\ pc[t] = "associate"
    /\ ~bits[t].closed /\ bits[t].count < max_associations
    /\ IF word = bits[t]
       THEN /\ word' = Associated(bits[t])
            /\ \E a \in Associations \ live : live' = live \union {a}
            /\ Return(t)
       ELSE /\ bits' = [bits EXCEPT ![t] = word]
            /\ UNCHANGED <<word, live, pc, head, list, assoc, waiter>>
    /\ UNCHANGED <<joiners, next, phase, completions, alive>>

(* association::reset() takes the scope out of the association before it   *)
(* calls disassociate(): no two threads give back the same association.    *)
DisassociateLoad(t) ==
    /\ pc[t] = "idle"
    /\ \E a \in live :
         /\ \A u \in Threads : assoc[u] # a
         /\ assoc' = [assoc EXCEPT ![t] = a]
    /\ bits' = [bits EXCEPT ![t] = word]
    /\ pc' = [pc EXCEPT ![t] = "disassociate"]
    /\ UNCHANGED <<shared, head, list, waiter>>

DisassociateCas(t) ==
    /\ pc[t] = "disassociate"
    /\ IF word = bits[t]
       THEN /\ word' = Disassociated(bits[t])
            /\ live' = live \ {assoc[t]}
            /\ IF is_joined(word')
               THEN /\ pc' = [pc EXCEPT ![t] = "drain_exchange"]
                    /\ bits' = [bits EXCEPT ![t] = unused]
                    /\ assoc' = [assoc EXCEPT ![t] = Null]
                    /\ UNCHANGED <<head, list, waiter>>
               ELSE Return(t)
       ELSE /\ bits' = [bits EXCEPT ![t] = word]
            /\ UNCHANGED <<word, live, pc, head, list, assoc, waiter>>
    /\ UNCHANGED <<joiners, next, phase, completions, alive>>

(* Mutant: the drain leaves an empty list instead of the sentinel. *)
DrainExchange_NoSentinel(t) ==
    /\ pc[t] = "drain_exchange"
    /\ list' = [list EXCEPT ![t] = joiners]
    /\ joiners' = Null
    /\ pc' = [pc EXCEPT ![t] = "drain"]
    /\ UNCHANGED <<word, next, phase, completions, live, alive, bits, head,
                   assoc, waiter>>

(* complete_registered_joins(): take the whole stack, leave the sentinel. *)
DrainExchange(t) ==
    /\ pc[t] = "drain_exchange"
    /\ list' = [list EXCEPT ![t] = joiners]
    /\ joiners' = Sentinel
    /\ pc' = [pc EXCEPT ![t] = "drain"]
    /\ UNCHANGED <<word, next, phase, completions, live, alive, bits, head,
                   assoc, waiter>>

(* Mutant: the waiter is completed before its next pointer is read. *)
DrainOne_NextLater(t) ==
    /\ pc[t] = "drain"
    /\ list[t] # Null
    /\ IF phase[list[t]] = "registered"
       THEN /\ phase' = [phase EXCEPT ![list[t]] = "scheduled"]
            /\ UNCHANGED list
       ELSE /\ list' = [list EXCEPT ![t] = next[list[t]]]
            /\ UNCHANGED phase
    /\ UNCHANGED <<word, joiners, next, completions, live, alive, pc, bits,
                   head, assoc, waiter>>

(* The cursor moves on before the waiter is completed. complete_deferred() *)
(* schedules the completion on the join receiver's scheduler, or sends an  *)
(* error at once when connecting to the scheduler throws.                  *)
DrainOne(t) ==
    /\ pc[t] = "drain"
    /\ list[t] # Null
    /\ list' = [list EXCEPT ![t] = next[list[t]]]
    /\ \/ /\ phase' = [phase EXCEPT ![list[t]] = "scheduled"]
          /\ UNCHANGED completions
       \/ Complete(list[t])
    /\ UNCHANGED <<word, joiners, next, live, alive, pc, bits, head, assoc,
                   waiter>>

DrainReturn(t) ==
    /\ pc[t] = "drain"
    /\ list[t] = Null
    /\ Return(t)
    /\ UNCHANGED shared

(* join_sender::operation::start() and start_join() *)
StartJoinLoad(t, w) ==
    /\ pc[t] = "idle" /\ alive
    /\ phase[w] = "new"
    /\ phase' = [phase EXCEPT ![w] = "starting"]
    /\ waiter' = [waiter EXCEPT ![t] = w]
    /\ bits' = [bits EXCEPT ![t] = word]
    /\ pc' = [pc EXCEPT ![t] = "join"]
    /\ UNCHANGED <<word, joiners, next, completions, live, alive, head, list,
                   assoc>>

(* Mutant: an empty scope answers the join but is left open. *)
StartJoinCas_LeftOpen(t) ==
    /\ pc[t] = "join"
    /\ word = bits[t] /\ bits[t].count = 0
    /\ Complete(waiter[t])
    /\ Return(t)
    /\ UNCHANGED <<word, joiners, next, live, alive>>

(* Without associations the word is forced to joined, whatever it was, and *)
(* the join completes inline; otherwise the joining bit is set.            *)
StartJoinCas(t) ==
    /\ pc[t] = "join"
    /\ IF word # bits[t]
       THEN /\ bits' = [bits EXCEPT ![t] = word]
            /\ UNCHANGED <<word, phase, completions, pc, head, list, assoc,
                           waiter>>
       ELSE IF bits[t].count = 0
       THEN /\ word' = closed_bit
            /\ Complete(waiter[t])
            /\ Return(t)
       ELSE /\ word' = Joining(bits[t])
            /\ pc' = [pc EXCEPT ![t] = "register_load"]
            /\ bits' = [bits EXCEPT ![t] = unused]
            /\ UNCHANGED <<phase, completions, head, list, assoc, waiter>>
    /\ UNCHANGED <<joiners, next, live, alive>>

(* register_joiner() *)
RegisterLoad(t) ==
    /\ pc[t] = "register_load"
    /\ head' = [head EXCEPT ![t] = joiners]
    /\ pc' = [pc EXCEPT ![t] = "register"]
    /\ UNCHANGED <<shared, bits, list, assoc, waiter>>

(* The list was drained already: the join completes inline, unlinked. *)
RegisterDrained(t) ==
    /\ pc[t] = "register"
    /\ head[t] = Sentinel
    /\ Complete(waiter[t])
    /\ Return(t)
    /\ UNCHANGED <<word, joiners, next, live, alive>>

(* Mutant: start_join() returns what register_joiner() returned, and start() *)
(* completes a join that was linked.                                       *)
RegisterCas_NotNegated(t) ==
    /\ pc[t] = "register"
    /\ head[t] # Sentinel
    /\ joiners = head[t]
    /\ next' = [next EXCEPT ![waiter[t]] = head[t]]
    /\ joiners' = waiter[t]
    /\ Complete(waiter[t])
    /\ Return(t)
    /\ UNCHANGED <<word, live, alive>>

RegisterCas(t) ==
    /\ pc[t] = "register"
    /\ head[t] # Sentinel
    /\ next' = [next EXCEPT ![waiter[t]] = head[t]]
    /\ IF joiners = head[t]
       THEN /\ joiners' = waiter[t]
            /\ phase' = [phase EXCEPT ![waiter[t]] = "registered"]
            /\ Return(t)
       ELSE /\ head' = [head EXCEPT ![t] = joiners]
            /\ UNCHANGED <<joiners, phase, pc, bits, list, assoc, waiter>>
    /\ UNCHANGED <<word, completions, live, alive>>

(* The scheduler runs the completion it was given. *)
ScheduledCompletion(w) ==
    /\ phase[w] = "scheduled"
    /\ Complete(w)
    /\ UNCHANGED <<word, joiners, next, live, alive, pc, locals>>

(* The owner destroys the scope: no call it knows of is in flight, that    *)
(* is, no join it started is unanswered and no thread is inside            *)
(* try_associate(). A thread that is giving an association back is not the *)
(* owner's to know: ensure_destructible() must catch it.                   *)
Destroy ==
    /\ alive
    /\ \A w \in Waiters : phase[w] \in {"new", "done"}
    /\ \A t \in Threads : pc[t] # "associate"
    /\ word.count = 0 /\ ~word.join_running      \* else std::terminate()
    /\ alive' = FALSE
    /\ UNCHANGED <<word, joiners, next, phase, completions, live, pc, locals>>

-----------------------------------------------------------------------------

(* The steps of a call that is under way. *)
Continue(t) ==
    \/ TryAssociateRefused(t) \/ TryAssociateCas(t)
    \/ DisassociateCas(t)
    \/ DrainExchange(t) \/ DrainOne(t) \/ DrainReturn(t)
    \/ StartJoinCas(t)
    \/ RegisterLoad(t) \/ RegisterDrained(t) \/ RegisterCas(t)

Next ==
    \/ \E t \in Threads :
         \/ Close(t)
         \/ TryAssociateLoad(t)
         \/ DisassociateLoad(t)
         \/ \E w \in Waiters : StartJoinLoad(t, w)
         \/ Continue(t)
    \/ \E w \in Waiters : ScheduledCompletion(w)
    \/ Destroy

Spec == Init /\ [][Next]_vars

(* The system schedules its threads, the scheduler runs what it was given, *)
(* and the work behind every association ends some day: it is not put off  *)
(* for ever by threads that find the time for other calls.                 *)
Fairness ==
    /\ \A t \in Threads : WF_vars(Continue(t))
    /\ \A w \in Waiters : WF_vars(ScheduledCompletion(w))
    /\ SF_vars(\E t \in Threads : DisassociateLoad(t))

FairSpec == Spec /\ Fairness

-----------------------------------------------------------------------------
(* Properties *)

TypeOK ==
    /\ word \in Words
    /\ joiners \in Waiters \union {Null, Sentinel}
    /\ next \in [Waiters -> Waiters \union {Null}]
    /\ phase \in [Waiters -> Phases]
    /\ completions \in [Waiters -> Nat]
    /\ live \in SUBSET Associations
    /\ alive \in BOOLEAN
    /\ pc \in [Threads -> PcValues]
    /\ bits \in [Threads -> Words]
    /\ head \in [Threads -> Waiters \union {Null, Sentinel}]
    /\ list \in [Threads -> Waiters \union {Null}]
    /\ assoc \in [Threads -> Associations \union {Null}]
    /\ waiter \in [Threads -> Waiters \union {Null}]

(* I1 and I2 of docs/counting-scope.md, and what the count means: it is    *)
(* the number of associations not given back, a joining scope has at least *)
(* one, and a scope that needs no join has none. No interleaving of the    *)
(* loops of associate, disassociate, close and join loses an update.       *)
WordConsistent ==
    /\ word.count = Cardinality(live)
    /\ word.join_running => word.count > 0
    /\ word.count > 0 => word.join_needed
    /\ word.join_running => word.join_needed

(* A join answers only when nothing is associated, and the scope is then   *)
(* shut for good (I3): a join that was answered stays true. This is what a *)
(* caller relies on when it frees what the associated work used.           *)
JoinedMeansDrained ==
    \A w \in Waiters : completions[w] > 0 => is_joined(word) /\ live = {}

(* I5 and I6: no join is answered twice, whether the drain, the joined     *)
(* word or the sentinel answers it.                                        *)
AnsweredOnce == \A w \in Waiters : completions[w] <= 1

(* The drain's cursor never points at a join operation that was completed, *)
(* since that operation's memory may be gone.                              *)
CursorIsPending ==
    \A t \in Threads :
        list[t] # Null => phase[list[t]] = "registered"

(* The pcs whose next step reads or writes word_ or joiners_. *)
TouchesScope(t) ==
    pc[t] \in {"associate", "disassociate", "drain_exchange", "join",
               "register_load", "register"}

(* Once the owner could destroy the scope, because every join it started   *)
(* was answered, no thread still has an access to it ahead: the last       *)
(* disassociate is past its exchange, and no association is out.           *)
NoUseAfterDestroy ==
    ~alive => live = {} /\ \A t \in Threads : ~TouchesScope(t)

(* A join that was started on a scope that is closed is answered, whatever *)
(* the threads do: no push is stranded on a drained list (I4), and the     *)
(* drain is not lost. On an open scope new associations may hold it up for *)
(* ever.                                                                   *)
JoinAnswered ==
    \A w \in Waiters :
        (phase[w] # "new" /\ word.closed) ~> (phase[w] = "done")

(* The scope implements its contract. A join counts as started when its    *)
(* compare-exchange on the word succeeded.                                 *)
Started(w) ==
    \/ phase[w] \in {"registered", "scheduled"}
    \/ \E t \in Threads : waiter[t] = w /\ pc[t] \in {"register_load", "register"}

Contract == INSTANCE ScopeContract WITH
    open <- ~word.closed,
    active <- live,
    joining <- {w \in Waiters : Started(w)},
    joined <- {w \in Waiters : phase[w] = "done"}

ContractSpec == Contract!Spec
=============================================================================
