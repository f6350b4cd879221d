----------------------------- MODULE StopToken -----------------------------
(***************************************************************************)
(* inplace_stop_source, inplace_stop_token and inplace_stop_callback       *)
(* (include/bexec/stop_token.hpp).                                         *)
(*                                                                         *)
(* One word fuses a spinlock with the stop flag. The callback records form *)
(* a doubly linked list inside the callback objects themselves; a record's *)
(* back link is the address of the slot that points at it. request_stop()  *)
(* pops one record at a time and runs its callback with the lock open, so  *)
(* that callbacks may register and destroy registrations, their own        *)
(* included, while other threads do the same.                              *)
(*                                                                         *)
(* One action is one atomic access, or the plain accesses that one side of *)
(* the lock protects. Spinning is not an action: a thread that cannot take *)
(* the lock has no step. A null token registers nothing and is left out.   *)
(***************************************************************************)
EXTENDS Integers, FiniteSets

CONSTANTS
    Threads,    \* the threads that use the source, its tokens and callbacks
    Records,    \* the callback registrations ever constructed
    Null,       \* the null pointer, and the id of no thread
    Head        \* the address of the list head, as a back link

ASSUME PointersAssumption ==
    /\ Null \notin Records \union Threads \union {Head}
    /\ Head \notin Records

VARIABLES
    state,      \* the fused word: requested bit and locked bit
    head,       \* first registered record
    requester,  \* requester_thread
    next,       \* record.next
    prev_ptr,   \* record.prev_ptr: the record or Head that points here
    flag_ptr,   \* record.removed_during_callback: the thread owning the flag
    completed,  \* record.completed
    life,       \* where every callback object is in its life
    invoked,    \* how often every callback was invoked
    request,    \* progress of a thread's winning request_stop()
    current,    \* request_stop: the record it is invoking
    removed,    \* request_stop: its local removed_during_callback
    pc,         \* progress of a thread's registration or unregistration
    rec,        \* the record it is about
    saved,      \* lock(): the word before it was locked
    source      \* the stop source is alive

recordVars == <<next, prev_ptr, flag_ptr, completed>>
requestVars == <<request, current, removed>>
opVars == <<pc, rec, saved>>
vars == <<state, head, requester, recordVars, life, invoked, requestVars,
          opVars, source>>

-----------------------------------------------------------------------------

Words == [requested : BOOLEAN, locked : BOOLEAN]

open == [requested |-> FALSE, locked |-> FALSE]
stop_requested_bit == [requested |-> TRUE, locked |-> FALSE]

Lives == {"unborn", "constructing", "registered", "fired", "destroying",
          "dead"}

RequestPcs == {"none", "pop", "invoke", "callback", "finalize", "relock"}

OpPcs == {"idle", "add", "add_link", "add_publish",
          "remove", "unlink", "unlink_done", "remove_wait"}

Init ==
    /\ state = open
    /\ head = Null
    /\ requester = Null
    /\ next = [r \in Records |-> Null]
    /\ prev_ptr = [r \in Records |-> Null]
    /\ flag_ptr = [r \in Records |-> Null]
    /\ completed = [r \in Records |-> FALSE]
    /\ life = [r \in Records |-> "unborn"]
    /\ invoked = [r \in Records |-> 0]
    /\ request = [t \in Threads |-> "none"]
    /\ current = [t \in Threads |-> Null]
    /\ removed = [t \in Threads |-> FALSE]
    /\ pc = [t \in Threads |-> "idle"]
    /\ rec = [t \in Threads |-> Null]
    /\ saved = [t \in Threads |-> open]
    /\ source = TRUE

(* User code runs outside of every call, and inside a callback. *)
InUserCode(t) == pc[t] = "idle" /\ request[t] \in {"none", "callback"}

(* A record in the list has a back link; a living one without was popped.  *)
Linked(r) == prev_ptr[r] # Null

InList(r) == life[r] \in {"registered", "destroying"} /\ Linked(r)

Return(t) ==
    /\ pc' = [pc EXCEPT ![t] = "idle"]
    /\ rec' = [rec EXCEPT ![t] = Null]
    /\ saved' = [saved EXCEPT ![t] = open]

-----------------------------------------------------------------------------
(* Construction of a callback: try_add_callback() *)

Construct(t, r) ==
    /\ InUserCode(t) /\ source
    /\ life[r] = "unborn"
    /\ life' = [life EXCEPT ![r] = "constructing"]
    /\ rec' = [rec EXCEPT ![t] = r]
    /\ pc' = [pc EXCEPT ![t] = "add"]
    /\ UNCHANGED <<state, head, requester, recordVars, invoked, requestVars,
                   saved, source>>

(* Stop was requested: the constructor invokes the callback itself, and    *)
(* the destructor will have nothing to do. The callback is user code, on a *)
(* thread that holds nothing of the source: the registrations that it      *)
(* constructs and destroys are what t does in its next steps. Its own      *)
(* registration is in no list, where nobody can find it, and is destroyed  *)
(* in DestroyFired, never before its constructor returned.                 *)
AddRefused(t) ==
    /\ pc[t] = "add"
    /\ state.requested
    /\ life' = [life EXCEPT ![rec[t]] = "fired"]
    /\ invoked' = [invoked EXCEPT ![rec[t]] = @ + 1]
    /\ Return(t)
    /\ UNCHANGED <<state, head, requester, recordVars, requestVars, source>>

(* Mutant: the lock is also taken from a word with the requested bit. *)
AddLock_Requested(t) ==
    /\ pc[t] = "add"
    /\ ~state.locked
    /\ state' = [state EXCEPT !.locked = TRUE]
    /\ pc' = [pc EXCEPT ![t] = "add_link"]
    /\ UNCHANGED <<head, requester, recordVars, life, invoked, requestVars,
                   rec, saved, source>>

(* try_lock_unless_stop_requested(false): only ever from the open word. *)
AddLock(t) ==
    /\ pc[t] = "add"
    /\ state = open
    /\ state' = [state EXCEPT !.locked = TRUE]
    /\ pc' = [pc EXCEPT ![t] = "add_link"]
    /\ UNCHANGED <<head, requester, recordVars, life, invoked, requestVars,
                   rec, saved, source>>

(* Mutant: the former head keeps its back link to the list head. *)
AddLink_OneWay(t) ==
    /\ pc[t] = "add_link"
    /\ next' = [next EXCEPT ![rec[t]] = head]
    /\ prev_ptr' = [prev_ptr EXCEPT ![rec[t]] = Head]
    /\ pc' = [pc EXCEPT ![t] = "add_publish"]
    /\ UNCHANGED <<state, head, requester, flag_ptr, completed, life, invoked,
                   requestVars, rec, saved, source>>

AddLink(t) ==
    /\ pc[t] = "add_link"
    /\ next' = [next EXCEPT ![rec[t]] = head]
    /\ prev_ptr' = [r \in Records |->
                      IF r = rec[t] THEN Head
                      ELSE IF r = head THEN rec[t] ELSE prev_ptr[r]]
    /\ pc' = [pc EXCEPT ![t] = "add_publish"]
    /\ UNCHANGED <<state, head, requester, flag_ptr, completed, life, invoked,
                   requestVars, rec, saved, source>>

AddPublish(t) ==
    /\ pc[t] = "add_publish"
    /\ head' = rec[t]
    /\ state' = open                                  \* unlock(0)
    /\ life' = [life EXCEPT ![rec[t]] = "registered"]
    /\ Return(t)
    /\ UNCHANGED <<requester, recordVars, invoked, requestVars, source>>

-----------------------------------------------------------------------------
(* Destruction of a callback: remove_callback() *)

(* A callback that was fired by its constructor is in no list. *)
DestroyFired(t, r) ==
    /\ InUserCode(t)
    /\ life[r] = "fired"
    /\ life' = [life EXCEPT ![r] = "dead"]
    /\ UNCHANGED <<state, head, requester, recordVars, invoked, requestVars,
                   opVars, source>>

Destroy(t, r) ==
    /\ InUserCode(t)
    /\ life[r] = "registered"
    /\ life' = [life EXCEPT ![r] = "destroying"]
    /\ rec' = [rec EXCEPT ![t] = r]
    /\ pc' = [pc EXCEPT ![t] = "remove"]
    /\ UNCHANGED <<state, head, requester, recordVars, invoked, requestVars,
                   saved, source>>

RemoveLock(t) ==
    /\ pc[t] = "remove"
    /\ ~state.locked
    /\ saved' = [saved EXCEPT ![t] = state]
    /\ state' = [state EXCEPT !.locked = TRUE]
    /\ pc' = [pc EXCEPT ![t] = "unlink"]
    /\ UNCHANGED <<head, requester, recordVars, life, invoked, requestVars,
                   rec, source>>

(* *prev_ptr = next, and next's back link is the slot that was written. *)
RemoveUnlink(t) ==
    /\ pc[t] = "unlink"
    /\ LET r == rec[t] IN
         /\ prev_ptr[r] # Null
         /\ head' = IF prev_ptr[r] = Head THEN next[r] ELSE head
         /\ next' = [x \in Records |->
                       IF x = prev_ptr[r] THEN next[r] ELSE next[x]]
         /\ prev_ptr' = [x \in Records |->
                           IF x = next[r] THEN prev_ptr[r] ELSE prev_ptr[x]]
    /\ pc' = [pc EXCEPT ![t] = "unlink_done"]
    /\ UNCHANGED <<state, requester, flag_ptr, completed, life, invoked,
                   requestVars, rec, saved, source>>

(* Mutant: unlock(0) instead of unlock(prev). *)
RemoveUnlock_Zero(t) ==
    /\ pc[t] = "unlink_done"
    /\ state' = open
    /\ life' = [life EXCEPT ![rec[t]] = "dead"]
    /\ Return(t)
    /\ UNCHANGED <<head, requester, recordVars, invoked, requestVars, source>>

RemoveUnlock(t) ==
    /\ pc[t] = "unlink_done"
    /\ state' = saved[t]
    /\ life' = [life EXCEPT ![rec[t]] = "dead"]
    /\ Return(t)
    /\ UNCHANGED <<head, requester, recordVars, invoked, requestVars, source>>

(* Mutant: no thread waits for the callback to be over. *)
RemovePopped_NoWait(t) ==
    /\ pc[t] = "unlink"
    /\ prev_ptr[rec[t]] = Null
    /\ state' = saved[t]
    /\ removed' = [u \in Threads |-> removed[u] \/ flag_ptr[rec[t]] = u]
    /\ life' = [life EXCEPT ![rec[t]] = "dead"]
    /\ Return(t)
    /\ UNCHANGED <<head, requester, recordVars, invoked, request, current,
                   source>>

(* The record was popped. On the requesting thread this is the callback    *)
(* destroying its own registration, which the flag tells request_stop(),   *)
(* or a callback that is over, which has no flag any more. Any other       *)
(* thread waits for the callback to be over.                               *)
RemovePopped(t) ==
    /\ pc[t] = "unlink"
    /\ prev_ptr[rec[t]] = Null
    /\ state' = saved[t]
    /\ IF t = requester
       THEN /\ removed' = [u \in Threads |->
                             removed[u] \/ flag_ptr[rec[t]] = u]
            /\ life' = [life EXCEPT ![rec[t]] = "dead"]
            /\ Return(t)
       ELSE /\ pc' = [pc EXCEPT ![t] = "remove_wait"]
            /\ UNCHANGED <<removed, life, rec, saved>>
    /\ UNCHANGED <<head, requester, recordVars, invoked, request, current,
                   source>>

RemoveWait(t) ==
    /\ pc[t] = "remove_wait"
    /\ completed[rec[t]]
    /\ life' = [life EXCEPT ![rec[t]] = "dead"]
    /\ Return(t)
    /\ UNCHANGED <<state, head, requester, recordVars, invoked, requestVars,
                   source>>

-----------------------------------------------------------------------------
(* request_stop(). A call that finds the requested bit returns false and   *)
(* changes nothing.                                                        *)

(* Lock and request in one compare-exchange from the open word. *)
RequestClaim(t) ==
    /\ InUserCode(t) /\ source
    /\ request[t] = "none"
    /\ state = open
    /\ state' = [requested |-> TRUE, locked |-> TRUE]
    /\ requester' = t
    /\ request' = [request EXCEPT ![t] = "pop"]
    /\ UNCHANGED <<head, recordVars, life, invoked, current, removed, opVars,
                   source>>

(* Mutant: the list head is left on the record that was taken. *)
RequestPop_HeadKept(t) ==
    /\ request[t] = "pop"
    /\ head # Null
    /\ current' = [current EXCEPT ![t] = head]
    /\ prev_ptr' = [prev_ptr EXCEPT ![head] = Null]
    /\ removed' = [removed EXCEPT ![t] = FALSE]
    /\ flag_ptr' = [flag_ptr EXCEPT ![head] = t]
    /\ state' = stop_requested_bit
    /\ request' = [request EXCEPT ![t] = "invoke"]
    /\ UNCHANGED <<head, requester, next, completed, life, invoked, opVars,
                   source>>

(* Pop the first record, give it a flag, and open the lock. *)
RequestPop(t) ==
    /\ request[t] = "pop"
    /\ head # Null
    /\ current' = [current EXCEPT ![t] = head]
    /\ head' = next[head]
    /\ prev_ptr' = [r \in Records |->
                      IF r = head THEN Null
                      ELSE IF r = next[head] THEN Head ELSE prev_ptr[r]]
    /\ removed' = [removed EXCEPT ![t] = FALSE]
    /\ flag_ptr' = [flag_ptr EXCEPT ![head] = t]
    /\ state' = stop_requested_bit
    /\ request' = [request EXCEPT ![t] = "invoke"]
    /\ UNCHANGED <<requester, next, completed, life, invoked, opVars, source>>

Invoke(t) ==
    /\ request[t] = "invoke"
    /\ invoked' = [invoked EXCEPT ![current[t]] = @ + 1]
    /\ request' = [request EXCEPT ![t] = "callback"]
    /\ UNCHANGED <<state, head, requester, recordVars, life, current, removed,
                   opVars, source>>

(* Mutant: the record is finalized whether or not it is still there. *)
CallbackReturns_Always(t) ==
    /\ request[t] = "callback" /\ pc[t] = "idle"
    /\ request' = [request EXCEPT ![t] = "finalize"]
    /\ UNCHANGED <<state, head, requester, recordVars, life, invoked, current,
                   removed, opVars, source>>

(* The callback returns; a record destroyed by its own callback is not     *)
(* touched again.                                                          *)
CallbackReturns(t) ==
    /\ request[t] = "callback" /\ pc[t] = "idle"
    /\ request' = [request EXCEPT ![t] =
                     IF removed[t] THEN "relock" ELSE "finalize"]
    /\ UNCHANGED <<state, head, requester, recordVars, life, invoked, current,
                   removed, opVars, source>>

(* Mutant: the record keeps the address of the flag. *)
Finalize_FlagKept(t) ==
    /\ request[t] = "finalize"
    /\ completed' = [completed EXCEPT ![current[t]] = TRUE]
    /\ request' = [request EXCEPT ![t] = "relock"]
    /\ UNCHANGED <<state, head, requester, next, prev_ptr, flag_ptr, life,
                   invoked, current, removed, opVars, source>>

(* The record loses its flag, then releases whoever waits for it. *)
Finalize(t) ==
    /\ request[t] = "finalize"
    /\ flag_ptr' = [flag_ptr EXCEPT ![current[t]] = Null]
    /\ completed' = [completed EXCEPT ![current[t]] = TRUE]
    /\ request' = [request EXCEPT ![t] = "relock"]
    /\ UNCHANGED <<state, head, requester, next, prev_ptr, life, invoked,
                   current, removed, opVars, source>>

Relock(t) ==
    /\ request[t] = "relock"
    /\ ~state.locked
    /\ state' = [state EXCEPT !.locked = TRUE]
    /\ current' = [current EXCEPT ![t] = Null]
    /\ request' = [request EXCEPT ![t] = "pop"]
    /\ UNCHANGED <<head, requester, recordVars, life, invoked, removed,
                   opVars, source>>

RequestDone(t) ==
    /\ request[t] = "pop"
    /\ head = Null
    /\ state' = stop_requested_bit
    /\ request' = [request EXCEPT ![t] = "none"]
    /\ UNCHANGED <<head, requester, recordVars, life, invoked, current,
                   removed, opVars, source>>

(* Mutant: a drained record is not marked completed. *)
DestroySource_NotCompleted ==
    /\ source
    /\ \A t \in Threads : pc[t] = "idle" /\ request[t] = "none"
    /\ source' = FALSE
    /\ head' = Null
    /\ prev_ptr' = [r \in Records |-> IF InList(r) THEN Null ELSE prev_ptr[r]]
    /\ next' = [r \in Records |-> IF InList(r) THEN Null ELSE next[r]]
    /\ UNCHANGED <<state, requester, flag_ptr, completed, life, invoked,
                   requestVars, opVars>>

(* ~inplace_stop_source(). Nobody may be using the source, so that its     *)
(* lock is free; registrations that are still alive, against the lifetime  *)
(* rule, are drained so that their destructors find them unlinked and      *)
(* completed. They read the word and requester_thread as they were left.   *)
DestroySource ==
    /\ source
    /\ \A t \in Threads : pc[t] = "idle" /\ request[t] = "none"
    /\ source' = FALSE
    /\ head' = Null
    /\ prev_ptr' = [r \in Records |-> IF InList(r) THEN Null ELSE prev_ptr[r]]
    /\ next' = [r \in Records |-> IF InList(r) THEN Null ELSE next[r]]
    /\ completed' = [r \in Records |-> completed[r] \/ InList(r)]
    /\ UNCHANGED <<state, requester, flag_ptr, life, invoked, requestVars,
                   opVars>>

-----------------------------------------------------------------------------

(* The steps of a call that is under way. *)
Continue(t) ==
    \/ AddRefused(t) \/ AddLock(t) \/ AddLink(t) \/ AddPublish(t)
    \/ RemoveLock(t) \/ RemoveUnlink(t) \/ RemoveUnlock(t)
    \/ RemovePopped(t) \/ RemoveWait(t)
    \/ RequestPop(t) \/ Invoke(t) \/ CallbackReturns(t) \/ Finalize(t)
    \/ Relock(t) \/ RequestDone(t)

Next ==
    \/ \E t \in Threads :
         \/ RequestClaim(t)
         \/ \E r \in Records :
              Construct(t, r) \/ Destroy(t, r) \/ DestroyFired(t, r)
         \/ Continue(t)
    \/ DestroySource

Spec == Init /\ [][Next]_vars

(* The system schedules its threads, and a callback's own code ends. There *)
(* are finitely many registrations, so that a lock that is free again and  *)
(* again stays free in the end, and weak fairness is enough.               *)
FairSpec == Spec /\ \A t \in Threads : WF_vars(Continue(t))

-----------------------------------------------------------------------------
(* Properties *)

TypeOK ==
    /\ state \in Words
    /\ head \in Records \union {Null}
    /\ requester \in Threads \union {Null}
    /\ next \in [Records -> Records \union {Null}]
    /\ prev_ptr \in [Records -> Records \union {Null, Head}]
    /\ flag_ptr \in [Records -> Threads \union {Null}]
    /\ completed \in [Records -> BOOLEAN]
    /\ life \in [Records -> Lives]
    /\ invoked \in [Records -> Nat]
    /\ request \in [Threads -> RequestPcs]
    /\ current \in [Threads -> Records \union {Null}]
    /\ removed \in [Threads -> BOOLEAN]
    /\ pc \in [Threads -> OpPcs]
    /\ rec \in [Threads -> Records \union {Null}]
    /\ saved \in [Threads -> Words]
    /\ source \in BOOLEAN

HoldsLock(t) ==
    \/ pc[t] \in {"add_link", "add_publish", "unlink", "unlink_done"}
    \/ request[t] = "pop"

(* The record whose callback runs. *)
Callee ==
    IF requester # Null /\ request[requester] = "callback"
    THEN current[requester] ELSE Null

(* What became of a registration, to its owner. *)
Status(r) ==
    CASE life[r] \in {"unborn", "constructing"} -> "none"
      [] life[r] = "fired" -> "ran"
      [] life[r] = "dead" -> "gone"
      [] OTHER -> IF Callee = r THEN "running"
                  ELSE IF invoked[r] = 0 THEN "registered" ELSE "ran"

Contract == INSTANCE StopContract
              WITH callee <- Callee, status <- [r \in Records |-> Status(r)]

(* The source keeps its contract: stop is requested once, callbacks run    *)
(* one after the other, each once at most, and a destructor returns when   *)
(* the callback is over or will not run, on whichever thread.              *)
ContractSpec == Contract!Spec

(* I4: the list and requester_thread are touched by one thread at a time,  *)
(* and the lock bit says so, although the lock is released by plain stores *)
(* of a remembered word. A request is never taken back by such a store.    *)
MutualExclusion ==
    /\ \A t, u \in Threads : HoldsLock(t) /\ HoldsLock(u) => t = u
    /\ (\E t \in Threads : HoldsLock(t)) <=> state.locked
    /\ requester # Null => state.requested

(* I1: while the lock is open, the list is well linked in both directions  *)
(* and runs through living callback objects only: every back link is the   *)
(* slot that points at its record.                                         *)
ListConsistent ==
    ~state.locked =>
        /\ head # Null => InList(head) /\ prev_ptr[head] = Head
        /\ \A r \in Records : InList(r) =>
             /\ IF prev_ptr[r] = Head
                THEN head = r
                ELSE InList(prev_ptr[r]) /\ next[prev_ptr[r]] = r
             /\ next[r] # Null => InList(next[r]) /\ prev_ptr[next[r]] = r

(* A callback starts to run once at most, whether request_stop() or its    *)
(* constructor runs it, when stop was requested, and in the life of its    *)
(* registration: not before its constructor, not when its destructor has   *)
(* returned.                                                               *)
OneShot ==
    [][\A r \in Records : invoked'[r] # invoked[r] =>
         /\ state.requested
         /\ invoked[r] = 0 /\ invoked'[r] = 1
         /\ life[r] \in {"constructing", "registered", "destroying"}]_vars

(* A destructor that returned on another thread than the one that runs the *)
(* callback returned after the callback: request_stop() touches no         *)
(* registration that is gone, and a callback that destroys its own         *)
(* registration is the only one to outlive it.                             *)
NoUseAfterUnregister ==
    \A t \in Threads :
        /\ request[t] \in {"invoke", "finalize"} => life[current[t]] # "dead"
        /\ request[t] = "callback" /\ life[current[t]] = "dead" => removed[t]

(* I2 and I3: a record's flag belongs to the call of request_stop() that   *)
(* is running it, so that a destructor writes to no dead stack frame, and  *)
(* a popped record that is not being run is completed.                     *)
FlagsOwned ==
    \A r \in Records : life[r] # "dead" =>
        /\ \A t \in Threads :
             flag_ptr[r] = t =>
                current[t] = r /\ request[t] \in {"invoke", "callback", "finalize"}
        /\ life[r] \in {"registered", "destroying"} /\ ~Linked(r) =>
             completed[r] \/ flag_ptr[r] # Null

(* Every callback that is registered when stop is requested, or later, is  *)
(* invoked unless its registration is destroyed.                           *)
StopReachesCallbacks ==
    \A r \in Records :
        (state.requested /\ life[r] \in {"constructing", "registered"})
            ~> (invoked[r] = 1 \/ life[r] \in {"destroying", "dead"})

(* Every destructor returns: the callback it waits for is completed, by    *)
(* request_stop() or by the destructor of the source.                      *)
UnregisterReturns ==
    \A r \in Records : (life[r] = "destroying") ~> (life[r] = "dead")
=============================================================================
