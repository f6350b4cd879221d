-------------------------- MODULE StopToken_proofs --------------------------
(***************************************************************************)
(* Proofs about StopToken, for any threads and any registrations.          *)
(*                                                                         *)
(* Whoever holds the lock is known by where it is in its call, and the     *)
(* word that it will store back is the one it found. A record that was     *)
(* popped is in the hands of request_stop() until it is completed, or      *)
(* destroyed by its own callback. The list is described by the neighbours  *)
(* of every record, so that no induction along it is needed.               *)
(***************************************************************************)
EXTENDS StopToken, TLAPS

-----------------------------------------------------------------------------
(* The inductive invariant, in named parts. *)

AddPcs == {"add", "add_link", "add_publish"}

RemovePcs == {"remove", "unlink", "unlink_done", "remove_wait"}

Running == {"invoke", "callback", "finalize"}

(* A thread in the middle of a call owns the record that the call is about *)
(* and has called from user code.                                          *)
Owned ==
    /\ \A t \in Threads : pc[t] \in AddPcs =>
         rec[t] \in Records /\ life[rec[t]] = "constructing"
    /\ \A t \in Threads : pc[t] \in RemovePcs =>
         rec[t] \in Records /\ life[rec[t]] = "destroying"
    /\ \A t, u \in Threads :
         pc[t] # "idle" /\ pc[u] # "idle" /\ rec[t] = rec[u] => t = u
    /\ \A t \in Threads : pc[t] # "idle" => request[t] \in {"none", "callback"}

(* What whoever holds the lock knows about the word. *)
Locked ==
    /\ MutualExclusion
    /\ state.requested => requester # Null
    /\ \A t \in Threads :
         /\ pc[t] \in {"add_link", "add_publish"} => ~state.requested
         /\ pc[t] \in {"unlink", "unlink_done"} =>
              saved[t] = [requested |-> state.requested, locked |-> FALSE]
         /\ request[t] # "none" => requester = t

(* A record is linked and waits for its callback, or was popped and is in  *)
(* the hands of the thread that its flag belongs to, or is over.           *)
Tracked ==
    \A r \in Records :
        /\ life[r] \in {"unborn", "constructing"} =>
             ~completed[r] /\ invoked[r] = 0
        /\ life[r] \in {"unborn", "constructing", "fired"} =>
             flag_ptr[r] = Null
        /\ InList(r) =>
             flag_ptr[r] = Null /\ ~completed[r] /\ invoked[r] = 0
        /\ life[r] \in {"registered", "destroying"} /\ ~Linked(r) =>
             completed[r] \/ flag_ptr[r] # Null
        /\ life[r] # "dead" /\ flag_ptr[r] # Null =>
             current[flag_ptr[r]] = r /\ request[flag_ptr[r]] \in Running
        /\ invoked[r] <= 1

(* What request_stop() knows about the record that it runs. *)
Held ==
    \A t \in Threads : request[t] \in Running =>
        /\ current[t] \in Records
        /\ life[current[t]] \in {"registered", "destroying", "dead"}
        /\ life[current[t]] # "dead" =>
             /\ flag_ptr[current[t]] = t /\ ~completed[current[t]]
             /\ ~Linked(current[t])
        /\ life[current[t]] = "dead" <=> removed[t]
        /\ request[t] # "callback" => ~removed[t]
        /\ request[t] = "invoke" => invoked[current[t]] = 0

(* The two states of a record that only the holder of the lock sees. *)
Coming(r) == \E t \in Threads : pc[t] = "add_publish" /\ rec[t] = r

Gone(r) == \E t \in Threads : pc[t] = "unlink_done" /\ rec[t] = r

Members == {r \in Records : InList(r) /\ ~Gone(r)}

(* A list through the records of M that begins at h: the back link of each *)
(* is the slot that points at it, and each points at a record whose back   *)
(* link it is.                                                             *)
WellLinked(M, h, nx, pv) ==
    /\ h # Null => h \in M /\ pv[h] = Head
    /\ \A r \in M :
         /\ pv[r] \in M \union {Head}
         /\ pv[r] = Head => h = r
         /\ pv[r] # Head => nx[pv[r]] = r
         /\ nx[r] \in M \union {Null}
         /\ nx[r] # Null => pv[nx[r]] = r

(* A record on its way in is already the head of its list, except that the *)
(* source does not point at it yet; one on its way out keeps its back      *)
(* link.                                                                   *)
Chained ==
    /\ (\A r \in Records : ~Coming(r)) =>
         WellLinked(Members, head, next, prev_ptr)
    /\ \A r \in Records : Coming(r) =>
         WellLinked(Members \union {r}, r, next, prev_ptr)
    /\ \A r \in Records : Gone(r) => Linked(r)

Inv ==
    /\ TypeOK
    /\ Owned
    /\ Locked
    /\ Tracked
    /\ Held
    /\ Chained

-----------------------------------------------------------------------------
(* The invariant is inductive. *)

(* The invariant holds in the beginning. *)
LEMMA InvInit == Init => Inv
<1> SUFFICES ASSUME Init PROVE Inv
  OBVIOUS
<1> USE PointersAssumption DEF Init
<1>1. TypeOK
  BY DEF TypeOK, Words, Lives, RequestPcs, OpPcs, open
<1>2. Owned
  BY DEF Owned, AddPcs, RemovePcs
<1>3. Locked
  BY DEF Locked, MutualExclusion, HoldsLock, open
<1>4. Tracked /\ Held
  BY DEF Tracked, Held, Running, InList, Linked
<1>5. Chained
  BY DEF Chained, WellLinked, Members, InList, Linked, Coming, Gone
<1>. QED
  BY <1>1, <1>2, <1>3, <1>4, <1>5 DEF Inv

(* What the thread that holds the lock may rely on. *)
LEMMA LockFacts ==
    ASSUME Inv, NEW t \in Threads, HoldsLock(t)
    PROVE  /\ \A u \in Threads \ {t} : ~HoldsLock(u)
           /\ request[t] = "pop" => pc[t] = "idle"
           /\ pc[t] # "unlink_done" => \A r : ~Gone(r)
           /\ pc[t] # "add_publish" => \A r : ~Coming(r)
<1>1. \A u \in Threads \ {t} : ~HoldsLock(u)
  BY DEF Inv, Locked, MutualExclusion
<1>2. request[t] = "pop" => pc[t] = "idle"
  BY DEF Inv, Owned
<1>3. pc[t] # "unlink_done" => \A r : ~Gone(r)
  BY <1>1 DEF Gone, HoldsLock
<1>4. pc[t] # "add_publish" => \A r : ~Coming(r)
  BY <1>1 DEF Coming, HoldsLock
<1>. QED
  BY <1>1, <1>2, <1>3, <1>4

(* The holder of the lock finds the list well linked. *)
LEMMA LockedList ==
    ASSUME Inv, NEW t \in Threads,
           pc[t] \in {"add_link", "unlink"} \/ request[t] = "pop"
    PROVE  /\ \A r : ~Coming(r) /\ ~Gone(r)
           /\ Members = {r \in Records : InList(r)}
           /\ WellLinked(Members, head, next, prev_ptr)
<1>1. HoldsLock(t) /\ pc[t] \notin {"add_publish", "unlink_done"}
  BY DEF HoldsLock, Inv, Owned
<1>2. \A r : ~Coming(r) /\ ~Gone(r)
  BY <1>1, LockFacts
<1>. QED
  BY <1>2 DEF Inv, Chained, Members

(* A step that links or unlinks leaves linked what was linked, and nothing *)
(* else.                                                                   *)
LEMMA LinksKept ==
    ASSUME Inv, NEW t \in Threads, AddLink(t) \/ RemoveUnlink(t)
    PROVE  /\ life' = life
           /\ \A r \in Records :
                life[r] \in {"registered", "destroying"} =>
                  (prev_ptr'[r] = Null <=> prev_ptr[r] = Null)
<1>1. CASE AddLink(t)
  <2>1. head # Null => prev_ptr[head] # Null
    BY <1>1, LockedList DEF AddLink, WellLinked, Members, InList, Linked
  <2>2. rec[t] \in Records /\ life[rec[t]] = "constructing"
    BY <1>1 DEF AddLink, Inv, Owned, AddPcs
  <2>. QED
    BY <1>1, <2>1, <2>2, PointersAssumption DEF AddLink, Inv, TypeOK
<1>2. CASE RemoveUnlink(t)
  <2>1. rec[t] \in Members
    BY <1>2, LockedList
    DEF RemoveUnlink, Members, InList, Linked, Inv, Owned, RemovePcs
  <2>2. /\ prev_ptr[rec[t]] # Null
        /\ next[rec[t]] # Null => prev_ptr[next[rec[t]]] # Null
    BY <1>2, <2>1, LockedList, PointersAssumption
    DEF RemoveUnlink, WellLinked, Members
  <2>. QED
    BY <1>2, <2>1, <2>2, PointersAssumption
    DEF RemoveUnlink, Members, Inv, TypeOK
<1>. QED
  BY <1>1, <1>2

(* What request_stop() takes off the list. *)
LEMMA PopFacts ==
    ASSUME Inv, NEW t \in Threads, RequestPop(t)
    PROVE  /\ head \in Members /\ head \in Records /\ InList(head)
           /\ requester = t
           /\ \A u \in Threads : request[u] \notin Running
           /\ next[head] # Null => Linked(next[head]) /\ next[head] # head
           /\ prev_ptr[head] = Head
<1>1. head \in Members /\ prev_ptr[head] = Head
  BY LockedList DEF RequestPop, WellLinked
<1>2. requester = t /\ \A u \in Threads : request[u] # "none" => u = t
  BY DEF RequestPop, Inv, Locked
<1>3. next[head] # Null =>
        next[head] \in Members /\ prev_ptr[next[head]] = head
  BY <1>1, LockedList DEF RequestPop, WellLinked
<1>. QED
  BY <1>1, <1>2, <1>3, PointersAssumption
  DEF RequestPop, Running, Members, InList, Linked

(* A step that moves no pointer and leaves the members what they are keeps *)
(* the list.                                                               *)
LEMMA ChainedKept ==
    ASSUME Chained, UNCHANGED <<head, next, prev_ptr>>,
           \A r \in Records : InList(r)' <=> InList(r),
           \A r : Coming(r)' <=> Coming(r),
           \A r : Gone(r)' <=> Gone(r)
    PROVE  Chained'
<1>1. Members' = Members
  BY DEF Members
<1>2. \A r \in Records : Linked(r)' <=> Linked(r)
  BY DEF Linked
<1>. QED
  BY <1>1, <1>2 DEF Chained

(* Every variable keeps its type. *)
LEMMA TypeOKStep == Inv /\ [Next]_vars => TypeOK'
<1> SUFFICES ASSUME Inv, [Next]_vars PROVE TypeOK'
  OBVIOUS
<1>0. Owned /\ Held
  BY DEF Inv
<1> USE PointersAssumption
    DEF Inv, TypeOK, Words, Lives, RequestPcs, OpPcs, recordVars,
        requestVars, opVars
<1>1. ASSUME NEW t \in Threads, RequestClaim(t)
      PROVE  TypeOK'
  BY <1>1 DEF RequestClaim, InUserCode, open
<1>2. ASSUME NEW t \in Threads, NEW r \in Records, Construct(t, r)
      PROVE  TypeOK'
  BY <1>2 DEF Construct, InUserCode
<1>3. ASSUME NEW t \in Threads, NEW r \in Records, Destroy(t, r)
      PROVE  TypeOK'
  BY <1>3 DEF Destroy, InUserCode
<1>4. ASSUME NEW t \in Threads, NEW r \in Records, DestroyFired(t, r)
      PROVE  TypeOK'
  BY <1>4 DEF DestroyFired, InUserCode
<1>5. ASSUME NEW t \in Threads, AddRefused(t)
      PROVE  TypeOK'
  <2>1. invoked[rec[t]] + 1 \in Nat
    BY <1>0, <1>5 DEF AddRefused, Owned, AddPcs
  <2>2. invoked' \in [Records -> Nat]
    BY <1>5, <2>1 DEF AddRefused
  <2>3. life' \in [Records -> Lives]
    BY <1>5 DEF AddRefused
  <2>. QED
    BY <1>5, <2>2, <2>3 DEF AddRefused, Return, open
<1>6. ASSUME NEW t \in Threads, AddLock(t)
      PROVE  TypeOK'
  BY <1>6 DEF AddLock, open
<1>7. ASSUME NEW t \in Threads, AddLink(t)
      PROVE  TypeOK'
  BY <1>7 DEF AddLink
<1>8. ASSUME NEW t \in Threads, AddPublish(t)
      PROVE  TypeOK'
  BY <1>8 DEF AddPublish, Return, open
<1>9. ASSUME NEW t \in Threads, RemoveLock(t)
      PROVE  TypeOK'
  BY <1>9 DEF RemoveLock
<1>10. ASSUME NEW t \in Threads, RemoveUnlink(t)
      PROVE  TypeOK'
  <2>1. rec[t] \in Records
    BY <1>0, <1>10 DEF RemoveUnlink, Owned, RemovePcs
  <2>2. head' \in Records \union {Null}
    BY <1>10, <2>1 DEF RemoveUnlink
  <2>3. next' \in [Records -> Records \union {Null}]
    BY <1>10, <2>1 DEF RemoveUnlink
  <2>4. prev_ptr' \in [Records -> Records \union {Null, Head}]
    BY <1>10, <2>1 DEF RemoveUnlink
  <2>. QED
    BY <1>10, <2>2, <2>3, <2>4 DEF RemoveUnlink
<1>11. ASSUME NEW t \in Threads, RemoveUnlock(t)
      PROVE  TypeOK'
  <2>1. life' \in [Records -> Lives]
    BY <1>11 DEF RemoveUnlock
  <2>. QED
    BY <1>11, <2>1 DEF RemoveUnlock, Return, open
<1>12. ASSUME NEW t \in Threads, RemovePopped(t)
      PROVE  TypeOK'
  <2>1. CASE t = requester
    <3>1. removed' \in [Threads -> BOOLEAN]
      <4>1. removed' = [u \in Threads |->
                          removed[u] \/ flag_ptr[rec[t]] = u]
        BY <1>12, <2>1 DEF RemovePopped
      <4>2. \A u \in Threads : (removed[u] \/ flag_ptr[rec[t]] = u) \in BOOLEAN
        OBVIOUS
      <4>. QED
        BY <4>1, <4>2, Zenon
    <3>2. life' \in [Records -> Lives]
      BY <1>12, <2>1 DEF RemovePopped
    <3>3. /\ state' \in Words /\ pc' \in [Threads -> OpPcs]
          /\ rec' \in [Threads -> Records \union {Null}]
          /\ saved' \in [Threads -> Words]
      <4>1. state' = saved[t] /\ Return(t)
        BY <1>12, <2>1 DEF RemovePopped
      <4>. QED
        BY <4>1 DEF Return, open
    <3>4. UNCHANGED <<head, requester, next, prev_ptr, flag_ptr, completed,
                      invoked, request, current, source>>
      BY <1>12 DEF RemovePopped
    <3>. QED
      BY <3>1, <3>2, <3>3, <3>4
  <2>2. CASE t # requester
    BY <1>12, <2>2 DEF RemovePopped
  <2>. QED
    BY <2>1, <2>2
<1>13. ASSUME NEW t \in Threads, RemoveWait(t)
      PROVE  TypeOK'
  <2>1. life' \in [Records -> Lives]
    BY <1>13 DEF RemoveWait
  <2>. QED
    BY <1>13, <2>1 DEF RemoveWait, Return, open
<1>14. ASSUME NEW t \in Threads, RequestPop(t)
      PROVE  TypeOK'
  BY <1>14 DEF RequestPop, stop_requested_bit
<1>15. ASSUME NEW t \in Threads, Invoke(t)
      PROVE  TypeOK'
  <2>1. invoked[current[t]] + 1 \in Nat
    BY <1>0, <1>15 DEF Invoke, Held, Running
  <2>2. invoked' \in [Records -> Nat]
    BY <1>15, <2>1 DEF Invoke
  <2>. QED
    BY <1>15, <2>2 DEF Invoke
<1>16. ASSUME NEW t \in Threads, CallbackReturns(t)
      PROVE  TypeOK'
  BY <1>16 DEF CallbackReturns
<1>17. ASSUME NEW t \in Threads, Finalize(t)
      PROVE  TypeOK'
  BY <1>17 DEF Finalize
<1>18. ASSUME NEW t \in Threads, Relock(t)
      PROVE  TypeOK'
  BY <1>18 DEF Relock
<1>19. ASSUME NEW t \in Threads, RequestDone(t)
      PROVE  TypeOK'
  BY <1>19 DEF RequestDone, stop_requested_bit
<1>20. ASSUME DestroySource PROVE TypeOK'
  BY <1>20 DEF DestroySource
<1>21. CASE UNCHANGED vars
  BY <1>21 DEF vars
<1> HIDE DEF Inv, TypeOK, Words, Lives, RequestPcs, OpPcs, recordVars,
             requestVars, opVars
<1>. QED
  BY <1>1, <1>2, <1>3, <1>4, <1>5, <1>6, <1>7, <1>8, <1>9, <1>10, <1>11,
     <1>12, <1>13, <1>14, <1>15, <1>16, <1>17, <1>18, <1>19, <1>20, <1>21
  DEF Next, Continue

(* A call owns its record from beginning to end. *)
LEMMA OwnedStep == Inv /\ [Next]_vars => Owned'
<1> SUFFICES ASSUME Inv, [Next]_vars PROVE Owned'
  OBVIOUS
<1> USE PointersAssumption
    DEF Inv, TypeOK, Owned, AddPcs, RemovePcs, OpPcs, recordVars,
        requestVars, opVars
<1>1. ASSUME NEW t \in Threads, RequestClaim(t)
      PROVE  Owned'
  BY <1>1 DEF RequestClaim, InUserCode, open
<1>2. ASSUME NEW t \in Threads, NEW r \in Records, Construct(t, r)
      PROVE  Owned'
  BY <1>2 DEF Construct, InUserCode
<1>3. ASSUME NEW t \in Threads, NEW r \in Records, Destroy(t, r)
      PROVE  Owned'
  BY <1>3 DEF Destroy, InUserCode
<1>4. ASSUME NEW t \in Threads, NEW r \in Records, DestroyFired(t, r)
      PROVE  Owned'
  BY <1>4 DEF DestroyFired, InUserCode
<1>5. ASSUME NEW t \in Threads, AddRefused(t)
      PROVE  Owned'
  BY <1>5 DEF AddRefused, Return
<1>6. ASSUME NEW t \in Threads, AddLock(t)
      PROVE  Owned'
  BY <1>6 DEF AddLock, open
<1>7. ASSUME NEW t \in Threads, AddLink(t)
      PROVE  Owned'
  BY <1>7 DEF AddLink
<1>8. ASSUME NEW t \in Threads, AddPublish(t)
      PROVE  Owned'
  BY <1>8 DEF AddPublish, Return, open
<1>9. ASSUME NEW t \in Threads, RemoveLock(t)
      PROVE  Owned'
  BY <1>9 DEF RemoveLock
<1>10. ASSUME NEW t \in Threads, RemoveUnlink(t)
      PROVE  Owned'
  BY <1>10 DEF RemoveUnlink
<1>11. ASSUME NEW t \in Threads, RemoveUnlock(t)
      PROVE  Owned'
  BY <1>11 DEF RemoveUnlock, Return
<1>12. ASSUME NEW t \in Threads, RemovePopped(t)
      PROVE  Owned'
  <2>1. UNCHANGED request
    BY <1>12 DEF RemovePopped
  <2>2. CASE t = requester
    <3>1. rec[t] \in Records /\ life[rec[t]] = "destroying"
      BY <1>12 DEF RemovePopped
    <3>2. /\ life' = [life EXCEPT ![rec[t]] = "dead"]
          /\ pc' = [pc EXCEPT ![t] = "idle"]
          /\ rec' = [rec EXCEPT ![t] = Null]
      BY <1>12, <2>2 DEF RemovePopped, Return
    <3>3. \A u \in Threads \ {t} : pc[u] # "idle" => rec[u] # rec[t]
      BY <1>12 DEF RemovePopped
    <3>. QED
      BY <2>1, <3>1, <3>2, <3>3
  <2>3. CASE t # requester
    BY <1>12, <2>1, <2>3 DEF RemovePopped
  <2>. QED
    BY <2>2, <2>3
<1>13. ASSUME NEW t \in Threads, RemoveWait(t)
      PROVE  Owned'
  BY <1>13 DEF RemoveWait, Return
<1>14. ASSUME NEW t \in Threads, RequestPop(t)
      PROVE  Owned'
  BY <1>14 DEF RequestPop, stop_requested_bit
<1>15. ASSUME NEW t \in Threads, Invoke(t)
      PROVE  Owned'
  BY <1>15 DEF Invoke
<1>16. ASSUME NEW t \in Threads, CallbackReturns(t)
      PROVE  Owned'
  BY <1>16 DEF CallbackReturns
<1>17. ASSUME NEW t \in Threads, Finalize(t)
      PROVE  Owned'
  BY <1>17 DEF Finalize
<1>18. ASSUME NEW t \in Threads, Relock(t)
      PROVE  Owned'
  BY <1>18 DEF Relock
<1>19. ASSUME NEW t \in Threads, RequestDone(t)
      PROVE  Owned'
  BY <1>19 DEF RequestDone, stop_requested_bit
<1>20. ASSUME DestroySource PROVE Owned'
  BY <1>20 DEF DestroySource
<1>21. CASE UNCHANGED vars
  BY <1>21 DEF vars
<1> HIDE DEF Inv, TypeOK, Owned, AddPcs, RemovePcs, OpPcs, recordVars,
             requestVars, opVars
<1>. QED
  BY <1>1, <1>2, <1>3, <1>4, <1>5, <1>6, <1>7, <1>8, <1>9, <1>10, <1>11,
     <1>12, <1>13, <1>14, <1>15, <1>16, <1>17, <1>18, <1>19, <1>20, <1>21
  DEF Next, Continue

(* The lock bit says whether somebody holds the lock, and stores of remembered
   words lose no request. *)
LEMMA LockedStep == Inv /\ [Next]_vars => Locked'
<1> SUFFICES ASSUME Inv, [Next]_vars PROVE Locked'
  OBVIOUS
<1> USE PointersAssumption
    DEF Inv, TypeOK, Owned, Locked, MutualExclusion, HoldsLock, Words,
        OpPcs, RequestPcs, recordVars, requestVars, opVars
<1>1. ASSUME NEW t \in Threads, RequestClaim(t)
      PROVE  Locked'
  BY <1>1 DEF RequestClaim, InUserCode, open
<1>2. ASSUME NEW t \in Threads, NEW r \in Records, Construct(t, r)
      PROVE  Locked'
  BY <1>2 DEF Construct, InUserCode
<1>3. ASSUME NEW t \in Threads, NEW r \in Records, Destroy(t, r)
      PROVE  Locked'
  BY <1>3 DEF Destroy, InUserCode
<1>4. ASSUME NEW t \in Threads, NEW r \in Records, DestroyFired(t, r)
      PROVE  Locked'
  BY <1>4 DEF DestroyFired, InUserCode
<1>5. ASSUME NEW t \in Threads, AddRefused(t)
      PROVE  Locked'
  BY <1>5 DEF AddRefused, Return
<1>6. ASSUME NEW t \in Threads, AddLock(t)
      PROVE  Locked'
  BY <1>6 DEF AddLock, open
<1>7. ASSUME NEW t \in Threads, AddLink(t)
      PROVE  Locked'
  BY <1>7 DEF AddLink
<1>8. ASSUME NEW t \in Threads, AddPublish(t)
      PROVE  Locked'
  BY <1>8 DEF AddPublish, Return, open
<1>9. ASSUME NEW t \in Threads, RemoveLock(t)
      PROVE  Locked'
  BY <1>9 DEF RemoveLock
<1>10. ASSUME NEW t \in Threads, RemoveUnlink(t)
      PROVE  Locked'
  BY <1>10 DEF RemoveUnlink
<1>11. ASSUME NEW t \in Threads, RemoveUnlock(t)
      PROVE  Locked'
  BY <1>11 DEF RemoveUnlock, Return
<1>12. ASSUME NEW t \in Threads, RemovePopped(t)
      PROVE  Locked'
  <2>1. /\ \A u \in Threads : HoldsLock(u) => u = t
        /\ request[t] # "pop"
    BY <1>12 DEF RemovePopped
  <2>2. /\ state' = [requested |-> state.requested, locked |-> FALSE]
        /\ UNCHANGED <<requester, request>>
    BY <1>12 DEF RemovePopped
  <2>3. /\ pc'[t] \in {"idle", "remove_wait"}
        /\ \A u \in Threads \ {t} : pc'[u] = pc[u] /\ saved'[u] = saved[u]
    BY <1>12 DEF RemovePopped, Return
  <2>4. \A u \in Threads : ~HoldsLock(u)'
    BY <2>1, <2>2, <2>3
  <2>5. state'.requested = state.requested /\ ~state'.locked
    BY <2>2
  <2>. QED
    BY <2>2, <2>4, <2>5
<1>13. ASSUME NEW t \in Threads, RemoveWait(t)
      PROVE  Locked'
  BY <1>13 DEF RemoveWait, Return
<1>14. ASSUME NEW t \in Threads, RequestPop(t)
      PROVE  Locked'
  <2>1. requester = t /\ state.requested
    BY <1>14 DEF RequestPop
  <2>2. state' = [requested |-> TRUE, locked |-> FALSE]
    BY <1>14 DEF RequestPop, stop_requested_bit
  <2>3. \A u \in Threads : HoldsLock(u) => u = t
    BY <1>14 DEF RequestPop
  <2>. QED
    <3>1. /\ request' = [request EXCEPT ![t] = "invoke"]
          /\ UNCHANGED <<requester, pc, saved>>
          /\ pc[t] \notin {"add_link", "add_publish", "unlink", "unlink_done"}
      BY <1>14 DEF RequestPop
    <3>2. \A u \in Threads : ~HoldsLock(u)'
      BY <2>3, <3>1
    <3>. QED
      BY <2>1, <2>2, <3>1, <3>2
<1>15. ASSUME NEW t \in Threads, Invoke(t)
      PROVE  Locked'
  BY <1>15 DEF Invoke
<1>16. ASSUME NEW t \in Threads, CallbackReturns(t)
      PROVE  Locked'
  BY <1>16 DEF CallbackReturns
<1>17. ASSUME NEW t \in Threads, Finalize(t)
      PROVE  Locked'
  BY <1>17 DEF Finalize
<1>18. ASSUME NEW t \in Threads, Relock(t)
      PROVE  Locked'
  BY <1>18 DEF Relock
<1>19. ASSUME NEW t \in Threads, RequestDone(t)
      PROVE  Locked'
  <2>1. /\ requester = t /\ state.requested
        /\ \A u \in Threads : HoldsLock(u) => u = t
    BY <1>19 DEF RequestDone
  <2>2. /\ state' = [requested |-> TRUE, locked |-> FALSE]
        /\ request' = [request EXCEPT ![t] = "none"]
        /\ UNCHANGED <<requester, pc, saved>>
    BY <1>19 DEF RequestDone, stop_requested_bit
  <2>3. pc[t] \notin {"add_link", "add_publish", "unlink", "unlink_done"}
    BY <1>19 DEF RequestDone
  <2>4. \A u \in Threads : ~HoldsLock(u)'
    BY <2>1, <2>2, <2>3
  <2>. QED
    BY <2>1, <2>2, <2>4
<1>20. ASSUME DestroySource PROVE Locked'
  BY <1>20 DEF DestroySource
<1>21. CASE UNCHANGED vars
  BY <1>21 DEF vars
<1> HIDE DEF Inv, TypeOK, Owned, Locked, MutualExclusion, HoldsLock, Words,
             OpPcs, RequestPcs, recordVars, requestVars, opVars
<1>. QED
  BY <1>1, <1>2, <1>3, <1>4, <1>5, <1>6, <1>7, <1>8, <1>9, <1>10, <1>11,
     <1>12, <1>13, <1>14, <1>15, <1>16, <1>17, <1>18, <1>19, <1>20, <1>21
  DEF Next, Continue

(* A record is linked, or in the hands of request_stop(), or over. *)
LEMMA TrackedStep == Inv /\ [Next]_vars => Tracked'
<1> SUFFICES ASSUME Inv, [Next]_vars PROVE Tracked'
  OBVIOUS
<1> USE PointersAssumption
    DEF Inv, TypeOK, Owned, Tracked, Held, Running, InList, Linked, AddPcs,
        RemovePcs, OpPcs, Lives, recordVars, requestVars, opVars
<1>1. ASSUME NEW t \in Threads, RequestClaim(t)
      PROVE  Tracked'
  BY <1>1 DEF RequestClaim, InUserCode, open
<1>2. ASSUME NEW t \in Threads, NEW r \in Records, Construct(t, r)
      PROVE  Tracked'
  BY <1>2 DEF Construct, InUserCode
<1>3. ASSUME NEW t \in Threads, NEW r \in Records, Destroy(t, r)
      PROVE  Tracked'
  BY <1>3 DEF Destroy, InUserCode
<1>4. ASSUME NEW t \in Threads, NEW r \in Records, DestroyFired(t, r)
      PROVE  Tracked'
  BY <1>4 DEF DestroyFired, InUserCode
<1>5. ASSUME NEW t \in Threads, AddRefused(t)
      PROVE  Tracked'
  BY <1>5 DEF AddRefused, Return
<1>6. ASSUME NEW t \in Threads, AddLock(t)
      PROVE  Tracked'
  BY <1>6 DEF AddLock, open
<1>7. ASSUME NEW t \in Threads, AddLink(t)
      PROVE  Tracked'
  <2>1. \A r \in Records : InList(r)' <=> InList(r)
    BY <1>7, LinksKept
  <2>2. \A r \in Records : life[r] \in {"registered", "destroying"} =>
          (Linked(r)' <=> Linked(r))
    BY <1>7, LinksKept
  <2> HIDE DEF InList, Linked
  <2>. QED
    BY <1>7, <2>1, <2>2 DEF AddLink
<1>8. ASSUME NEW t \in Threads, AddPublish(t)
      PROVE  Tracked'
  <2>1. rec[t] \in Records /\ prev_ptr[rec[t]] = Head
    BY <1>8 DEF AddPublish, Chained, WellLinked, Coming
  <2>. QED
    BY <1>8, <2>1 DEF AddPublish, Return
<1>9. ASSUME NEW t \in Threads, RemoveLock(t)
      PROVE  Tracked'
  BY <1>9 DEF RemoveLock
<1>10. ASSUME NEW t \in Threads, RemoveUnlink(t)
      PROVE  Tracked'
  <2>1. \A r \in Records : InList(r)' <=> InList(r)
    BY <1>10, LinksKept
  <2>2. \A r \in Records : life[r] \in {"registered", "destroying"} =>
          (Linked(r)' <=> Linked(r))
    BY <1>10, LinksKept
  <2> HIDE DEF InList, Linked
  <2>. QED
    BY <1>10, <2>1, <2>2 DEF RemoveUnlink
<1>11. ASSUME NEW t \in Threads, RemoveUnlock(t)
      PROVE  Tracked'
  BY <1>11 DEF RemoveUnlock, Return
<1>12. ASSUME NEW t \in Threads, RemovePopped(t)
      PROVE  Tracked'
  BY <1>12 DEF RemovePopped, Return
<1>13. ASSUME NEW t \in Threads, RemoveWait(t)
      PROVE  Tracked'
  BY <1>13 DEF RemoveWait, Return
<1>14. ASSUME NEW t \in Threads, RequestPop(t)
      PROVE  Tracked'
  <2>1. /\ head \in Records /\ InList(head)
        /\ \A u \in Threads : request[u] \notin Running
        /\ next[head] # Null => Linked(next[head]) /\ next[head] # head
    BY <1>14, PopFacts
  <2>2. \A r \in Records : r # head /\ life[r] \in {"registered", "destroying"}
          => (Linked(r)' <=> Linked(r))
    <3>1. ASSUME NEW r \in Records, r # head
          PROVE  prev_ptr'[r] = IF r = next[head] THEN Head ELSE prev_ptr[r]
      BY <1>14, <3>1 DEF RequestPop
    <3>2. ASSUME NEW r \in Records, r # head, r = next[head]
          PROVE  prev_ptr[r] # Null
      BY <2>1, <3>2
    <3>. QED
      BY <3>1, <3>2
  <2>3. prev_ptr'[head] = Null
    BY <1>14, <2>1 DEF RequestPop
  <2>. QED
    BY <1>14, <2>1, <2>2, <2>3 DEF RequestPop
<1>15. ASSUME NEW t \in Threads, Invoke(t)
      PROVE  Tracked'
  BY <1>15 DEF Invoke
<1>16. ASSUME NEW t \in Threads, CallbackReturns(t)
      PROVE  Tracked'
  BY <1>16 DEF CallbackReturns
<1>17. ASSUME NEW t \in Threads, Finalize(t)
      PROVE  Tracked'
  BY <1>17 DEF Finalize
<1>18. ASSUME NEW t \in Threads, Relock(t)
      PROVE  Tracked'
  BY <1>18 DEF Relock
<1>19. ASSUME NEW t \in Threads, RequestDone(t)
      PROVE  Tracked'
  BY <1>19 DEF RequestDone, stop_requested_bit
<1>20. ASSUME DestroySource PROVE Tracked'
  <2>1. /\ UNCHANGED <<flag_ptr, life, invoked, request, current>>
        /\ completed' = [r \in Records |-> completed[r] \/ InList(r)]
        /\ prev_ptr' = [r \in Records |->
                           IF InList(r) THEN Null ELSE prev_ptr[r]]
    BY <1>20 DEF DestroySource
  <2>2. \A r \in Records : /\ ~InList(r)'
                           /\ Linked(r)' <=> Linked(r) /\ ~InList(r)
                           /\ completed'[r] <=> completed[r] \/ InList(r)
    BY <2>1
  <2>3. \A r \in Records :
          life[r] \in {"unborn", "constructing"} => ~InList(r)
    OBVIOUS
  <2>4. \A r \in Records :
          life[r] \in {"registered", "destroying"} /\ ~InList(r) => ~Linked(r)
    OBVIOUS
  <2> HIDE DEF InList, Linked
  <2>. QED
    BY <2>1, <2>2, <2>3, <2>4
<1>21. CASE UNCHANGED vars
  BY <1>21 DEF vars
<1> HIDE DEF Inv, TypeOK, Owned, Tracked, Held, Running, InList, Linked,
             AddPcs, RemovePcs, OpPcs, Lives, recordVars, requestVars, opVars
<1>. QED
  BY <1>1, <1>2, <1>3, <1>4, <1>5, <1>6, <1>7, <1>8, <1>9, <1>10, <1>11,
     <1>12, <1>13, <1>14, <1>15, <1>16, <1>17, <1>18, <1>19, <1>20, <1>21
  DEF Next, Continue

(* The record that request_stop() runs is there until its flag says so. *)
LEMMA HeldStep == Inv /\ [Next]_vars => Held'
<1> SUFFICES ASSUME Inv, [Next]_vars PROVE Held'
  OBVIOUS
<1> USE PointersAssumption
    DEF Inv, TypeOK, Owned, Tracked, Held, Running, InList, Linked, AddPcs,
        RemovePcs, OpPcs, Lives, recordVars, requestVars, opVars
<1>1. ASSUME NEW t \in Threads, RequestClaim(t)
      PROVE  Held'
  BY <1>1 DEF RequestClaim, InUserCode, open
<1>2. ASSUME NEW t \in Threads, NEW r \in Records, Construct(t, r)
      PROVE  Held'
  BY <1>2 DEF Construct, InUserCode
<1>3. ASSUME NEW t \in Threads, NEW r \in Records, Destroy(t, r)
      PROVE  Held'
  BY <1>3 DEF Destroy, InUserCode
<1>4. ASSUME NEW t \in Threads, NEW r \in Records, DestroyFired(t, r)
      PROVE  Held'
  BY <1>4 DEF DestroyFired, InUserCode
<1>5. ASSUME NEW t \in Threads, AddRefused(t)
      PROVE  Held'
  BY <1>5 DEF AddRefused, Return
<1>6. ASSUME NEW t \in Threads, AddLock(t)
      PROVE  Held'
  BY <1>6 DEF AddLock, open
<1>7. ASSUME NEW t \in Threads, AddLink(t)
      PROVE  Held'
  <2>1. \A r \in Records : life[r] \in {"registered", "destroying"} =>
          (Linked(r)' <=> Linked(r))
    BY <1>7, LinksKept
  <2> HIDE DEF Linked
  <2>. QED
    BY <1>7, <2>1 DEF AddLink
<1>8. ASSUME NEW t \in Threads, AddPublish(t)
      PROVE  Held'
  BY <1>8 DEF AddPublish, Return, open
<1>9. ASSUME NEW t \in Threads, RemoveLock(t)
      PROVE  Held'
  BY <1>9 DEF RemoveLock
<1>10. ASSUME NEW t \in Threads, RemoveUnlink(t)
      PROVE  Held'
  <2>1. \A r \in Records : life[r] \in {"registered", "destroying"} =>
          (Linked(r)' <=> Linked(r))
    BY <1>10, LinksKept
  <2> HIDE DEF Linked
  <2>. QED
    BY <1>10, <2>1 DEF RemoveUnlink
<1>11. ASSUME NEW t \in Threads, RemoveUnlock(t)
      PROVE  Held'
  <2>1. rec[t] \in Records /\ Linked(rec[t]) /\ life[rec[t]] = "destroying"
    BY <1>11 DEF RemoveUnlock, Chained, Gone
  <2>2. \A u \in Threads : request[u] \in Running => current[u] # rec[t]
    BY <2>1
  <2>. QED
    BY <1>11, <2>1, <2>2 DEF RemoveUnlock, Return
<1>12. ASSUME NEW t \in Threads, RemovePopped(t)
      PROVE  Held'
  <2>1. rec[t] \in Records /\ life[rec[t]] = "destroying" /\ ~Linked(rec[t])
    BY <1>12 DEF RemovePopped
  <2>2. \A u \in Threads : request[u] \in Running => u = requester
    BY DEF Locked
  <2>3. request[t] \in {"none", "callback"}
    BY <1>12 DEF RemovePopped
  <2>4. CASE t = requester
    <3>1. request[t] \in Running =>
            (removed'[t] <=> removed[t] \/ current[t] = rec[t])
      <4>1. flag_ptr[rec[t]] = t => current[t] = rec[t]
        BY <2>1 DEF Tracked
      <4>2. request[t] \in Running /\ current[t] = rec[t] =>
              flag_ptr[rec[t]] = t
        BY <2>1
      <4>3. removed'[t] <=> removed[t] \/ flag_ptr[rec[t]] = t
        <5>1. removed' = [u \in Threads |->
                            removed[u] \/ flag_ptr[rec[t]] = u]
          BY <1>12, <2>4 DEF RemovePopped
        <5>. QED
          BY <5>1, Zenon
      <4>. QED
        BY <4>1, <4>2, <4>3
    <3>2. life' = [life EXCEPT ![rec[t]] = "dead"]
      BY <1>12, <2>4 DEF RemovePopped
    <3>. QED
      BY <1>12, <2>1, <2>2, <2>3, <2>4, <3>1, <3>2 DEF RemovePopped
  <2>5. CASE t # requester
    BY <1>12, <2>5 DEF RemovePopped
  <2>. QED
    BY <2>4, <2>5
<1>13. ASSUME NEW t \in Threads, RemoveWait(t)
      PROVE  Held'
  BY <1>13 DEF RemoveWait, Return
<1>14. ASSUME NEW t \in Threads, RequestPop(t)
      PROVE  Held'
  <2>1. /\ head \in Records /\ InList(head)
        /\ \A u \in Threads : request[u] \notin Running
    BY <1>14, PopFacts
  <2>2. \A u \in Threads : request'[u] \in Running => u = t
    BY <1>14, <2>1 DEF RequestPop
  <2>3. /\ current'[t] = head /\ life' = life /\ flag_ptr'[head] = t
        /\ ~completed'[head] /\ prev_ptr'[head] = Null
        /\ ~removed'[t] /\ request'[t] = "invoke" /\ invoked'[head] = 0
    BY <1>14, <2>1 DEF RequestPop, Tracked
  <2>. QED
    BY <2>1, <2>2, <2>3
<1>15. ASSUME NEW t \in Threads, Invoke(t)
      PROVE  Held'
  BY <1>15 DEF Invoke
<1>16. ASSUME NEW t \in Threads, CallbackReturns(t)
      PROVE  Held'
  BY <1>16 DEF CallbackReturns
<1>17. ASSUME NEW t \in Threads, Finalize(t)
      PROVE  Held'
  BY <1>17 DEF Finalize
<1>18. ASSUME NEW t \in Threads, Relock(t)
      PROVE  Held'
  BY <1>18 DEF Relock
<1>19. ASSUME NEW t \in Threads, RequestDone(t)
      PROVE  Held'
  BY <1>19 DEF RequestDone, stop_requested_bit
<1>20. ASSUME DestroySource PROVE Held'
  BY <1>20 DEF DestroySource
<1>21. CASE UNCHANGED vars
  BY <1>21 DEF vars
<1> HIDE DEF Inv, TypeOK, Owned, Tracked, Held, Running, InList, Linked,
             AddPcs, RemovePcs, OpPcs, Lives, recordVars, requestVars, opVars
<1>. QED
  BY <1>1, <1>2, <1>3, <1>4, <1>5, <1>6, <1>7, <1>8, <1>9, <1>10, <1>11,
     <1>12, <1>13, <1>14, <1>15, <1>16, <1>17, <1>18, <1>19, <1>20, <1>21
  DEF Next, Continue

(* Most steps move no pointer of the list and leave its members what they  *)
(* are.                                                                    *)
LEMMA ListAlone ==
    ASSUME Inv, [Next]_vars, ~DestroySource,
           \A t \in Threads :
             /\ ~AddLink(t) /\ ~AddPublish(t)
             /\ ~RemoveUnlink(t) /\ ~RemoveUnlock(t) /\ ~RequestPop(t)
    PROVE  /\ UNCHANGED <<head, next, prev_ptr>>
           /\ \A r \in Records : InList(r)' <=> InList(r)
           /\ \A r : (Coming(r)' <=> Coming(r)) /\ (Gone(r)' <=> Gone(r))
<1> DEFINE Alone ==
             /\ UNCHANGED <<head, next, prev_ptr>>
             /\ \A r \in Records : InList(r)' <=> InList(r)
             /\ \A r : (Coming(r)' <=> Coming(r)) /\ (Gone(r)' <=> Gone(r))
<1>0. TypeOK /\ Owned /\ Tracked /\ Held /\ Chained
  BY DEF Inv
<1> USE <1>0, PointersAssumption
    DEF TypeOK, Owned, AddPcs, RemovePcs, OpPcs, Lives, InList, Linked,
        recordVars, requestVars, opVars
<1>1. ASSUME NEW t \in Threads, RequestClaim(t)
      PROVE  Alone
  <2>1. \A x \in Records : InList(x)' <=> InList(x)
    BY <1>1 DEF RequestClaim, InUserCode, open
  <2>2. \A x : (Coming(x)' <=> Coming(x)) /\ (Gone(x)' <=> Gone(x))
    BY <1>1 DEF Coming, Gone, RequestClaim, InUserCode, open
  <2>3. UNCHANGED <<head, next, prev_ptr>>
    BY <1>1 DEF RequestClaim, InUserCode, open
  <2>. QED
    BY <2>1, <2>2, <2>3
<1>2. ASSUME NEW t \in Threads, NEW r \in Records, Construct(t, r)
      PROVE  Alone
  <2>1. \A x \in Records : InList(x)' <=> InList(x)
    BY <1>2 DEF Construct, InUserCode
  <2>2. \A x : (Coming(x)' <=> Coming(x)) /\ (Gone(x)' <=> Gone(x))
    BY <1>2 DEF Coming, Gone, Construct, InUserCode
  <2>3. UNCHANGED <<head, next, prev_ptr>>
    BY <1>2 DEF Construct, InUserCode
  <2>. QED
    BY <2>1, <2>2, <2>3
<1>3. ASSUME NEW t \in Threads, NEW r \in Records, Destroy(t, r)
      PROVE  Alone
  <2>1. \A x \in Records : InList(x)' <=> InList(x)
    BY <1>3 DEF Destroy, InUserCode
  <2>2. \A x : (Coming(x)' <=> Coming(x)) /\ (Gone(x)' <=> Gone(x))
    BY <1>3 DEF Coming, Gone, Destroy, InUserCode
  <2>3. UNCHANGED <<head, next, prev_ptr>>
    BY <1>3 DEF Destroy, InUserCode
  <2>. QED
    BY <2>1, <2>2, <2>3
<1>4. ASSUME NEW t \in Threads, NEW r \in Records, DestroyFired(t, r)
      PROVE  Alone
  <2>1. \A x \in Records : InList(x)' <=> InList(x)
    BY <1>4 DEF DestroyFired, InUserCode
  <2>2. \A x : (Coming(x)' <=> Coming(x)) /\ (Gone(x)' <=> Gone(x))
    BY <1>4 DEF Coming, Gone, DestroyFired, InUserCode
  <2>3. UNCHANGED <<head, next, prev_ptr>>
    BY <1>4 DEF DestroyFired, InUserCode
  <2>. QED
    BY <2>1, <2>2, <2>3
<1>5. ASSUME NEW t \in Threads, AddRefused(t)
      PROVE  Alone
  <2>1. \A x \in Records : InList(x)' <=> InList(x)
    BY <1>5 DEF AddRefused, Return
  <2>2. \A x : (Coming(x)' <=> Coming(x)) /\ (Gone(x)' <=> Gone(x))
    BY <1>5 DEF Coming, Gone, AddRefused, Return
  <2>3. UNCHANGED <<head, next, prev_ptr>>
    BY <1>5 DEF AddRefused, Return
  <2>. QED
    BY <2>1, <2>2, <2>3
<1>6. ASSUME NEW t \in Threads, AddLock(t)
      PROVE  Alone
  <2>1. \A x \in Records : InList(x)' <=> InList(x)
    BY <1>6 DEF AddLock, open
  <2>2. \A x : (Coming(x)' <=> Coming(x)) /\ (Gone(x)' <=> Gone(x))
    BY <1>6 DEF Coming, Gone, AddLock, open
  <2>3. UNCHANGED <<head, next, prev_ptr>>
    BY <1>6 DEF AddLock, open
  <2>. QED
    BY <2>1, <2>2, <2>3
<1>7. ASSUME NEW t \in Threads, RemoveLock(t)
      PROVE  Alone
  <2>1. \A x \in Records : InList(x)' <=> InList(x)
    BY <1>7 DEF RemoveLock
  <2>2. \A x : (Coming(x)' <=> Coming(x)) /\ (Gone(x)' <=> Gone(x))
    BY <1>7 DEF Coming, Gone, RemoveLock
  <2>3. UNCHANGED <<head, next, prev_ptr>>
    BY <1>7 DEF RemoveLock
  <2>. QED
    BY <2>1, <2>2, <2>3
<1>8. ASSUME NEW t \in Threads, RemovePopped(t)
      PROVE  Alone
  <2>1. /\ ~Linked(rec[t])
        /\ \/ life' = life
           \/ life' = [life EXCEPT ![rec[t]] = "dead"]
    BY <1>8 DEF RemovePopped
  <2>2. \A r \in Records : InList(r)' <=> InList(r)
    BY <1>8, <2>1 DEF RemovePopped
  <2>3. \A r : (Coming(r)' <=> Coming(r)) /\ (Gone(r)' <=> Gone(r))
    <3>1. /\ pc[t] = "unlink"
          /\ \/ Return(t)
             \/ rec' = rec /\ pc' = [pc EXCEPT ![t] = "remove_wait"]
      BY <1>8 DEF RemovePopped
    <3>2. CASE Return(t)
      BY <3>1, <3>2 DEF Coming, Gone, Return
    <3>3. CASE rec' = rec /\ pc' = [pc EXCEPT ![t] = "remove_wait"]
      BY <3>1, <3>3 DEF Coming, Gone
    <3>. QED
      BY <3>1, <3>2, <3>3
  <2>4. UNCHANGED <<head, next, prev_ptr>>
    BY <1>8 DEF RemovePopped
  <2>. QED
    BY <2>2, <2>3, <2>4
<1>9. ASSUME NEW t \in Threads, RemoveWait(t)
      PROVE  Alone
  <2>1. \A r \in Records : InList(r)' <=> InList(r)
    BY <1>9 DEF RemoveWait, Return, Tracked
  <2>2. \A r : (Coming(r)' <=> Coming(r)) /\ (Gone(r)' <=> Gone(r))
    BY <1>9 DEF Coming, Gone, RemoveWait, Return
  <2>3. UNCHANGED <<head, next, prev_ptr>>
    BY <1>9 DEF RemoveWait
  <2>. QED
    BY <2>1, <2>2, <2>3
<1>10. ASSUME NEW t \in Threads, Invoke(t)
      PROVE  Alone
  <2>1. \A x \in Records : InList(x)' <=> InList(x)
    BY <1>10 DEF Invoke
  <2>2. \A x : (Coming(x)' <=> Coming(x)) /\ (Gone(x)' <=> Gone(x))
    BY <1>10 DEF Coming, Gone, Invoke
  <2>3. UNCHANGED <<head, next, prev_ptr>>
    BY <1>10 DEF Invoke
  <2>. QED
    BY <2>1, <2>2, <2>3
<1>11. ASSUME NEW t \in Threads, CallbackReturns(t)
      PROVE  Alone
  <2>1. \A x \in Records : InList(x)' <=> InList(x)
    BY <1>11 DEF CallbackReturns
  <2>2. \A x : (Coming(x)' <=> Coming(x)) /\ (Gone(x)' <=> Gone(x))
    BY <1>11 DEF Coming, Gone, CallbackReturns
  <2>3. UNCHANGED <<head, next, prev_ptr>>
    BY <1>11 DEF CallbackReturns
  <2>. QED
    BY <2>1, <2>2, <2>3
<1>12. ASSUME NEW t \in Threads, Finalize(t)
      PROVE  Alone
  <2>1. \A x \in Records : InList(x)' <=> InList(x)
    BY <1>12 DEF Finalize
  <2>2. \A x : (Coming(x)' <=> Coming(x)) /\ (Gone(x)' <=> Gone(x))
    BY <1>12 DEF Coming, Gone, Finalize
  <2>3. UNCHANGED <<head, next, prev_ptr>>
    BY <1>12 DEF Finalize
  <2>. QED
    BY <2>1, <2>2, <2>3
<1>13. ASSUME NEW t \in Threads, Relock(t)
      PROVE  Alone
  <2>1. \A x \in Records : InList(x)' <=> InList(x)
    BY <1>13 DEF Relock
  <2>2. \A x : (Coming(x)' <=> Coming(x)) /\ (Gone(x)' <=> Gone(x))
    BY <1>13 DEF Coming, Gone, Relock
  <2>3. UNCHANGED <<head, next, prev_ptr>>
    BY <1>13 DEF Relock
  <2>. QED
    BY <2>1, <2>2, <2>3
<1>14. ASSUME NEW t \in Threads, RequestDone(t)
      PROVE  Alone
  <2>1. \A x \in Records : InList(x)' <=> InList(x)
    BY <1>14 DEF RequestDone, stop_requested_bit
  <2>2. \A x : (Coming(x)' <=> Coming(x)) /\ (Gone(x)' <=> Gone(x))
    BY <1>14 DEF Coming, Gone, RequestDone, stop_requested_bit
  <2>3. UNCHANGED <<head, next, prev_ptr>>
    BY <1>14 DEF RequestDone, stop_requested_bit
  <2>. QED
    BY <2>1, <2>2, <2>3
<1>15. ASSUME UNCHANGED vars PROVE Alone
  <2>1. \A r \in Records : InList(r)' <=> InList(r)
    BY <1>15 DEF vars
  <2>2. \A r : (Coming(r)' <=> Coming(r)) /\ (Gone(r)' <=> Gone(r))
    BY <1>15 DEF Coming, Gone, vars
  <2>3. UNCHANGED <<head, next, prev_ptr>>
    BY <1>15 DEF vars
  <2>. QED
    BY <2>1, <2>2, <2>3
<1> HIDE DEF Alone, TypeOK, Owned, AddPcs, RemovePcs, OpPcs, Lives, InList,
             Linked, recordVars, requestVars, opVars
<1>16. Alone
  BY <1>1, <1>2, <1>3, <1>4, <1>5, <1>6, <1>7, <1>8, <1>9, <1>10,
     <1>11, <1>12, <1>13, <1>14, <1>15
  DEF Next, Continue
<1>. QED
  BY <1>16 DEF Alone

(* What linking a record in changes; the holder of the lock is alone.      *)
LEMMA LinkFacts ==
    ASSUME Inv, NEW t \in Threads, AddLink(t)
    PROVE  /\ rec[t] \in Records \ Members
           /\ Members' = Members /\ head' = head
           /\ \A r \in Records : next'[r] = IF r = rec[t] THEN head ELSE next[r]
           /\ \A r \in Records :
                prev_ptr'[r] = IF r = rec[t] THEN Head
                               ELSE IF r = head THEN rec[t] ELSE prev_ptr[r]
           /\ \A r : (Coming(r)' <=> r = rec[t]) /\ ~Gone(r)'
<1>1. rec[t] \in Records /\ life[rec[t]] = "constructing"
  BY DEF AddLink, Inv, Owned, AddPcs
<1>2. \A r : ~Coming(r) /\ ~Gone(r)
  BY LockedList DEF AddLink
<1>3. /\ rec' = rec
      /\ \A s \in Threads : pc'[s] = IF s = t THEN "add_publish" ELSE pc[s]
  BY DEF AddLink, Inv, TypeOK
<1>4. \A r : Coming(r)' <=> r = rec[t]
  BY ONLY <1>2, <1>3, t \in Threads DEF Coming
<1>5. \A r : ~Gone(r)'
  BY ONLY <1>2, <1>3 DEF Gone
<1>6. \A r \in Records : InList(r)' <=> InList(r)
  BY LinksKept DEF InList, Linked
<1>7. Members' = Members
  BY <1>2, <1>5, <1>6 DEF Members
<1>8. rec[t] \notin Members
  BY <1>1 DEF Members, InList
<1>9. /\ head' = head
      /\ \A r \in Records : next'[r] = IF r = rec[t] THEN head ELSE next[r]
      /\ \A r \in Records :
           prev_ptr'[r] = IF r = rec[t] THEN Head
                          ELSE IF r = head THEN rec[t] ELSE prev_ptr[r]
  BY DEF AddLink, Inv, TypeOK
<1>. QED
  BY ONLY <1>1, <1>4, <1>5, <1>7, <1>8, <1>9

(* What publishing it changes. *)
LEMMA PublishFacts ==
    ASSUME Inv, NEW t \in Threads, AddPublish(t)
    PROVE  /\ rec[t] \in Records \ Members
           /\ WellLinked(Members \union {rec[t]}, rec[t], next, prev_ptr)
           /\ Members' = Members \union {rec[t]}
           /\ head' = rec[t] /\ next' = next /\ prev_ptr' = prev_ptr
           /\ \A r : ~Coming(r)' /\ ~Gone(r)'
<1>1. rec[t] \in Records /\ life[rec[t]] = "constructing" /\ HoldsLock(t)
  BY DEF AddPublish, HoldsLock, Inv, Owned, AddPcs
<1>2. \A r : (Coming(r) <=> r = rec[t]) /\ ~Gone(r)
  BY <1>1, LockFacts DEF AddPublish, HoldsLock, Coming
<1>3. \A r : ~Coming(r)' /\ ~Gone(r)'
  BY <1>1, LockFacts
  DEF AddPublish, Return, HoldsLock, Coming, Gone, Inv, TypeOK
<1>4. WellLinked(Members \union {rec[t]}, rec[t], next, prev_ptr)
  BY <1>1, <1>2 DEF Inv, Chained
<1>5. prev_ptr[rec[t]] = Head
  BY <1>1, <1>4, PointersAssumption DEF WellLinked
<1>6. \A r \in Records : InList(r)' <=> r = rec[t] \/ InList(r)
  BY <1>1, <1>5, PointersAssumption
  DEF AddPublish, InList, Linked, Inv, TypeOK, recordVars
<1>7. Members' = Members \union {rec[t]}
  BY <1>1, <1>2, <1>3, <1>6 DEF Members
<1>8. rec[t] \notin Members
  BY <1>1 DEF Members, InList
<1>. QED
  BY <1>1, <1>3, <1>4, <1>7, <1>8 DEF AddPublish, recordVars

(* What unlinking a record changes. *)
LEMMA UnlinkFacts ==
    ASSUME Inv, NEW t \in Threads, RemoveUnlink(t)
    PROVE  /\ rec[t] \in Members /\ Members' = Members \ {rec[t]}
           /\ head' = IF prev_ptr[rec[t]] = Head THEN next[rec[t]] ELSE head
           /\ \A r \in Records :
                /\ next'[r] = IF r = prev_ptr[rec[t]] THEN next[rec[t]]
                              ELSE next[r]
                /\ prev_ptr'[r] = IF r = next[rec[t]] THEN prev_ptr[rec[t]]
                                  ELSE prev_ptr[r]
           /\ Linked(rec[t])' /\ rec' = rec
           /\ \A r : ~Coming(r)' /\ (Gone(r)' <=> r = rec[t])
<1>1. rec[t] \in Records /\ InList(rec[t])
  BY DEF RemoveUnlink, Inv, Owned, RemovePcs, InList, Linked
<1>2. /\ \A r : ~Coming(r) /\ ~Gone(r)
      /\ Members = {r \in Records : InList(r)}
  BY LockedList DEF RemoveUnlink
<1>3. /\ rec' = rec
      /\ \A s \in Threads : pc'[s] = IF s = t THEN "unlink_done" ELSE pc[s]
  BY DEF RemoveUnlink, Inv, TypeOK
<1>4. \A r : ~Coming(r)'
  BY ONLY <1>2, <1>3 DEF Coming
<1>5. \A r : Gone(r)' <=> r = rec[t]
  BY ONLY <1>2, <1>3, t \in Threads DEF Gone
<1>6. \A r \in Records : InList(r)' <=> InList(r)
  BY LinksKept DEF InList, Linked
<1>7. Members' = Members \ {rec[t]}
  BY <1>2, <1>5, <1>6 DEF Members
<1>8. Linked(rec[t])'
  BY <1>1, <1>3, LinksKept DEF InList, Linked
<1>. QED
  BY <1>1, <1>2, <1>3, <1>4, <1>5, <1>7, <1>8 DEF RemoveUnlink

(* What the destruction of a record changes that was unlinked. *)
LEMMA UnlockFacts ==
    ASSUME Inv, NEW t \in Threads, RemoveUnlock(t)
    PROVE  /\ Members' = Members
           /\ UNCHANGED <<head, next, prev_ptr>>
           /\ \A r : ~Coming(r) /\ ~Coming(r)' /\ ~Gone(r)'
<1>1. HoldsLock(t) /\ rec[t] \in Records
  BY DEF RemoveUnlock, HoldsLock, Inv, Owned, RemovePcs
<1>2. \A r : ~Coming(r) /\ (Gone(r) <=> r = rec[t])
  BY <1>1, LockFacts DEF RemoveUnlock, HoldsLock, Gone
<1>3. \A r : ~Gone(r)' /\ ~Coming(r)'
  BY <1>1, LockFacts
  DEF RemoveUnlock, Return, HoldsLock, Gone, Coming, Inv, TypeOK
<1>4. UNCHANGED <<head, next, prev_ptr>>
  BY DEF RemoveUnlock, recordVars
<1>5. \A r \in Records : InList(r)' <=> r # rec[t] /\ InList(r)
  BY <1>1, <1>4 DEF RemoveUnlock, InList, Linked, Inv, TypeOK
<1>6. Members' = Members
  BY <1>2, <1>3, <1>5 DEF Members
<1>. QED
  BY <1>2, <1>3, <1>4, <1>6

(* What taking the first record off the list changes. *)
LEMMA TakeFacts ==
    ASSUME Inv, NEW t \in Threads, RequestPop(t)
    PROVE  /\ head \in Members /\ Members' = Members \ {head}
           /\ prev_ptr[head] = Head
           /\ head' = next[head] /\ next' = next
           /\ \A r \in Records :
                prev_ptr'[r] = IF r = head THEN Null
                               ELSE IF r = next[head] THEN Head ELSE prev_ptr[r]
           /\ \A r : ~Coming(r)' /\ ~Gone(r)'
<1>1. head \in Members /\ prev_ptr[head] = Head
  BY PopFacts
<1>2. /\ \A r : ~Coming(r) /\ ~Gone(r)
      /\ Members = {r \in Records : InList(r)}
  BY LockedList DEF RequestPop
<1>3. \A r : ~Coming(r)' /\ ~Gone(r)'
  BY <1>2 DEF RequestPop, Coming, Gone, opVars
<1>4. \A r \in Records :
        prev_ptr'[r] = IF r = head THEN Null
                       ELSE IF r = next[head] THEN Head ELSE prev_ptr[r]
  BY DEF RequestPop
<1>5. next[head] # Null => Linked(next[head])
  BY PopFacts
<1>6. \A r \in Records : InList(r)' <=> r # head /\ InList(r)
  BY <1>4, <1>5, PointersAssumption DEF RequestPop, InList, Linked
<1>7. Members' = Members \ {head}
  BY <1>2, <1>3, <1>6 DEF Members
<1>. QED
  BY <1>1, <1>3, <1>4, <1>7 DEF RequestPop

(* The destructor of the source leaves no list. *)
LEMMA EmptiedFacts ==
    ASSUME Inv, DestroySource
    PROVE  /\ Members' = {} /\ head' = Null
           /\ \A r : ~Coming(r)' /\ ~Gone(r)'
<1>1. \A r : ~Coming(r)' /\ ~Gone(r)'
  BY DEF DestroySource, Coming, Gone, opVars
<1>2. \A r \in Records : ~InList(r)'
  BY DEF DestroySource, InList, Linked
<1>. QED
  BY <1>1, <1>2 DEF DestroySource, Members

(* The list stays linked in both directions. *)
LEMMA ChainedStep == Inv /\ [Next]_vars => Chained'
<1> SUFFICES ASSUME Inv, [Next]_vars PROVE Chained'
  OBVIOUS
<1>0. Chained
  BY DEF Inv
<1>1. ASSUME NEW t \in Threads, AddLink(t)
      PROVE  Chained'
  <2> DEFINE n == rec[t]
  <2>1. WellLinked(Members, head, next, prev_ptr)
    BY <1>1, LockedList DEF AddLink
  <2>2. /\ n \in Records \ Members /\ Members \in SUBSET Records
        /\ Members' = Members
        /\ \A r \in Records : next'[r] = IF r = n THEN head ELSE next[r]
        /\ \A r \in Records : prev_ptr'[r] = IF r = n THEN Head
                                ELSE IF r = head THEN n ELSE prev_ptr[r]
        /\ \A r : (Coming(r)' <=> r = n) /\ ~Gone(r)'
    BY <1>1, LinkFacts DEF Members
  <2> HIDE DEF n
  <2>3. WellLinked(Members \union {n}, n, next', prev_ptr')
    BY ONLY <2>1, <2>2, PointersAssumption DEF WellLinked
  <2>4. ASSUME NEW r \in Records, Coming(r)'
        PROVE  WellLinked(Members' \union {r}, r, next', prev_ptr')
    BY ONLY <2>2, <2>3, <2>4
  <2>. QED
    BY ONLY <2>2, <2>4 DEF Chained
<1>2. ASSUME NEW t \in Threads, AddPublish(t)
      PROVE  Chained'
  BY <1>2, PublishFacts DEF Chained
<1>3. ASSUME NEW t \in Threads, RemoveUnlink(t)
      PROVE  Chained'
  <2> DEFINE n == rec[t]
  <2>1. WellLinked(Members, head, next, prev_ptr)
    BY <1>3, LockedList DEF RemoveUnlink
  <2>2. /\ n \in Members /\ Members \in SUBSET Records
        /\ Members' = Members \ {n}
        /\ head' = IF prev_ptr[n] = Head THEN next[n] ELSE head
        /\ \A r \in Records :
             /\ next'[r] = IF r = prev_ptr[n] THEN next[n] ELSE next[r]
             /\ prev_ptr'[r] = IF r = next[n] THEN prev_ptr[n] ELSE prev_ptr[r]
    BY <1>3, UnlinkFacts DEF Members
  <2>3. (\A r : ~Coming(r)' /\ (Gone(r)' <=> r = n)) /\ prev_ptr'[n] # Null
    BY <1>3, UnlinkFacts DEF Linked
  <2> HIDE DEF n
  <2>4. WellLinked(Members \ {n}, head', next', prev_ptr')
    BY ONLY <2>1, <2>2, PointersAssumption DEF WellLinked
  <2>. QED
    <3>1. \A r \in Records : Gone(r)' => Linked(r)'
      BY ONLY <2>3 DEF Linked
    <3>. QED
      BY ONLY <2>2, <2>3, <2>4, <3>1 DEF Chained
<1>4. ASSUME NEW t \in Threads, RemoveUnlock(t)
      PROVE  Chained'
  BY <1>0, <1>4, UnlockFacts DEF Chained
<1>5. ASSUME NEW t \in Threads, RequestPop(t)
      PROVE  Chained'
  <2>1. WellLinked(Members, head, next, prev_ptr)
    BY <1>5, LockedList DEF RequestPop
  <2>2. /\ head \in Members /\ Members \in SUBSET Records
        /\ Members' = Members \ {head}
        /\ prev_ptr[head] = Head
        /\ head' = next[head] /\ next' = next
        /\ \A r \in Records :
             prev_ptr'[r] = IF r = head THEN Null
                            ELSE IF r = next[head] THEN Head ELSE prev_ptr[r]
        /\ \A r : ~Coming(r)' /\ ~Gone(r)'
    BY <1>5, TakeFacts DEF Members
  <2>3. \A r \in Members \ {head} :
          prev_ptr'[r] = IF r = next[head] THEN prev_ptr[head] ELSE prev_ptr[r]
    BY ONLY <2>2
  <2>4. WellLinked(Members \ {head}, head', next', prev_ptr')
    BY ONLY <2>1, <2>2, <2>3, PointersAssumption DEF WellLinked
  <2>. QED
    BY ONLY <2>2, <2>4 DEF Chained
<1>6. ASSUME DestroySource PROVE Chained'
  BY <1>6, EmptiedFacts DEF Chained, WellLinked
<1>7. ASSUME ~DestroySource,
             \A t \in Threads :
               /\ ~AddLink(t) /\ ~AddPublish(t)
               /\ ~RemoveUnlink(t) /\ ~RemoveUnlock(t) /\ ~RequestPop(t)
      PROVE  Chained'
  <2>1. /\ UNCHANGED <<head, next, prev_ptr>>
        /\ \A r \in Records : InList(r)' <=> InList(r)
        /\ \A r : (Coming(r)' <=> Coming(r)) /\ (Gone(r)' <=> Gone(r))
    BY <1>7, ListAlone
  <2>. QED
    BY <1>0, <2>1, ChainedKept
<1>. QED
  BY <1>1, <1>2, <1>3, <1>4, <1>5, <1>6, <1>7

(* The invariant is inductive. *)
LEMMA InvStep == Inv /\ [Next]_vars => Inv'
  BY TypeOKStep, OwnedStep, LockedStep, TrackedStep, HeldStep, ChainedStep
  DEF Inv

-----------------------------------------------------------------------------
(* What follows, for any threads and any registrations. *)

(* The invariant holds in every behaviour of the source: whatever the      *)
(* threads and the callbacks construct, destroy and request, in any order. *)
THEOREM Invariance == Spec => []Inv
  BY InvInit, InvStep, PTL DEF Spec

(* Every variable keeps its type. *)
THEOREM TypeCorrect == Spec => []TypeOK
<1>1. Inv => TypeOK
  BY DEF Inv
<1>. QED
  BY <1>1, Invariance, PTL

(* The fused word is a lock: lock(), try_lock_unless_stop_requested() and  *)
(* unlock() let one thread at a time into the list, and no plain store of  *)
(* a remembered word takes a request back.                                 *)
THEOREM LockWorks == Spec => []MutualExclusion
<1>1. Inv => MutualExclusion
  BY DEF Inv, Locked
<1>. QED
  BY <1>1, Invariance, PTL

(* Whenever the lock is open, the list is well linked in both directions   *)
(* and runs through living callback objects only, after any sequence of    *)
(* insertions, removals from any place, and pops.                          *)
THEOREM ListCorrect == Spec => []ListConsistent
<1>1. Inv => ListConsistent
  <2> SUFFICES ASSUME Inv, ~state.locked PROVE ListConsistent
    BY DEF ListConsistent
  <2>1. \A t \in Threads : ~HoldsLock(t)
    BY DEF Inv, Locked, MutualExclusion
  <2>2. \A r : ~Coming(r) /\ ~Gone(r)
    BY <2>1 DEF Coming, Gone, HoldsLock
  <2>3. /\ WellLinked(Members, head, next, prev_ptr)
        /\ Members = {r \in Records : InList(r)}
    BY <2>2 DEF Inv, Chained, Members
  <2>. QED
    BY <2>3, PointersAssumption DEF ListConsistent, WellLinked
<1>. QED
  BY <1>1, Invariance, PTL

(* Who runs a callback has seen the request, and finds a registration      *)
(* whose callback was never run and whose destructor has not returned.     *)
LEMMA RunsStep ==
    ASSUME Inv, [Next]_vars, NEW r \in Records, invoked'[r] # invoked[r]
    PROVE  /\ state.requested
           /\ invoked[r] = 0 /\ invoked'[r] = 1
           /\ life[r] \in {"constructing", "registered", "destroying"}
<1>0. invoked \in [Records -> Nat]
  BY DEF Inv, TypeOK
<1>1. ASSUME NEW t \in Threads, AddRefused(t)
      PROVE  /\ state.requested
             /\ invoked[r] = 0 /\ invoked'[r] = 1
             /\ life[r] \in {"constructing", "registered", "destroying"}
  <2>1. state.requested /\ invoked' = [invoked EXCEPT ![rec[t]] = @ + 1]
    BY <1>1 DEF AddRefused
  <2>2. r = rec[t]
    BY <1>0, <2>1
  <2>3. life[r] = "constructing"
    BY <1>1, <2>2 DEF AddRefused, Inv, Owned, AddPcs
  <2>4. invoked[r] = 0
    BY <2>3 DEF Inv, Tracked
  <2>. QED
    BY <1>0, <2>1, <2>2, <2>3, <2>4
<1>2. ASSUME NEW t \in Threads, Invoke(t)
      PROVE  /\ state.requested
             /\ invoked[r] = 0 /\ invoked'[r] = 1
             /\ life[r] \in {"constructing", "registered", "destroying"}
  <2>1. /\ request[t] = "invoke"
        /\ invoked' = [invoked EXCEPT ![current[t]] = @ + 1]
    BY <1>2 DEF Invoke
  <2>2. r = current[t]
    BY <1>0, <2>1
  <2>3. invoked[r] = 0 /\ life[r] \in {"registered", "destroying"}
    BY <2>1, <2>2 DEF Inv, Held, Running
  <2>4. requester = t
    BY <2>1 DEF Inv, Locked
  <2>5. state.requested
    BY <2>4, PointersAssumption DEF Inv, Locked, MutualExclusion
  <2>. QED
    BY <1>0, <2>1, <2>2, <2>3, <2>5
<1>3. ASSUME NEW t \in Threads, Continue(t), ~AddRefused(t), ~Invoke(t)
      PROVE  invoked' = invoked
  BY <1>3
  DEF Continue, AddLock, AddLink, AddPublish, RemoveLock, RemoveUnlink,
      RemoveUnlock, RemovePopped, RemoveWait, RequestPop, CallbackReturns,
      Finalize, Relock, RequestDone
<1>4. ASSUME NEW t \in Threads, RequestClaim(t)
      PROVE  invoked' = invoked
  BY <1>4 DEF RequestClaim
<1>5. ASSUME NEW t \in Threads, NEW x \in Records,
             Construct(t, x) \/ Destroy(t, x) \/ DestroyFired(t, x)
      PROVE  invoked' = invoked
  BY <1>5 DEF Construct, Destroy, DestroyFired
<1>6. CASE DestroySource \/ UNCHANGED vars
  BY <1>6 DEF DestroySource, vars
<1>. QED
  BY <1>1, <1>2, <1>3, <1>4, <1>5, <1>6 DEF Next

(* A callback starts to run once at most, whether request_stop() runs it   *)
(* or its own constructor does, after the request, and neither before the  *)
(* constructor of its registration nor after its destructor.               *)
THEOREM RunsOnce == Spec => OneShot
<1>1. Inv /\ [Next]_vars =>
        [\A r \in Records : invoked'[r] # invoked[r] =>
           /\ state.requested
           /\ invoked[r] = 0 /\ invoked'[r] = 1
           /\ life[r] \in {"constructing", "registered", "destroying"}]_vars
  BY RunsStep
<1>. QED
  BY <1>1, Invariance, PTL DEF Spec, OneShot

(* The flag that a record carries is on the stack of the request_stop()    *)
(* that is running it, and a popped record that nobody runs is completed.  *)
THEOREM FlagsCorrect == Spec => []FlagsOwned
<1>1. Inv => FlagsOwned
  BY PointersAssumption DEF Inv, Tracked, Running, FlagsOwned
<1>. QED
  BY <1>1, Invariance, PTL

(* request_stop() touches no registration that is gone, and only a         *)
(* callback that destroys its own registration outlives it.                *)
THEOREM NoUseAfter == Spec => []NoUseAfterUnregister
<1>1. Inv => NoUseAfterUnregister
  BY DEF Inv, Held, Running, NoUseAfterUnregister
<1>. QED
  BY <1>1, Invariance, PTL

-----------------------------------------------------------------------------
(* Whom a destructor waits for. *)

(* The thread is in a destructor that has to wait for the callback. *)
Waits(t) == pc[t] = "remove_wait" /\ ~completed[rec[t]]

(* A destructor waits only while its callback runs, on another thread,     *)
(* which is not waiting in a destructor itself: not even when callbacks    *)
(* destroy registrations does a circle of waiting threads come about.      *)
NoCircularWait ==
    \A t \in Threads : Waits(t) =>
        \E u \in Threads \ {t} :
            request[u] \in Running /\ current[u] = rec[t] /\ ~Waits(u)

(* Only a record that was popped is waited for, and not by the thread that *)
(* requested stop.                                                         *)
Popped ==
    \A t \in Threads :
        pc[t] = "remove_wait" => t # requester /\ ~Linked(rec[t])

(* A registration that was popped is not linked again. *)
LEMMA StaysPopped ==
    ASSUME Inv, [Next]_vars, NEW r \in Records, life[r] = "destroying",
           ~Linked(r)
    PROVE  ~Linked(r)'
<1> SUFFICES prev_ptr[r] = Null => prev_ptr'[r] = Null
  BY DEF Linked
<1>1. TypeOK
  BY DEF Inv
<1>2. ASSUME NEW t \in Threads, AddLink(t) \/ RemoveUnlink(t)
      PROVE  prev_ptr[r] = Null => prev_ptr'[r] = Null
  BY <1>2, LinksKept
<1>3. ASSUME NEW t \in Threads, RequestPop(t)
      PROVE  prev_ptr[r] = Null => prev_ptr'[r] = Null
  <2>1. prev_ptr'[r] = IF r = head THEN Null
                       ELSE IF r = next[head] THEN Head ELSE prev_ptr[r]
    BY <1>3 DEF RequestPop
  <2>2. next[head] # Null => Linked(next[head])
    BY <1>3, PopFacts
  <2>. QED
    BY <2>1, <2>2, PointersAssumption DEF Linked
<1>4. CASE DestroySource
  BY <1>4 DEF DestroySource
<1>5. ASSUME NEW t \in Threads, Continue(t),
             ~AddLink(t), ~RemoveUnlink(t), ~RequestPop(t)
      PROVE  prev_ptr' = prev_ptr
  BY <1>5
  DEF Continue, AddRefused, AddLock, AddPublish, RemoveLock, RemoveUnlock,
      RemovePopped, RemoveWait, Invoke, CallbackReturns, Finalize, Relock,
      RequestDone, recordVars
<1>6. ASSUME NEW t \in Threads, RequestClaim(t)
      PROVE  prev_ptr' = prev_ptr
  BY <1>6 DEF RequestClaim, recordVars
<1>7. ASSUME NEW t \in Threads, NEW x \in Records,
             Construct(t, x) \/ Destroy(t, x) \/ DestroyFired(t, x)
      PROVE  prev_ptr' = prev_ptr
  BY <1>7 DEF Construct, Destroy, DestroyFired, recordVars
<1>8. CASE UNCHANGED vars
  BY <1>8 DEF vars, recordVars
<1>. QED
  BY <1>2, <1>3, <1>4, <1>5, <1>6, <1>7, <1>8 DEF Next

(* A thread begins to wait in RemovePopped, and the requester is a thread  *)
(* that has just called from user code.                                    *)
LEMMA PoppedStep == Inv /\ Popped /\ [Next]_vars => Popped'
<1> SUFFICES ASSUME Inv, Popped, [Next]_vars, NEW t \in Threads,
                    pc'[t] = "remove_wait"
             PROVE  t # requester' /\ ~Linked(rec[t])'
  BY DEF Popped
<1>1. TypeOK
  BY DEF Inv
<1>2. \/ pc[t] = "remove_wait" /\ rec'[t] = rec[t]
      \/ RemovePopped(t) /\ t # requester
  <2>1. ASSUME NEW u \in Threads, Continue(u)
        PROVE  \/ pc[t] = "remove_wait" /\ rec'[t] = rec[t]
               \/ RemovePopped(t) /\ t # requester
    <3>1. CASE AddRefused(u) \/ AddLock(u) \/ AddLink(u) \/ AddPublish(u)
      BY <1>1, <3>1
      DEF AddRefused, AddLock, AddLink, AddPublish, Return, TypeOK
    <3>2. CASE RemoveLock(u) \/ RemoveUnlink(u) \/ RemoveUnlock(u)
      BY <1>1, <3>2 DEF RemoveLock, RemoveUnlink, RemoveUnlock, Return, TypeOK
    <3>3. CASE RemovePopped(u)
      BY <1>1, <3>3 DEF RemovePopped, Return, TypeOK
    <3>4. CASE RemoveWait(u)
      BY <1>1, <3>4 DEF RemoveWait, Return, TypeOK
    <3>5. CASE \/ RequestPop(u) \/ Invoke(u) \/ CallbackReturns(u)
               \/ Finalize(u) \/ Relock(u) \/ RequestDone(u)
      BY <3>5
      DEF RequestPop, Invoke, CallbackReturns, Finalize, Relock, RequestDone,
          opVars
    <3>. QED
      BY <2>1, <3>1, <3>2, <3>3, <3>4, <3>5 DEF Continue
  <2>2. ASSUME NEW u \in Threads, RequestClaim(u)
        PROVE  pc[t] = "remove_wait" /\ rec'[t] = rec[t]
    BY <2>2 DEF RequestClaim, opVars
  <2>3. ASSUME NEW u \in Threads, NEW x \in Records,
               Construct(u, x) \/ Destroy(u, x) \/ DestroyFired(u, x)
        PROVE  pc[t] = "remove_wait" /\ rec'[t] = rec[t]
    BY <1>1, <2>3 DEF Construct, Destroy, DestroyFired, opVars, TypeOK
  <2>4. CASE DestroySource \/ UNCHANGED vars
    BY <2>4 DEF DestroySource, opVars, vars
  <2>. QED
    BY <2>1, <2>2, <2>3, <2>4 DEF Next
<1>3. \/ requester' = requester
      \/ pc[requester'] = "idle" /\ pc' = pc
  <2>1. ASSUME NEW u \in Threads, Continue(u) PROVE requester' = requester
    BY <2>1
    DEF Continue, AddRefused, AddLock, AddLink, AddPublish, RemoveLock,
        RemoveUnlink, RemoveUnlock, RemovePopped, RemoveWait, RequestPop,
        Invoke, CallbackReturns, Finalize, Relock, RequestDone
  <2>2. ASSUME NEW u \in Threads, RequestClaim(u)
        PROVE  pc[requester'] = "idle" /\ pc' = pc
    BY <2>2 DEF RequestClaim, InUserCode, opVars
  <2>3. ASSUME NEW u \in Threads, NEW x \in Records,
               Construct(u, x) \/ Destroy(u, x) \/ DestroyFired(u, x)
        PROVE  requester' = requester
    BY <2>3 DEF Construct, Destroy, DestroyFired
  <2>4. ASSUME DestroySource PROVE requester' = requester
    BY <2>4 DEF DestroySource
  <2>5. ASSUME UNCHANGED vars PROVE requester' = requester
    BY <2>5 DEF vars
  <2>6. [Next]_vars
    OBVIOUS
  <2>. QED
    BY ONLY <2>1, <2>2, <2>3, <2>4, <2>5, <2>6 DEF Next
<1>4. CASE pc[t] = "remove_wait" /\ rec'[t] = rec[t]
  <2>1. rec[t] \in Records /\ life[rec[t]] = "destroying" /\ ~Linked(rec[t])
    BY <1>4 DEF Inv, Owned, RemovePcs, Popped
  <2>2. ~Linked(rec[t])'
    BY <1>4, <2>1, StaysPopped DEF Linked
  <2>3. t # requester'
    BY <1>3, <1>4 DEF Popped
  <2>. QED
    BY <2>2, <2>3
<1>5. CASE RemovePopped(t) /\ t # requester
  BY <1>5 DEF RemovePopped, Linked, recordVars
<1>. QED
  BY <1>2, <1>4, <1>5

(* Every waiting destructor waits for a thread that is not waiting, so that*)
(* registrations can be destroyed from anywhere, callbacks included.       *)
THEOREM WaitsEnd == Spec => []NoCircularWait
<1>1. ASSUME Inv, Popped, NEW t \in Threads, Waits(t)
      PROVE  /\ flag_ptr[rec[t]] \in Threads
             /\ request[flag_ptr[rec[t]]] \in Running
             /\ current[flag_ptr[rec[t]]] = rec[t]
             /\ requester = flag_ptr[rec[t]] /\ t # requester
  <2>1. /\ rec[t] \in Records /\ life[rec[t]] = "destroying"
        /\ ~Linked(rec[t]) /\ ~completed[rec[t]] /\ t # requester
    BY <1>1 DEF Waits, Inv, Owned, RemovePcs, Popped
  <2>2. flag_ptr[rec[t]] \in Threads /\ flag_ptr[rec[t]] # Null
    BY <1>1, <2>1, PointersAssumption DEF Inv, TypeOK, Tracked
  <2>3. /\ request[flag_ptr[rec[t]]] \in Running
        /\ current[flag_ptr[rec[t]]] = rec[t]
    BY <1>1, <2>1, <2>2 DEF Inv, Tracked
  <2>4. requester = flag_ptr[rec[t]]
    BY <1>1, <2>2, <2>3 DEF Inv, Locked, Running
  <2>. QED
    BY <2>1, <2>2, <2>3, <2>4
<1>2. Inv /\ Popped => NoCircularWait
  BY <1>1 DEF NoCircularWait
<1>3. Init => Popped
  BY DEF Init, Popped
<1>. QED
  BY <1>2, <1>3, InvInit, InvStep, PoppedStep, PTL DEF Spec

-----------------------------------------------------------------------------
(* The list as a whole. *)

(* The members of the list in the order of their links.                    *)
IsOrder(n, s) ==
    /\ s \in [1 .. n -> Records]
    /\ \A i, j \in 1 .. n : s[i] = s[j] => i = j
    /\ \A r \in Records : r \in Members <=> \E i \in 1 .. n : s[i] = r
    /\ head = IF n = 0 THEN Null ELSE s[1]
    /\ \A i \in 1 .. n : next[s[i]] = IF i = n THEN Null ELSE s[i + 1]

(* The callbacks are linked in one sequence, from the head to the null     *)
(* pointer: none of them is cut off from it or linked into a circle.       *)
ListIsSequence ==
    \E n \in Nat : \E s \in [1 .. n -> Records] : IsOrder(n, s)

(* A record that is not published yet points at the head. *)
Linking == \A t \in Threads : pc[t] = "add_publish" => next[rec[t]] = head

(* A step that leaves the members and their links alone. *)
LEMMA OrderKept ==
    ASSUME ListIsSequence, Members' = Members, head' = head,
           \A r \in Members : next'[r] = next[r]
    PROVE  ListIsSequence'
<1>1. PICK n \in Nat : \E s \in [1 .. n -> Records] : IsOrder(n, s)
  BY DEF ListIsSequence
<1>2. PICK s \in [1 .. n -> Records] : IsOrder(n, s)
  BY <1>1
<1>3. \A i \in 1 .. n : s[i] \in Members /\ next'[s[i]] = next[s[i]]
  BY <1>2 DEF IsOrder
<1>4. IsOrder(n, s)'
  BY <1>2, <1>3 DEF IsOrder
<1>. QED
  BY <1>4 DEF ListIsSequence

(* A step that puts a record in front. *)
LEMMA OrderPushed ==
    ASSUME ListIsSequence, NEW r \in Records \ Members,
           Members' = Members \union {r}, head' = r, next' = next,
           next[r] = head
    PROVE  ListIsSequence'
<1>1. PICK n \in Nat : \E s \in [1 .. n -> Records] : IsOrder(n, s)
  BY DEF ListIsSequence
<1>2. PICK s \in [1 .. n -> Records] : IsOrder(n, s)
  BY <1>1
<1> DEFINE u == [i \in 1 .. n + 1 |-> IF i = 1 THEN r ELSE s[i - 1]]
<1>3. /\ n + 1 \in Nat /\ n + 1 # 0 /\ 1 \in 1 .. n + 1
      /\ \A i \in 1 .. n : i + 1 \in 1 .. n + 1 /\ i + 1 # 1 /\ (i + 1) - 1 = i
      /\ \A i \in 1 .. n + 1 : i # 1 => i - 1 \in 1 .. n
  OBVIOUS
<1>4. u \in [1 .. n + 1 -> Records]
  BY <1>2, <1>3 DEF IsOrder
<1>5. /\ u[1] = r
      /\ \A i \in 1 .. n : u[i + 1] = s[i] /\ u[i + 1] # r
      /\ \A i \in 1 .. n + 1 : i # 1 => u[i] = s[i - 1] /\ u[i] # r
  BY <1>2, <1>3 DEF IsOrder
<1> HIDE DEF u
<1>6. ASSUME NEW i \in 1 .. n + 1, NEW j \in 1 .. n + 1, u[i] = u[j]
      PROVE  i = j
  <2>1. CASE i = 1 \/ j = 1
    BY <1>5, <1>6, <2>1
  <2>2. CASE i # 1 /\ j # 1
    <3>1. i - 1 \in 1 .. n /\ j - 1 \in 1 .. n /\ s[i - 1] = s[j - 1]
      BY <1>3, <1>5, <1>6, <2>2
    <3>2. i - 1 = j - 1
      BY <1>2, <3>1 DEF IsOrder
    <3>. QED
      BY <3>2
  <2>. QED
    BY <2>1, <2>2
<1>7. ASSUME NEW x \in Records
      PROVE  x \in Members' <=> \E i \in 1 .. n + 1 : u[i] = x
  <2>1. x \in Members => \E i \in 1 .. n + 1 : u[i] = x
    BY <1>2, <1>3, <1>5 DEF IsOrder
  <2>2. ASSUME NEW i \in 1 .. n + 1, i # 1 PROVE u[i] \in Members
    BY <1>2, <1>3, <1>5, <2>2 DEF IsOrder
  <2>. QED
    BY <1>3, <1>5, <2>1, <2>2
<1>8. ASSUME NEW i \in 1 .. n + 1
      PROVE  next'[u[i]] = IF i = n + 1 THEN Null ELSE u[i + 1]
  <2>1. CASE i = 1
    <3>1. next'[u[i]] = IF n = 0 THEN Null ELSE s[1]
      BY <1>2, <1>5, <2>1 DEF IsOrder
    <3>2. n # 0 => 1 \in 1 .. n
      OBVIOUS
    <3>. QED
      BY <1>5, <2>1, <3>1, <3>2
  <2>2. CASE i # 1
    <3>1. i - 1 \in 1 .. n /\ u[i] = s[i - 1]
      BY <1>3, <1>5, <2>2
    <3>2. next'[u[i]] = IF i - 1 = n THEN Null ELSE s[(i - 1) + 1]
      BY <1>2, <3>1 DEF IsOrder
    <3>3. /\ i - 1 = n <=> i = n + 1
          /\ (i - 1) + 1 = i
          /\ i # n + 1 => i \in 1 .. n
      OBVIOUS
    <3>. QED
      BY <1>5, <3>2, <3>3
  <2>. QED
    BY <2>1, <2>2
<1>9. IsOrder(n + 1, u)'
  BY <1>3, <1>4, <1>5, <1>6, <1>7, <1>8 DEF IsOrder
<1>. QED
  BY <1>3, <1>4, <1>9 DEF ListIsSequence

(* A step that takes a record out, from any place: the slot that pointed   *)
(* at it points at the next one.                                           *)
LEMMA OrderRemoved ==
    ASSUME NEW n \in Nat, NEW s \in [1 .. n -> Records], IsOrder(n, s),
           NEW k \in 1 .. n,
           Members' = Members \ {s[k]},
           head' = IF k = 1 THEN next[s[k]] ELSE head,
           \A i \in 1 .. n : i # k =>
             next'[s[i]] = IF i = k - 1 THEN next[s[k]] ELSE next[s[i]]
    PROVE  ListIsSequence'
<1> DEFINE At(i) == IF i < k THEN i ELSE i + 1
           u == [i \in 1 .. n - 1 |-> s[At(i)]]
<1>1. n - 1 \in Nat
  OBVIOUS
<1>2. /\ \A i \in 1 .. n - 1 : At(i) \in 1 .. n /\ At(i) # k
      /\ \A i, j \in 1 .. n - 1 : At(i) = At(j) => i = j
      /\ \A j \in 1 .. n : j # k => \E i \in 1 .. n - 1 : At(i) = j
  <2>1. \A j \in 1 .. n : j # k =>
          IF j < k THEN j \in 1 .. n - 1 /\ At(j) = j
                   ELSE j - 1 \in 1 .. n - 1 /\ At(j - 1) = j
    OBVIOUS
  <2>2. \A j \in 1 .. n : j # k => \E i \in 1 .. n - 1 : At(i) = j
    BY <2>1
  <2>. QED
    BY <2>2
<1>3. /\ u \in [1 .. n - 1 -> Records]
      /\ \A i \in 1 .. n - 1 : u[i] = s[At(i)]
  BY <1>2
<1> HIDE DEF u
<1>4. \A i, j \in 1 .. n - 1 : u[i] = u[j] => i = j
  BY <1>2, <1>3 DEF IsOrder
<1>5. ASSUME NEW x \in Records
      PROVE  x \in Members' <=> \E i \in 1 .. n - 1 : u[i] = x
  <2>1. x \in Members' <=> \E j \in 1 .. n : j # k /\ s[j] = x
    BY DEF IsOrder
  <2> HIDE DEF At
  <2>. QED
    BY <1>2, <1>3, <2>1
<1>6. ASSUME NEW i \in 1 .. n - 1
      PROVE  next'[u[i]] = IF i = n - 1 THEN Null ELSE u[i + 1]
  <2>1. /\ u[i] = s[At(i)] /\ At(i) \in 1 .. n /\ At(i) # k
        /\ i # n - 1 => i + 1 \in 1 .. n - 1 /\ u[i + 1] = s[At(i + 1)]
    BY <1>2, <1>3
  <2>2. CASE At(i) = k - 1
    <3>1. next'[u[i]] = next[s[k]]
      BY <2>1, <2>2
    <3>2. next[s[k]] = IF k = n THEN Null ELSE s[k + 1]
      BY DEF IsOrder
    <3>3. i = k - 1 /\ (k = n <=> i = n - 1) /\ At(i + 1) = k + 1
      BY <2>2
    <3>. QED
      BY <2>1, <3>1, <3>2, <3>3
  <2>3. CASE At(i) # k - 1
    <3>1. next'[u[i]] = IF At(i) = n THEN Null ELSE s[At(i) + 1]
      BY <2>1, <2>3 DEF IsOrder
    <3>2. (At(i) = n <=> i = n - 1) /\ At(i + 1) = At(i) + 1
      BY <2>3
    <3>. QED
      BY <2>1, <3>1, <3>2
  <2>. QED
    BY <2>2, <2>3
<1>7. head' = IF n - 1 = 0 THEN Null ELSE u[1]
  <2>1. CASE n = 1
    BY <2>1 DEF IsOrder
  <2>2. CASE n # 1
    <3>1. 1 \in 1 .. n - 1 /\ u[1] = s[At(1)] /\ 1 \in 1 .. n
      BY <1>3, <2>2
    <3>2. CASE k = 1
      BY <2>2, <3>1, <3>2 DEF IsOrder
    <3>3. CASE k # 1
      BY <2>2, <3>1, <3>3 DEF IsOrder
    <3>. QED
      BY <3>2, <3>3
  <2>. QED
    BY <2>1, <2>2
<1>8. IsOrder(n - 1, u)'
  BY <1>3, <1>4, <1>5, <1>6, <1>7 DEF IsOrder
<1>. QED
  BY <1>1, <1>3, <1>8 DEF ListIsSequence

(* Nobody else holds the lock in between. *)
LEMMA LinkingStep == Inv /\ Linking /\ [Next]_vars => Linking'
<1> SUFFICES ASSUME Inv, Linking, [Next]_vars, NEW t \in Threads,
                    pc'[t] = "add_publish"
             PROVE  (next[rec[t]] = head)'
  BY DEF Linking
<1>1. ASSUME NEW u \in Threads, AddLink(u)
      PROVE  (next[rec[t]] = head)'
  <2>1. Coming(rec[t])' /\ rec' = rec
    BY <1>1 DEF Coming, AddLink
  <2>2. rec[t] = rec[u] /\ rec[u] \in Records
    BY <1>1, <2>1, LinkFacts
  <2>. QED
    BY <1>1, <2>1, <2>2, LinkFacts
<1>2. ASSUME ~\E u \in Threads : AddLink(u)
      PROVE  pc[t] = "add_publish" /\ rec'[t] = rec[t]
  <2>1. ASSUME NEW u \in Threads, Continue(u)
        PROVE  pc[t] = "add_publish" /\ rec'[t] = rec[t]
    <3>1. CASE AddRefused(u) \/ AddLock(u) \/ AddPublish(u)
      BY <3>1 DEF AddRefused, AddLock, AddPublish, Return, Inv, TypeOK
    <3>2. CASE RemoveLock(u) \/ RemoveUnlink(u) \/ RemoveUnlock(u)
      BY <3>2 DEF RemoveLock, RemoveUnlink, RemoveUnlock, Return, Inv, TypeOK
    <3>3. CASE RemovePopped(u)
      BY <3>3 DEF RemovePopped, Return, Inv, TypeOK
    <3>4. CASE RemoveWait(u)
      BY <3>4 DEF RemoveWait, Return, Inv, TypeOK
    <3>5. CASE \/ RequestPop(u) \/ Invoke(u) \/ CallbackReturns(u)
               \/ Finalize(u) \/ Relock(u) \/ RequestDone(u)
      BY <3>5
      DEF RequestPop, Invoke, CallbackReturns, Finalize, Relock, RequestDone,
          opVars
    <3>. QED
      BY <1>2, <2>1, <3>1, <3>2, <3>3, <3>4, <3>5 DEF Continue
  <2>2. ASSUME NEW u \in Threads, RequestClaim(u)
        PROVE  pc[t] = "add_publish" /\ rec'[t] = rec[t]
    BY <2>2 DEF RequestClaim, opVars
  <2>3. ASSUME NEW u \in Threads, NEW x \in Records,
               Construct(u, x) \/ Destroy(u, x) \/ DestroyFired(u, x)
        PROVE  pc[t] = "add_publish" /\ rec'[t] = rec[t]
    BY <2>3 DEF Construct, Destroy, DestroyFired, opVars, Inv, TypeOK
  <2>4. CASE DestroySource \/ UNCHANGED vars
    BY <2>4 DEF DestroySource, opVars, vars
  <2>. QED
    BY <2>1, <2>2, <2>3, <2>4 DEF Next
<1>3. ASSUME pc[t] = "add_publish" /\ rec'[t] = rec[t]
      PROVE  head' = head /\ next' = next
  <2>1. HoldsLock(t) /\ request[t] # "pop"
    BY <1>3 DEF HoldsLock, Inv, Owned
  <2>2. \A u \in Threads \ {t} : ~HoldsLock(u)
    BY <2>1, LockFacts
  <2>3. /\ ~DestroySource /\ \A u \in Threads : ~AddLink(u) /\ ~RemoveUnlink(u)
        /\ \A u \in Threads : ~RemoveUnlock(u) /\ ~RequestPop(u)
    BY <1>3, <2>1, <2>2
    DEF DestroySource, AddLink, RemoveUnlink, RemoveUnlock, RequestPop,
        HoldsLock
  <2>4. \A u \in Threads : ~AddPublish(u)
    BY <1>3, <2>2 DEF AddPublish, Return, HoldsLock, Inv, TypeOK
  <2>. QED
    BY <2>3, <2>4, ListAlone
<1>. QED
  BY <1>1, <1>2, <1>3 DEF Linking

(* Whatever the threads do, the list is a sequence. *)
LEMMA OrderStep ==
    Inv /\ Linking /\ ListIsSequence /\ [Next]_vars => ListIsSequence'
<1> SUFFICES ASSUME Inv, Linking, ListIsSequence, [Next]_vars
             PROVE  ListIsSequence'
  OBVIOUS
<1>0. Members \in SUBSET Records
  BY DEF Members
<1>1. ASSUME NEW t \in Threads, AddLink(t)
      PROVE  ListIsSequence'
  BY <1>0, <1>1, LinkFacts, OrderKept
<1>2. ASSUME NEW t \in Threads, AddPublish(t)
      PROVE  ListIsSequence'
  <2>1. /\ rec[t] \in Records \ Members
        /\ Members' = Members \union {rec[t]}
        /\ head' = rec[t] /\ next' = next
    BY <1>2, PublishFacts
  <2>2. next[rec[t]] = head
    BY <1>2 DEF AddPublish, Inv, Linking
  <2>. QED
    BY <2>1, <2>2, OrderPushed
<1>3. ASSUME NEW t \in Threads, RemoveUnlink(t)
      PROVE  ListIsSequence'
  <2> DEFINE r == rec[t]
  <2>1. /\ r \in Members /\ Members' = Members \ {r}
        /\ head' = IF prev_ptr[r] = Head THEN next[r] ELSE head
        /\ \A x \in Records :
             next'[x] = IF x = prev_ptr[r] THEN next[r] ELSE next[x]
    BY <1>3, UnlinkFacts
  <2>2. /\ head # Null => prev_ptr[head] = Head
        /\ prev_ptr[r] \in Members \union {Head}
        /\ prev_ptr[r] = Head => head = r
        /\ prev_ptr[r] # Head => next[prev_ptr[r]] = r
    BY <1>3, <2>1, LockedList DEF RemoveUnlink, WellLinked
  <2> HIDE DEF r
  <2>3. PICK n \in Nat : \E s \in [1 .. n -> Records] : IsOrder(n, s)
    BY DEF ListIsSequence
  <2>4. PICK s \in [1 .. n -> Records] : IsOrder(n, s)
    BY <2>3
  <2>5. PICK k \in 1 .. n : s[k] = r
    BY <1>0, <2>1, <2>4 DEF IsOrder
  <2>6. /\ 1 \in 1 .. n /\ n # 0 /\ \A i \in 1 .. n : s[i] \in Members
        /\ head = s[1]
    BY <2>4 DEF IsOrder
  <2>7. k = 1 <=> prev_ptr[r] = Head
    <3>1. head # Null
      BY <2>6, PointersAssumption DEF Members
    <3>2. k = 1 => prev_ptr[r] = Head
      BY <2>2, <2>5, <2>6, <3>1
    <3>3. s[1] = s[k] => 1 = k
      BY <2>4, <2>6 DEF IsOrder
    <3>. QED
      BY <2>2, <2>5, <2>6, <3>2, <3>3
  <2>8. ASSUME NEW i \in 1 .. n
        PROVE  s[i] = prev_ptr[r] <=> i = k - 1
    <3>1. next[s[i]] = IF i = n THEN Null ELSE s[i + 1]
      BY <2>4 DEF IsOrder
    <3>2. s[i] \in Records /\ r \in Records /\ r # Null /\ s[i] # Head
      BY <1>0, <2>1, PointersAssumption
    <3>3. ASSUME s[i] = prev_ptr[r] PROVE i = k - 1
      <4>1. i # n /\ s[i + 1] = s[k]
        BY <2>2, <2>5, <3>1, <3>2, <3>3
      <4>2. i + 1 \in 1 .. n
        BY <4>1
      <4>3. i + 1 = k
        BY <2>4, <4>1, <4>2 DEF IsOrder
      <4>. QED
        BY <4>3
    <3>4. ASSUME i = k - 1 PROVE s[i] = prev_ptr[r]
      <4>1. k # 1 /\ prev_ptr[r] # Head /\ prev_ptr[r] \in Members
        BY <2>2, <2>7, <3>4
      <4>2. PICK j \in 1 .. n : s[j] = prev_ptr[r]
        BY <1>0, <2>4, <4>1 DEF IsOrder
      <4>3. next[s[j]] = r /\ next[s[j]] = IF j = n THEN Null ELSE s[j + 1]
        BY <2>2, <2>4, <4>1, <4>2 DEF IsOrder
      <4>4. j # n /\ s[j + 1] = s[k]
        BY <2>5, <3>2, <4>3
      <4>5. j + 1 \in 1 .. n
        BY <4>4
      <4>6. j + 1 = k
        BY <2>4, <4>4, <4>5 DEF IsOrder
      <4>. QED
        BY <3>4, <4>2, <4>6
    <3>. QED
      BY <3>3, <3>4
  <2>9. \A i \in 1 .. n : i # k =>
          next'[s[i]] = IF i = k - 1 THEN next[s[k]] ELSE next[s[i]]
    BY <2>1, <2>5, <2>8
  <2>10. /\ Members' = Members \ {s[k]}
         /\ head' = IF k = 1 THEN next[s[k]] ELSE head
    BY <2>1, <2>5, <2>7
  <2>. QED
    BY <2>4, <2>9, <2>10, OrderRemoved
<1>4. ASSUME NEW t \in Threads, RemoveUnlock(t)
      PROVE  ListIsSequence'
  BY <1>0, <1>4, UnlockFacts, OrderKept
<1>5. ASSUME NEW t \in Threads, RequestPop(t)
      PROVE  ListIsSequence'
  <2>1. /\ head \in Members /\ Members' = Members \ {head}
        /\ head' = next[head] /\ next' = next
    BY <1>5, TakeFacts
  <2>2. PICK n \in Nat : \E s \in [1 .. n -> Records] : IsOrder(n, s)
    BY DEF ListIsSequence
  <2>3. PICK s \in [1 .. n -> Records] : IsOrder(n, s)
    BY <2>2
  <2>4. n # 0 /\ 1 \in 1 .. n /\ head = s[1]
    BY <1>0, <2>1, <2>3, PointersAssumption DEF IsOrder
  <2>5. /\ Members' = Members \ {s[1]}
        /\ head' = IF 1 = 1 THEN next[s[1]] ELSE head
        /\ \A i \in 1 .. n : i # 1 =>
             next'[s[i]] = IF i = 1 - 1 THEN next[s[1]] ELSE next[s[i]]
    BY <2>1, <2>4
  <2>. QED
    BY <2>3, <2>4, <2>5, OrderRemoved
<1>6. ASSUME DestroySource PROVE ListIsSequence'
  <2>1. Members' = {} /\ head' = Null
    BY <1>6, EmptiedFacts
  <2> DEFINE s == [i \in 1 .. 0 |-> Null]
  <2>2. 1 .. 0 = {} /\ s \in [1 .. 0 -> Records]
    OBVIOUS
  <2>3. IsOrder(0, s)'
    BY <2>1, <2>2 DEF IsOrder
  <2>. QED
    BY <2>2, <2>3 DEF ListIsSequence
<1>7. ASSUME ~DestroySource,
             \A t \in Threads :
               /\ ~AddLink(t) /\ ~AddPublish(t)
               /\ ~RemoveUnlink(t) /\ ~RemoveUnlock(t) /\ ~RequestPop(t)
      PROVE  ListIsSequence'
  <2>1. /\ UNCHANGED <<head, next, prev_ptr>>
        /\ \A r \in Records : InList(r)' <=> InList(r)
        /\ \A r : (Coming(r)' <=> Coming(r)) /\ (Gone(r)' <=> Gone(r))
    BY <1>7, ListAlone
  <2>2. Members' = Members
    BY <2>1 DEF Members
  <2>. QED
    BY <2>1, <2>2, OrderKept
<1>. QED
  BY <1>1, <1>2, <1>3, <1>4, <1>5, <1>6, <1>7

-----------------------------------------------------------------------------
(* What a request to stop comes to. *)

(* The callback that request_stop() is in, or returns from, was counted.   *)
Counted ==
    \A t \in Threads :
        request[t] \in {"callback", "finalize"} => invoked[current[t]] = 1

(* A callback is counted when it is invoked, and never again. *)
LEMMA CountedStep == Inv /\ Counted /\ [Next]_vars => Counted'
<1> SUFFICES ASSUME Inv, Counted, [Next]_vars PROVE Counted'
  OBVIOUS
<1>0. TypeOK /\ Owned /\ Held
  BY DEF Inv
<1> USE <1>0
    DEF TypeOK, Owned, Held, Running, Counted, AddPcs, requestVars, opVars,
        recordVars
<1>1. ASSUME NEW t \in Threads, Continue(t)
      PROVE  Counted'
  <2>1. CASE AddRefused(t)
    BY <2>1 DEF AddRefused
  <2>2. CASE Invoke(t)
    BY <2>2 DEF Invoke
  <2>3. CASE RequestPop(t)
    BY <2>3 DEF RequestPop
  <2>4. CASE CallbackReturns(t) \/ Finalize(t)
    BY <2>4 DEF CallbackReturns, Finalize
  <2>5. CASE Relock(t) \/ RequestDone(t)
    BY <2>5 DEF Relock, RequestDone
  <2>6. CASE AddLock(t) \/ AddLink(t) \/ AddPublish(t)
    BY <2>6 DEF AddLock, AddLink, AddPublish
  <2>7. CASE RemoveLock(t) \/ RemoveUnlink(t) \/ RemoveUnlock(t)
    BY <2>7 DEF RemoveLock, RemoveUnlink, RemoveUnlock
  <2>8. CASE RemovePopped(t) \/ RemoveWait(t)
    BY <2>8 DEF RemovePopped, RemoveWait
  <2>. QED
    BY <1>1, <2>1, <2>2, <2>3, <2>4, <2>5, <2>6, <2>7, <2>8 DEF Continue
<1>2. ASSUME NEW t \in Threads, RequestClaim(t)
      PROVE  Counted'
  BY <1>2 DEF RequestClaim
<1>3. ASSUME NEW t \in Threads, NEW r \in Records,
             Construct(t, r) \/ Destroy(t, r) \/ DestroyFired(t, r)
      PROVE  Counted'
  BY <1>3 DEF Construct, Destroy, DestroyFired
<1>4. CASE DestroySource
  BY <1>4 DEF DestroySource
<1>5. CASE UNCHANGED vars
  BY <1>5 DEF vars
<1>. QED
  BY <1>1, <1>2, <1>3, <1>4, <1>5 DEF Next

(* Once stop was requested, request_stop() leaves no record in the list.   *)
Drained ==
    state.requested /\ (\A t \in Threads : request[t] = "none") => head = Null

(* A callback that is over was called, unless the source died without ever *)
(* being told to stop.                                                     *)
Finished ==
    \A r \in Records :
        completed[r] /\ invoked[r] = 0 => ~source /\ ~state.requested

(* A registration is constructed or destroyed by somebody. *)
Attended ==
    \A r \in Records :
        /\ life[r] = "constructing" =>
             \E t \in Threads : pc[t] \in AddPcs /\ rec[t] = r
        /\ life[r] = "destroying" =>
             \E t \in Threads : pc[t] \in RemovePcs /\ rec[t] = r

(* When stop was requested, a callback that was not invoked is about to    *)
(* be: by its constructor, or by request_stop(), which has it in its hands *)
(* or will come to it in the list.                                         *)
NoRequestMissed ==
    \A r \in Records :
        /\ state.requested
        /\ life[r] \in {"constructing", "registered"} /\ invoked[r] = 0
        => \/ \E t \in Threads : pc[t] = "add" /\ rec[t] = r
           \/ InList(r) /\ request[requester] # "none"
           \/ current[requester] = r /\ request[requester] = "invoke"

(* Every step of a call keeps the registration attended: it is taken up    *)
(* with it, and left when it is registered, fired or dead.                 *)
LEMMA AttendedStep == Inv /\ Attended /\ [Next]_vars => Attended'
<1> SUFFICES ASSUME Inv, Attended, [Next]_vars PROVE Attended'
  OBVIOUS
<1> DEFINE Busy(t, r) ==
             /\ rec[t] = r
             /\ life[r] = "constructing" => pc[t] \in AddPcs
             /\ life[r] = "destroying" => pc[t] \in RemovePcs
<1>0. TypeOK /\ Owned
  BY DEF Inv
<1>1. Attended <=> \A r \in Records :
        life[r] \in {"constructing", "destroying"} =>
          \E t \in Threads : Busy(t, r)
  BY DEF Attended
<1>2. Attended' <=> \A r \in Records :
        life'[r] \in {"constructing", "destroying"} =>
          \E t \in Threads : Busy(t, r)'
  BY DEF Attended
<1> USE <1>0
    DEF TypeOK, Owned, AddPcs, RemovePcs, Lives, OpPcs, recordVars,
        requestVars, opVars
<1>3. ASSUME NEW t \in Threads, NEW r \in Records,
             Construct(t, r) \/ Destroy(t, r) \/ DestroyFired(t, r)
      PROVE  Attended'
  <2>1. \A u \in Threads, x \in Records :
          Busy(u, x) /\ x # r /\ life[x] \in {"constructing", "destroying"}
            => Busy(u, x)' /\ life'[x] = life[x]
    BY <1>3 DEF Construct, Destroy, DestroyFired, InUserCode
  <2>2. life'[r] \in {"constructing", "destroying"} => Busy(t, r)'
    BY <1>3 DEF Construct, Destroy, DestroyFired
  <2>3. \A x \in Records : x # r => life'[x] = life[x]
    BY <1>3 DEF Construct, Destroy, DestroyFired
  <2> HIDE DEF Busy
  <2>. QED
    BY <1>1, <1>2, <2>1, <2>2, <2>3
<1>4. ASSUME NEW t \in Threads,
             \/ AddRefused(t) \/ AddPublish(t) \/ RemoveUnlock(t)
             \/ RemoveWait(t) \/ RemovePopped(t)
      PROVE  Attended'
  <2>1. rec[t] \in Records /\ pc[t] # "idle"
    BY <1>4 DEF AddRefused, AddPublish, RemoveUnlock, RemoveWait, RemovePopped
  <2>2. \A x \in Records : x # rec[t] => life'[x] = life[x]
    BY <1>4 DEF AddRefused, AddPublish, RemoveUnlock, RemoveWait, RemovePopped
  <2>3. \A u \in Threads \ {t} : pc'[u] = pc[u] /\ rec'[u] = rec[u]
    BY <1>4
    DEF AddRefused, AddPublish, RemoveUnlock, RemoveWait, RemovePopped, Return
  <2>4. \A u \in Threads, x \in Records :
          Busy(u, x) /\ x # rec[t] => u # t
    OBVIOUS
  <2>5. \/ life'[rec[t]] \in {"registered", "fired", "dead"}
        \/ rec'[t] = rec[t] /\ pc'[t] \in RemovePcs /\ life' = life
    <3>1. CASE AddRefused(t) \/ AddPublish(t)
      BY <2>1, <3>1 DEF AddRefused, AddPublish
    <3>2. CASE RemoveUnlock(t) \/ RemoveWait(t)
      BY <2>1, <3>2 DEF RemoveUnlock, RemoveWait
    <3>3. CASE RemovePopped(t)
      BY <2>1, <3>3 DEF RemovePopped
    <3>. QED
      BY <1>4, <3>1, <3>2, <3>3
  <2>6. life[rec[t]] = "destroying" \/ life'[rec[t]] # life[rec[t]]
    BY <1>4, <2>1, <2>5
    DEF AddRefused, AddPublish, RemoveUnlock, RemoveWait, RemovePopped
  <2>. QED
    BY <1>1, <1>2, <2>1, <2>2, <2>3, <2>4, <2>5, <2>6
<1>5. ASSUME NEW t \in Threads,
             \/ AddLock(t) \/ AddLink(t) \/ RemoveLock(t) \/ RemoveUnlink(t)
      PROVE  Attended'
  <2>1. life' = life /\ rec' = rec
    BY <1>5 DEF AddLock, AddLink, RemoveLock, RemoveUnlink
  <2>2. \A u \in Threads :
          /\ pc[u] \in AddPcs => pc'[u] \in AddPcs
          /\ pc[u] \in RemovePcs => pc'[u] \in RemovePcs
    BY <1>5 DEF AddLock, AddLink, RemoveLock, RemoveUnlink
  <2>. QED
    BY ONLY Attended, <2>1, <2>2 DEF Attended
<1>6. ASSUME UNCHANGED <<life, pc, rec>> PROVE Attended'
  BY ONLY Attended, <1>6 DEF Attended
<1>7. ASSUME NEW t \in Threads,
             \/ RequestClaim(t) \/ RequestPop(t) \/ Invoke(t)
             \/ CallbackReturns(t) \/ Finalize(t) \/ Relock(t)
             \/ RequestDone(t)
      PROVE  UNCHANGED <<life, pc, rec>>
  BY <1>7
  DEF RequestClaim, RequestPop, Invoke, CallbackReturns, Finalize, Relock,
      RequestDone
<1>8. DestroySource \/ UNCHANGED vars => UNCHANGED <<life, pc, rec>>
  BY DEF DestroySource, vars
<1> HIDE DEF Busy
<1>. QED
  BY <1>3, <1>4, <1>5, <1>6, <1>7, <1>8 DEF Next, Continue

(* A list without a head has no members. *)
LEMMA NoHead ==
    ASSUME ListIsSequence, head = Null
    PROVE  Members = {}
<1>1. PICK n \in Nat : \E s \in [1 .. n -> Records] : IsOrder(n, s)
  BY DEF ListIsSequence
<1>2. PICK s \in [1 .. n -> Records] : IsOrder(n, s)
  BY <1>1
<1>3. n = 0
  <2>1. n # 0 => s[1] \in Records
    OBVIOUS
  <2>. QED
    BY <1>2, <2>1, PointersAssumption DEF IsOrder
<1>. QED
  BY <1>2, <1>3 DEF IsOrder, Members

(* Once requested, and not before the claim: no step of a call changes the *)
(* requested bit.                                                          *)
LEMMA RequestedKept ==
    ASSUME Inv, NEW t \in Threads, Continue(t)
    PROVE  state'.requested = state.requested
<1>0. /\ state \in Words
      /\ request[t] # "none" => state.requested
      /\ pc[t] \in {"add_link", "add_publish"} => ~state.requested
      /\ pc[t] \in {"unlink", "unlink_done"} =>
           saved[t] = [requested |-> state.requested, locked |-> FALSE]
  <2>1. request[t] # "none" => requester = t /\ t # Null
    BY PointersAssumption DEF Inv, Locked
  <2>. QED
    BY <2>1 DEF Inv, TypeOK, Locked, MutualExclusion
<1> USE <1>0 DEF Words
<1>1. CASE AddRefused(t)
  BY <1>1 DEF AddRefused
<1>2. CASE AddLock(t) \/ AddLink(t)
  BY <1>2 DEF AddLock, AddLink
<1>3. CASE AddPublish(t)
  BY <1>3 DEF AddPublish, open
<1>4. CASE RemoveLock(t) \/ RemoveUnlink(t)
  BY <1>4 DEF RemoveLock, RemoveUnlink
<1>5. CASE RemoveUnlock(t) \/ RemovePopped(t)
  <2>1. state' = saved[t] /\ pc[t] \in {"unlink", "unlink_done"}
    BY <1>5 DEF RemoveUnlock, RemovePopped
  <2>. QED
    BY <2>1
<1>6. CASE RemoveWait(t)
  BY <1>6 DEF RemoveWait
<1>7. CASE RequestPop(t) \/ RequestDone(t)
  <2>1. state' = stop_requested_bit /\ state.requested
    BY <1>7 DEF RequestPop, RequestDone
  <2>. QED
    BY <2>1 DEF stop_requested_bit
<1>8. CASE Invoke(t) \/ CallbackReturns(t) \/ Finalize(t)
  BY <1>8 DEF Invoke, CallbackReturns, Finalize
<1>9. CASE Relock(t)
  BY <1>9 DEF Relock
<1>. QED
  BY <1>1, <1>2, <1>3, <1>4, <1>5, <1>6, <1>7, <1>8, <1>9 DEF Continue

(* request_stop() leaves when the list is empty, and nothing comes in any  *)
(* more.                                                                   *)
LEMMA DrainedStep ==
    Inv /\ ListIsSequence /\ Drained /\ [Next]_vars => Drained'
<1> SUFFICES ASSUME Inv, ListIsSequence, Drained, [Next]_vars,
                    state'.requested, \A t \in Threads : request'[t] = "none"
             PROVE  head' = Null
  BY DEF Drained
<1> USE DEF Inv, TypeOK, Locked, MutualExclusion, recordVars, requestVars,
            opVars
<1>1. ASSUME NEW t \in Threads, RequestDone(t) PROVE head' = Null
  BY <1>1 DEF RequestDone
<1>2. ASSUME \A t \in Threads : ~RequestDone(t)
      PROVE  state.requested /\ \A t \in Threads : request[t] = "none"
  <2>1. ASSUME NEW t \in Threads, RequestClaim(t) PROVE FALSE
    BY <2>1 DEF RequestClaim
  <2>2. ASSUME NEW t \in Threads,
               \/ RequestPop(t) \/ Invoke(t) \/ CallbackReturns(t)
               \/ Finalize(t) \/ Relock(t)
        PROVE  FALSE
    <3>1. request'[t] # "none"
      BY <2>2 DEF RequestPop, Invoke, CallbackReturns, Finalize, Relock
    <3>. QED
      BY <3>1
  <2>3. ASSUME NEW t \in Threads,
               \/ AddRefused(t) \/ AddLock(t) \/ AddLink(t) \/ AddPublish(t)
        PROVE  state.requested /\ request' = request
    <3>1. request' = request
      BY <2>3 DEF AddRefused, AddLock, AddLink, AddPublish
    <3>. QED
      BY <2>3, <3>1, RequestedKept DEF Continue
  <2>4. ASSUME NEW t \in Threads,
               \/ RemoveLock(t) \/ RemoveUnlink(t) \/ RemoveUnlock(t)
               \/ RemovePopped(t) \/ RemoveWait(t)
        PROVE  state.requested /\ request' = request
    <3>1. request' = request
      BY <2>4
      DEF RemoveLock, RemoveUnlink, RemoveUnlock, RemovePopped, RemoveWait
    <3>. QED
      BY <2>4, <3>1, RequestedKept DEF Continue
  <2>5. ASSUME NEW t \in Threads, NEW r \in Records,
               Construct(t, r) \/ Destroy(t, r) \/ DestroyFired(t, r)
        PROVE  state.requested /\ request' = request
    BY <2>5 DEF Construct, Destroy, DestroyFired
  <2>6. ASSUME DestroySource \/ UNCHANGED vars
        PROVE  state.requested /\ request' = request
    BY <2>6 DEF DestroySource, vars
  <2>. QED
    BY <1>2, <2>1, <2>2, <2>3, <2>4, <2>5, <2>6 DEF Next, Continue
<1>3. ASSUME head = Null, state.requested PROVE head' = Null
  <2>1. ASSUME NEW t \in Threads PROVE ~AddPublish(t)
    BY <1>3 DEF AddPublish
  <2>2. ASSUME NEW t \in Threads PROVE ~RemoveUnlink(t)
    BY <1>3, NoHead, UnlinkFacts
  <2>3. ASSUME NEW t \in Threads PROVE ~RequestPop(t)
    BY <1>3 DEF RequestPop
  <2>4. ASSUME NEW t \in Threads, AddLink(t) \/ RemoveUnlock(t)
        PROVE  head' = head
    BY <2>4 DEF AddLink, RemoveUnlock
  <2>5. DestroySource => head' = Null
    BY DEF DestroySource
  <2>. QED
    BY <1>3, <2>1, <2>2, <2>3, <2>4, <2>5, ListAlone
<1>. QED
  BY <1>1, <1>2, <1>3 DEF Drained

(* A callback is invoked before it is over, and the destructor of the      *)
(* source finds none in the list that a request should have invoked.       *)
LEMMA FinishedStep ==
    /\ Inv /\ ListIsSequence /\ Drained /\ Counted /\ Finished
    /\ [Next]_vars
    => Finished'
<1> SUFFICES ASSUME Inv, ListIsSequence, Drained, Counted, Finished,
                    [Next]_vars
             PROVE  Finished'
  OBVIOUS
<1>0. TypeOK /\ Owned /\ Held /\ Locked
  BY DEF Inv
<1> USE <1>0
    DEF TypeOK, Owned, Held, Locked, MutualExclusion, Running, Counted,
        Finished, AddPcs,
        requestVars, opVars, recordVars
<1>1. ASSUME NEW t \in Threads, Continue(t)
      PROVE  Finished'
  <2>0. state'.requested = state.requested
    BY <1>1, RequestedKept
  <2>1. CASE AddRefused(t)
    BY <2>0, <2>1 DEF AddRefused
  <2>2. CASE Invoke(t)
    BY <2>0, <2>2 DEF Invoke
  <2>3. CASE RequestPop(t)
    BY <2>0, <2>3 DEF RequestPop
  <2>4. CASE CallbackReturns(t) \/ Finalize(t)
    BY <2>0, <2>4 DEF CallbackReturns, Finalize
  <2>5. CASE Relock(t) \/ RequestDone(t)
    BY <2>0, <2>5 DEF Relock, RequestDone
  <2>6. CASE AddLock(t) \/ AddLink(t) \/ AddPublish(t)
    BY <2>0, <2>6 DEF AddLock, AddLink, AddPublish
  <2>7. CASE RemoveLock(t) \/ RemoveUnlink(t) \/ RemoveUnlock(t)
    BY <2>0, <2>7 DEF RemoveLock, RemoveUnlink, RemoveUnlock
  <2>8. CASE RemovePopped(t) \/ RemoveWait(t)
    BY <2>0, <2>8 DEF RemovePopped, RemoveWait
  <2>. QED
    BY <1>1, <2>1, <2>2, <2>3, <2>4, <2>5, <2>6, <2>7, <2>8 DEF Continue
<1>2. ASSUME NEW t \in Threads, RequestClaim(t)
      PROVE  Finished'
  BY <1>2 DEF RequestClaim, InUserCode
<1>3. ASSUME NEW t \in Threads, NEW r \in Records,
             Construct(t, r) \/ Destroy(t, r) \/ DestroyFired(t, r)
      PROVE  Finished'
  BY <1>3 DEF Construct, Destroy, DestroyFired
<1>4. CASE DestroySource
  <2>1. \A r \in Records : state.requested => ~InList(r)
    <3>1. \A r \in Records : ~Gone(r)
      BY <1>4 DEF DestroySource, Gone
    <3>2. state.requested => Members = {}
      BY <1>4, NoHead DEF Drained, DestroySource
    <3>. QED
      BY <3>1, <3>2 DEF Members
  <2>. QED
    BY <1>4, <2>1 DEF DestroySource
<1>5. CASE UNCHANGED vars
  BY <1>5 DEF vars
<1>. QED
  BY <1>1, <1>2, <1>3, <1>4, <1>5 DEF Next

(* The list that request_stop() walks, and what a request finds there. *)
LEMMA ListInvariant ==
    Spec => [](/\ Inv /\ Linking /\ ListIsSequence
               /\ Drained /\ Counted /\ Finished /\ Attended)
<1>1. Init => Linking /\ Drained /\ Counted /\ Finished /\ Attended
  BY PointersAssumption
  DEF Init, Linking, Drained, Counted, Finished, Attended, open
<1>2. Init => ListIsSequence
  <2> SUFFICES ASSUME Init PROVE ListIsSequence
    OBVIOUS
  <2> DEFINE s == [i \in 1 .. 0 |-> Null]
  <2>1. 1 .. 0 = {} /\ s \in [1 .. 0 -> Records]
    OBVIOUS
  <2>2. Members = {} /\ head = Null
    BY DEF Init, Members, InList
  <2>3. IsOrder(0, s)
    BY <2>1, <2>2 DEF IsOrder
  <2>. QED
    BY <2>1, <2>3 DEF ListIsSequence
<1>. QED
  BY <1>1, <1>2, InvInit, InvStep, LinkingStep, OrderStep, DrainedStep,
     CountedStep, FinishedStep, AttendedStep, PTL DEF Spec

(* The registered callbacks are one sequence from the head on, whichever   *)
(* of them comes or goes.                                                  *)
THEOREM ListIsWhole == Spec => []ListIsSequence
  BY ListInvariant, PTL

(* No callback that is registered misses a request to stop. *)
THEOREM RequestsArrive == Spec => []NoRequestMissed
<1>1. ASSUME Inv, ListIsSequence, Drained, Finished, Attended,
             NEW r \in Records, state.requested, invoked[r] = 0,
             life[r] = "constructing"
      PROVE  \E t \in Threads : pc[t] = "add" /\ rec[t] = r
  BY <1>1 DEF Attended, AddPcs, Inv, Locked
<1>2. ASSUME Inv, ListIsSequence, Drained, Finished,
             NEW r \in Records, state.requested, invoked[r] = 0,
             life[r] = "registered", InList(r)
      PROVE  request[requester] # "none"
  <2>1. r \in Members
    BY <1>2 DEF Members, Gone, Inv, Owned, RemovePcs
  <2>2. PICK t \in Threads : request[t] # "none"
    BY <1>2, <2>1, NoHead DEF Drained
  <2>. QED
    BY <1>2, <2>2 DEF Inv, Locked
<1>3. ASSUME Inv, Counted, Finished,
             NEW r \in Records, state.requested, invoked[r] = 0,
             life[r] = "registered", ~InList(r)
      PROVE  current[requester] = r /\ request[requester] = "invoke"
  <2>1. ~completed[r] /\ ~Linked(r)
    BY <1>3 DEF Finished, InList
  <2>2. /\ flag_ptr[r] \in Threads /\ current[flag_ptr[r]] = r
        /\ request[flag_ptr[r]] \in Running
    BY <1>3, <2>1, PointersAssumption DEF Inv, TypeOK, Tracked
  <2>3. requester = flag_ptr[r]
    BY <1>3, <2>2 DEF Inv, Locked, Running
  <2>. QED
    BY <1>3, <2>2, <2>3 DEF Counted, Running
<1>4. Inv /\ ListIsSequence /\ Drained /\ Counted /\ Finished /\ Attended
        => NoRequestMissed
  BY <1>1, <1>2, <1>3 DEF NoRequestMissed
<1>. QED
  BY <1>4, ListInvariant, PTL

-----------------------------------------------------------------------------
(* The source implements its contract. *)

(* The callback that runs is that of the one thread in request_stop(). *)
LEMMA CalleeFacts ==
    ASSUME Inv, Counted
    PROVE  /\ \A t \in Threads : request[t] # "none" => requester = t
           /\ \A t \in Threads : request[t] = "callback" =>
                /\ Callee = current[t] /\ Callee \in Records
                /\ invoked[Callee] = 1
           /\ Callee # Null => /\ requester \in Threads
                               /\ request[requester] = "callback"
           /\ Callee \in Records =>
                /\ life[Callee] \in {"registered", "destroying", "dead"}
                /\ life[Callee] # "dead" =>
                     ~completed[Callee] /\ ~Linked(Callee)
           /\ Callee \in Records \union {Null}
<1>1. \A t \in Threads : request[t] # "none" => requester = t
  BY DEF Inv, Locked
<1>2. requester \in Threads \union {Null} /\ Null \notin Records \union Threads
  BY PointersAssumption DEF Inv, TypeOK
<1>3. \A t \in Threads : request[t] = "callback" =>
        /\ current[t] \in Records /\ invoked[current[t]] = 1
        /\ life[current[t]] \in {"registered", "destroying", "dead"}
        /\ life[current[t]] # "dead" =>
             ~completed[current[t]] /\ ~Linked(current[t])
  BY DEF Inv, Held, Running, Counted
<1>. QED
  BY <1>1, <1>2, <1>3 DEF Callee

(* A step that changes nothing of what the contract speaks of. *)
LEMMA Quiet ==
    ASSUME Inv, requester' = requester, Callee' = Callee, invoked' = invoked,
           \A r \in Records :
             \/ life'[r] = life[r]
             \/ {life[r], life'[r]} \subseteq {"unborn", "constructing"}
             \/ {life[r], life'[r]} \subseteq {"registered", "destroying"}
    PROVE  UNCHANGED Contract!vars
<1>1. \A r \in Records : Status(r)' = Status(r)
  BY DEF Status
<1>. QED
  BY <1>1 DEF Contract!vars

(* A step that gives one registration another status. *)
LEMMA OneChanges ==
    ASSUME NEW r \in Records, NEW s, Status(r)' = s,
           \A x \in Records \ {r} : Status(x)' = Status(x)
    PROVE  [x \in Records |-> Status(x)]'
             = [[x \in Records |-> Status(x)] EXCEPT ![r] = s]
  OBVIOUS

(* Every step of the source is a step of its contract, or none. *)
LEMMA StepRefines ==
    Inv /\ Counted /\ Counted' /\ Inv' /\ [Next]_vars
      => [Contract!Next]_(Contract!vars)
<1> SUFFICES ASSUME Inv, Counted, Inv', Counted', [Next]_vars
             PROVE  Contract!Next \/ UNCHANGED Contract!vars
  OBVIOUS
<1> DEFINE statuses == [r \in Records |-> Status(r)]
<1>0. TypeOK /\ Owned
  BY DEF Inv
<1>a. Null \notin Records \union Threads
  BY PointersAssumption
<1> USE <1>0, <1>a
    DEF TypeOK, Owned, AddPcs, RemovePcs, OpPcs, Lives, recordVars,
        requestVars, opVars
<1>1. ASSUME NEW t \in Threads, RequestClaim(t)
      PROVE  Contract!Next
  <2>1. requester = Null /\ requester' = t /\ request'[t] # "callback"
    BY <1>1 DEF RequestClaim, Inv, Locked, MutualExclusion, open
  <2>2. Callee = Null /\ Callee' = Null
    BY <2>1 DEF Callee
  <2>3. \A r \in Records : Status(r)' = Status(r)
    BY <1>1, <2>2 DEF RequestClaim, Status
  <2>4. statuses' = statuses
    BY <2>3
  <2>5. Contract!Request(t)
    BY <2>1, <2>2, <2>4 DEF Contract!Request
  <2>. QED
    BY <2>5 DEF Contract!Next
<1>2. ASSUME NEW t \in Threads, NEW r, r = rec[t], AddRefused(t)
      PROVE  Contract!Next
  <2>1. /\ r \in Records /\ life[r] = "constructing"
        /\ requester # Null /\ UNCHANGED requester /\ Callee' = Callee
    BY <1>2 DEF AddRefused, Inv, Locked, Callee
  <2>2. /\ life' = [life EXCEPT ![r] = "fired"]
        /\ invoked' = [invoked EXCEPT ![r] = @ + 1]
    BY <1>2 DEF AddRefused
  <2>3. Status(r) = "none" /\ Status(r)' = "ran"
    BY <2>1, <2>2 DEF Status
  <2>4. \A x \in Records \ {r} : Status(x)' = Status(x)
    BY <2>1, <2>2 DEF Status
  <2>5. statuses' = [statuses EXCEPT ![r] = "ran"]
    BY <2>1, <2>3, <2>4, OneChanges
  <2>6. Contract!Register(r)
    BY <2>1, <2>3, <2>5 DEF Contract!Register
  <2>. QED
    BY <2>1, <2>6 DEF Contract!Next
<1>3. ASSUME NEW t \in Threads, NEW r, r = rec[t], AddPublish(t)
      PROVE  Contract!Next
  <2>a. /\ r \in Records /\ life[r] = "constructing" /\ invoked[r] = 0
    BY <1>3 DEF AddPublish, Inv, Owned, AddPcs, Tracked
  <2>b. requester = Null /\ UNCHANGED <<requester, request, current>>
    BY <1>3 DEF AddPublish, Inv, Locked, MutualExclusion, requestVars
  <2>1. /\ r \in Records /\ life[r] = "constructing"
        /\ requester = Null /\ UNCHANGED requester /\ Callee' = Callee
        /\ Callee = Null /\ invoked[r] = 0
    BY <2>a, <2>b DEF Callee
  <2>2. life' = [life EXCEPT ![r] = "registered"] /\ invoked' = invoked
    BY <1>3 DEF AddPublish
  <2>3. Status(r) = "none" /\ Status(r)' = "registered"
    BY <2>1, <2>2 DEF Status
  <2>4. \A x \in Records \ {r} : Status(x)' = Status(x)
    BY <2>1, <2>2 DEF Status
  <2>5. statuses' = [statuses EXCEPT ![r] = "registered"]
    BY <2>1, <2>3, <2>4, OneChanges
  <2>6. Contract!Register(r)
    BY <2>1, <2>3, <2>5 DEF Contract!Register
  <2>. QED
    BY <2>1, <2>6 DEF Contract!Next
<1>4. ASSUME NEW t \in Threads, NEW r \in Records, r # Callee \/ t = requester,
             life[r] \in {"fired", "registered", "destroying"},
             life' = [life EXCEPT ![r] = "dead"],
             UNCHANGED <<requester, request, current, invoked>>
      PROVE  Contract!Next
  <2>1. UNCHANGED requester /\ Callee' = Callee
    BY <1>4 DEF Callee
  <2>2. \/ Status(r) \in {"registered", "ran"}
        \/ Status(r) = "running" /\ t = requester
    <3>1. CASE life[r] = "fired"
      BY <3>1 DEF Status
    <3>2. CASE life[r] \in {"registered", "destroying"}
      BY <1>4, <3>2 DEF Status
    <3>. QED
      BY <1>4, <3>1, <3>2
  <2>3. Status(r)' = "gone"
    <3>1. life'[r] = "dead"
      BY <1>4
    <3>. QED
      BY <3>1 DEF Status
  <2>4. \A x \in Records \ {r} : Status(x)' = Status(x)
    BY <1>4, <2>1 DEF Status
  <2>5. statuses' = [statuses EXCEPT ![r] = "gone"]
    BY <2>3, <2>4, OneChanges
  <2>6. Contract!Unregister(t, r)
    BY <2>1, <2>2, <2>5 DEF Contract!Unregister
  <2>. QED
    BY <2>6 DEF Contract!Next
<1>5. ASSUME NEW t \in Threads, NEW r \in Records, DestroyFired(t, r)
      PROVE  Contract!Next
  <2>1. r # Callee
    BY <1>5, CalleeFacts DEF DestroyFired
  <2>. QED
    BY <1>4, <1>5, <2>1 DEF DestroyFired
<1>6. ASSUME NEW t \in Threads, RemoveUnlock(t)
      PROVE  Contract!Next
  <2>1. rec[t] \in Records /\ life[rec[t]] = "destroying" /\ Linked(rec[t])
    BY <1>6 DEF RemoveUnlock, Inv, Chained, Gone
  <2>2. rec[t] # Callee
    BY <2>1, CalleeFacts
  <2>. QED
    BY <1>4, <1>6, <2>1, <2>2 DEF RemoveUnlock
<1>7. ASSUME NEW t \in Threads, RemovePopped(t)
      PROVE  Contract!Next \/ UNCHANGED Contract!vars
  <2>1. rec[t] \in Records /\ life[rec[t]] = "destroying"
    BY <1>7 DEF RemovePopped
  <2>2. CASE t = requester
    BY <1>4, <1>7, <2>1, <2>2 DEF RemovePopped
  <2>3. CASE t # requester
    BY <1>7, <2>3, Quiet DEF RemovePopped, Callee
  <2>. QED
    BY <2>2, <2>3
<1>8. ASSUME NEW t \in Threads, RemoveWait(t)
      PROVE  Contract!Next
  <2>1. /\ rec[t] \in Records /\ life[rec[t]] = "destroying"
        /\ completed[rec[t]]
    BY <1>8 DEF RemoveWait
  <2>2. rec[t] # Callee
    BY <2>1, CalleeFacts
  <2>. QED
    BY <1>4, <1>8, <2>1, <2>2 DEF RemoveWait
<1>9. ASSUME NEW t \in Threads, NEW r, r = current[t], Invoke(t)
      PROVE  Contract!Next
  <2>1. /\ r \in Records /\ life[r] \in {"registered", "destroying"}
        /\ invoked[r] = 0
    BY <1>9 DEF Invoke, Inv, Held, Running
  <2>2. requester = t /\ requester' = t
    BY <1>9 DEF Invoke, Inv, Locked
  <2>3. Callee = Null /\ Callee' = r
    BY <1>9, <2>2 DEF Invoke, Callee
  <2>4. \A x \in Records \ {r} : Status(x)' = Status(x)
    BY <1>9, <2>1, <2>3 DEF Invoke, Status
  <2>5. Status(r) = "registered" /\ Status(r)' = "running"
    BY <1>9, <2>1, <2>3 DEF Invoke, Status
  <2>6. statuses' = [statuses EXCEPT ![r] = "running"]
    BY <2>1, <2>4, <2>5, OneChanges
  <2>7. Contract!Run(r)
    BY <2>1, <2>2, <2>3, <2>5, <2>6 DEF Contract!Run
  <2>. QED
    BY <2>1, <2>7 DEF Contract!Next
<1>10. ASSUME NEW t \in Threads, NEW r, r = current[t], CallbackReturns(t)
       PROVE  Contract!Next
  <2>1. /\ Callee = r /\ r \in Records /\ invoked[r] = 1
        /\ requester = t
        /\ life[r] \in {"registered", "destroying", "dead"}
    BY <1>10, CalleeFacts DEF CallbackReturns
  <2>2. /\ requester' = t /\ request'[t] # "callback"
        /\ UNCHANGED <<life, invoked>>
    BY <1>10, <2>1 DEF CallbackReturns
  <2>3. Callee' = Null
    BY <2>2 DEF Callee
  <2>4. \A x \in Records \ {r} : Status(x)' = Status(x)
    BY <2>1, <2>2, <2>3 DEF Status
  <2>5. Status(r)' = IF Status(r) = "running" THEN "ran" ELSE Status(r)
    <3>1. CASE life[r] = "dead"
      BY <2>2, <3>1 DEF Status
    <3>2. CASE life[r] \in {"registered", "destroying"}
      BY <2>1, <2>2, <2>3, <3>2 DEF Status
    <3>. QED
      BY <2>1, <3>1, <3>2
  <2>6. statuses' = [statuses EXCEPT
                       ![r] = IF @ = "running" THEN "ran" ELSE @]
    <3>1. statuses' = [statuses EXCEPT
                         ![r] = IF Status(r) = "running" THEN "ran"
                                ELSE Status(r)]
      BY <2>1, <2>4, <2>5, OneChanges
    <3>2. statuses[r] = Status(r)
      BY <2>1
    <3>. QED
      BY <3>1, <3>2
  <2>7. Contract!Return
    BY <2>1, <2>2, <2>3, <2>6 DEF Contract!Return
  <2>. QED
    BY <2>7 DEF Contract!Next
<1>11. ASSUME NEW t \in Threads, NEW r \in Records,
              Construct(t, r) \/ Destroy(t, r)
       PROVE  UNCHANGED Contract!vars
  BY <1>11, Quiet DEF Construct, Destroy, Callee
<1>12. ASSUME NEW t \in Threads,
              AddLock(t) \/ AddLink(t) \/ RemoveLock(t) \/ RemoveUnlink(t)
       PROVE  UNCHANGED Contract!vars
  BY <1>12, Quiet DEF AddLock, AddLink, RemoveLock, RemoveUnlink, Callee
<1>13. ASSUME NEW t \in Threads,
              RequestPop(t) \/ Finalize(t) \/ Relock(t) \/ RequestDone(t)
       PROVE  UNCHANGED Contract!vars
  <2>1. requester = t /\ request[t] # "callback"
    BY <1>13 DEF RequestPop, Finalize, Relock, RequestDone, Inv, Locked
  <2>2. /\ request'[t] # "callback"
        /\ UNCHANGED <<requester, life, invoked>>
    BY <1>13, <2>1 DEF RequestPop, Finalize, Relock, RequestDone
  <2>. QED
    BY <2>1, <2>2, Quiet DEF Callee
<1>14. CASE DestroySource
  BY <1>14, Quiet DEF DestroySource, Callee
<1>15. CASE UNCHANGED vars
  BY <1>15, Quiet DEF vars, Callee
<1> HIDE DEF TypeOK, Owned, AddPcs, RemovePcs, OpPcs, Lives, recordVars,
             requestVars, opVars
<1>. QED
  BY <1>1, <1>2, <1>3, <1>5, <1>6, <1>7, <1>8, <1>9, <1>10, <1>11, <1>12,
     <1>13, <1>14, <1>15
  DEF Next, Continue

(* The source implements its contract, for any threads and registrations:  *)
(* stop is requested once, callbacks run one after the other and once at   *)
(* most, and a destructor returns when its callback is over or never runs. *)
THEOREM SourceImplementsContract == Spec => ContractSpec
<1>1. Init => Contract!Init
  BY DEF Init, Contract!Init, Callee, Status
<1>2. Init => Counted
  BY DEF Init, Counted
<1>3. Spec => []Counted
  BY <1>2, CountedStep, Invariance, PTL DEF Spec
<1>. QED
  BY <1>1, <1>3, StepRefines, Invariance, PTL
  DEF Spec, ContractSpec, Contract!Spec
=============================================================================
