------------------------ MODULE CountingScope_proofs ------------------------
(***************************************************************************)
(* Proofs about CountingScope, for any threads, joins and number of        *)
(* associations.                                                           *)
(***************************************************************************)
EXTENDS CountingScope, FiniteSetTheorems, SequenceTheorems, TLAPS

-----------------------------------------------------------------------------
(* The inductive invariant, in named parts. *)

Returning == {"idle", "associate", "drain_exchange", "drain"}
Registering == {"register_load", "register"}
Draining == {"drain_exchange", "drain"}

(* The words a compare-exchange loop may hold: any word was once current.  *)
WellFormed(w) ==
    /\ w.join_running => w.count > 0
    /\ w.count > 0 => w.join_needed

(* A thread that gives an association back owns it. *)
OwnsAssociation ==
    /\ \A t \in Threads :
         IF pc[t] = "disassociate" THEN assoc[t] \in live ELSE assoc[t] = Null
    /\ \A t, u \in Threads :
         pc[t] = "disassociate" /\ pc[u] = "disassociate" /\ assoc[t] = assoc[u]
             => t = u

(* A thread that starts a join has it for itself. *)
OwnsWaiter ==
    /\ \A t \in Threads :
         IF pc[t] \in {"join"} \union Registering
         THEN waiter[t] \in Waiters /\ phase[waiter[t]] = "starting"
         ELSE waiter[t] = Null
    /\ \A t, u \in Threads :
         waiter[t] = waiter[u] /\ waiter[t] # Null => t = u

(* The completions a join has had go with its phase. *)
CompletionsMatch ==
    \A w \in Waiters :
        completions[w] = IF phase[w] = "done" THEN 1 ELSE 0

(* While a join is past its compare-exchange and unanswered, the scope is  *)
(* joining or joined; once one is scheduled or answered it is joined.      *)
StartedScope ==
    /\ \A w \in Waiters :
         Started(w) => word.join_running \/ is_joined(word)
    /\ \A w \in Waiters :
         phase[w] \in {"scheduled", "done"} => is_joined(word)

(* The sentinel and the drain belong to a joined scope, and there is one   *)
(* drain.                                                                  *)
OneDrain ==
    /\ \A t \in Threads :
         /\ list[t] # Null => pc[t] = "drain"
         /\ pc[t] \in Draining => is_joined(word)
         /\ pc[t] = "drain_exchange" => joiners # Sentinel
         /\ pc[t] = "drain" => joiners = Sentinel
         /\ head[t] = Sentinel => joiners = Sentinel
    /\ \A t, u \in Threads :
         pc[t] \in Draining /\ pc[u] \in Draining => t = u
    /\ joiners = Sentinel => is_joined(word)
    /\ \A w \in Waiters : phase[w] = "scheduled" => joiners = Sentinel

(* The waiting joins form a chain that hangs on joiners_, or on the        *)
(* cursor of the drain.                                                    *)
IsTop(w) == joiners = w \/ \E t \in Threads : list[t] = w

Chain ==
    /\ \A w \in Waiters : IsTop(w) => phase[w] = "registered"
    /\ \A w, x \in Waiters :
         /\ phase[w] = "registered" /\ next[w] = x =>
               phase[x] = "registered" /\ ~IsTop(x)
         /\ phase[w] = "registered" /\ phase[x] = "registered"
               /\ next[w] = next[x] /\ next[w] # Null => w = x

(* Somebody waits on a joining scope until the drain has begun. *)
SomebodyWaits ==
    /\ word.join_running => \E w \in Waiters : Started(w)
    /\ \A t \in Threads :
         pc[t] = "drain_exchange" => \E w \in Waiters : Started(w)

Destroyed ==
    ~alive => /\ word.count = 0
              /\ \A w \in Waiters : phase[w] \in {"new", "done"}
              /\ \A t \in Threads : pc[t] # "associate"

Inv ==
    /\ TypeOK
    /\ WordConsistent
    /\ \A t \in Threads : WellFormed(bits[t])
    /\ OwnsAssociation
    /\ OwnsWaiter
    /\ CompletionsMatch
    /\ StartedScope
    /\ OneDrain
    /\ Chain
    /\ SomebodyWaits
    /\ Destroyed

-----------------------------------------------------------------------------
(* The limit is a natural number. *)
LEMMA MaxIsNat == max_associations \in Nat
BY FS_CardinalityType, AssociationsAssumption DEF max_associations

(* The number of associations is a natural number within the limit.        *)
LEMMA LiveFinite ==
    ASSUME NEW S \in SUBSET Associations
    PROVE  /\ IsFiniteSet(S)
           /\ Cardinality(S) \in 0 .. max_associations
<1>1. IsFiniteSet(S) /\ Cardinality(S) <= Cardinality(Associations)
  BY FS_Subset, AssociationsAssumption
<1>2. Cardinality(S) \in Nat /\ Cardinality(Associations) \in Nat
  BY <1>1, FS_CardinalityType, AssociationsAssumption
<1>. QED
  BY <1>1, <1>2 DEF max_associations

(* The fields of a word. *)
LEMMA WordFields ==
    ASSUME NEW w \in Words
    PROVE  /\ w.count \in 0 .. max_associations
           /\ w.closed \in BOOLEAN
           /\ w.join_needed \in BOOLEAN
           /\ w.join_running \in BOOLEAN
           /\ is_joined(w) <=> /\ w.count = 0 /\ w.closed
                               /\ ~w.join_needed /\ ~w.join_running
<1>1. /\ w.count \in 0 .. max_associations
      /\ w.closed \in BOOLEAN
      /\ w.join_needed \in BOOLEAN
      /\ w.join_running \in BOOLEAN
      /\ w = [count |-> w.count, closed |-> w.closed,
              join_needed |-> w.join_needed, join_running |-> w.join_running]
  BY DEF Words
<1>2. is_joined(w) => /\ w.count = 0 /\ w.closed
                      /\ ~w.join_needed /\ ~w.join_running
  BY DEF is_joined, closed_bit
<1>3. ASSUME w.count = 0, w.closed, ~w.join_needed, ~w.join_running
      PROVE  is_joined(w)
  <2>1. w.closed = TRUE /\ w.join_needed = FALSE /\ w.join_running = FALSE
    BY <1>1, <1>3
  <2>. QED
    BY <1>1, <1>3, <2>1 DEF is_joined, closed_bit
<1>. QED
  BY <1>1, <1>2, <1>3

(* The words without a count are words whatever the limit. *)
LEMMA ConstantWords == unused \in Words /\ closed_bit \in Words
BY MaxIsNat DEF Words, unused, closed_bit

(* What close() and the compare-exchange of start_join() write. *)
LEMMA ClosedWord ==
    ASSUME NEW w \in Words
    PROVE  /\ Closed(w) \in Words
           /\ Closed(w).count = w.count
           /\ Closed(w).closed
           /\ Closed(w).join_needed <=> w.join_needed
           /\ Closed(w).join_running <=> w.join_running
BY DEF Words, Closed

LEMMA JoiningWord ==
    ASSUME NEW w \in Words
    PROVE  /\ Joining(w) \in Words
           /\ Joining(w).count = w.count
           /\ Joining(w).closed <=> w.closed
           /\ Joining(w).join_needed <=> w.join_needed
           /\ Joining(w).join_running
BY DEF Words, Joining

(* What the compare-exchange of try_associate() writes. *)
LEMMA AssociatedWord ==
    ASSUME NEW w \in Words, w.count < max_associations
    PROVE  /\ Associated(w) \in Words
           /\ Associated(w).count = w.count + 1
           /\ Associated(w).join_needed
           /\ Associated(w).join_running <=> w.join_running
           /\ Associated(w).closed <=> w.closed
BY MaxIsNat, WordFields DEF Words, Associated

(* What the compare-exchange of disassociate() writes: the count goes down *)
(* by one, and a joining scope that reaches zero is joined.                *)
LEMMA DisassociatedWord ==
    ASSUME NEW w \in Words, w.count > 0, WellFormed(w)
    PROVE  /\ Disassociated(w) \in Words
           /\ Disassociated(w).count = w.count - 1
           /\ WellFormed(Disassociated(w))
           /\ Disassociated(w).closed <=>
                 w.closed \/ (w.count = 1 /\ w.join_running)
           /\ ~is_joined(Disassociated(w)) =>
                 (Disassociated(w).join_running <=> w.join_running)
           /\ is_joined(Disassociated(w)) => w.count = 1 /\ w.join_running
<1>1. CASE w.count = 1 /\ w.join_running
  <2>1. Disassociated(w) = closed_bit
    BY <1>1 DEF Disassociated
  <2>. QED
    BY <1>1, <2>1, ConstantWords, WordFields DEF WellFormed, is_joined, closed_bit
<1>2. CASE ~(w.count = 1 /\ w.join_running)
  <2>1. Disassociated(w) = [w EXCEPT !.count = w.count - 1]
    BY <1>2 DEF Disassociated
  <2>2. Disassociated(w) \in Words
    BY <2>1, MaxIsNat, WordFields DEF Words
  <2>3. /\ Disassociated(w).count = w.count - 1
        /\ Disassociated(w).closed <=> w.closed
        /\ Disassociated(w).join_needed <=> w.join_needed
        /\ Disassociated(w).join_running <=> w.join_running
    BY <2>1, WordFields DEF Words
  <2>. QED
    BY <1>2, <2>2, <2>3, WordFields DEF WellFormed
<1>. QED
  BY <1>1, <1>2

-----------------------------------------------------------------------------
(* The initial state. *)
LEMMA InvInit == Init => Inv
<1>. SUFFICES ASSUME Init PROVE Inv
  OBVIOUS
<1>1. /\ unused \in Words
      /\ unused.count = 0 /\ ~unused.join_running /\ ~unused.join_needed
      /\ ~is_joined(unused)
  BY ConstantWords, WordFields DEF unused, is_joined, closed_bit
<1>2. Cardinality({}) = 0
  BY FS_EmptySet
<1>3. TypeOK
  BY <1>1 DEF Init, TypeOK, Phases, PcValues
<1>4. WordConsistent /\ \A t \in Threads : WellFormed(bits[t])
  BY <1>1, <1>2 DEF Init, WordConsistent, WellFormed
<1>5. OwnsAssociation /\ OwnsWaiter
  BY DEF Init, OwnsAssociation, OwnsWaiter, Registering
<1>6. CompletionsMatch /\ Destroyed
  BY DEF Init, CompletionsMatch, Destroyed
<1>7. \A w \in Waiters : ~Started(w)
  BY DEF Init, Started
<1>8. StartedScope /\ SomebodyWaits
  BY <1>1, <1>7 DEF Init, StartedScope, SomebodyWaits
<1>9. OneDrain
  BY PointersAssumption DEF Init, OneDrain, Draining
<1>10. Chain
  BY PointersAssumption DEF Init, Chain, IsTop
<1>. QED
  BY <1>3, <1>4, <1>5, <1>6, <1>8, <1>9, <1>10 DEF Inv

-----------------------------------------------------------------------------
(* A thread that gives an association back finds it counted, on the word   *)
(* it compares with as much as on the current one.                         *)
LEMMA CountedAssociation ==
    ASSUME Inv, NEW t \in Threads, pc[t] = "disassociate"
    PROVE  /\ assoc[t] \in live
           /\ word.count > 0
           /\ IsFiniteSet(live)
           /\ Cardinality(live \ {assoc[t]}) = word.count - 1
<1>1. assoc[t] \in live /\ live \in SUBSET Associations
      /\ word.count = Cardinality(live)
  BY DEF Inv, OwnsAssociation, TypeOK, WordConsistent
<1>2. IsFiniteSet(live) /\ Cardinality(live) \in 0 .. max_associations
  BY <1>1, LiveFinite
<1>3. Cardinality(live \ {assoc[t]}) = Cardinality(live) - 1
  BY <1>1, <1>2, FS_RemoveElement
<1>4. Cardinality(live) # 0
  BY <1>1, <1>2, FS_EmptySet
<1>. QED
  BY <1>1, <1>2, <1>3, <1>4, MaxIsNat

(* The word that a successful disassociate writes. *)
LEMMA DisassociateWrites ==
    ASSUME Inv, NEW t \in Threads, pc[t] = "disassociate", word = bits[t]
    PROVE  /\ Disassociated(bits[t]) \in Words
           /\ Disassociated(bits[t]).count = word.count - 1
           /\ WellFormed(Disassociated(bits[t]))
           /\ ~is_joined(Disassociated(bits[t])) =>
                 (Disassociated(bits[t]).join_running <=> word.join_running)
           /\ is_joined(Disassociated(bits[t])) =>
                 word.count = 1 /\ word.join_running
<1>1. word.count > 0
  BY CountedAssociation
<1>2. word \in Words /\ WellFormed(word)
  BY DEF Inv, TypeOK, WordConsistent, WellFormed
<1>. QED
  BY <1>1, <1>2, DisassociatedWord

(* Types are preserved. *)
LEMMA TypeOKStep ==
    ASSUME Inv, [Next]_vars
    PROVE  TypeOK'
<1>. USE PointersAssumption DEF Inv, TypeOK, shared, locals, Phases, PcValues
<1>1. ASSUME NEW t \in Threads, Close(t) PROVE TypeOK'
  BY <1>1, ClosedWord DEF Close
<1>2. ASSUME NEW t \in Threads, TryAssociateLoad(t) PROVE TypeOK'
  BY <1>2 DEF TryAssociateLoad
<1>3. ASSUME NEW t \in Threads, TryAssociateRefused(t) PROVE TypeOK'
  BY <1>3, ConstantWords DEF TryAssociateRefused, Return
<1>4. ASSUME NEW t \in Threads, TryAssociateCas(t) PROVE TypeOK'
  BY <1>4, AssociatedWord, ConstantWords, WordFields, MaxIsNat DEF TryAssociateCas, Return
<1>5. ASSUME NEW t \in Threads, DisassociateLoad(t) PROVE TypeOK'
  BY <1>5 DEF DisassociateLoad
<1>6. ASSUME NEW t \in Threads, DisassociateCas(t) PROVE TypeOK'
  <2>1. CASE word = bits[t]
    <3>1. Disassociated(bits[t]) \in Words
      BY <1>6, <2>1, DisassociateWrites DEF DisassociateCas
    <3>. QED
      BY <1>6, <2>1, <3>1, ConstantWords DEF DisassociateCas, Return
  <2>2. CASE word # bits[t]
    BY <1>6, <2>2 DEF DisassociateCas
  <2>. QED
    BY <2>1, <2>2
<1>7. ASSUME NEW t \in Threads, DrainExchange(t) PROVE TypeOK'
  BY <1>7 DEF DrainExchange, OneDrain
<1>8. ASSUME NEW t \in Threads, DrainOne(t) PROVE TypeOK'
  BY <1>8 DEF DrainOne, Complete
<1>9. ASSUME NEW t \in Threads, DrainReturn(t) PROVE TypeOK'
  BY <1>9, ConstantWords DEF DrainReturn, Return
<1>10. ASSUME NEW t \in Threads, NEW w \in Waiters, StartJoinLoad(t, w) PROVE TypeOK'
  BY <1>10 DEF StartJoinLoad
<1>11. ASSUME NEW t \in Threads, StartJoinCas(t) PROVE TypeOK'
  BY <1>11, ConstantWords, JoiningWord DEF StartJoinCas, Return, Complete
<1>12. ASSUME NEW t \in Threads, RegisterLoad(t) PROVE TypeOK'
  BY <1>12 DEF RegisterLoad
<1>13. ASSUME NEW t \in Threads, RegisterDrained(t) PROVE TypeOK'
  BY <1>13, ConstantWords DEF RegisterDrained, Return, Complete, OwnsWaiter,
                              Registering
<1>14. ASSUME NEW t \in Threads, RegisterCas(t) PROVE TypeOK'
  <2>1. waiter[t] \in Waiters /\ head[t] \in Waiters \union {Null}
    BY <1>14 DEF RegisterCas, OwnsWaiter, Registering
  <2>2. CASE joiners = head[t]
    BY <1>14, <2>1, <2>2, ConstantWords DEF RegisterCas, Return
  <2>3. CASE joiners # head[t]
    BY <1>14, <2>1, <2>3 DEF RegisterCas
  <2>. QED
    BY <2>2, <2>3
<1>15. ASSUME NEW w \in Waiters, ScheduledCompletion(w) PROVE TypeOK'
  BY <1>15 DEF ScheduledCompletion, Complete
<1>16. CASE Destroy
  BY <1>16 DEF Destroy
<1>17. CASE UNCHANGED vars
  BY <1>17 DEF vars
<1>. QED
  BY <1>1, <1>2, <1>3, <1>4, <1>5, <1>6, <1>7, <1>8, <1>9, <1>10, <1>11, <1>12, <1>13, <1>14, <1>15, <1>16, <1>17
     DEF Next, Continue

(* The count stays the number of associations that are out, and no loop
   holds a malformed word. *)
LEMMA WordStep ==
    ASSUME Inv, [Next]_vars
    PROVE  (WordConsistent /\ \A q \in Threads : WellFormed(bits[q]))'
<1>. USE DEF Inv, TypeOK, WordConsistent, WellFormed, shared, locals
<1>1. ASSUME NEW t \in Threads, Close(t) PROVE (WordConsistent /\ \A q \in Threads : WellFormed(bits[q]))'
  BY <1>1, ClosedWord DEF Close
<1>2. ASSUME NEW t \in Threads, TryAssociateLoad(t) PROVE (WordConsistent /\ \A q \in Threads : WellFormed(bits[q]))'
  BY <1>2 DEF TryAssociateLoad
<1>3. ASSUME NEW t \in Threads, TryAssociateRefused(t) PROVE (WordConsistent /\ \A q \in Threads : WellFormed(bits[q]))'
  BY <1>3, ConstantWords DEF TryAssociateRefused, Return, unused
<1>4. ASSUME NEW t \in Threads, TryAssociateCas(t) PROVE (WordConsistent /\ \A q \in Threads : WellFormed(bits[q]))'
  <2>1. CASE word = bits[t]
    <3>1. PICK a \in Associations \ live : live' = live \union {a}
      BY <1>4, <2>1 DEF TryAssociateCas
    <3>2. Cardinality(live') = Cardinality(live) + 1
      BY <3>1, LiveFinite, FS_AddElement
    <3>. QED
      BY <1>4, <2>1, <3>2, AssociatedWord, WordFields, MaxIsNat
      DEF TryAssociateCas, Return, unused
  <2>2. CASE word # bits[t]
    BY <1>4, <2>2 DEF TryAssociateCas
  <2>. QED
    BY <2>1, <2>2
<1>5. ASSUME NEW t \in Threads, DisassociateLoad(t) PROVE (WordConsistent /\ \A q \in Threads : WellFormed(bits[q]))'
  BY <1>5 DEF DisassociateLoad
<1>6. ASSUME NEW t \in Threads, DisassociateCas(t) PROVE (WordConsistent /\ \A q \in Threads : WellFormed(bits[q]))'
  <2>1. CASE word = bits[t]
    <3>1. Cardinality(live') = word.count - 1
      BY <1>6, <2>1, CountedAssociation DEF DisassociateCas
    <3>. QED
      BY <1>6, <2>1, <3>1, DisassociateWrites, WordFields, MaxIsNat
      DEF DisassociateCas, Return, unused
  <2>2. CASE word # bits[t]
    BY <1>6, <2>2 DEF DisassociateCas
  <2>. QED
    BY <2>1, <2>2
<1>7. ASSUME NEW t \in Threads, DrainExchange(t) PROVE (WordConsistent /\ \A q \in Threads : WellFormed(bits[q]))'
  BY <1>7 DEF DrainExchange
<1>8. ASSUME NEW t \in Threads, DrainOne(t) PROVE (WordConsistent /\ \A q \in Threads : WellFormed(bits[q]))'
  BY <1>8 DEF DrainOne, Complete
<1>9. ASSUME NEW t \in Threads, DrainReturn(t) PROVE (WordConsistent /\ \A q \in Threads : WellFormed(bits[q]))'
  BY <1>9, ConstantWords DEF DrainReturn, Return, unused
<1>10. ASSUME NEW t \in Threads, NEW w \in Waiters, StartJoinLoad(t, w) PROVE (WordConsistent /\ \A q \in Threads : WellFormed(bits[q]))'
  BY <1>10 DEF StartJoinLoad
<1>11. ASSUME NEW t \in Threads, StartJoinCas(t) PROVE (WordConsistent /\ \A q \in Threads : WellFormed(bits[q]))'
  <2>1. CASE word # bits[t]
    BY <1>11, <2>1 DEF StartJoinCas
  <2>2. CASE word = bits[t] /\ bits[t].count = 0
    BY <1>11, <2>2 DEF StartJoinCas, Return, closed_bit, unused
  <2>3. CASE word = bits[t] /\ bits[t].count # 0
    BY <1>11, <2>3, JoiningWord, WordFields, MaxIsNat DEF StartJoinCas, unused
  <2>. QED
    BY <2>1, <2>2, <2>3
<1>12. ASSUME NEW t \in Threads, RegisterLoad(t) PROVE (WordConsistent /\ \A q \in Threads : WellFormed(bits[q]))'
  BY <1>12 DEF RegisterLoad
<1>13. ASSUME NEW t \in Threads, RegisterDrained(t) PROVE (WordConsistent /\ \A q \in Threads : WellFormed(bits[q]))'
  BY <1>13 DEF RegisterDrained, Return, Complete, unused
<1>14. ASSUME NEW t \in Threads, RegisterCas(t) PROVE (WordConsistent /\ \A q \in Threads : WellFormed(bits[q]))'
  BY <1>14 DEF RegisterCas, Return, unused
<1>15. ASSUME NEW w \in Waiters, ScheduledCompletion(w) PROVE (WordConsistent /\ \A q \in Threads : WellFormed(bits[q]))'
  BY <1>15 DEF ScheduledCompletion, Complete
<1>16. CASE Destroy
  BY <1>16 DEF Destroy
<1>17. CASE UNCHANGED vars
  BY <1>17 DEF vars
<1>. QED
  BY <1>1, <1>2, <1>3, <1>4, <1>5, <1>6, <1>7, <1>8, <1>9,
     <1>10, <1>11, <1>12, <1>13, <1>14, <1>15, <1>16, <1>17
     DEF Next, Continue

(* No association is given back by two threads. *)
LEMMA OwnsAssociationStep ==
    ASSUME Inv, [Next]_vars
    PROVE  OwnsAssociation'
<1>. USE PointersAssumption DEF Inv, TypeOK, OwnsAssociation, OwnsWaiter, shared, locals, PcValues
<1>1. ASSUME NEW t \in Threads, Close(t) PROVE OwnsAssociation'
  BY <1>1 DEF Close
<1>2. ASSUME NEW t \in Threads, TryAssociateLoad(t) PROVE OwnsAssociation'
  BY <1>2 DEF TryAssociateLoad
<1>3. ASSUME NEW t \in Threads, TryAssociateRefused(t) PROVE OwnsAssociation'
  BY <1>3 DEF TryAssociateRefused, Return
<1>4. ASSUME NEW t \in Threads, TryAssociateCas(t) PROVE OwnsAssociation'
  BY <1>4 DEF TryAssociateCas, Return
<1>5. ASSUME NEW t \in Threads, DisassociateLoad(t) PROVE OwnsAssociation'
  BY <1>5 DEF DisassociateLoad
<1>6. ASSUME NEW t \in Threads, DisassociateCas(t) PROVE OwnsAssociation'
  BY <1>6 DEF DisassociateCas, Return
<1>7. ASSUME NEW t \in Threads, DrainExchange(t) PROVE OwnsAssociation'
  BY <1>7 DEF DrainExchange
<1>8. ASSUME NEW t \in Threads, DrainOne(t) PROVE OwnsAssociation'
  BY <1>8 DEF DrainOne, Complete
<1>9. ASSUME NEW t \in Threads, DrainReturn(t) PROVE OwnsAssociation'
  BY <1>9 DEF DrainReturn, Return
<1>10. ASSUME NEW t \in Threads, NEW w \in Waiters, StartJoinLoad(t, w) PROVE OwnsAssociation'
  BY <1>10 DEF StartJoinLoad
<1>11. ASSUME NEW t \in Threads, StartJoinCas(t) PROVE OwnsAssociation'
  BY <1>11 DEF StartJoinCas, Return, Complete
<1>12. ASSUME NEW t \in Threads, RegisterLoad(t) PROVE OwnsAssociation'
  BY <1>12 DEF RegisterLoad
<1>13. ASSUME NEW t \in Threads, RegisterDrained(t) PROVE OwnsAssociation'
  BY <1>13 DEF RegisterDrained, Return, Complete
<1>14. ASSUME NEW t \in Threads, RegisterCas(t) PROVE OwnsAssociation'
  BY <1>14 DEF RegisterCas, Return
<1>15. ASSUME NEW w \in Waiters, ScheduledCompletion(w) PROVE OwnsAssociation'
  BY <1>15 DEF ScheduledCompletion, Complete
<1>16. CASE Destroy
  BY <1>16 DEF Destroy
<1>17. CASE UNCHANGED vars
  BY <1>17 DEF vars
<1>. QED
  BY <1>1, <1>2, <1>3, <1>4, <1>5, <1>6, <1>7, <1>8, <1>9,
     <1>10, <1>11, <1>12, <1>13, <1>14, <1>15, <1>16, <1>17
     DEF Next, Continue

(* No join is started by two threads. *)
LEMMA OwnsWaiterStep ==
    ASSUME Inv, [Next]_vars
    PROVE  OwnsWaiter'
<1>. USE PointersAssumption DEF Inv, TypeOK, shared, locals, PcValues, Phases, OwnsWaiter, Registering
<1>1. ASSUME NEW t \in Threads, Close(t) PROVE OwnsWaiter'
  BY <1>1 DEF Close
<1>2. ASSUME NEW t \in Threads, TryAssociateLoad(t) PROVE OwnsWaiter'
  BY <1>2 DEF TryAssociateLoad
<1>3. ASSUME NEW t \in Threads, TryAssociateRefused(t) PROVE OwnsWaiter'
  BY <1>3 DEF TryAssociateRefused, Return
<1>4. ASSUME NEW t \in Threads, TryAssociateCas(t) PROVE OwnsWaiter'
  BY <1>4 DEF TryAssociateCas, Return
<1>5. ASSUME NEW t \in Threads, DisassociateLoad(t) PROVE OwnsWaiter'
  BY <1>5 DEF DisassociateLoad
<1>6. ASSUME NEW t \in Threads, DisassociateCas(t) PROVE OwnsWaiter'
  BY <1>6 DEF DisassociateCas, Return
<1>7. ASSUME NEW t \in Threads, DrainExchange(t) PROVE OwnsWaiter'
  BY <1>7 DEF DrainExchange
<1>8. ASSUME NEW t \in Threads, DrainOne(t) PROVE OwnsWaiter'
  BY <1>8 DEF DrainOne, Complete, CompletionsMatch, Chain, IsTop
<1>9. ASSUME NEW t \in Threads, DrainReturn(t) PROVE OwnsWaiter'
  BY <1>9 DEF DrainReturn, Return
<1>10. ASSUME NEW t \in Threads, NEW w \in Waiters, StartJoinLoad(t, w) PROVE OwnsWaiter'
  BY <1>10 DEF StartJoinLoad
<1>11. ASSUME NEW t \in Threads, StartJoinCas(t) PROVE OwnsWaiter'
  BY <1>11 DEF StartJoinCas, Return, Complete
<1>12. ASSUME NEW t \in Threads, RegisterLoad(t) PROVE OwnsWaiter'
  BY <1>12 DEF RegisterLoad
<1>13. ASSUME NEW t \in Threads, RegisterDrained(t) PROVE OwnsWaiter'
  BY <1>13 DEF RegisterDrained, Return, Complete
<1>14. ASSUME NEW t \in Threads, RegisterCas(t) PROVE OwnsWaiter'
  BY <1>14 DEF RegisterCas, Return
<1>15. ASSUME NEW w \in Waiters, ScheduledCompletion(w) PROVE OwnsWaiter'
  BY <1>15 DEF ScheduledCompletion, Complete
<1>16. CASE Destroy
  BY <1>16 DEF Destroy
<1>17. CASE UNCHANGED vars
  BY <1>17 DEF vars
<1>. QED
  BY <1>1, <1>2, <1>3, <1>4, <1>5, <1>6, <1>7, <1>8, <1>9,
     <1>10, <1>11, <1>12, <1>13, <1>14, <1>15, <1>16, <1>17
     DEF Next, Continue

(* A completion and its phase change together. *)
LEMMA CompletionsMatchStep ==
    ASSUME Inv, [Next]_vars
    PROVE  CompletionsMatch'
<1>. USE PointersAssumption DEF Inv, TypeOK, shared, locals, PcValues, Phases, CompletionsMatch
<1>1. ASSUME NEW t \in Threads, Close(t) PROVE CompletionsMatch'
  BY <1>1 DEF Close
<1>2. ASSUME NEW t \in Threads, TryAssociateLoad(t) PROVE CompletionsMatch'
  BY <1>2 DEF TryAssociateLoad
<1>3. ASSUME NEW t \in Threads, TryAssociateRefused(t) PROVE CompletionsMatch'
  BY <1>3 DEF TryAssociateRefused, Return
<1>4. ASSUME NEW t \in Threads, TryAssociateCas(t) PROVE CompletionsMatch'
  BY <1>4 DEF TryAssociateCas, Return
<1>5. ASSUME NEW t \in Threads, DisassociateLoad(t) PROVE CompletionsMatch'
  BY <1>5 DEF DisassociateLoad
<1>6. ASSUME NEW t \in Threads, DisassociateCas(t) PROVE CompletionsMatch'
  BY <1>6 DEF DisassociateCas, Return
<1>7. ASSUME NEW t \in Threads, DrainExchange(t) PROVE CompletionsMatch'
  BY <1>7 DEF DrainExchange
<1>8. ASSUME NEW t \in Threads, DrainOne(t) PROVE CompletionsMatch'
  BY <1>8 DEF DrainOne, Complete, Chain, IsTop
<1>9. ASSUME NEW t \in Threads, DrainReturn(t) PROVE CompletionsMatch'
  BY <1>9 DEF DrainReturn, Return
<1>10. ASSUME NEW t \in Threads, NEW w \in Waiters, StartJoinLoad(t, w) PROVE CompletionsMatch'
  BY <1>10 DEF StartJoinLoad
<1>11. ASSUME NEW t \in Threads, StartJoinCas(t) PROVE CompletionsMatch'
  BY <1>11 DEF StartJoinCas, Return, Complete, OwnsWaiter, Registering
<1>12. ASSUME NEW t \in Threads, RegisterLoad(t) PROVE CompletionsMatch'
  BY <1>12 DEF RegisterLoad
<1>13. ASSUME NEW t \in Threads, RegisterDrained(t) PROVE CompletionsMatch'
  BY <1>13 DEF RegisterDrained, Return, Complete, OwnsWaiter, Registering
<1>14. ASSUME NEW t \in Threads, RegisterCas(t) PROVE CompletionsMatch'
  BY <1>14 DEF RegisterCas, Return, OwnsWaiter, Registering
<1>15. ASSUME NEW w \in Waiters, ScheduledCompletion(w) PROVE CompletionsMatch'
  BY <1>15 DEF ScheduledCompletion, Complete
<1>16. CASE Destroy
  BY <1>16 DEF Destroy
<1>17. CASE UNCHANGED vars
  BY <1>17 DEF vars
<1>. QED
  BY <1>1, <1>2, <1>3, <1>4, <1>5, <1>6, <1>7, <1>8, <1>9,
     <1>10, <1>11, <1>12, <1>13, <1>14, <1>15, <1>16, <1>17
     DEF Next, Continue

(* I3: a joined scope stays joined, and a joining one ends up joined.      *)
LEMMA JoinedStays ==
    ASSUME Inv, [Next]_vars
    PROVE  /\ is_joined(word) => is_joined(word')
           /\ word.join_running => word'.join_running \/ is_joined(word')
<1>. USE DEF Inv, TypeOK
<1>1. word \in Words
  OBVIOUS
<1>2. ASSUME NEW t \in Threads, Close(t)
      PROVE  /\ is_joined(word) => is_joined(word')
             /\ word.join_running => word'.join_running
  BY <1>1, <1>2, ClosedWord, WordFields DEF Close
<1>3. ASSUME NEW t \in Threads, TryAssociateCas(t)
      PROVE  /\ is_joined(word) => is_joined(word')
             /\ word.join_running => word'.join_running
  BY <1>1, <1>3, AssociatedWord, WordFields DEF TryAssociateCas
<1>4. ASSUME NEW t \in Threads, DisassociateCas(t)
      PROVE  /\ is_joined(word) => is_joined(word')
             /\ word.join_running => word'.join_running \/ is_joined(word')
  <2>1. word.count > 0
    BY <1>4, CountedAssociation DEF DisassociateCas
  <2>2. ~is_joined(word)
    BY <1>1, <2>1, WordFields
  <2>. QED
    BY <1>4, <2>2, DisassociateWrites DEF DisassociateCas
<1>5. ASSUME NEW t \in Threads, StartJoinCas(t)
      PROVE  /\ is_joined(word) => is_joined(word')
             /\ word.join_running => word'.join_running \/ is_joined(word')
  <2>1. CASE word # bits[t]
    BY <1>5, <2>1 DEF StartJoinCas
  <2>2. CASE word = bits[t] /\ bits[t].count = 0
    BY <1>5, <2>2 DEF StartJoinCas, is_joined
  <2>3. CASE word = bits[t] /\ bits[t].count # 0
    BY <1>1, <1>5, <2>3, JoiningWord, WordFields DEF StartJoinCas
  <2>. QED
    BY <2>1, <2>2, <2>3
<1>6. ASSUME NEW t \in Threads,
             \/ TryAssociateLoad(t) \/ TryAssociateRefused(t)
             \/ DisassociateLoad(t) \/ DrainExchange(t) \/ DrainOne(t)
             \/ DrainReturn(t) \/ \E w \in Waiters : StartJoinLoad(t, w)
             \/ RegisterLoad(t) \/ RegisterDrained(t) \/ RegisterCas(t)
      PROVE  word' = word
  BY <1>6 DEF TryAssociateLoad, TryAssociateRefused, DisassociateLoad,
     DrainExchange, DrainOne, DrainReturn, StartJoinLoad, RegisterLoad,
     RegisterDrained, RegisterCas, shared
<1>7. ASSUME (\E w \in Waiters : ScheduledCompletion(w)) \/ Destroy \/ UNCHANGED vars
      PROVE  word' = word
  BY <1>7 DEF ScheduledCompletion, Destroy, vars
<1>. QED
  BY <1>2, <1>3, <1>4, <1>5, <1>6, <1>7 DEF Next, Continue

(* A join waits on a joining or joined scope, and is answered on a joined
   one. *)
LEMMA StartedScopeStep ==
    ASSUME Inv, [Next]_vars
    PROVE  StartedScope'
<1>. USE PointersAssumption DEF Inv, TypeOK, shared, locals, PcValues, Phases, StartedScope, Started, OwnsWaiter, Registering
<1>1. ASSUME NEW t \in Threads, Close(t) PROVE StartedScope'
  BY <1>1, JoinedStays DEF Close
<1>2. ASSUME NEW t \in Threads, TryAssociateLoad(t) PROVE StartedScope'
  BY <1>2, JoinedStays DEF TryAssociateLoad
<1>3. ASSUME NEW t \in Threads, TryAssociateRefused(t) PROVE StartedScope'
  BY <1>3, JoinedStays DEF TryAssociateRefused, Return
<1>4. ASSUME NEW t \in Threads, TryAssociateCas(t) PROVE StartedScope'
  BY <1>4, JoinedStays DEF TryAssociateCas, Return
<1>5. ASSUME NEW t \in Threads, DisassociateLoad(t) PROVE StartedScope'
  BY <1>5, JoinedStays DEF DisassociateLoad
<1>6. ASSUME NEW t \in Threads, DisassociateCas(t) PROVE StartedScope'
  BY <1>6, JoinedStays DEF DisassociateCas, Return
<1>7. ASSUME NEW t \in Threads, DrainExchange(t) PROVE StartedScope'
  BY <1>7, JoinedStays DEF DrainExchange
<1>8. ASSUME NEW t \in Threads, DrainOne(t) PROVE StartedScope'
  BY <1>8, JoinedStays DEF DrainOne, Complete, OneDrain, Draining
<1>9. ASSUME NEW t \in Threads, DrainReturn(t) PROVE StartedScope'
  BY <1>9, JoinedStays DEF DrainReturn, Return
<1>10. ASSUME NEW t \in Threads, NEW w \in Waiters, StartJoinLoad(t, w) PROVE StartedScope'
  BY <1>10, JoinedStays DEF StartJoinLoad
<1>11. ASSUME NEW t \in Threads, StartJoinCas(t) PROVE StartedScope'
  <2>1. CASE word # bits[t]
    BY <1>11, <2>1 DEF StartJoinCas
  <2>2. CASE word = bits[t] /\ bits[t].count = 0
    BY <1>11, <2>2, JoinedStays DEF StartJoinCas, Return, Complete, is_joined
  <2>3. CASE word = bits[t] /\ bits[t].count # 0
    BY <1>11, <2>3, JoiningWord, JoinedStays DEF StartJoinCas
  <2>. QED
    BY <2>1, <2>2, <2>3
<1>12. ASSUME NEW t \in Threads, RegisterLoad(t) PROVE StartedScope'
  BY <1>12, JoinedStays DEF RegisterLoad
<1>13. ASSUME NEW t \in Threads, RegisterDrained(t) PROVE StartedScope'
  BY <1>13, JoinedStays DEF RegisterDrained, Return, Complete, OneDrain
<1>14. ASSUME NEW t \in Threads, RegisterCas(t) PROVE StartedScope'
  BY <1>14, JoinedStays DEF RegisterCas, Return
<1>15. ASSUME NEW w \in Waiters, ScheduledCompletion(w) PROVE StartedScope'
  BY <1>15, JoinedStays DEF ScheduledCompletion, Complete
<1>16. CASE Destroy
  BY <1>16, JoinedStays DEF Destroy
<1>17. CASE UNCHANGED vars
  BY <1>17 DEF vars
<1>. QED
  BY <1>1, <1>2, <1>3, <1>4, <1>5, <1>6, <1>7, <1>8, <1>9,
     <1>10, <1>11, <1>12, <1>13, <1>14, <1>15, <1>16, <1>17
     DEF Next, Continue

(* There is one drain, by a thread that made the scope joined. *)
LEMMA OneDrainStep ==
    ASSUME Inv, [Next]_vars
    PROVE  OneDrain'
<1>. USE PointersAssumption DEF Inv, TypeOK, shared, locals, PcValues, Phases, OneDrain, Draining
<1>1. ASSUME NEW t \in Threads, Close(t) PROVE OneDrain'
  BY <1>1, JoinedStays DEF Close
<1>2. ASSUME NEW t \in Threads, TryAssociateLoad(t) PROVE OneDrain'
  BY <1>2, JoinedStays DEF TryAssociateLoad
<1>3. ASSUME NEW t \in Threads, TryAssociateRefused(t) PROVE OneDrain'
  BY <1>3, JoinedStays DEF TryAssociateRefused, Return
<1>4. ASSUME NEW t \in Threads, TryAssociateCas(t) PROVE OneDrain'
  BY <1>4, JoinedStays DEF TryAssociateCas, Return
<1>5. ASSUME NEW t \in Threads, DisassociateLoad(t) PROVE OneDrain'
  BY <1>5, JoinedStays DEF DisassociateLoad
<1>6. ASSUME NEW t \in Threads, DisassociateCas(t) PROVE OneDrain'
  <2>1. word \in Words /\ word.count > 0
    BY <1>6, CountedAssociation DEF DisassociateCas
  <2>2. ~is_joined(word)
    BY <2>1, WordFields
  <2>3. CASE word # bits[t]
    BY <1>6, <2>3 DEF DisassociateCas
  <2>4. CASE word = bits[t] /\ is_joined(word')
    BY <1>6, <2>2, <2>4 DEF DisassociateCas
  <2>5. CASE word = bits[t] /\ ~is_joined(word')
    BY <1>6, <2>2, <2>5 DEF DisassociateCas, Return
  <2>. QED
    BY <2>3, <2>4, <2>5
<1>7. ASSUME NEW t \in Threads, DrainExchange(t) PROVE OneDrain'
  BY <1>7, JoinedStays DEF DrainExchange
<1>8. ASSUME NEW t \in Threads, DrainOne(t) PROVE OneDrain'
  BY <1>8, JoinedStays DEF DrainOne, Complete
<1>9. ASSUME NEW t \in Threads, DrainReturn(t) PROVE OneDrain'
  BY <1>9, JoinedStays DEF DrainReturn, Return
<1>10. ASSUME NEW t \in Threads, NEW w \in Waiters, StartJoinLoad(t, w) PROVE OneDrain'
  BY <1>10, JoinedStays DEF StartJoinLoad
<1>11. ASSUME NEW t \in Threads, StartJoinCas(t) PROVE OneDrain'
  BY <1>11, JoinedStays DEF StartJoinCas, Return, Complete
<1>12. ASSUME NEW t \in Threads, RegisterLoad(t) PROVE OneDrain'
  BY <1>12, JoinedStays DEF RegisterLoad
<1>13. ASSUME NEW t \in Threads, RegisterDrained(t) PROVE OneDrain'
  BY <1>13, JoinedStays DEF RegisterDrained, Return, Complete
<1>14. ASSUME NEW t \in Threads, RegisterCas(t) PROVE OneDrain'
  BY <1>14, JoinedStays DEF RegisterCas, Return
<1>15. ASSUME NEW w \in Waiters, ScheduledCompletion(w) PROVE OneDrain'
  BY <1>15, JoinedStays DEF ScheduledCompletion, Complete
<1>16. CASE Destroy
  BY <1>16, JoinedStays DEF Destroy
<1>17. CASE UNCHANGED vars
  BY <1>17 DEF vars
<1>. QED
  BY <1>1, <1>2, <1>3, <1>4, <1>5, <1>6, <1>7, <1>8, <1>9,
     <1>10, <1>11, <1>12, <1>13, <1>14, <1>15, <1>16, <1>17
     DEF Next, Continue

(* The waiting joins stay one chain. *)
LEMMA ChainStep ==
    ASSUME Inv, [Next]_vars
    PROVE  Chain'
<1>. USE PointersAssumption DEF Inv, TypeOK, shared, locals, PcValues, Phases, Chain, IsTop, OwnsWaiter, Registering, OneDrain, Draining
<1>1. ASSUME NEW t \in Threads, Close(t) PROVE Chain'
  BY <1>1 DEF Close
<1>2. ASSUME NEW t \in Threads, TryAssociateLoad(t) PROVE Chain'
  BY <1>2 DEF TryAssociateLoad
<1>3. ASSUME NEW t \in Threads, TryAssociateRefused(t) PROVE Chain'
  BY <1>3 DEF TryAssociateRefused, Return
<1>4. ASSUME NEW t \in Threads, TryAssociateCas(t) PROVE Chain'
  BY <1>4 DEF TryAssociateCas, Return
<1>5. ASSUME NEW t \in Threads, DisassociateLoad(t) PROVE Chain'
  BY <1>5 DEF DisassociateLoad
<1>6. ASSUME NEW t \in Threads, DisassociateCas(t) PROVE Chain'
  BY <1>6 DEF DisassociateCas, Return
<1>7. ASSUME NEW t \in Threads, DrainExchange(t) PROVE Chain'
  BY <1>7 DEF DrainExchange
<1>8. ASSUME NEW t \in Threads, DrainOne(t) PROVE Chain'
  BY <1>8 DEF DrainOne, Complete
<1>9. ASSUME NEW t \in Threads, DrainReturn(t) PROVE Chain'
  BY <1>9 DEF DrainReturn, Return
<1>10. ASSUME NEW t \in Threads, NEW w \in Waiters, StartJoinLoad(t, w) PROVE Chain'
  BY <1>10 DEF StartJoinLoad
<1>11. ASSUME NEW t \in Threads, StartJoinCas(t) PROVE Chain'
  BY <1>11 DEF StartJoinCas, Return, Complete
<1>12. ASSUME NEW t \in Threads, RegisterLoad(t) PROVE Chain'
  BY <1>12 DEF RegisterLoad
<1>13. ASSUME NEW t \in Threads, RegisterDrained(t) PROVE Chain'
  BY <1>13 DEF RegisterDrained, Return, Complete
<1>14. ASSUME NEW t \in Threads, RegisterCas(t) PROVE Chain'
  BY <1>14 DEF RegisterCas, Return
<1>15. ASSUME NEW w \in Waiters, ScheduledCompletion(w) PROVE Chain'
  BY <1>15 DEF ScheduledCompletion, Complete
<1>16. CASE Destroy
  BY <1>16 DEF Destroy
<1>17. CASE UNCHANGED vars
  BY <1>17 DEF vars
<1>. QED
  BY <1>1, <1>2, <1>3, <1>4, <1>5, <1>6, <1>7, <1>8, <1>9,
     <1>10, <1>11, <1>12, <1>13, <1>14, <1>15, <1>16, <1>17
     DEF Next, Continue

(* The drain always has a join to answer. *)
LEMMA SomebodyWaitsStep ==
    ASSUME Inv, [Next]_vars
    PROVE  SomebodyWaits'
<1>. USE PointersAssumption DEF Inv, TypeOK, shared, locals, PcValues, Phases, SomebodyWaits, Started, OwnsWaiter, Registering, OneDrain, Draining
<1>1. ASSUME NEW t \in Threads, Close(t) PROVE SomebodyWaits'
  BY <1>1, ClosedWord DEF Close
<1>2. ASSUME NEW t \in Threads, TryAssociateLoad(t) PROVE SomebodyWaits'
  BY <1>2, JoinedStays DEF TryAssociateLoad
<1>3. ASSUME NEW t \in Threads, TryAssociateRefused(t) PROVE SomebodyWaits'
  BY <1>3, JoinedStays DEF TryAssociateRefused, Return
<1>4. ASSUME NEW t \in Threads, TryAssociateCas(t) PROVE SomebodyWaits'
  <2>1. CASE word = bits[t]
    <3>1. word'.join_running <=> word.join_running
      BY <1>4, <2>1, AssociatedWord, WordFields, MaxIsNat DEF TryAssociateCas
    <3>. QED
      BY <1>4, <2>1, <3>1 DEF TryAssociateCas, Return
  <2>2. CASE word # bits[t]
    BY <1>4, <2>2 DEF TryAssociateCas
  <2>. QED
    BY <2>1, <2>2
<1>5. ASSUME NEW t \in Threads, DisassociateLoad(t) PROVE SomebodyWaits'
  BY <1>5, JoinedStays DEF DisassociateLoad
<1>6. ASSUME NEW t \in Threads, DisassociateCas(t) PROVE SomebodyWaits'
  <2>1. CASE word # bits[t]
    BY <1>6, <2>1 DEF DisassociateCas
  <2>2. CASE word = bits[t] /\ is_joined(word')
    <3>1. word.join_running /\ ~word'.join_running
      BY <1>6, <2>2, DisassociateWrites, WordFields DEF DisassociateCas
    <3>2. PICK w \in Waiters : Started(w)
      BY <3>1
    <3>3. Started(w)'
      BY <1>6, <2>2, <3>2 DEF DisassociateCas
    <3>. QED
      BY <3>1, <3>3
  <2>3. CASE word = bits[t] /\ ~is_joined(word')
    <3>1. word'.join_running <=> word.join_running
      BY <1>6, <2>3, DisassociateWrites DEF DisassociateCas
    <3>. QED
      BY <1>6, <2>3, <3>1 DEF DisassociateCas, Return
  <2>. QED
    BY <2>1, <2>2, <2>3
<1>7. ASSUME NEW t \in Threads, DrainExchange(t) PROVE SomebodyWaits'
  BY <1>7, JoinedStays DEF DrainExchange
<1>8. ASSUME NEW t \in Threads, DrainOne(t) PROVE SomebodyWaits'
  <2>1. ~word.join_running /\ \A u \in Threads : pc[u] # "drain_exchange"
    BY <1>8, WordFields DEF DrainOne
  <2>. QED
    BY <1>8, <2>1 DEF DrainOne
<1>9. ASSUME NEW t \in Threads, DrainReturn(t) PROVE SomebodyWaits'
  BY <1>9, JoinedStays DEF DrainReturn, Return
<1>10. ASSUME NEW t \in Threads, NEW w \in Waiters, StartJoinLoad(t, w) PROVE SomebodyWaits'
  BY <1>10, JoinedStays DEF StartJoinLoad
<1>11. ASSUME NEW t \in Threads, StartJoinCas(t) PROVE SomebodyWaits'
  <2>1. CASE word # bits[t]
    BY <1>11, <2>1 DEF StartJoinCas
  <2>2. CASE word = bits[t] /\ bits[t].count = 0
    <3>1. ~word'.join_running
      BY <1>11, <2>2, ConstantWords, WordFields DEF StartJoinCas, is_joined
    <3>2. \A w \in Waiters : Started(w) => Started(w)'
      BY <1>11, <2>2 DEF StartJoinCas, Return, Complete
    <3>. QED
      BY <1>11, <2>2, <3>1, <3>2 DEF StartJoinCas, Return
  <2>3. CASE word = bits[t] /\ bits[t].count # 0
    <3>1. waiter[t] \in Waiters /\ Started(waiter[t])'
      BY <1>11, <2>3 DEF StartJoinCas
    <3>2. waiter'[t] = waiter[t]
      BY <1>11, <2>3 DEF StartJoinCas
    <3>. QED
      BY <1>11, <2>3, <3>1, <3>2 DEF StartJoinCas
  <2>. QED
    BY <2>1, <2>2, <2>3
<1>12. ASSUME NEW t \in Threads, RegisterLoad(t) PROVE SomebodyWaits'
  BY <1>12, JoinedStays DEF RegisterLoad
<1>13. ASSUME NEW t \in Threads, RegisterDrained(t) PROVE SomebodyWaits'
  <2>1. ~word.join_running /\ \A u \in Threads : pc[u] # "drain_exchange"
    BY <1>13, WordFields DEF RegisterDrained
  <2>. QED
    BY <1>13, <2>1 DEF RegisterDrained, Return
<1>14. ASSUME NEW t \in Threads, RegisterCas(t) PROVE SomebodyWaits'
  BY <1>14, JoinedStays DEF RegisterCas, Return
<1>15. ASSUME NEW w \in Waiters, ScheduledCompletion(w) PROVE SomebodyWaits'
  <2>1. ~word.join_running /\ \A u \in Threads : pc[u] # "drain_exchange"
    BY <1>15, WordFields DEF ScheduledCompletion
  <2>. QED
    BY <1>15, <2>1 DEF ScheduledCompletion
<1>16. CASE Destroy
  BY <1>16, JoinedStays DEF Destroy
<1>17. CASE UNCHANGED vars
  BY <1>17 DEF vars
<1>. QED
  BY <1>1, <1>2, <1>3, <1>4, <1>5, <1>6, <1>7, <1>8, <1>9,
     <1>10, <1>11, <1>12, <1>13, <1>14, <1>15, <1>16, <1>17
     DEF Next, Continue

(* A destroyed scope stays empty. *)
LEMMA DestroyedStep ==
    ASSUME Inv, [Next]_vars
    PROVE  Destroyed'
<1>. USE PointersAssumption DEF Inv, TypeOK, shared, locals, PcValues, Phases, Destroyed, OwnsWaiter, Registering
<1>1. ASSUME NEW t \in Threads, Close(t) PROVE Destroyed'
  BY <1>1 DEF Close
<1>2. ASSUME NEW t \in Threads, TryAssociateLoad(t) PROVE Destroyed'
  BY <1>2 DEF TryAssociateLoad
<1>3. ASSUME NEW t \in Threads, TryAssociateRefused(t) PROVE Destroyed'
  BY <1>3 DEF TryAssociateRefused, Return
<1>4. ASSUME NEW t \in Threads, TryAssociateCas(t) PROVE Destroyed'
  BY <1>4 DEF TryAssociateCas, Return
<1>5. ASSUME NEW t \in Threads, DisassociateLoad(t) PROVE Destroyed'
  BY <1>5 DEF DisassociateLoad
<1>6. ASSUME NEW t \in Threads, DisassociateCas(t) PROVE Destroyed'
  <2>1. word.count > 0
    BY <1>6, CountedAssociation DEF DisassociateCas
  <2>2. word.count \in Nat
    BY WordFields, MaxIsNat
  <2>3. word.count # 0
    BY <2>1, <2>2
  <2>4. alive /\ alive' = alive
    BY <1>6, <2>3 DEF DisassociateCas
  <2>. QED
    BY <2>4
<1>7. ASSUME NEW t \in Threads, DrainExchange(t) PROVE Destroyed'
  BY <1>7 DEF DrainExchange
<1>8. ASSUME NEW t \in Threads, DrainOne(t) PROVE Destroyed'
  BY <1>8 DEF DrainOne, Complete, Chain, IsTop
<1>9. ASSUME NEW t \in Threads, DrainReturn(t) PROVE Destroyed'
  BY <1>9 DEF DrainReturn, Return
<1>10. ASSUME NEW t \in Threads, NEW w \in Waiters, StartJoinLoad(t, w) PROVE Destroyed'
  BY <1>10 DEF StartJoinLoad
<1>11. ASSUME NEW t \in Threads, StartJoinCas(t) PROVE Destroyed'
  BY <1>11 DEF StartJoinCas, Return, Complete
<1>12. ASSUME NEW t \in Threads, RegisterLoad(t) PROVE Destroyed'
  BY <1>12 DEF RegisterLoad
<1>13. ASSUME NEW t \in Threads, RegisterDrained(t) PROVE Destroyed'
  BY <1>13 DEF RegisterDrained, Return, Complete
<1>14. ASSUME NEW t \in Threads, RegisterCas(t) PROVE Destroyed'
  BY <1>14 DEF RegisterCas, Return
<1>15. ASSUME NEW w \in Waiters, ScheduledCompletion(w) PROVE Destroyed'
  BY <1>15 DEF ScheduledCompletion, Complete
<1>16. CASE Destroy
  BY <1>16 DEF Destroy
<1>17. CASE UNCHANGED vars
  BY <1>17 DEF vars
<1>. QED
  BY <1>1, <1>2, <1>3, <1>4, <1>5, <1>6, <1>7, <1>8, <1>9,
     <1>10, <1>11, <1>12, <1>13, <1>14, <1>15, <1>16, <1>17
     DEF Next, Continue

-----------------------------------------------------------------------------
(* The inductive invariant holds in every reachable state.                 *)
THEOREM Invariance == Spec => []Inv
<1>1. Init => Inv
  BY InvInit
<1>2. Inv /\ [Next]_vars => Inv'
  <2>. SUFFICES ASSUME Inv, [Next]_vars PROVE Inv'
    OBVIOUS
  <2>1. TypeOK'
    BY TypeOKStep
  <2>2. WordConsistent' /\ (\A q \in Threads : WellFormed(bits[q]))'
    BY WordStep
  <2>3. OwnsAssociation' /\ OwnsWaiter'
    BY OwnsAssociationStep, OwnsWaiterStep
  <2>4. CompletionsMatch' /\ StartedScope'
    BY CompletionsMatchStep, StartedScopeStep
  <2>5. OneDrain' /\ Chain'
    BY OneDrainStep, ChainStep
  <2>6. SomebodyWaits' /\ Destroyed'
    BY SomebodyWaitsStep, DestroyedStep
  <2>. QED
    BY <2>1, <2>2, <2>3, <2>4, <2>5, <2>6 DEF Inv
<1>. QED
  BY <1>1, <1>2, PTL DEF Spec

(* Every variable keeps its type: the count stays within max_associations  *)
(* and never wraps below zero.                                             *)
THEOREM TypeCorrect == Spec => []TypeOK
<1>1. Inv => TypeOK
  BY DEF Inv
<1>. QED
  BY <1>1, Invariance, PTL

(* The packed word never loses or invents an association, and a joining    *)
(* scope has one.                                                          *)
THEOREM WordCorrect == Spec => []WordConsistent
<1>1. Inv => WordConsistent
  BY DEF Inv
<1>. QED
  BY <1>1, Invariance, PTL

(* A join is answered on a drained scope only, which stays drained.        *)
THEOREM JoinsOnlyDrained == Spec => []JoinedMeansDrained
<1>1. Inv => JoinedMeansDrained
  <2>. SUFFICES ASSUME Inv, NEW w \in Waiters, completions[w] > 0
                PROVE  is_joined(word) /\ live = {}
    BY DEF JoinedMeansDrained
  <2>1. is_joined(word)
    BY DEF Inv, CompletionsMatch, StartedScope
  <2>2. Cardinality(live) = 0
    BY <2>1, WordFields DEF Inv, TypeOK, WordConsistent
  <2>3. IsFiniteSet(live)
    BY LiveFinite DEF Inv, TypeOK
  <2>. QED
    BY <2>1, <2>2, <2>3, FS_EmptySet
<1>. QED
  BY <1>1, Invariance, PTL

(* No join is answered twice.                                              *)
THEOREM JoinsAnsweredOnce == Spec => []AnsweredOnce
<1>1. Inv => AnsweredOnce
  BY DEF Inv, CompletionsMatch, AnsweredOnce
<1>. QED
  BY <1>1, Invariance, PTL

(* The drain's cursor never points at freed memory.                        *)
THEOREM CursorSafe == Spec => []CursorIsPending
<1>1. Inv => CursorIsPending
  BY DEF Inv, TypeOK, Chain, IsTop, CursorIsPending
<1>. QED
  BY <1>1, Invariance, PTL

(* No thread reaches for a scope that its owner was free to destroy.       *)
THEOREM DestroySafe == Spec => []NoUseAfterDestroy
<1>1. Inv => NoUseAfterDestroy
  <2>. SUFFICES ASSUME Inv, ~alive
                PROVE  live = {} /\ \A t \in Threads : ~TouchesScope(t)
    BY DEF NoUseAfterDestroy
  <2>1. live = {}
    BY LiveFinite, FS_EmptySet
    DEF Inv, TypeOK, WordConsistent, Destroyed
  <2>2. ASSUME NEW t \in Threads PROVE pc[t] # "associate"
    BY DEF Inv, Destroyed
  <2>3. ASSUME NEW t \in Threads PROVE pc[t] # "disassociate"
    BY <2>1 DEF Inv, OwnsAssociation
  <2>4. ASSUME NEW t \in Threads
        PROVE  pc[t] \notin {"join", "register_load", "register"}
    BY DEF Inv, OwnsWaiter, Registering, Destroyed
  <2>5. ASSUME NEW t \in Threads PROVE pc[t] # "drain_exchange"
    <3>1. \A w \in Waiters : ~Started(w)
      BY <2>4 DEF Inv, Destroyed, Started
    <3>. QED
      BY <3>1 DEF Inv, SomebodyWaits
  <2>. QED
    BY <2>1, <2>2, <2>3, <2>4, <2>5 DEF TouchesScope
<1>. QED
  BY <1>1, Invariance, PTL

-----------------------------------------------------------------------------
(* The list of the waiting joins. *)

(* The joins that wait are those of a sequence, linked in its order, and   *)
(* its first is the one that joiners_ or the cursor of the drain points at.*)
IsStack(s) ==
    /\ s \in Seq(Waiters)
    /\ \A w \in Waiters :
         phase[w] = "registered" <=> \E i \in 1 .. Len(s) : s[i] = w
    /\ \A i, j \in 1 .. Len(s) : s[i] = s[j] => i = j
    /\ \A i \in 1 .. Len(s) :
         next[s[i]] = IF i = Len(s) THEN Null ELSE s[i + 1]
    /\ IF Len(s) = 0
       THEN joiners \in {Null, Sentinel} /\ \A t \in Threads : list[t] = Null
       ELSE IsTop(s[1])

(* The intrusive list is a stack: no join is linked twice, and none is     *)
(* linked that does not wait or waits without being linked.                *)
JoinersAreStack == \E s \in Seq(Waiters) : IsStack(s)

(* A scope that is joined while joins wait will be drained, or was.        *)
Drains ==
    is_joined(word) /\ (\E w \in Waiters : Started(w)) =>
        joiners = Sentinel \/ \E t \in Threads : pc[t] = "drain_exchange"

(* No push is stranded on a list that was drained (I4), and no drain is    *)
(* lost: a waiting join has associations before it, whose last disassociate*)
(* drains the list, or a thread that is about to, or that is at it.        *)
NoJoinStranded ==
    \A w \in Waiters : phase[w] = "registered" =>
        \/ word.join_running /\ live # {}
        \/ \E t \in Threads : pc[t] = "drain_exchange"
        \/ \E t \in Threads : pc[t] = "drain" /\ list[t] # Null

(* A step that leaves the waiting joins and their links alone.             *)
LEMMA StackKept ==
    ASSUME JoinersAreStack, joiners' = joiners,
           \A t \in Threads : list'[t] = list[t],
           \A w \in Waiters :
             /\ phase'[w] = "registered" <=> phase[w] = "registered"
             /\ phase[w] = "registered" => next'[w] = next[w]
    PROVE  JoinersAreStack'
<1>1. PICK s \in Seq(Waiters) : IsStack(s)
  BY DEF JoinersAreStack
<1>2. \A i \in 1 .. Len(s) : s[i] \in Waiters
  BY ElementOfSeq
<1>3. \A i \in 1 .. Len(s) : next'[s[i]] = next[s[i]]
  BY <1>1, <1>2 DEF IsStack
<1>4. \A w : IsTop(w)' <=> IsTop(w)
  BY DEF IsTop
<1>5. IsStack(s)'
  BY <1>1, <1>3, <1>4 DEF IsStack
<1>. QED
  BY <1>5 DEF JoinersAreStack

(* The compare-exchange of register_joiner() pushes the join.              *)
LEMMA StackPushed ==
    ASSUME Inv, JoinersAreStack, NEW t \in Threads, RegisterCas(t),
           joiners = head[t]
    PROVE  JoinersAreStack'
<1>1. PICK s \in Seq(Waiters) : IsStack(s)
  BY DEF JoinersAreStack
<1>2. PICK w \in Waiters : w = waiter[t] /\ phase[w] = "starting"
  BY DEF RegisterCas, Inv, OwnsWaiter, Registering
<1>3. /\ joiners # Sentinel /\ \A u \in Threads : list[u] = Null
      /\ joiners' = w
      /\ phase' = [phase EXCEPT ![w] = "registered"]
      /\ next' = [next EXCEPT ![w] = joiners]
  BY <1>2 DEF RegisterCas, Inv, OneDrain
<1>4. /\ phase \in [Waiters -> Phases]
      /\ next \in [Waiters -> Waiters \union {Null}]
  BY DEF Inv, TypeOK
<1>n. PICK n \in Nat : n = Len(s)
  BY LenProperties
<1>5. PICK r \in Seq(Waiters) :
        /\ Len(r) = n + 1
        /\ r[1] = w /\ \A i \in 1 .. n : r[i + 1] = s[i]
  <2>1. <<w>> \in Seq(Waiters) /\ Len(<<w>>) = 1 /\ <<w>>[1] = w
    OBVIOUS
  <2> DEFINE q == <<w>> \o s
  <2>3. /\ q \in Seq(Waiters) /\ Len(q) = 1 + n
        /\ \A i \in 1 .. 1 + n : q[i] = IF i <= 1 THEN <<w>>[i] ELSE s[i - 1]
    BY <1>n, <2>1, ConcatProperties
  <2> HIDE DEF q
  <2>4. /\ 1 \in 1 .. 1 + n /\ 1 + n = n + 1
        /\ \A i \in 1 .. n :
             i + 1 \in 1 .. 1 + n /\ ~(i + 1 <= 1) /\ (i + 1) - 1 = i
    OBVIOUS
  <2>5. q[1] = w /\ \A i \in 1 .. n : q[i + 1] = s[i]
    BY <2>1, <2>3, <2>4
  <2>. QED
    BY <2>3, <2>4, <2>5
<1>6. \A i \in 1 .. n + 1 : i = 1 \/ \E j \in 1 .. n : i = j + 1
  <2>1. ASSUME NEW i \in 1 .. n + 1, i # 1 PROVE i - 1 \in 1 .. n /\ i = (i - 1) + 1
    BY <1>5, <2>1
  <2>. QED
    BY <2>1
<1>7. \A i \in 1 .. n : s[i] # w
  BY <1>1, <1>2, <1>n DEF IsStack
<1>8. ASSUME NEW x \in Waiters
      PROVE  phase'[x] = "registered" <=> \E i \in 1 .. n + 1 : r[i] = x
  <2>1. phase'[x] = "registered" <=> x = w \/ phase[x] = "registered"
    BY <1>3, <1>4
  <2>2. phase[x] = "registered" <=> \E i \in 1 .. n : s[i] = x
    BY <1>1, <1>n DEF IsStack
  <2>3. 1 \in 1 .. n + 1 /\ \A i \in 1 .. n : i + 1 \in 1 .. n + 1
    BY <1>5
  <2>4. ASSUME NEW i \in 1 .. n + 1, r[i] = x
        PROVE  x = w \/ phase[x] = "registered"
    <3>1. ASSUME NEW j \in 1 .. n, i = j + 1 PROVE phase[x] = "registered"
      BY <1>5, <2>2, <2>4, <3>1
    <3>. QED
      BY <1>5, <1>6, <2>4, <3>1
  <2>5. x = w => \E i \in 1 .. n + 1 : r[i] = x
    BY <1>5, <2>3
  <2>6. phase[x] = "registered" => \E i \in 1 .. n + 1 : r[i] = x
    BY <1>5, <2>2, <2>3
  <2>. QED
    BY <2>1, <2>4, <2>5, <2>6
<1>9. \A i, j \in 1 .. n + 1 : r[i] = r[j] => i = j
  <2>1. \A i, j \in 1 .. n : s[i] = s[j] => i = j
    BY <1>1, <1>n DEF IsStack
  <2>2. ASSUME NEW i \in 1 .. n + 1, NEW j \in 1 .. n + 1, r[i] = r[j]
        PROVE  i = j
    <3>1. CASE i = 1
      BY <1>5, <1>6, <1>7, <2>2, <3>1
    <3>2. CASE j = 1
      BY <1>5, <1>6, <1>7, <2>2, <3>2
    <3>3. CASE i # 1 /\ j # 1
      <4>1. PICK k \in 1 .. n : i = k + 1
        BY <1>6, <3>3
      <4>2. PICK l \in 1 .. n : j = l + 1
        BY <1>6, <3>3
      <4>3. s[k] = s[l]
        BY <1>5, <2>2, <4>1, <4>2
      <4>. QED
        BY <2>1, <4>1, <4>2, <4>3
    <3>. QED
      BY <3>1, <3>2, <3>3
  <2>. QED
    BY <2>2
<1>10. joiners = IF n = 0 THEN Null ELSE s[1]
  BY <1>1, <1>3, <1>n, PointersAssumption DEF IsStack, IsTop
<1>11. ASSUME NEW i \in 1 .. n + 1
       PROVE  next'[r[i]] = IF i = n + 1 THEN Null ELSE r[i + 1]
  <2>1. CASE i = 1
    <3>1. next'[r[i]] = joiners
      BY <1>2, <1>3, <1>4, <1>5, <2>1
    <3>2. CASE n = 0
      BY <1>10, <2>1, <3>1, <3>2
    <3>3. CASE n # 0
      <4>1. 1 \in 1 .. n /\ i # n + 1
        BY <1>5, <2>1, <3>3
      <4>2. r[i + 1] = s[1]
        BY <1>5, <2>1, <4>1
      <4>. QED
        BY <1>10, <3>1, <3>3, <4>1, <4>2
    <3>. QED
      BY <3>2, <3>3
  <2>2. ASSUME NEW j \in 1 .. n, i = j + 1
        PROVE  next'[r[i]] = IF i = n + 1 THEN Null ELSE r[i + 1]
    <3>1. next'[s[j]] = next[s[j]]
      BY <1>3, <1>4, <1>5, <1>7
    <3>2. next[s[j]] = IF j = n THEN Null ELSE s[j + 1]
      BY <1>1, <1>n DEF IsStack
    <3>3. (i = n + 1 <=> j = n) /\ (j # n => j + 1 \in 1 .. n)
      BY <1>5, <2>2
    <3>. QED
      BY <1>5, <2>2, <3>1, <3>2, <3>3
  <2>. QED
    BY <1>6, <2>1, <2>2
<1>12. IsStack(r)'
  <2>1. Len(r) # 0 /\ IsTop(r[1])'
    BY <1>3, <1>5 DEF IsTop
  <2>. QED
    BY <1>5, <1>8, <1>9, <1>11, <2>1 DEF IsStack
<1>. QED
  BY <1>5, <1>12 DEF JoinersAreStack

(* The drain pops a join before it completes it.                           *)
LEMMA StackPopped ==
    ASSUME Inv, JoinersAreStack, NEW t \in Threads, DrainOne(t)
    PROVE  JoinersAreStack'
<1>1. PICK s \in Seq(Waiters) : IsStack(s)
  BY DEF JoinersAreStack
<1>2. PICK w \in Waiters : w = list[t]
  BY DEF DrainOne, Inv, TypeOK
<1>3. /\ joiners = Sentinel /\ \A u \in Threads \ {t} : list[u] = Null
      /\ joiners' = joiners /\ next' = next
      /\ list' = [list EXCEPT ![t] = next[w]]
      /\ \E p \in {"scheduled", "done"} : phase' = [phase EXCEPT ![w] = p]
  BY <1>2 DEF DrainOne, Complete, Inv, OneDrain, Draining
<1>4. /\ phase \in [Waiters -> Phases]
      /\ list \in [Threads -> Waiters \union {Null}]
      /\ next \in [Waiters -> Waiters \union {Null}]
  BY DEF Inv, TypeOK
<1>5. w # Null
  BY <1>2, PointersAssumption
<1>6. PICK n \in Nat \ {0} : n = Len(s) /\ s # <<>>
  <2>1. Len(s) \in Nat
    BY LenProperties
  <2>2. Len(s) # 0
    BY <1>1, <1>2, <1>5 DEF IsStack
  <2>. QED
    BY <2>1, <2>2, EmptySeq
<1>7. s[1] = w
  BY <1>1, <1>2, <1>3, <1>5, <1>6, PointersAssumption DEF IsStack, IsTop
<1>8. PICK r \in Seq(Waiters) :
        Len(r) = n - 1 /\ \A i \in 1 .. n - 1 : r[i] = s[i + 1]
  <2>1. /\ Tail(s) \in Seq(Waiters) /\ Len(Tail(s)) = n - 1
        /\ \A i \in 1 .. n - 1 : Tail(s)[i] = s[i + 1]
    BY <1>6, HeadTailProperties
  <2>. QED
    BY <2>1
<1>9. \A i \in 1 .. n : i = 1 \/ \E j \in 1 .. n - 1 : i = j + 1
  <2>1. ASSUME NEW i \in 1 .. n, i # 1
        PROVE  i - 1 \in 1 .. n - 1 /\ i = (i - 1) + 1
    BY <1>6, <2>1
  <2>. QED
    BY <2>1
<1>10. 1 \in 1 .. n /\ \A i \in 1 .. n - 1 : i + 1 \in 1 .. n /\ i + 1 # 1
  BY <1>6
<1>11. ASSUME NEW x \in Waiters
       PROVE  phase'[x] = "registered" <=> \E i \in 1 .. n - 1 : r[i] = x
  <2>1. phase'[x] = "registered" <=> x # w /\ phase[x] = "registered"
    BY <1>3, <1>4
  <2>2. phase[x] = "registered" <=> \E i \in 1 .. n : s[i] = x
    BY <1>1, <1>6 DEF IsStack
  <2>3. \A i \in 1 .. n : s[i] = w => i = 1
    BY <1>1, <1>6, <1>7, <1>10 DEF IsStack
  <2>. QED
    <3>1. ASSUME NEW i \in 1 .. n - 1, r[i] = x
          PROVE  x # w /\ phase[x] = "registered"
      <4>1. i + 1 \in 1 .. n /\ i + 1 # 1 /\ s[i + 1] = x
        BY <1>8, <1>10, <3>1
      <4>. QED
        BY <2>2, <2>3, <4>1
    <3>2. ASSUME x # w, phase[x] = "registered"
          PROVE  \E i \in 1 .. n - 1 : r[i] = x
      <4>1. PICK i \in 1 .. n : s[i] = x
        BY <2>2, <3>2
      <4>2. PICK j \in 1 .. n - 1 : i = j + 1
        BY ONLY <1>7, <1>9, <3>2, <4>1
      <4>. QED
        BY ONLY <1>8, <4>1, <4>2
    <3>. QED
      BY <2>1, <3>1, <3>2
<1>12. \A i, j \in 1 .. n - 1 : r[i] = r[j] => i = j
  <2>1. ASSUME NEW i \in 1 .. n - 1, NEW j \in 1 .. n - 1, r[i] = r[j]
        PROVE  i = j
    <3>1. s[i + 1] = s[j + 1]
      BY <1>8, <2>1
    <3>2. i + 1 = j + 1
      BY <1>1, <1>6, <1>10, <3>1 DEF IsStack
    <3>. QED
      BY <3>2
  <2>. QED
    BY <2>1
<1>13. ASSUME NEW i \in 1 .. n - 1
       PROVE  next'[r[i]] = IF i = n - 1 THEN Null ELSE r[i + 1]
  <2>1. next[s[i + 1]] = IF i + 1 = n THEN Null ELSE s[(i + 1) + 1]
    BY <1>1, <1>6, <1>10 DEF IsStack
  <2>2. (i = n - 1 <=> i + 1 = n) /\ (i # n - 1 => i + 1 \in 1 .. n - 1)
    BY <1>6
  <2>3. next'[r[i]] = IF i = n - 1 THEN Null ELSE s[(i + 1) + 1]
    BY <1>3, <1>8, <2>1, <2>2
  <2>. QED
    BY <1>8, <2>2, <2>3
<1>14. next[w] = IF n = 1 THEN Null ELSE s[2]
  BY <1>1, <1>6, <1>7, <1>10 DEF IsStack
<1>15. IF Len(r) = 0
       THEN joiners' \in {Null, Sentinel} /\ \A u \in Threads : list'[u] = Null
       ELSE IsTop(r[1])'
  <2>1. CASE n = 1
    BY <1>2, <1>3, <1>4, <1>8, <1>14, <2>1
  <2>2. CASE n # 1
    <3>1. 1 \in 1 .. n - 1 /\ n - 1 # 0
      BY <1>6, <2>2
    <3>2. r[1] = s[2]
      BY <1>8, <3>1
    <3>3. list'[t] = s[2]
      BY <1>3, <1>4, <1>14, <2>2
    <3>. QED
      BY <1>8, <3>1, <3>2, <3>3 DEF IsTop
  <2>. QED
    BY <2>1, <2>2
<1>16. IsStack(r)'
  BY <1>8, <1>11, <1>12, <1>13, <1>15 DEF IsStack
<1>. QED
  BY <1>8, <1>16 DEF JoinersAreStack

(* Whatever the threads do, the list is a stack.                           *)
LEMMA StackStep == Inv /\ JoinersAreStack /\ [Next]_vars => JoinersAreStack'
<1> SUFFICES ASSUME Inv, JoinersAreStack, [Next]_vars PROVE JoinersAreStack'
  OBVIOUS
<1> DEFINE Still ==
             /\ joiners' = joiners
             /\ \A u \in Threads : list'[u] = list[u]
             /\ \A w \in Waiters :
                  /\ phase'[w] = "registered" <=> phase[w] = "registered"
                  /\ phase[w] = "registered" => next'[w] = next[w]
<1>0. Still => JoinersAreStack'
  BY StackKept
<1> USE DEF Inv, TypeOK, OneDrain, OwnsWaiter, Registering, Draining, shared,
        locals
<1>1. ASSUME NEW t \in Threads,
             \/ Close(t) \/ TryAssociateLoad(t) \/ DisassociateLoad(t)
             \/ RegisterLoad(t)
      PROVE  Still
  BY <1>1 DEF Close, TryAssociateLoad, DisassociateLoad, RegisterLoad
<1>2. ASSUME NEW t \in Threads, TryAssociateRefused(t) PROVE Still
  BY <1>2 DEF TryAssociateRefused, Return
<1>3. ASSUME NEW t \in Threads, TryAssociateCas(t) PROVE Still
  BY <1>3 DEF TryAssociateCas, Return
<1>4. ASSUME NEW t \in Threads, DisassociateCas(t) PROVE Still
  BY <1>4 DEF DisassociateCas, Return
<1>5. ASSUME NEW t \in Threads, DrainReturn(t) PROVE Still
  BY <1>5 DEF DrainReturn, Return
<1>6. ASSUME NEW t \in Threads, NEW w \in Waiters, StartJoinLoad(t, w)
      PROVE  Still
  BY <1>6 DEF StartJoinLoad
<1>7. ASSUME NEW t \in Threads, StartJoinCas(t) PROVE Still
  BY <1>7 DEF StartJoinCas, Return, Complete
<1>8. ASSUME NEW t \in Threads, RegisterDrained(t) PROVE Still
  BY <1>8 DEF RegisterDrained, Return, Complete
<1>9. ASSUME NEW t \in Threads, RegisterCas(t), joiners # head[t] PROVE Still
  BY <1>9 DEF RegisterCas
<1>10. ASSUME NEW w \in Waiters, ScheduledCompletion(w) PROVE Still
  BY <1>10 DEF ScheduledCompletion, Complete
<1>11. CASE Destroy \/ UNCHANGED vars
  BY <1>0, <1>11 DEF Destroy, vars
<1>12. ASSUME NEW t \in Threads, DrainExchange(t) PROVE JoinersAreStack'
  <2>1. PICK s \in Seq(Waiters) : IsStack(s)
    BY DEF JoinersAreStack
  <2>2. /\ joiners' = Sentinel /\ list' = [list EXCEPT ![t] = joiners]
        /\ phase' = phase /\ next' = next
        /\ joiners # Sentinel /\ \A u \in Threads : list[u] = Null
    BY <1>12 DEF DrainExchange
  <2>3. \A w \in Waiters : IsTop(w) => IsTop(w)'
    BY <2>2, PointersAssumption DEF IsTop
  <2>4. Len(s) # 0 => s[1] \in Waiters
    BY LenProperties, ElementOfSeq
  <2>5. Len(s) = 0 => \A u \in Threads : list'[u] = Null
    BY <2>1, <2>2 DEF IsStack
  <2>6. IsStack(s)'
    BY <2>1, <2>2, <2>3, <2>4, <2>5 DEF IsStack
  <2>. QED
    BY <2>6 DEF JoinersAreStack
<1> HIDE DEF Still, Inv, TypeOK, OneDrain, OwnsWaiter, Registering, Draining,
        shared, locals
<1>13. ASSUME NEW t \in Threads, DrainOne(t) PROVE JoinersAreStack'
  BY <1>13, StackPopped
<1>14. ASSUME NEW t \in Threads, RegisterCas(t), joiners = head[t]
       PROVE  JoinersAreStack'
  BY <1>14, StackPushed
<1>. QED
  BY <1>0, <1>1, <1>2, <1>3, <1>4, <1>5, <1>6, <1>7, <1>8, <1>9, <1>10, <1>11,
     <1>12, <1>13, <1>14
  DEF Next, Continue

(* Only the exchange of the drain and the last disassociate make a joining *)
(* scope joined or leave the drain: the thread that wrote the joined word  *)
(* goes on to drain.                                                       *)
LEMMA DrainsStep == Inv /\ Drains /\ [Next]_vars => Drains'
<1> SUFFICES ASSUME Inv, Drains, [Next]_vars PROVE Drains'
  OBVIOUS
<1> USE DEF Inv, TypeOK, StartedScope, OwnsWaiter, Registering, Drains,
        Started, shared, locals
<1>1. ASSUME NEW t \in Threads, Close(t) PROVE Drains'
  <2>1. is_joined(word') /\ (\E w \in Waiters : Started(w)) => is_joined(word)
    <3>1. ASSUME is_joined(word'), word.join_running PROVE FALSE
      BY <1>1, <3>1, ClosedWord, WordFields DEF Close
    <3>. QED
      BY <3>1
  <2>. QED
    BY <1>1, <2>1 DEF Close
<1>2. ASSUME NEW t \in Threads,
             TryAssociateLoad(t) \/ DisassociateLoad(t) \/ RegisterLoad(t)
      PROVE  Drains'
  BY <1>2 DEF TryAssociateLoad, DisassociateLoad, RegisterLoad
<1>3. ASSUME NEW t \in Threads, TryAssociateRefused(t) PROVE Drains'
  BY <1>3 DEF TryAssociateRefused, Return
<1>4. ASSUME NEW t \in Threads, TryAssociateCas(t) PROVE Drains'
  <2>1. CASE word = bits[t]
    <3>1. ~is_joined(word')
      <4>1. word' \in Words /\ word'.join_needed
        BY <1>4, <2>1, AssociatedWord, WordFields, MaxIsNat DEF TryAssociateCas
      <4>. QED
        BY <4>1, WordFields
    <3>. QED
      BY <3>1
  <2>2. CASE word # bits[t]
    BY <1>4, <2>2 DEF TryAssociateCas
  <2>. QED
    BY <2>1, <2>2
<1>5. ASSUME NEW t \in Threads, DisassociateCas(t) PROVE Drains'
  <2>1. CASE word # bits[t]
    BY <1>5, <2>1 DEF DisassociateCas
  <2>2. CASE word = bits[t] /\ is_joined(word')
    BY <1>5, <2>2 DEF DisassociateCas
  <2>3. CASE word = bits[t] /\ ~is_joined(word')
    BY <2>3
  <2>. QED
    BY <2>1, <2>2, <2>3
<1>6. ASSUME NEW t \in Threads, DrainExchange(t) PROVE Drains'
  BY <1>6 DEF DrainExchange
<1>7. ASSUME NEW t \in Threads, DrainOne(t) PROVE Drains'
  BY <1>7 DEF DrainOne, Complete, OneDrain, Draining
<1>8. ASSUME NEW t \in Threads, DrainReturn(t) PROVE Drains'
  BY <1>8 DEF DrainReturn, Return
<1>9. ASSUME NEW t \in Threads, NEW w \in Waiters, StartJoinLoad(t, w)
      PROVE  Drains'
  BY <1>9 DEF StartJoinLoad
<1>10. ASSUME NEW t \in Threads, StartJoinCas(t) PROVE Drains'
  <2>1. CASE word # bits[t]
    BY <1>10, <2>1 DEF StartJoinCas
  <2>2. CASE word = bits[t] /\ bits[t].count = 0
    <3>1. (\E w \in Waiters : Started(w))' => \E w \in Waiters : Started(w)
      BY <1>10, <2>2 DEF StartJoinCas, Return, Complete
    <3>2. (\E w \in Waiters : Started(w)) => is_joined(word)
      BY <2>2 DEF WordConsistent
    <3>. QED
      BY <1>10, <2>2, <3>1, <3>2 DEF StartJoinCas, Return
  <2>3. CASE word = bits[t] /\ bits[t].count # 0
    <3>1. word' = Joining(word) /\ word \in Words
      BY <1>10, <2>3 DEF StartJoinCas
    <3>2. ~is_joined(word')
      BY <3>1, JoiningWord, WordFields
    <3>. QED
      BY <3>2
  <2>. QED
    BY <2>1, <2>2, <2>3
<1>11. ASSUME NEW t \in Threads, RegisterDrained(t) PROVE Drains'
  BY <1>11 DEF RegisterDrained, OneDrain
<1>12. ASSUME NEW t \in Threads, RegisterCas(t) PROVE Drains'
  BY <1>12 DEF RegisterCas, Return, OneDrain
<1>13. ASSUME NEW w \in Waiters, ScheduledCompletion(w) PROVE Drains'
  BY <1>13 DEF ScheduledCompletion, Complete
<1>14. CASE Destroy \/ UNCHANGED vars
  BY <1>14 DEF Destroy, vars
<1> HIDE DEF Inv, TypeOK, StartedScope, OwnsWaiter, Registering, Drains,
        Started, shared, locals
<1>. QED
  BY <1>1, <1>2, <1>3, <1>4, <1>5, <1>6, <1>7, <1>8, <1>9, <1>10, <1>11, <1>12,
     <1>13, <1>14
  DEF Next, Continue

(* The list beside the invariant.                                          *)
LEMMA StackInvariance == Spec => [](Inv /\ JoinersAreStack /\ Drains)
<1>1. Init => JoinersAreStack
  <2> SUFFICES ASSUME Init PROVE JoinersAreStack
    OBVIOUS
  <2>1. <<>> \in Seq(Waiters) /\ Len(<<>>) = 0
    OBVIOUS
  <2>2. IsStack(<<>>)
    BY <2>1 DEF Init, IsStack
  <2>. QED
    BY <2>1, <2>2 DEF JoinersAreStack
<1>2. Init => Drains
  BY DEF Init, Drains, Started
<1>. QED
  BY <1>1, <1>2, Invariance, StackStep, DrainsStep, PTL DEF Spec

(* The Treiber stack of the joins, with its intrusive links and the one    *)
(* drain that takes it whole, is at every moment a stack of the joins that *)
(* wait, each of them once.                                                *)
THEOREM ListIsStack == Spec => []JoinersAreStack
  BY StackInvariance, PTL

(* I4: no interleaving of pushes with the last disassociate and its drain  *)
(* leaves a join behind that nobody will answer.                           *)
THEOREM NoJoinLost == Spec => []NoJoinStranded
<1>1. ASSUME Inv, JoinersAreStack, Drains,
             NEW w \in Waiters, phase[w] = "registered"
      PROVE  \/ word.join_running /\ live # {}
             \/ \E t \in Threads : pc[t] = "drain_exchange"
             \/ \E t \in Threads : pc[t] = "drain" /\ list[t] # Null
  <2>1. PICK s \in Seq(Waiters) : IsStack(s)
    BY <1>1 DEF JoinersAreStack
  <2>2. Len(s) \in Nat \ {0}
    BY <1>1, <2>1, LenProperties DEF IsStack
  <2>3. s[1] \in Waiters /\ IsTop(s[1])
    BY <2>1, <2>2, ElementOfSeq DEF IsStack
  <2>4. CASE \E t \in Threads : list[t] = s[1]
    BY <1>1, <2>3, <2>4, PointersAssumption DEF Inv, OneDrain
  <2>5. CASE joiners = s[1] /\ is_joined(word)
    BY <1>1, <2>3, <2>5, PointersAssumption DEF Drains, Started
  <2>6. CASE word.join_running
    <3>1. Cardinality(live) # 0
      BY <1>1, <2>6 DEF Inv, WordConsistent
    <3>2. live # {}
      BY <3>1, FS_EmptySet
    <3>. QED
      BY <2>6, <3>2
  <2>7. word.join_running \/ is_joined(word)
    BY <1>1 DEF Inv, StartedScope, Started
  <2>. QED
    BY <2>3, <2>4, <2>5, <2>6, <2>7 DEF IsTop
<1>2. Inv /\ JoinersAreStack /\ Drains => NoJoinStranded
  BY <1>1 DEF NoJoinStranded
<1>. QED
  BY <1>2, StackInvariance, PTL

-----------------------------------------------------------------------------
(* Refinement: what every step is for the contract.                        *)

Waiting == {w \in Waiters : Started(w)}
Answered == {w \in Waiters : phase[w] = "done"}

(* The steps that move no association and no join between the contract's   *)
(* sets, and leave the word open or closed as it was, are stutters.        *)
LEMMA Stutters ==
    ASSUME UNCHANGED live, word'.closed <=> word.closed,
           Waiting' = Waiting, Answered' = Answered,
           word.closed \in BOOLEAN, word'.closed \in BOOLEAN
    PROVE  UNCHANGED Contract!vars
BY DEF Contract!vars, Waiting, Answered

(* A thread's own bookkeeping moves no join. *)
LEMMA SameJoins ==
    ASSUME Inv, UNCHANGED phase,
           \A t \in Threads :
              \/ pc'[t] = pc[t] /\ waiter'[t] = waiter[t]
              \/ pc[t] \notin Registering /\ pc'[t] \notin Registering
              \/ /\ pc[t] \in Registering /\ pc'[t] \in Registering
                 /\ waiter'[t] = waiter[t]
    PROVE  Waiting' = Waiting /\ Answered' = Answered
BY DEF Waiting, Answered, Started, Registering

(* A compare-exchange of associate, disassociate, close or start_join that *)
(* succeeds is the contract's step; so is every completion.                *)
LEMMA StepRefines ==
    ASSUME Inv, Inv', [Next]_vars
    PROVE  [Contract!Next]_(Contract!vars)
<1>. USE DEF shared, locals
<1>0. /\ word \in Words /\ word' \in Words
      /\ word.closed \in BOOLEAN /\ word'.closed \in BOOLEAN
  BY WordFields DEF Inv, TypeOK
<1>1. ASSUME NEW t \in Threads, Close(t) PROVE Contract!Close
  <2>1. word'.closed = TRUE
    BY <1>0, <1>1, ClosedWord DEF Close
  <2>2. UNCHANGED <<phase, pc, waiter, live>>
    BY <1>1 DEF Close
  <2>. QED
    BY <2>1, <2>2 DEF Contract!Close, Started
<1>2. ASSUME NEW t \in Threads,
             \/ TryAssociateLoad(t) \/ TryAssociateRefused(t)
             \/ DisassociateLoad(t) \/ DrainExchange(t) \/ DrainReturn(t)
             \/ RegisterLoad(t)
      PROVE  UNCHANGED Contract!vars
  <2>1. UNCHANGED <<word, live, phase>>
    BY <1>2 DEF TryAssociateLoad, TryAssociateRefused, DisassociateLoad,
       DrainExchange, DrainReturn, RegisterLoad
  <2>2. Waiting' = Waiting /\ Answered' = Answered
    BY <1>2, <2>1, SameJoins
    DEF Inv, TypeOK, TryAssociateLoad, TryAssociateRefused, DisassociateLoad,
       DrainExchange, DrainReturn, RegisterLoad, Return, Registering
  <2>. QED
    BY <1>0, <2>1, <2>2, Stutters
<1>3. ASSUME NEW t \in Threads, TryAssociateCas(t)
      PROVE  Contract!Next \/ UNCHANGED Contract!vars
  <2>1. UNCHANGED phase /\ Waiting' = Waiting /\ Answered' = Answered
    BY <1>3, SameJoins
    DEF Inv, TypeOK, TryAssociateCas, Return, Registering
  <2>2. CASE word # bits[t]
    <3>1. UNCHANGED <<word, live>>
      BY <1>3, <2>2 DEF TryAssociateCas
    <3>. QED
      BY <1>0, <2>1, <3>1, Stutters
  <2>3. CASE word = bits[t]
    <3>1. PICK a \in Associations \ live : live' = live \union {a}
      BY <1>3, <2>3 DEF TryAssociateCas
    <3>2. word'.closed = word.closed /\ ~word.closed
      BY <1>0, <1>3, <2>3, AssociatedWord, WordFields, MaxIsNat
      DEF TryAssociateCas
    <3>3. Contract!Associate(a)
      BY <2>1, <3>1, <3>2 DEF Contract!Associate, Waiting, Answered
    <3>. QED
      BY <3>1, <3>3 DEF Contract!Next
  <2>. QED
    BY <2>2, <2>3
<1>4. ASSUME NEW t \in Threads, DisassociateCas(t)
      PROVE  Contract!Next \/ UNCHANGED Contract!vars
  <2>1. UNCHANGED phase /\ Waiting' = Waiting /\ Answered' = Answered
    BY <1>4, SameJoins
    DEF Inv, TypeOK, DisassociateCas, Return, Registering
  <2>2. CASE word # bits[t]
    <3>1. UNCHANGED <<word, live>>
      BY <1>4, <2>2 DEF DisassociateCas
    <3>. QED
      BY <1>0, <2>1, <3>1, Stutters
  <2>3. CASE word = bits[t]
    <3>1. /\ assoc[t] \in live /\ assoc[t] \in Associations
          /\ live' = live \ {assoc[t]}
      BY <1>4, <2>3, CountedAssociation DEF DisassociateCas, Inv, TypeOK
    <3>2. Cardinality(live') = word.count - 1 /\ IsFiniteSet(live')
      BY <1>4, <3>1, CountedAssociation, LiveFinite
      DEF DisassociateCas, Inv, TypeOK
    <3>3. live' = {} <=> word.count = 1
      BY <1>0, <3>2, WordFields, MaxIsNat, FS_EmptySet
    <3>4. word.join_running <=> Waiting # {}
      <4>1. word.count > 0
        BY <1>4, CountedAssociation DEF DisassociateCas
      <4>2. ~is_joined(word)
        BY <1>0, <4>1, WordFields
      <4>. QED
        BY <4>2 DEF Inv, SomebodyWaits, StartedScope, Waiting
    <3>5. word'.closed <=> word.closed \/ (live' = {} /\ Waiting # {})
      <4>1. word.count > 0 /\ WellFormed(word)
        BY <1>4, CountedAssociation
        DEF DisassociateCas, Inv, WordConsistent, WellFormed
      <4>2. word' = Disassociated(word)
        BY <1>4, <2>3 DEF DisassociateCas
      <4>. QED
        BY <1>0, <3>3, <3>4, <4>1, <4>2, DisassociatedWord
    <3>6. Contract!Disassociate(assoc[t])
      BY <1>0, <2>1, <3>1, <3>5 DEF Contract!Disassociate, Waiting, Answered
    <3>. QED
      BY <3>1, <3>6 DEF Contract!Next
  <2>. QED
    BY <2>2, <2>3
<1>5. ASSUME NEW t \in Threads, DrainOne(t)
      PROVE  Contract!Next \/ UNCHANGED Contract!vars
  <2>1. /\ list[t] \in Waiters /\ phase[list[t]] = "registered"
        /\ UNCHANGED <<word, live, pc, waiter>>
    BY <1>5 DEF DrainOne, Inv, TypeOK, Chain, IsTop
  <2>2. word.closed /\ live = {}
    <3>1. is_joined(word)
      BY <1>5 DEF DrainOne, Inv, OneDrain, Draining
    <3>. QED
      BY <1>0, <3>1, WordFields, LiveFinite, FS_EmptySet
      DEF Inv, TypeOK, WordConsistent
  <2>3. \A u \in Threads : pc[u] \in Registering => waiter[u] # list[t]
    BY <2>1 DEF Inv, OwnsWaiter
  <2>4. CASE phase' = [phase EXCEPT ![list[t]] = "scheduled"]
    <3>1. Waiting' = Waiting /\ Answered' = Answered
      BY <2>1, <2>4 DEF Waiting, Answered, Started, Inv, TypeOK
    <3>. QED
      BY <1>0, <2>1, <3>1, Stutters
  <2>5. CASE Complete(list[t])
    <3>1. /\ list[t] \in Waiting
          /\ Waiting' = Waiting \ {list[t]}
          /\ Answered' = Answered \union {list[t]}
      BY <2>1, <2>3, <2>5
      DEF Complete, Waiting, Answered, Started, Registering, Inv, TypeOK
    <3>2. PICK w \in Waiters : w = list[t]
      BY <2>1
    <3>3. Contract!AnswerJoin(w)
      BY <2>1, <2>2, <3>1, <3>2 DEF Contract!AnswerJoin, Waiting, Answered
    <3>. QED
      BY <3>3 DEF Contract!Next
  <2>. QED
    BY <1>5, <2>4, <2>5 DEF DrainOne
<1>6. ASSUME NEW t \in Threads, NEW w \in Waiters, StartJoinLoad(t, w)
      PROVE  UNCHANGED Contract!vars
  <2>1. /\ UNCHANGED <<word, live>>
        /\ phase' = [phase EXCEPT ![w] = "starting"] /\ phase[w] = "new"
        /\ pc[t] \notin Registering /\ pc'[t] \notin Registering
        /\ \A u \in Threads \ {t} : pc'[u] = pc[u] /\ waiter'[u] = waiter[u]
    BY <1>6 DEF StartJoinLoad, Inv, TypeOK, Registering
  <2>2. Waiting' = Waiting /\ Answered' = Answered
    BY <2>1 DEF Waiting, Answered, Started, Registering, Inv, TypeOK
  <2>. QED
    BY <1>0, <2>1, <2>2, Stutters
<1>7. ASSUME NEW t \in Threads, StartJoinCas(t)
      PROVE  Contract!Next \/ UNCHANGED Contract!vars
  <2>0. /\ waiter[t] \in Waiters /\ phase[waiter[t]] = "starting"
        /\ \A u \in Threads \ {t} : waiter[u] # waiter[t]
        /\ UNCHANGED live /\ pc[t] = "join"
    BY PointersAssumption, <1>7 DEF StartJoinCas, Inv, OwnsWaiter
  <2>1. waiter[t] \notin Waiting /\ waiter[t] \notin Answered
    BY <2>0 DEF Waiting, Answered, Started
  <2>2. live = {} <=> word.count = 0
    BY LiveFinite, FS_EmptySet DEF Inv, TypeOK, WordConsistent
  <2>3. CASE word # bits[t]
    <3>1. UNCHANGED <<word, phase, pc, waiter>>
      BY <1>7, <2>3 DEF StartJoinCas
    <3>2. Waiting' = Waiting /\ Answered' = Answered
      BY <3>1 DEF Waiting, Answered, Started
    <3>. QED
      BY <1>0, <2>0, <3>1, <3>2, Stutters
  <2>4. CASE word = bits[t] /\ bits[t].count = 0
    <3>1. word'.closed = TRUE /\ live = {}
      BY <1>7, <2>2, <2>4 DEF StartJoinCas, closed_bit
    <3>2. Waiting' = Waiting /\ Answered' = Answered \union {waiter[t]}
      BY <1>7, <2>0, <2>4
      DEF StartJoinCas, Complete, Return, Waiting, Answered, Started, Inv,
          TypeOK
    <3>3. PICK w \in Waiters : w = waiter[t]
      BY <2>0
    <3>4. Contract!StartJoin(w)
      BY <2>0, <2>1, <3>1, <3>2, <3>3
      DEF Contract!StartJoin, Waiting, Answered
    <3>. QED
      BY <3>4 DEF Contract!Next
  <2>5. CASE word = bits[t] /\ bits[t].count # 0
    <3>1. (word'.closed <=> word.closed) /\ live # {}
      BY <1>0, <1>7, <2>2, <2>5, JoiningWord DEF StartJoinCas
    <3>2. Waiting' = Waiting \union {waiter[t]} /\ Answered' = Answered
      BY <1>7, <2>0, <2>5
      DEF StartJoinCas, Waiting, Answered, Started, Inv, TypeOK
    <3>3. PICK w \in Waiters : w = waiter[t]
      BY <2>0
    <3>4. Contract!StartJoin(w)
      BY <1>0, <2>0, <2>1, <3>1, <3>2, <3>3
      DEF Contract!StartJoin, Waiting, Answered
    <3>. QED
      BY <3>4 DEF Contract!Next
  <2>. QED
    BY <2>3, <2>4, <2>5
<1>8. ASSUME NEW t \in Threads, RegisterDrained(t) PROVE Contract!Next
  <2>1. /\ waiter[t] \in Waiters /\ phase[waiter[t]] = "starting"
        /\ \A u \in Threads \ {t} : waiter[u] # waiter[t]
        /\ UNCHANGED <<word, live>> /\ pc[t] = "register"
    BY PointersAssumption, <1>8
    DEF RegisterDrained, Inv, OwnsWaiter, Registering
  <2>2. word.closed /\ live = {}
    <3>1. is_joined(word)
      BY <1>8 DEF RegisterDrained, Inv, OneDrain
    <3>. QED
      BY <1>0, <3>1, WordFields, LiveFinite, FS_EmptySet
      DEF Inv, TypeOK, WordConsistent
  <2>3. /\ waiter[t] \in Waiting
        /\ Waiting' = Waiting \ {waiter[t]}
        /\ Answered' = Answered \union {waiter[t]}
    BY <1>8, <2>1
    DEF RegisterDrained, Complete, Return, Waiting, Answered, Started, Inv,
        TypeOK
  <2>4. PICK w \in Waiters : w = waiter[t]
    BY <2>1
  <2>5. Contract!AnswerJoin(w)
    BY <2>1, <2>2, <2>3, <2>4 DEF Contract!AnswerJoin, Waiting, Answered
  <2>. QED
    BY <2>5 DEF Contract!Next
<1>9. ASSUME NEW t \in Threads, RegisterCas(t) PROVE UNCHANGED Contract!vars
  <2>1. /\ waiter[t] \in Waiters /\ phase[waiter[t]] = "starting"
        /\ \A u \in Threads \ {t} : waiter[u] # waiter[t]
        /\ UNCHANGED <<word, live>> /\ pc[t] = "register"
    BY PointersAssumption, <1>9 DEF RegisterCas, Inv, OwnsWaiter, Registering
  <2>2. CASE joiners # head[t]
    <3>1. UNCHANGED <<phase, pc, waiter>>
      BY <1>9, <2>2 DEF RegisterCas
    <3>2. Waiting' = Waiting /\ Answered' = Answered
      BY <3>1 DEF Waiting, Answered, Started
    <3>. QED
      BY <1>0, <2>1, <3>2, Stutters
  <2>3. CASE joiners = head[t]
    <3>1. Waiting' = Waiting /\ Answered' = Answered
      BY <1>9, <2>1, <2>3
      DEF RegisterCas, Return, Waiting, Answered, Started, Inv, TypeOK
    <3>. QED
      BY <1>0, <2>1, <3>1, Stutters
  <2>. QED
    BY <2>2, <2>3
<1>10. ASSUME NEW w \in Waiters, ScheduledCompletion(w) PROVE Contract!Next
  <2>1. phase[w] = "scheduled" /\ UNCHANGED <<word, live, pc, waiter>>
    BY <1>10 DEF ScheduledCompletion
  <2>2. word.closed /\ live = {}
    <3>1. is_joined(word)
      BY <2>1 DEF Inv, StartedScope
    <3>. QED
      BY <1>0, <3>1, WordFields, LiveFinite, FS_EmptySet
      DEF Inv, TypeOK, WordConsistent
  <2>3. \A u \in Threads : pc[u] \in Registering => waiter[u] # w
    BY <2>1 DEF Inv, OwnsWaiter
  <2>4. /\ w \in Waiting
        /\ Waiting' = Waiting \ {w}
        /\ Answered' = Answered \union {w}
    BY <1>10, <2>1, <2>3
    DEF ScheduledCompletion, Complete, Waiting, Answered, Started,
        Registering, Inv, TypeOK
  <2>5. Contract!AnswerJoin(w)
    BY <2>1, <2>2, <2>4 DEF Contract!AnswerJoin, Waiting, Answered
  <2>. QED
    BY <2>5 DEF Contract!Next
<1>11. CASE Destroy \/ UNCHANGED vars
  <2>1. UNCHANGED <<word, live, phase, pc, waiter>>
    BY <1>11 DEF Destroy, vars
  <2>. QED
    BY <2>1 DEF Contract!vars, Started
<1>. QED
  BY <1>1, <1>2, <1>3, <1>4, <1>5, <1>6, <1>7, <1>8, <1>9, <1>10, <1>11
  DEF Next, Continue, Contract!Next

(* The lock-free scope implements the contract, for any number of threads, *)
(* associations and joins.                                                 *)
THEOREM ScopeImplementsContract == Spec => ContractSpec
<1>1. Init => Contract!Init
  BY DEF Init, Contract!Init, Started, unused
<1>2. Inv /\ Inv' /\ [Next]_vars => [Contract!Next]_(Contract!vars)
  BY StepRefines
<1>. QED
  BY <1>1, <1>2, Invariance, PTL DEF Spec, ContractSpec, Contract!Spec
=============================================================================
