--------------------------- MODULE RunLoop_proofs ---------------------------
(***************************************************************************)
(* Proofs about RunLoop, for any threads and operations.                   *)
(*                                                                         *)
(* The counter of producers is what run() knows about other threads, so it *)
(* is tied to the threads inside enqueue() and finish(); that finish()     *)
(* comes last and the counter is down is why nothing moves any more when   *)
(* the stack is closed. Every operation that was started is followed from  *)
(* its thread to the stack, the batch and the end.                         *)
(***************************************************************************)
EXTENDS RunLoop, FiniteSetTheorems, SequenceTheorems, TLAPS

-----------------------------------------------------------------------------
(* The inductive invariant, in named parts. *)

Pushing == {"enqueue", "load", "cas"}

Waking == {"wake", "notify", "wake_all", "notify_all"}

Inside == {t \in Threads : pc[t] \notin {"idle", "enqueue", "finish"}}

(* The two counters say who is there. *)
Counted ==
    /\ producers = Cardinality(Inside)
    /\ waiting = IF run \in {"check_work", "check_state", "sleep", "woken",
                             "unpark"}
                 THEN 1 ELSE 0
    /\ mutex <=> run \in {"register", "check_work", "check_state", "unpark"}

(* finish() is called once, when every enqueue() has published its         *)
(* operation, and nothing is pushed from then on.                          *)
FinishLast ==
    /\ \A t, u \in Threads :
         pc[t] \in {"finish", "finish_cas"}
           /\ pc[u] \in Pushing \union {"finish", "finish_cas"} => t = u
    /\ state \in {"finishing", "finished"} =>
         \A t \in Threads : pc[t] \notin Pushing \union {"finish",
         "finish_cas"}

(* What run() has made sure of on its way to the end. *)
Ending ==
    /\ run \in {"drain", "drain_pop", "close", "closed"} => state = "finishing"
    /\ run = "returned" <=> state = "finished"
    /\ run \in {"drain_pop", "close", "closed", "returned"} =>
         \A t \in Threads : pc[t] = "idle"
    /\ run \in {"close", "closed", "returned"} => stack = <<>>
    /\ closed <=> run \in {"closed", "returned"}
    /\ run \notin {"execute", "executing"} => batch = <<>>

(* An operation that was started is with its thread, on the stack, in the  *)
(* batch, or was executed.                                                 *)
Accounted ==
    /\ \A t \in Threads : op[t] # Null <=> pc[t] \in Pushing
    /\ \A o \in Operations : o \notin todo <=>
         \/ o \in executed \/ o \in ToSet(batch) \/ o \in ToSet(stack)
         \/ \E t \in Threads : op[t] = o

(* A producer that has not looked at the counter yet, or has seen the      *)
(* waiter, is there for whatever the waiter has not seen.                  *)
Wakes ==
    ~EarlyLoad =>
        /\ run \in {"check_state", "sleep"} /\ stack # <<>> =>
             \E t \in Threads : pc[t] \in Waking
        /\ run = "sleep" /\ state = "finishing" =>
             \E t \in Threads : pc[t] \in Waking

Inv ==
    /\ TypeOK
    /\ Counted
    /\ FinishLast
    /\ Ending
    /\ Accounted
    /\ Wakes

-----------------------------------------------------------------------------
(* Sequences of operations. *)

(* What is under the operation that is pushed. *)
LEMMA Pushed ==
    ASSUME NEW s \in Seq(Operations), NEW o \in Operations
    PROVE  /\ <<o>> \o s \in Seq(Operations)
           /\ <<o>> \o s # <<>>
           /\ ToSet(<<o>> \o s) = {o} \union ToSet(s)
           /\ Reverse(<<o>> \o s) = Append(Reverse(s), o)
<1> DEFINE p == <<o>> \o s
<1>1. /\ p \in Seq(Operations) /\ Len(p) = Len(s) + 1
      /\ \A i \in 1 .. Len(p) : p[i] = IF i = 1 THEN o ELSE s[i - 1]
  OBVIOUS
<1>2. Len(s) \in Nat /\ DOMAIN s = 1 .. Len(s) /\ DOMAIN p = 1 .. Len(s) + 1
  BY <1>1, LenProperties
<1> HIDE DEF p
<1>3. ToSet(p) = {o} \union ToSet(s)
  <2>1. p[1] = o /\ \A i \in 1 .. Len(s) : p[i + 1] = s[i]
    BY <1>1, <1>2
  <2>2. \A x \in ToSet(p) : x = o \/ x \in ToSet(s)
    <3> SUFFICES ASSUME NEW i \in 1 .. Len(s) + 1
                 PROVE  p[i] = o \/ p[i] \in ToSet(s)
      BY <1>2 DEF ToSet
    <3>1. i # 1 => i - 1 \in 1 .. Len(s) /\ p[i] = s[i - 1]
      BY <1>1, <1>2
    <3>. QED
      BY <1>2, <2>1, <3>1 DEF ToSet
  <2>3. \A i \in 1 .. Len(s) : s[i] \in ToSet(p)
    <3> SUFFICES ASSUME NEW i \in 1 .. Len(s) PROVE s[i] \in ToSet(p)
      OBVIOUS
    <3>1. i + 1 \in DOMAIN p /\ p[i + 1] = s[i]
      BY <1>2, <2>1
    <3>. QED
      BY <3>1, Zenon DEF ToSet
  <2>4. o \in ToSet(p)
    <3>1. 1 \in DOMAIN p
      BY <1>2
    <3>. QED
      BY <2>1, <3>1, Zenon DEF ToSet
  <2>. QED
    BY <1>2, <2>2, <2>3, <2>4 DEF ToSet
<1>4. Reverse(p) = Append(Reverse(s), o)
  <2>1. /\ Reverse(s) \in Seq(Operations) /\ Len(Reverse(s)) = Len(s)
        /\ \A i \in 1 .. Len(s) : Reverse(s)[i] = s[Len(s) - i + 1]
    BY <1>2 DEF Reverse
  <2>2. /\ Reverse(p) \in Seq(Operations) /\ Len(Reverse(p)) = Len(s) + 1
        /\ \A i \in 1 .. Len(s) + 1 : Reverse(p)[i] = p[Len(s) + 1 - i + 1]
    BY <1>1, <1>2 DEF Reverse
  <2> DEFINE q == Append(Reverse(s), o)
  <2>3. /\ q \in Seq(Operations) /\ Len(q) = Len(s) + 1
        /\ \A i \in 1 .. Len(s) : q[i] = Reverse(s)[i]
        /\ q[Len(s) + 1] = o
    BY <1>2, <2>1
  <2> HIDE DEF q
  <2>4. ASSUME NEW i \in 1 .. Len(s) + 1 PROVE Reverse(p)[i] = q[i]
    <3>1. CASE i = Len(s) + 1
      BY <1>1, <1>2, <2>2, <2>3, <3>1
    <3>2. CASE i # Len(s) + 1
      <4>1. /\ i \in 1 .. Len(s)
            /\ Len(s) + 1 - i + 1 \in 1 .. Len(p)
            /\ Len(s) + 1 - i + 1 # 1
            /\ Len(s) + 1 - i + 1 - 1 = Len(s) - i + 1
        BY <1>1, <1>2, <3>2
      <4>2. p[Len(s) + 1 - i + 1] = s[Len(s) - i + 1]
        BY <1>1, <4>1
      <4>. QED
        BY <2>1, <2>2, <2>3, <4>1, <4>2
    <3>. QED
      BY <3>1, <3>2
  <2>5. Reverse(p) = q
    BY <2>2, <2>3, <2>4, SeqEqual
  <2>. QED
    BY <2>5 DEF q
<1>5. p # <<>>
  BY <1>1, <1>2
<1>. QED
  BY <1>1, <1>3, <1>4, <1>5 DEF p

(* The batch holds what the stack held. *)
LEMMA Reversed ==
    /\ Reverse(<<>>) = <<>>
    /\ \A s \in Seq(Operations) :
         /\ Reverse(s) \in Seq(Operations)
         /\ s # <<>> => Reverse(s) # <<>>
         /\ ToSet(Reverse(s)) = ToSet(s)
<1>1. Reverse(<<>>) = <<>>
  BY DEF Reverse
<1>2. ASSUME NEW s \in Seq(Operations)
      PROVE  /\ Reverse(s) \in Seq(Operations)
             /\ s # <<>> => Reverse(s) # <<>>
             /\ ToSet(Reverse(s)) = ToSet(s)
  <2> DEFINE q == Reverse(s)
  <2>1. Len(s) \in Nat /\ DOMAIN s = 1 .. Len(s)
    BY LenProperties
  <2>2. /\ q \in Seq(Operations) /\ Len(q) = Len(s) /\ DOMAIN q = 1 .. Len(s)
        /\ \A i \in 1 .. Len(s) : q[i] = s[Len(s) - i + 1]
    BY <2>1 DEF Reverse
  <2>3. \A i \in 1 .. Len(s) : /\ Len(s) - i + 1 \in 1 .. Len(s)
                               /\ Len(s) - (Len(s) - i + 1) + 1 = i
    BY <2>1
  <2> HIDE DEF q
  <2>4. \A i \in 1 .. Len(s) : q[Len(s) - i + 1] = s[i]
    BY <2>2, <2>3
  <2>5. ToSet(q) = ToSet(s)
    <3>1. \A i \in DOMAIN s : s[i] \in ToSet(s)
      BY Zenon DEF ToSet
    <3>2. \A i \in DOMAIN q : q[i] \in ToSet(q)
      BY Zenon DEF ToSet
    <3>3. \A i \in 1 .. Len(s) : q[i] \in ToSet(s) /\ s[i] \in ToSet(q)
      BY <2>1, <2>2, <2>3, <2>4, <3>1, <3>2
    <3>. QED
      BY <2>1, <2>2, <3>3 DEF ToSet
  <2>6. s # <<>> => q # <<>>
    BY <2>1, <2>2, EmptySeq
  <2>. QED
    BY <2>2, <2>5, <2>6 DEF q
<1>. QED
  BY <1>1, <1>2

(* What execute() takes from the batch. *)
LEMMA Taken ==
    ASSUME NEW s \in Seq(Operations), s # <<>>
    PROVE  /\ Head(s) \in Operations /\ Tail(s) \in Seq(Operations)
           /\ ToSet(s) = {Head(s)} \union ToSet(Tail(s))
           /\ s = <<Head(s)>> \o Tail(s)
<1>1. Head(s) \in Operations /\ Tail(s) \in Seq(Operations)
  BY HeadTailProperties
<1>2. s = <<Head(s)>> \o Tail(s)
  BY HeadTailProperties
<1>. QED
  BY <1>1, <1>2, Pushed

-----------------------------------------------------------------------------
(* The invariant is inductive. *)

(* The invariant holds in the beginning. *)
LEMMA InvInit == Init => Inv
<1> SUFFICES ASSUME Init PROVE Inv
  OBVIOUS
<1> USE NullAssumption DEF Init
<1>1. TypeOK
  <2>1. <<>> \in Seq(Operations)
    BY EmptySeq
  <2>. QED
    BY <2>1 DEF TypeOK, States, RunPcs, CallPcs
<1>2. Counted
  <2>1. Inside = {}
    BY DEF Inside
  <2>. QED
    BY <2>1, FS_EmptySet DEF Counted
<1>3. FinishLast /\ Ending /\ Wakes
  BY DEF FinishLast, Ending, Wakes, Pushing
<1>4. Accounted
  BY DEF Accounted, Pushing, ToSet
<1>. QED
  BY <1>1, <1>2, <1>3, <1>4 DEF Inv

(* A thread inside is counted. *)
LEMMA InsideFinite ==
    /\ IsFiniteSet(Inside) /\ Cardinality(Inside) \in Nat
    /\ \A t \in Inside :
         /\ Cardinality(Inside \ {t}) = Cardinality(Inside) - 1
         /\ Cardinality(Inside) # 0
    /\ \A t \in Threads \ Inside :
         Cardinality(Inside \union {t}) = Cardinality(Inside) + 1
<1>1. IsFiniteSet(Inside)
  BY ThreadsAssumption, FS_Subset DEF Inside
<1>. QED
  BY <1>1, FS_CardinalityType, FS_RemoveElement, FS_AddElement, FS_EmptySet

(* What DrainProducers learns from the counter. *)
LEMMA NobodyLeft ==
    ASSUME Inv, producers = 0, state = "finishing"
    PROVE  \A t \in Threads : pc[t] = "idle"
<1>1. Inside = {}
  BY InsideFinite DEF Inv, Counted
<1>. QED
  BY <1>1 DEF Inside, Inv, FinishLast, Pushing

(* Every variable keeps its type. *)
LEMMA TypeOKStep == Inv /\ [Next]_vars => TypeOK'
<1> SUFFICES ASSUME Inv, [Next]_vars PROVE TypeOK'
  OBVIOUS
<1> USE NullAssumption, RunnerAssumption
    DEF Inv, TypeOK, States, RunPcs, CallPcs, loopVars, runVars, callVars
<1>1. ASSUME NEW t \in Threads, NEW o \in Operations, EnqueueStart(t, o)
      PROVE  TypeOK'
  BY <1>1 DEF EnqueueStart, InUserCode, Goto
<1>2. ASSUME NEW t \in Threads, FinishStart(t)
      PROVE  TypeOK'
  BY <1>2 DEF FinishStart, InUserCode, Goto
<1>3. ASSUME NEW t \in Threads, Enter(t)
      PROVE  TypeOK'
  BY <1>3 DEF Enter, Goto
<1>4. ASSUME NEW t \in Threads, EnqueueLoad(t)
      PROVE  TypeOK'
  <2>1. Top \in Operations \union {Null}
    BY Taken DEF Top
  <2>. QED
    BY <1>4, <2>1 DEF EnqueueLoad, Goto
<1>5. ASSUME NEW t \in Threads, EnqueueCas(t)
      PROVE  TypeOK'
  <2>0. TypeOK
    OBVIOUS
  <2>1. Top \in Operations \union {Null}
    BY Taken DEF Top
  <2>2. op[t] \in Operations
    BY <1>5 DEF EnqueueCas, Accounted, Pushing
  <2>3. <<op[t]>> \o stack \in Seq(Operations)
    BY <2>2, Pushed
  <2>. QED
    <3>1. CASE ~closed /\ Top = top[t]
      <4>1. /\ stack' = <<op[t]>> \o stack
            /\ op' = [op EXCEPT ![t] = Null]
            /\ top' = [top EXCEPT ![t] = Null]
            /\ pc' = [pc EXCEPT ![t] = "wake"]
            /\ UNCHANGED <<early, closed, state, waiting, producers, mutex, run,
                           batch, todo, executed>>
        BY <1>5, <3>1 DEF EnqueueCas, Goto
      <4>2. /\ op' \in [Threads -> Operations \union {Null}]
            /\ top' \in [Threads -> Operations \union {Null}]
        BY ONLY <2>0, <4>1 DEF TypeOK
      <4>3. pc' \in [Threads -> CallPcs]
        BY ONLY <2>0, <4>1 DEF TypeOK, CallPcs
      <4>. QED
        BY ONLY <2>0, <2>3, <4>1, <4>2, <4>3 DEF TypeOK
    <3>2. CASE ~(~closed /\ Top = top[t])
      <4>1. /\ top' = [top EXCEPT ![t] = Top]
            /\ early' = [early EXCEPT ![t] = waiting]
            /\ UNCHANGED <<stack, op, pc, closed, state, waiting, producers,
                           mutex, run, batch, todo, executed>>
        BY <1>5, <3>2 DEF EnqueueCas
      <4>2. /\ top' \in [Threads -> Operations \union {Null}]
            /\ early' \in [Threads -> Nat]
        BY ONLY <2>0, <2>1, <4>1 DEF TypeOK
      <4>. QED
        BY ONLY <2>0, <4>1, <4>2 DEF TypeOK
    <3>. QED
      BY <3>1, <3>2
<1>6. ASSUME NEW t \in Threads, WakeLoad(t)
      PROVE  TypeOK'
  BY <1>6 DEF WakeLoad, Goto
<1>7. ASSUME NEW t \in Threads, Notify(t)
      PROVE  TypeOK'
  BY <1>7 DEF Notify, Goto
<1>8. ASSUME NEW t \in Threads, Leave(t)
      PROVE  TypeOK'
  <2>1. t \in Inside
    BY <1>8 DEF Leave, Inside
  <2>2. Cardinality(Inside) \in Nat /\ Cardinality(Inside) # 0
    BY ONLY <2>1, InsideFinite
  <2>3. producers = Cardinality(Inside)
    BY DEF Counted
  <2>4. producers - 1 \in Nat
    BY <2>2, <2>3
  <2>. QED
    BY <1>8, <2>4 DEF Leave, Goto
<1>9. ASSUME NEW t \in Threads, FinishCas(t)
      PROVE  TypeOK'
  BY <1>9 DEF FinishCas, Goto
<1>10. CASE BeginRun
  BY <1>10 DEF BeginRun
<1>11. CASE PopAll
  <2>1. Reverse(stack) \in Seq(Operations)
    BY Reversed
  <2>. QED
    BY <1>11, <2>1 DEF PopAll
<1>12. CASE PopNothing
  BY <1>12 DEF PopNothing
<1>13. CASE CheckState
  BY <1>13 DEF CheckState
<1>14. CASE DrainProducers
  BY <1>14 DEF DrainProducers
<1>15. CASE CloseStack
  BY <1>15 DEF CloseStack
<1>16. CASE SetFinished
  BY <1>16 DEF SetFinished
<1>17. CASE ParkLock
  BY <1>17 DEF ParkLock
<1>18. CASE ParkRegister
  BY <1>18 DEF ParkRegister
<1>19. CASE ParkCheckWork
  BY <1>19 DEF ParkCheckWork
<1>20. CASE ParkCheckState
  BY <1>20 DEF ParkCheckState
<1>21. CASE ParkWakes
  BY <1>21 DEF ParkWakes
<1>22. CASE Unpark
  <2>1. waiting - 1 \in Nat
    BY <1>22 DEF Unpark, Counted
  <2>. QED
    BY <1>22, <2>1 DEF Unpark
<1>23. CASE Execute
  <2>1. Head(batch) \in Operations /\ Tail(batch) \in Seq(Operations)
    BY <1>23, Taken DEF Execute
  <2>. QED
    BY <1>23, <2>1 DEF Execute
<1>24. CASE ExecuteReturns
  BY <1>24 DEF ExecuteReturns
<1>25. CASE BatchDone
  BY <1>25 DEF BatchDone
<1>26. CASE WakesSpuriously
  BY <1>26 DEF WakesSpuriously
<1>27. CASE UNCHANGED vars
  BY <1>27 DEF vars
<1> HIDE DEF Inv, TypeOK, States, RunPcs, CallPcs, loopVars, runVars, callVars
<1>. QED
  BY <1>1, <1>2, <1>3, <1>4, <1>5, <1>6, <1>7, <1>8, <1>9,
     <1>10, <1>11, <1>12, <1>13, <1>14, <1>15, <1>16, <1>17, <1>18,
     <1>19, <1>20, <1>21, <1>22, <1>23, <1>24, <1>25, <1>26, <1>27
  DEF Next, Call, Run

(* The counters stay true. *)
LEMMA CountedStep == Inv /\ [Next]_vars => Counted'
<1> SUFFICES ASSUME Inv, [Next]_vars PROVE Counted'
  OBVIOUS
<1>0. TypeOK /\ Counted /\ Ending
  BY DEF Inv
<1> USE <1>0
    DEF TypeOK, Counted, CallPcs, loopVars, runVars, callVars
<1>1. ASSUME NEW t \in Threads, NEW o \in Operations, EnqueueStart(t, o)
      PROVE  Counted'
  <2>1. Inside' = Inside
    BY <1>1 DEF Inside, EnqueueStart, InUserCode, Goto
  <2>. QED
    BY <1>1, <2>1 DEF EnqueueStart, InUserCode, Goto
<1>2. ASSUME NEW t \in Threads, FinishStart(t)
      PROVE  Counted'
  <2>1. Inside' = Inside
    BY <1>2 DEF Inside, FinishStart, InUserCode, Goto
  <2>. QED
    BY <1>2, <2>1 DEF FinishStart, InUserCode, Goto
<1>3. ASSUME NEW t \in Threads, Enter(t)
      PROVE  Counted'
  <2>1. Inside' = Inside \union {t} /\ t \in Threads \ Inside
    BY <1>3 DEF Inside, Enter, Goto
  <2>. QED
    BY <1>3, <2>1, InsideFinite DEF Enter
<1>4. ASSUME NEW t \in Threads, EnqueueLoad(t)
      PROVE  Counted'
  <2>1. Inside' = Inside
    BY <1>4 DEF Inside, EnqueueLoad, Goto
  <2>. QED
    BY <1>4, <2>1 DEF EnqueueLoad, Goto
<1>5. ASSUME NEW t \in Threads, EnqueueCas(t)
      PROVE  Counted'
  <2>1. Inside' = Inside
    BY <1>5 DEF Inside, EnqueueCas, Goto
  <2>. QED
    BY <1>5, <2>1 DEF EnqueueCas, Goto
<1>6. ASSUME NEW t \in Threads, WakeLoad(t)
      PROVE  Counted'
  <2>1. Inside' = Inside
    BY <1>6 DEF Inside, WakeLoad, Goto
  <2>. QED
    BY <1>6, <2>1 DEF WakeLoad, Goto
<1>7. ASSUME NEW t \in Threads, Notify(t)
      PROVE  Counted'
  <2>1. Inside' = Inside
    BY <1>7 DEF Inside, Notify, Goto
  <2>. QED
    BY <1>7, <2>1 DEF Notify, Goto
<1>8. ASSUME NEW t \in Threads, Leave(t)
      PROVE  Counted'
  <2>1. Inside' = Inside \ {t} /\ t \in Inside
    BY <1>8 DEF Inside, Leave, Goto
  <2>. QED
    BY <1>8, <2>1, InsideFinite DEF Leave
<1>9. ASSUME NEW t \in Threads, FinishCas(t)
      PROVE  Counted'
  <2>1. Inside' = Inside
    BY <1>9 DEF Inside, FinishCas, Goto
  <2>. QED
    BY <1>9, <2>1 DEF FinishCas, Goto
<1>10. CASE BeginRun
  <2>1. Inside' = Inside
    BY <1>10 DEF Inside, BeginRun
  <2>. QED
    BY <1>10, <2>1 DEF BeginRun
<1>11. CASE PopAll
  <2>1. Inside' = Inside
    BY <1>11 DEF Inside, PopAll
  <2>. QED
    BY <1>11, <2>1 DEF PopAll
<1>12. CASE PopNothing
  <2>1. Inside' = Inside
    BY <1>12 DEF Inside, PopNothing
  <2>. QED
    BY <1>12, <2>1 DEF PopNothing
<1>13. CASE CheckState
  <2>1. Inside' = Inside
    BY <1>13 DEF Inside, CheckState
  <2>. QED
    BY <1>13, <2>1 DEF CheckState
<1>14. CASE DrainProducers
  <2>1. Inside' = Inside
    BY <1>14 DEF Inside, DrainProducers
  <2>. QED
    BY <1>14, <2>1 DEF DrainProducers
<1>15. CASE CloseStack
  <2>1. Inside' = Inside
    BY <1>15 DEF Inside, CloseStack
  <2>. QED
    BY <1>15, <2>1 DEF CloseStack
<1>16. CASE SetFinished
  <2>1. Inside' = Inside
    BY <1>16 DEF Inside, SetFinished
  <2>. QED
    BY <1>16, <2>1 DEF SetFinished
<1>17. CASE ParkLock
  <2>1. Inside' = Inside
    BY <1>17 DEF Inside, ParkLock
  <2>. QED
    BY <1>17, <2>1 DEF ParkLock
<1>18. CASE ParkRegister
  <2>1. Inside' = Inside
    BY <1>18 DEF Inside, ParkRegister
  <2>. QED
    BY <1>18, <2>1 DEF ParkRegister
<1>19. CASE ParkCheckWork
  <2>1. Inside' = Inside
    BY <1>19 DEF Inside, ParkCheckWork
  <2>. QED
    BY <1>19, <2>1 DEF ParkCheckWork
<1>20. CASE ParkCheckState
  <2>1. Inside' = Inside
    BY <1>20 DEF Inside, ParkCheckState
  <2>. QED
    BY <1>20, <2>1 DEF ParkCheckState
<1>21. CASE ParkWakes
  <2>1. Inside' = Inside
    BY <1>21 DEF Inside, ParkWakes
  <2>. QED
    BY <1>21, <2>1 DEF ParkWakes
<1>22. CASE Unpark
  <2>1. Inside' = Inside
    BY <1>22 DEF Inside, Unpark
  <2>. QED
    BY <1>22, <2>1 DEF Unpark
<1>23. CASE Execute
  <2>1. Inside' = Inside
    BY <1>23 DEF Inside, Execute
  <2>. QED
    BY <1>23, <2>1 DEF Execute
<1>24. CASE ExecuteReturns
  <2>1. Inside' = Inside
    BY <1>24 DEF Inside, ExecuteReturns
  <2>. QED
    BY <1>24, <2>1 DEF ExecuteReturns
<1>25. CASE BatchDone
  <2>1. Inside' = Inside
    BY <1>25 DEF Inside, BatchDone
  <2>. QED
    BY <1>25, <2>1 DEF BatchDone
<1>26. CASE WakesSpuriously
  <2>1. Inside' = Inside
    BY <1>26 DEF Inside, WakesSpuriously
  <2>. QED
    BY <1>26, <2>1 DEF WakesSpuriously
<1>27. CASE UNCHANGED vars
  <2>1. Inside' = Inside
    BY <1>27 DEF Inside, vars
  <2>. QED
    BY <1>27, <2>1 DEF vars
<1> HIDE DEF TypeOK, Counted, CallPcs, loopVars, runVars, callVars
<1>. QED
  BY <1>1, <1>2, <1>3, <1>4, <1>5, <1>6, <1>7, <1>8, <1>9,
     <1>10, <1>11, <1>12, <1>13, <1>14, <1>15, <1>16, <1>17, <1>18,
     <1>19, <1>20, <1>21, <1>22, <1>23, <1>24, <1>25, <1>26, <1>27
  DEF Next, Call, Run

(* Nothing is pushed once finish() was called. *)
LEMMA FinishLastStep == Inv /\ [Next]_vars => FinishLast'
<1> SUFFICES ASSUME Inv, [Next]_vars PROVE FinishLast'
  OBVIOUS
<1>0. TypeOK /\ FinishLast /\ Ending
  BY DEF Inv
<1> USE <1>0
    DEF TypeOK, FinishLast, Finishing, Pushing, CallPcs, loopVars, runVars,
        callVars
<1>1. ASSUME NEW t \in Threads, NEW o \in Operations, EnqueueStart(t, o)
      PROVE  FinishLast'
  BY <1>1 DEF EnqueueStart, InUserCode, Goto
<1>2. ASSUME NEW t \in Threads, FinishStart(t)
      PROVE  FinishLast'
  BY <1>2 DEF FinishStart, InUserCode, Goto
<1>3. ASSUME NEW t \in Threads, Enter(t)
      PROVE  FinishLast'
  BY <1>3 DEF Enter, Goto
<1>4. ASSUME NEW t \in Threads, EnqueueLoad(t)
      PROVE  FinishLast'
  BY <1>4 DEF EnqueueLoad, Goto
<1>5. ASSUME NEW t \in Threads, EnqueueCas(t)
      PROVE  FinishLast'
  BY <1>5 DEF EnqueueCas, Goto
<1>6. ASSUME NEW t \in Threads, WakeLoad(t)
      PROVE  FinishLast'
  BY <1>6 DEF WakeLoad, Goto
<1>7. ASSUME NEW t \in Threads, Notify(t)
      PROVE  FinishLast'
  BY <1>7 DEF Notify, Goto
<1>8. ASSUME NEW t \in Threads, Leave(t)
      PROVE  FinishLast'
  BY <1>8 DEF Leave, Goto
<1>9. ASSUME NEW t \in Threads, FinishCas(t)
      PROVE  FinishLast'
  BY <1>9 DEF FinishCas, Goto
<1>10. CASE BeginRun
  BY <1>10 DEF BeginRun, Ending
<1>11. CASE PopAll
  BY <1>11 DEF PopAll
<1>12. CASE PopNothing
  BY <1>12 DEF PopNothing
<1>13. CASE CheckState
  BY <1>13 DEF CheckState
<1>14. CASE DrainProducers
  BY <1>14 DEF DrainProducers
<1>15. CASE CloseStack
  BY <1>15 DEF CloseStack
<1>16. CASE SetFinished
  BY <1>16 DEF SetFinished, Ending
<1>17. CASE ParkLock
  BY <1>17 DEF ParkLock
<1>18. CASE ParkRegister
  BY <1>18 DEF ParkRegister
<1>19. CASE ParkCheckWork
  BY <1>19 DEF ParkCheckWork
<1>20. CASE ParkCheckState
  BY <1>20 DEF ParkCheckState
<1>21. CASE ParkWakes
  BY <1>21 DEF ParkWakes
<1>22. CASE Unpark
  BY <1>22 DEF Unpark
<1>23. CASE Execute
  BY <1>23 DEF Execute
<1>24. CASE ExecuteReturns
  BY <1>24 DEF ExecuteReturns
<1>25. CASE BatchDone
  BY <1>25 DEF BatchDone
<1>26. CASE WakesSpuriously
  BY <1>26 DEF WakesSpuriously
<1>27. CASE UNCHANGED vars
  BY <1>27 DEF vars
<1> HIDE DEF TypeOK, FinishLast, Finishing, Pushing, CallPcs, loopVars,
             runVars, callVars
<1>. QED
  BY <1>1, <1>2, <1>3, <1>4, <1>5, <1>6, <1>7, <1>8, <1>9,
     <1>10, <1>11, <1>12, <1>13, <1>14, <1>15, <1>16, <1>17, <1>18,
     <1>19, <1>20, <1>21, <1>22, <1>23, <1>24, <1>25, <1>26, <1>27
  DEF Next, Call, Run

(* What run() has made sure of stays so. *)
LEMMA EndingStep == Inv /\ [Next]_vars => Ending'
<1> SUFFICES ASSUME Inv, [Next]_vars PROVE Ending'
  OBVIOUS
<1>0. TypeOK /\ FinishLast /\ Ending
  BY DEF Inv
<1> USE <1>0, RunnerAssumption
    DEF TypeOK, FinishLast, Ending, Finishing, Pushing, CallPcs, RunPcs,
        States,
        loopVars, runVars, callVars
<1>1. ASSUME NEW t \in Threads, NEW o \in Operations, EnqueueStart(t, o)
      PROVE  Ending'
  BY <1>1 DEF EnqueueStart, InUserCode, Goto
<1>2. ASSUME NEW t \in Threads, FinishStart(t)
      PROVE  Ending'
  BY <1>2 DEF FinishStart, InUserCode, Goto
<1>3. ASSUME NEW t \in Threads, Enter(t)
      PROVE  Ending'
  BY <1>3 DEF Enter, Goto
<1>4. ASSUME NEW t \in Threads, EnqueueLoad(t)
      PROVE  Ending'
  BY <1>4 DEF EnqueueLoad, Goto
<1>5. ASSUME NEW t \in Threads, EnqueueCas(t)
      PROVE  Ending'
  BY <1>5 DEF EnqueueCas, Goto
<1>6. ASSUME NEW t \in Threads, WakeLoad(t)
      PROVE  Ending'
  BY <1>6 DEF WakeLoad, Goto
<1>7. ASSUME NEW t \in Threads, Notify(t)
      PROVE  Ending'
  BY <1>7 DEF Notify, Goto
<1>8. ASSUME NEW t \in Threads, Leave(t)
      PROVE  Ending'
  BY <1>8 DEF Leave, Goto
<1>9. ASSUME NEW t \in Threads, FinishCas(t)
      PROVE  Ending'
  BY <1>9 DEF FinishCas, Goto
<1>10. CASE BeginRun
  BY <1>10 DEF BeginRun
<1>11. CASE PopAll
  BY <1>11 DEF PopAll
<1>12. CASE PopNothing
  BY <1>12 DEF PopNothing
<1>13. CASE CheckState
  BY <1>13 DEF CheckState
<1>14. CASE DrainProducers
  <2>1. \A t \in Threads : pc[t] = "idle"
    BY <1>14, NobodyLeft DEF DrainProducers
  <2>. QED
    BY <1>14, <2>1 DEF DrainProducers
<1>15. CASE CloseStack
  BY <1>15 DEF CloseStack
<1>16. CASE SetFinished
  BY <1>16 DEF SetFinished
<1>17. CASE ParkLock
  BY <1>17 DEF ParkLock
<1>18. CASE ParkRegister
  BY <1>18 DEF ParkRegister
<1>19. CASE ParkCheckWork
  BY <1>19 DEF ParkCheckWork
<1>20. CASE ParkCheckState
  BY <1>20 DEF ParkCheckState
<1>21. CASE ParkWakes
  BY <1>21 DEF ParkWakes
<1>22. CASE Unpark
  BY <1>22 DEF Unpark
<1>23. CASE Execute
  BY <1>23 DEF Execute
<1>24. CASE ExecuteReturns
  BY <1>24 DEF ExecuteReturns
<1>25. CASE BatchDone
  BY <1>25 DEF BatchDone
<1>26. CASE WakesSpuriously
  BY <1>26 DEF WakesSpuriously
<1>27. CASE UNCHANGED vars
  BY <1>27 DEF vars
<1> HIDE DEF TypeOK, FinishLast, Ending, Finishing, Pushing, CallPcs, RunPcs,
             States, loopVars, runVars, callVars
<1>. QED
  BY <1>1, <1>2, <1>3, <1>4, <1>5, <1>6, <1>7, <1>8, <1>9,
     <1>10, <1>11, <1>12, <1>13, <1>14, <1>15, <1>16, <1>17, <1>18,
     <1>19, <1>20, <1>21, <1>22, <1>23, <1>24, <1>25, <1>26, <1>27
  DEF Next, Call, Run

(* No operation is lost. *)
LEMMA AccountedStep == Inv /\ [Next]_vars => Accounted'
<1> SUFFICES ASSUME Inv, [Next]_vars PROVE Accounted'
  OBVIOUS
<1>0. TypeOK /\ Ending /\ Accounted
  BY DEF Inv
<1> USE <1>0, NullAssumption
    DEF TypeOK, Accounted, Pushing, CallPcs, loopVars, runVars, callVars
<1>1. ASSUME NEW t \in Threads, NEW o \in Operations, EnqueueStart(t, o)
      PROVE  Accounted'
  BY <1>1 DEF EnqueueStart, InUserCode, Goto
<1>2. ASSUME NEW t \in Threads, FinishStart(t)
      PROVE  Accounted'
  BY <1>2 DEF FinishStart, InUserCode, Goto
<1>3. ASSUME NEW t \in Threads, Enter(t)
      PROVE  Accounted'
  BY <1>3 DEF Enter, Goto
<1>4. ASSUME NEW t \in Threads, EnqueueLoad(t)
      PROVE  Accounted'
  BY <1>4 DEF EnqueueLoad, Goto
<1>5. ASSUME NEW t \in Threads, EnqueueCas(t)
      PROVE  Accounted'
  <2>1. op[t] \in Operations
    BY <1>5 DEF EnqueueCas
  <2>2. ToSet(<<op[t]>> \o stack) = {op[t]} \union ToSet(stack)
    BY <2>1, Pushed
  <2>3. CASE ~closed /\ Top = top[t]
    <3>1. /\ ToSet(stack') = {op[t]} \union ToSet(stack)
          /\ op' = [op EXCEPT ![t] = Null] /\ pc' = [pc EXCEPT ![t] = "wake"]
          /\ UNCHANGED <<batch, executed, todo>>
      BY <1>5, <2>2, <2>3 DEF EnqueueCas, Goto
    <3>. QED
      BY <2>1, <3>1
  <2>4. CASE ~(~closed /\ Top = top[t])
    BY <1>5, <2>4 DEF EnqueueCas
  <2>. QED
    BY <2>3, <2>4
<1>6. ASSUME NEW t \in Threads, WakeLoad(t)
      PROVE  Accounted'
  BY <1>6 DEF WakeLoad, Goto
<1>7. ASSUME NEW t \in Threads, Notify(t)
      PROVE  Accounted'
  BY <1>7 DEF Notify, Goto
<1>8. ASSUME NEW t \in Threads, Leave(t)
      PROVE  Accounted'
  BY <1>8 DEF Leave, Goto
<1>9. ASSUME NEW t \in Threads, FinishCas(t)
      PROVE  Accounted'
  BY <1>9 DEF FinishCas, Goto
<1>10. CASE BeginRun
  BY <1>10 DEF BeginRun
<1>11. CASE PopAll
  <2>1. ToSet(batch') = ToSet(stack) /\ ToSet(stack') = {} /\ ToSet(batch) = {}
    <3>1. batch = <<>> /\ batch' = Reverse(stack) /\ stack' = <<>>
      BY <1>11 DEF PopAll, Ending
    <3>2. ToSet(<<>>) = {}
      BY DEF ToSet
    <3>. QED
      BY <3>1, <3>2, Reversed
  <2>. QED
    BY <1>11, <2>1 DEF PopAll
<1>12. CASE PopNothing
  BY <1>12 DEF PopNothing
<1>13. CASE CheckState
  BY <1>13 DEF CheckState
<1>14. CASE DrainProducers
  BY <1>14 DEF DrainProducers
<1>15. CASE CloseStack
  BY <1>15 DEF CloseStack
<1>16. CASE SetFinished
  BY <1>16 DEF SetFinished
<1>17. CASE ParkLock
  BY <1>17 DEF ParkLock
<1>18. CASE ParkRegister
  BY <1>18 DEF ParkRegister
<1>19. CASE ParkCheckWork
  BY <1>19 DEF ParkCheckWork
<1>20. CASE ParkCheckState
  BY <1>20 DEF ParkCheckState
<1>21. CASE ParkWakes
  BY <1>21 DEF ParkWakes
<1>22. CASE Unpark
  BY <1>22 DEF Unpark
<1>23. CASE Execute
  <2>1. ToSet(batch) = {Head(batch)} \union ToSet(Tail(batch))
    BY <1>23, Taken DEF Execute
  <2>. QED
    BY <1>23, <2>1 DEF Execute
<1>24. CASE ExecuteReturns
  BY <1>24 DEF ExecuteReturns
<1>25. CASE BatchDone
  BY <1>25 DEF BatchDone
<1>26. CASE WakesSpuriously
  BY <1>26 DEF WakesSpuriously
<1>27. CASE UNCHANGED vars
  BY <1>27 DEF vars
<1> HIDE DEF TypeOK, Accounted, Pushing, CallPcs, loopVars, runVars, callVars
<1>. QED
  BY <1>1, <1>2, <1>3, <1>4, <1>5, <1>6, <1>7, <1>8, <1>9,
     <1>10, <1>11, <1>12, <1>13, <1>14, <1>15, <1>16, <1>17, <1>18,
     <1>19, <1>20, <1>21, <1>22, <1>23, <1>24, <1>25, <1>26, <1>27
  DEF Next, Call, Run

(* No wakeup is lost. *)
LEMMA WakesStep == Inv /\ [Next]_vars => Wakes'
<1> SUFFICES ASSUME Inv, [Next]_vars PROVE Wakes'
  OBVIOUS
<1>0. TypeOK /\ Counted /\ Ending /\ Wakes
  BY DEF Inv
<1> USE <1>0
    DEF TypeOK, Wakes, Waking, CallPcs, loopVars, runVars, callVars
<1>1. ASSUME NEW t \in Threads, NEW o \in Operations, EnqueueStart(t, o)
      PROVE  Wakes'
  BY <1>1 DEF EnqueueStart, InUserCode, Goto
<1>2. ASSUME NEW t \in Threads, FinishStart(t)
      PROVE  Wakes'
  BY <1>2 DEF FinishStart, InUserCode, Goto
<1>3. ASSUME NEW t \in Threads, Enter(t)
      PROVE  Wakes'
  BY <1>3 DEF Enter, Goto
<1>4. ASSUME NEW t \in Threads, EnqueueLoad(t)
      PROVE  Wakes'
  BY <1>4 DEF EnqueueLoad, Goto
<1>5. ASSUME NEW t \in Threads, EnqueueCas(t)
      PROVE  Wakes'
  BY <1>5 DEF EnqueueCas, Goto
<1>6. ASSUME NEW t \in Threads, WakeLoad(t)
      PROVE  Wakes'
  BY <1>6 DEF WakeLoad, Goto, Counted
<1>7. ASSUME NEW t \in Threads, Notify(t)
      PROVE  Wakes'
  BY <1>7 DEF Notify, Goto, Counted
<1>8. ASSUME NEW t \in Threads, Leave(t)
      PROVE  Wakes'
  BY <1>8 DEF Leave, Goto
<1>9. ASSUME NEW t \in Threads, FinishCas(t)
      PROVE  Wakes'
  BY <1>9 DEF FinishCas, Goto
<1>10. CASE BeginRun
  BY <1>10 DEF BeginRun
<1>11. CASE PopAll
  BY <1>11 DEF PopAll
<1>12. CASE PopNothing
  BY <1>12 DEF PopNothing
<1>13. CASE CheckState
  BY <1>13 DEF CheckState
<1>14. CASE DrainProducers
  BY <1>14 DEF DrainProducers
<1>15. CASE CloseStack
  BY <1>15 DEF CloseStack
<1>16. CASE SetFinished
  BY <1>16 DEF SetFinished
<1>17. CASE ParkLock
  BY <1>17 DEF ParkLock
<1>18. CASE ParkRegister
  BY <1>18 DEF ParkRegister
<1>19. CASE ParkCheckWork
  BY <1>19 DEF ParkCheckWork
<1>20. CASE ParkCheckState
  BY <1>20 DEF ParkCheckState
<1>21. CASE ParkWakes
  BY <1>21 DEF ParkWakes
<1>22. CASE Unpark
  BY <1>22 DEF Unpark
<1>23. CASE Execute
  BY <1>23 DEF Execute
<1>24. CASE ExecuteReturns
  BY <1>24 DEF ExecuteReturns
<1>25. CASE BatchDone
  BY <1>25 DEF BatchDone
<1>26. CASE WakesSpuriously
  BY <1>26 DEF WakesSpuriously
<1>27. CASE UNCHANGED vars
  BY <1>27 DEF vars
<1> HIDE DEF TypeOK, Wakes, Waking, CallPcs, loopVars, runVars, callVars
<1>. QED
  BY <1>1, <1>2, <1>3, <1>4, <1>5, <1>6, <1>7, <1>8, <1>9,
     <1>10, <1>11, <1>12, <1>13, <1>14, <1>15, <1>16, <1>17, <1>18,
     <1>19, <1>20, <1>21, <1>22, <1>23, <1>24, <1>25, <1>26, <1>27
  DEF Next, Call, Run

(* The invariant is inductive. *)
LEMMA InvStep == Inv /\ [Next]_vars => Inv'
  BY TypeOKStep, CountedStep, FinishLastStep, EndingStep, AccountedStep,
     WakesStep
  DEF Inv

-----------------------------------------------------------------------------
(* What follows, for any threads and operations. *)

(* The invariant holds in every behaviour of a loop, however many threads  *)
(* call enqueue() and whichever calls finish().                            *)
THEOREM Invariance == Spec => []Inv
  BY InvInit, InvStep, PTL DEF Spec

(* Every variable keeps its type: neither counter goes below zero. *)
THEOREM TypeCorrect == Spec => []TypeOK
<1>1. Inv => TypeOK
  BY DEF Inv
<1>. QED
  BY <1>1, Invariance, PTL

(* Where the accesses to waiting_ and head_ have one order, run() sleeps   *)
(* on nothing that nobody is about to wake it for. That order is the       *)
(* assumption: acquire and release alone do not give it.                   *)
THEOREM WakeupsArrive ==
    ASSUME ~EarlyLoad
    PROVE  Spec => []NoLostWakeup
<1>1. Inv => NoLostWakeup
  BY DEF Inv, Wakes, Waking, NoLostWakeup
<1>. QED
  BY <1>1, Invariance, PTL

(* When run() returns the loop may be destroyed: nobody is inside it, and  *)
(* everything that was enqueued was executed.                              *)
THEOREM DestructionSafe == Spec => []LoopMayBeDestroyed
<1>1. Inv => LoopMayBeDestroyed
  <2> SUFFICES ASSUME Inv PROVE LoopMayBeDestroyed
    OBVIOUS
  <2>1. ASSUME run = "returned"
        PROVE  /\ \A t \in Threads : pc[t] = "idle"
               /\ stack = <<>> /\ closed /\ state = "finished"
               /\ batch = <<>>
    BY <2>1 DEF Inv, Ending
  <2>2. ASSUME run = "returned" PROVE executed = Operations \ todo
    <3>1. ToSet(stack) = {} /\ ToSet(batch) = {}
      BY <2>1, <2>2 DEF ToSet
    <3>2. \A t \in Threads : op[t] = Null
      BY <2>1, <2>2 DEF Inv, Accounted, Pushing
    <3>. QED
      BY <3>1, <3>2, NullAssumption DEF Inv, Accounted, TypeOK
  <2>3. \A t \in Threads : pc[t] \in {"load", "cas"} => ~closed
    BY DEF Inv, Ending
  <2>. QED
    BY <2>1, <2>2, <2>3 DEF LoopMayBeDestroyed
<1>. QED
  BY <1>1, Invariance, PTL

(* Every step is a step of the contract, or none of its steps. *)
LEMMA StepRefines == Inv /\ [Next]_vars => [Contract!Next]_(Contract!vars)
<1> SUFFICES ASSUME Inv, [Next]_vars PROVE [Contract!Next]_(Contract!vars)
  OBVIOUS
<1>0. TypeOK /\ FinishLast /\ Ending /\ Accounted
  BY DEF Inv
<1> USE <1>0 DEF loopVars, runVars, callVars, Contract!vars
<1>1. ASSUME NEW t \in Threads, NEW o \in Operations, EnqueueStart(t, o)
      PROVE  [Contract!Next]_(Contract!vars)
  <2>1. /\ UNCHANGED <<stack, batch>>
        /\ (state \in {"finishing", "finished"})' <=>
             state \in {"finishing", "finished"}
        /\ (run = "returned")' <=> run = "returned"
    BY <1>1 DEF EnqueueStart, InUserCode, Goto
  <2>. QED
    BY <2>1
<1>2. ASSUME NEW t \in Threads, FinishStart(t)
      PROVE  [Contract!Next]_(Contract!vars)
  <2>1. /\ UNCHANGED <<stack, batch>>
        /\ (state \in {"finishing", "finished"})' <=>
             state \in {"finishing", "finished"}
        /\ (run = "returned")' <=> run = "returned"
    BY <1>2 DEF FinishStart, InUserCode, Goto
  <2>. QED
    BY <2>1
<1>3. ASSUME NEW t \in Threads, Enter(t)
      PROVE  [Contract!Next]_(Contract!vars)
  <2>1. /\ UNCHANGED <<stack, batch>>
        /\ (state \in {"finishing", "finished"})' <=>
             state \in {"finishing", "finished"}
        /\ (run = "returned")' <=> run = "returned"
    BY <1>3 DEF Enter, Goto
  <2>. QED
    BY <2>1
<1>4. ASSUME NEW t \in Threads, EnqueueLoad(t)
      PROVE  [Contract!Next]_(Contract!vars)
  <2>1. /\ UNCHANGED <<stack, batch>>
        /\ (state \in {"finishing", "finished"})' <=>
             state \in {"finishing", "finished"}
        /\ (run = "returned")' <=> run = "returned"
    BY <1>4 DEF EnqueueLoad, Goto
  <2>. QED
    BY <2>1
<1>5. ASSUME NEW t \in Threads, EnqueueCas(t)
      PROVE  [Contract!Next]_(Contract!vars)
  <2>1. op[t] \in Operations /\ state \notin {"finishing", "finished"}
    BY <1>5 DEF EnqueueCas, Accounted, FinishLast, Pushing, TypeOK
  <2>2. CASE ~closed /\ Top = top[t]
    <3>1. stack' = <<op[t]>> \o stack /\ UNCHANGED <<state, run, batch>>
      BY <1>5, <2>2 DEF EnqueueCas
    <3>2. Reverse(stack') = Append(Reverse(stack), op[t])
      BY <2>1, <3>1, Pushed DEF TypeOK
    <3>3. batch \o Append(Reverse(stack), op[t])
            = Append(batch \o Reverse(stack), op[t])
      BY <2>1, Reversed, AppendIsConcat, ConcatAssociative, ConcatProperties
      DEF TypeOK
    <3>4. Contract!Enqueue(op[t])
      BY <2>1, <3>1, <3>2, <3>3 DEF Contract!Enqueue
    <3>. QED
      BY <2>1, <3>4 DEF Contract!Next
  <2>3. CASE ~(~closed /\ Top = top[t])
    BY <1>5, <2>3 DEF EnqueueCas
  <2>. QED
    BY <2>2, <2>3
<1>6. ASSUME NEW t \in Threads, WakeLoad(t)
      PROVE  [Contract!Next]_(Contract!vars)
  <2>1. /\ UNCHANGED <<stack, batch>>
        /\ (state \in {"finishing", "finished"})' <=>
             state \in {"finishing", "finished"}
        /\ (run = "returned")' <=> run = "returned"
    BY <1>6 DEF WakeLoad, Goto
  <2>. QED
    BY <2>1
<1>7. ASSUME NEW t \in Threads, Notify(t)
      PROVE  [Contract!Next]_(Contract!vars)
  <2>1. /\ UNCHANGED <<stack, batch>>
        /\ (state \in {"finishing", "finished"})' <=>
             state \in {"finishing", "finished"}
        /\ (run = "returned")' <=> run = "returned"
    BY <1>7 DEF Notify, Goto
  <2>. QED
    BY <2>1
<1>8. ASSUME NEW t \in Threads, Leave(t)
      PROVE  [Contract!Next]_(Contract!vars)
  <2>1. /\ UNCHANGED <<stack, batch>>
        /\ (state \in {"finishing", "finished"})' <=>
             state \in {"finishing", "finished"}
        /\ (run = "returned")' <=> run = "returned"
    BY <1>8 DEF Leave, Goto
  <2>. QED
    BY <2>1
<1>9. ASSUME NEW t \in Threads, FinishCas(t)
      PROVE  [Contract!Next]_(Contract!vars)
  <2>1. Contract!Finish
    BY <1>9 DEF FinishCas, FinishLast, Contract!Finish
  <2>. QED
    BY <2>1 DEF Contract!Next
<1>10. CASE BeginRun
  <2>1. /\ UNCHANGED <<stack, batch>>
        /\ (state \in {"finishing", "finished"})' <=>
             state \in {"finishing", "finished"}
        /\ (run = "returned")' <=> run = "returned"
    BY <1>10 DEF BeginRun
  <2>. QED
    BY <2>1
<1>11. CASE PopAll
  <2>1. /\ batch = <<>> /\ batch' = Reverse(stack) /\ stack' = <<>>
        /\ Reverse(stack) \in Seq(Operations)
        /\ state' = state /\ run # "returned" /\ run' # "returned"
    BY <1>11, Reversed DEF PopAll, Ending, TypeOK
  <2>2. Reverse(stack') = <<>>
    BY <2>1, Reversed
  <2>3. batch' \o Reverse(stack') = batch \o Reverse(stack)
    BY <2>1, <2>2, ConcatEmptySeq
  <2>. QED
    BY <2>1, <2>3
<1>12. CASE PopNothing
  <2>1. /\ UNCHANGED <<stack, batch>>
        /\ (state \in {"finishing", "finished"})' <=>
             state \in {"finishing", "finished"}
        /\ (run = "returned")' <=> run = "returned"
    BY <1>12 DEF PopNothing
  <2>. QED
    BY <2>1
<1>13. CASE CheckState
  <2>1. /\ UNCHANGED <<stack, batch>>
        /\ (state \in {"finishing", "finished"})' <=>
             state \in {"finishing", "finished"}
        /\ (run = "returned")' <=> run = "returned"
    BY <1>13 DEF CheckState
  <2>. QED
    BY <2>1
<1>14. CASE DrainProducers
  <2>1. /\ UNCHANGED <<stack, batch>>
        /\ (state \in {"finishing", "finished"})' <=>
             state \in {"finishing", "finished"}
        /\ (run = "returned")' <=> run = "returned"
    BY <1>14 DEF DrainProducers
  <2>. QED
    BY <2>1
<1>15. CASE CloseStack
  <2>1. /\ UNCHANGED <<stack, batch>>
        /\ (state \in {"finishing", "finished"})' <=>
             state \in {"finishing", "finished"}
        /\ (run = "returned")' <=> run = "returned"
    BY <1>15 DEF CloseStack
  <2>. QED
    BY <2>1
<1>16. CASE SetFinished
  <2>1. batch = <<>> /\ stack = <<>> /\ state = "finishing"
    BY <1>16 DEF SetFinished, Ending
  <2>2. batch \o Reverse(stack) = <<>>
    BY <2>1, Reversed
  <2>3. Contract!Return
    BY <1>16, <2>1, <2>2 DEF SetFinished, Contract!Return
  <2>. QED
    BY <2>3 DEF Contract!Next
<1>17. CASE ParkLock
  <2>1. /\ UNCHANGED <<stack, batch>>
        /\ (state \in {"finishing", "finished"})' <=>
             state \in {"finishing", "finished"}
        /\ (run = "returned")' <=> run = "returned"
    BY <1>17 DEF ParkLock
  <2>. QED
    BY <2>1
<1>18. CASE ParkRegister
  <2>1. /\ UNCHANGED <<stack, batch>>
        /\ (state \in {"finishing", "finished"})' <=>
             state \in {"finishing", "finished"}
        /\ (run = "returned")' <=> run = "returned"
    BY <1>18 DEF ParkRegister
  <2>. QED
    BY <2>1
<1>19. CASE ParkCheckWork
  <2>1. /\ UNCHANGED <<stack, batch>>
        /\ (state \in {"finishing", "finished"})' <=>
             state \in {"finishing", "finished"}
        /\ (run = "returned")' <=> run = "returned"
    BY <1>19 DEF ParkCheckWork
  <2>. QED
    BY <2>1
<1>20. CASE ParkCheckState
  <2>1. /\ UNCHANGED <<stack, batch>>
        /\ (state \in {"finishing", "finished"})' <=>
             state \in {"finishing", "finished"}
        /\ (run = "returned")' <=> run = "returned"
    BY <1>20 DEF ParkCheckState
  <2>. QED
    BY <2>1
<1>21. CASE ParkWakes
  <2>1. /\ UNCHANGED <<stack, batch>>
        /\ (state \in {"finishing", "finished"})' <=>
             state \in {"finishing", "finished"}
        /\ (run = "returned")' <=> run = "returned"
    BY <1>21 DEF ParkWakes
  <2>. QED
    BY <2>1
<1>22. CASE Unpark
  <2>1. /\ UNCHANGED <<stack, batch>>
        /\ (state \in {"finishing", "finished"})' <=>
             state \in {"finishing", "finished"}
        /\ (run = "returned")' <=> run = "returned"
    BY <1>22 DEF Unpark
  <2>. QED
    BY <2>1
<1>23. CASE Execute
  <2>1. /\ batch \in Seq(Operations) /\ batch # <<>>
        /\ batch' = Tail(batch) /\ UNCHANGED <<stack, state>>
        /\ Reverse(stack) \in Seq(Operations)
        /\ run # "returned" /\ run' # "returned"
    BY <1>23, Reversed DEF Execute, TypeOK
  <2>2. /\ batch \o Reverse(stack) # <<>>
        /\ Tail(batch \o Reverse(stack)) = Tail(batch) \o Reverse(stack)
    BY <2>1
  <2>3. Contract!Execute
    BY <2>1, <2>2 DEF Contract!Execute
  <2>. QED
    BY <2>3 DEF Contract!Next
<1>24. CASE ExecuteReturns
  <2>1. /\ UNCHANGED <<stack, batch>>
        /\ (state \in {"finishing", "finished"})' <=>
             state \in {"finishing", "finished"}
        /\ (run = "returned")' <=> run = "returned"
    BY <1>24 DEF ExecuteReturns
  <2>. QED
    BY <2>1
<1>25. CASE BatchDone
  <2>1. /\ UNCHANGED <<stack, batch>>
        /\ (state \in {"finishing", "finished"})' <=>
             state \in {"finishing", "finished"}
        /\ (run = "returned")' <=> run = "returned"
    BY <1>25 DEF BatchDone
  <2>. QED
    BY <2>1
<1>26. CASE WakesSpuriously
  <2>1. /\ UNCHANGED <<stack, batch>>
        /\ (state \in {"finishing", "finished"})' <=>
             state \in {"finishing", "finished"}
        /\ (run = "returned")' <=> run = "returned"
    BY <1>26 DEF WakesSpuriously
  <2>. QED
    BY <2>1
<1>27. CASE UNCHANGED vars
  BY <1>27 DEF vars
<1> HIDE DEF loopVars, runVars, callVars, Contract!vars
<1>. QED
  BY <1>1, <1>2, <1>3, <1>4, <1>5, <1>6, <1>7, <1>8, <1>9,
     <1>10, <1>11, <1>12, <1>13, <1>14, <1>15, <1>16, <1>17, <1>18,
     <1>19, <1>20, <1>21, <1>22, <1>23, <1>24, <1>25, <1>26, <1>27
  DEF Next, Call, Run

(* The loop implements its contract, for any number of producers: what was *)
(* enqueued is executed first in first out, and run() returns when it was  *)
(* told to and nothing is left.                                            *)
THEOREM LoopImplementsContract == Spec => ContractSpec
<1>1. Init => Contract!Init
  <2> SUFFICES ASSUME Init PROVE Contract!Init
    OBVIOUS
  <2>1. <<>> \o Reverse(<<>>) = <<>>
    BY Reversed
  <2>. QED
    BY <2>1 DEF Init, Contract!Init
<1>2. Inv /\ [Next]_vars => [Contract!Next]_(Contract!vars)
  BY StepRefines
<1>. QED
  BY <1>1, <1>2, Invariance, PTL DEF Spec, ContractSpec, Contract!Spec
=============================================================================
