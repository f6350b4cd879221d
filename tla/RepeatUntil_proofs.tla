------------------------- MODULE RepeatUntil_proofs -------------------------
(***************************************************************************)
(* Proofs about RepeatUntil, for any threads and number of iterations.     *)
(***************************************************************************)
EXTENDS RepeatUntil, TLAPS

-----------------------------------------------------------------------------
(* The inductive invariant, in named parts. *)

Starting == {"start", "cas"}

NobodyDrains == \A t \in Threads : drain[t] = "none"
NobodyFinishes == \A t \in Threads : finish[t] = "none"

(* There is one drain() and one completion; when both are under way, the   *)
(* drain() has started the child that completes.                           *)
OneEach ==
    /\ \A t, u \in Threads : drain[t] # "none" /\ drain[u] # "none" => t = u
    /\ \A t, u \in Threads : finish[t] # "none" /\ finish[u] # "none" => t = u
    /\ \A t, u \in Threads :
         drain[t] # "none" /\ finish[u] # "none" => drain[t] \in Starting
    /\ \A t \in Threads : finish[t] # "none" => drain[t] \in {"none", "start"}

(* The answer ends everything. *)
Unanswered ==
    /\ answers = IF answer = None THEN 0 ELSE 1
    /\ answer # None => NobodyDrains /\ NobodyFinishes /\ current \in {"none", "done"}
    /\ ~started => /\ NobodyDrains /\ NobodyFinishes
                   /\ current = "none" /\ answer = None

(* Where drain() is, and what it knows of the child. *)
DrainKnows ==
    \A t \in Threads :
        /\ drain[t] = "check" =>
             current \in {"none", "done"} /\ stored = None
        /\ drain[t] \in {"load", "connect"} => current = "none"
        /\ drain[t] = "connect" => drained[t] = epoch
        /\ drain[t] \in Starting =>
             /\ current # "none" /\ drained[t] = child_epoch
             /\ epoch \in {child_epoch, child_epoch + 1}
             /\ epoch = child_epoch + 1 =>
                  current = "done" /\ stored # None /\ NobodyFinishes
             /\ epoch = child_epoch /\ current = "done" => ~NobodyFinishes
        /\ drain[t] = "process" => current = "done" /\ stored # None

(* Where finish_child() is: it has the epoch of the child, and finds it    *)
(* advanced if and only if drain() has left.                               *)
FinishKnows ==
    \A t \in Threads :
        /\ finish[t] \in {"store", "cas"} =>
             /\ finished[t] = child_epoch
             /\ epoch \in {child_epoch, child_epoch + 1}
             /\ epoch = child_epoch + 1 <=> NobodyDrains
        /\ finish[t] = "store" => current = "completing"
        /\ finish[t] \in {"cas", "process"} => current = "done" /\ stored # None
        /\ finish[t] = "process" => NobodyDrains

(* A child that runs is watched over by the epoch. *)
ChildKnows ==
    /\ current = "running" =>
         /\ NobodyFinishes
         /\ epoch \in {child_epoch, child_epoch + 1}
         /\ epoch = child_epoch + 1 <=> NobodyDrains
         /\ \A t \in Threads : drain[t] \in Starting \union {"none"}
    /\ current # "done" => stored = None
    /\ current = "completing" => \E t \in Threads : finish[t] = "store"

Inv ==
    /\ TypeOK
    /\ OneEach
    /\ Unanswered
    /\ DrainKnows
    /\ FinishKnows
    /\ ChildKnows
-----------------------------------------------------------------------------
(* The invariant is inductive. *)

(* The invariant holds in the beginning. *)
LEMMA InvInit == Init => Inv
<1> SUFFICES ASSUME Init PROVE Inv
  OBVIOUS
<1> USE NoneAssumption DEF Init, NobodyDrains, NobodyFinishes
<1>1. TypeOK
  BY DEF TypeOK, Currents, DrainPcs, FinishPcs
<1>2. OneEach /\ DrainKnows
  BY DEF OneEach, DrainKnows, Starting
<1>3. Unanswered /\ FinishKnows /\ ChildKnows
  BY DEF Unanswered, FinishKnows, ChildKnows
<1>. QED
  BY <1>1, <1>2, <1>3 DEF Inv

(* Every variable keeps its type. *)
LEMMA TypeOKStep == TypeOK /\ [Next]_vars => TypeOK'
<1> SUFFICES ASSUME TypeOK, [Next]_vars PROVE TypeOK'
  OBVIOUS
<1> USE DEF TypeOK, Currents, DrainPcs, FinishPcs, Completions, receiverVars,
            frames, childVars
<1>1. ASSUME NEW t \in Threads, Start(t) PROVE TypeOK'
  BY <1>1 DEF Start
<1>2. ASSUME NEW t \in Threads, DrainCheck(t) PROVE TypeOK'
  BY <1>2 DEF DrainCheck, Drains, Complete, LeaveDrain
<1>3. ASSUME NEW t \in Threads, DrainLoad(t) PROVE TypeOK'
  BY <1>3 DEF DrainLoad, Drains
<1>4. ASSUME NEW t \in Threads, DrainConnect(t) PROVE TypeOK'
  BY <1>4 DEF DrainConnect, Drains
<1>5. ASSUME NEW t \in Threads, DrainConnectThrows(t) PROVE TypeOK'
  BY <1>5 DEF DrainConnectThrows, Drains, Complete, LeaveDrain
<1>6. ASSUME NEW t \in Threads, StartReturns(t) PROVE TypeOK'
  BY <1>6 DEF StartReturns, Drains
<1>7. ASSUME NEW t \in Threads, DrainCas(t) PROVE TypeOK'
  BY <1>7 DEF DrainCas, Drains, LeaveDrain
<1>8. ASSUME NEW t \in Threads, ChildCompletes(t) PROVE TypeOK'
  BY <1>8 DEF ChildCompletes
<1>9. ASSUME NEW t \in Threads, NEW kind \in Completions, ChildStores(t, kind)
     PROVE TypeOK'
  BY <1>9 DEF ChildStores
<1>10. ASSUME NEW t \in Threads, FinishCas(t) PROVE TypeOK'
  BY <1>10 DEF FinishCas, LeaveFinish
<1>11. ASSUME NEW t \in Threads, ProcessAgain(t) PROVE TypeOK'
  BY <1>11 DEF ProcessAgain, Processes, Drains
<1>12. ASSUME NEW t \in Threads, NEW kind \in Completions, ProcessAnswer(t, kind)
     PROVE TypeOK'
  BY <1>12 DEF ProcessAnswer, Processes, Drains, Complete, LeaveFrame,
      LeaveFinish, LeaveDrain
<1>13. ASSUME StopReceiver PROVE TypeOK'
  BY <1>13 DEF StopReceiver
<1>14. CASE UNCHANGED vars
  BY <1>14 DEF vars
<1>. QED
  BY <1>1, <1>2, <1>3, <1>4, <1>5, <1>6, <1>7, <1>8,
     <1>9, <1>10, <1>11, <1>12, <1>13, <1>14
  DEF Next, Continue

(* One drain() and one completion at a time. *)
LEMMA OneEachStep == Inv /\ [Next]_vars => OneEach'
<1> SUFFICES ASSUME Inv, [Next]_vars PROVE OneEach'
  OBVIOUS
<1> USE NoneAssumption
    DEF Inv, TypeOK, OneEach, Unanswered, DrainKnows, FinishKnows, ChildKnows,
        NobodyDrains, NobodyFinishes, Starting, receiverVars, frames, childVars
<1>1. ASSUME NEW t \in Threads, Start(t) PROVE OneEach'
  BY <1>1 DEF Start
<1>2. ASSUME NEW t \in Threads, DrainCheck(t) PROVE OneEach'
  BY <1>2 DEF DrainCheck, Drains, Complete, LeaveDrain
<1>3. ASSUME NEW t \in Threads, DrainLoad(t) PROVE OneEach'
  BY <1>3 DEF DrainLoad, Drains
<1>4. ASSUME NEW t \in Threads, DrainConnect(t) PROVE OneEach'
  BY <1>4 DEF DrainConnect, Drains
<1>5. ASSUME NEW t \in Threads, DrainConnectThrows(t) PROVE OneEach'
  BY <1>5 DEF DrainConnectThrows, Drains, Complete, LeaveDrain
<1>6. ASSUME NEW t \in Threads, StartReturns(t) PROVE OneEach'
  BY <1>6 DEF StartReturns, Drains
<1>7. ASSUME NEW t \in Threads, DrainCas(t) PROVE OneEach'
  BY <1>7 DEF DrainCas, Drains, LeaveDrain
<1>8. ASSUME NEW t \in Threads, ChildCompletes(t) PROVE OneEach'
  BY <1>8 DEF ChildCompletes
<1>9. ASSUME NEW t \in Threads, NEW kind \in Completions, ChildStores(t, kind)
     PROVE OneEach'
  BY <1>9 DEF ChildStores, Completions
<1>10. ASSUME NEW t \in Threads, FinishCas(t) PROVE OneEach'
  BY <1>10 DEF FinishCas, LeaveFinish
<1>11. ASSUME NEW t \in Threads, ProcessAgain(t) PROVE OneEach'
  BY <1>11 DEF ProcessAgain, Processes, Drains
<1>12. ASSUME NEW t \in Threads, NEW kind \in Completions, ProcessAnswer(t, kind)
     PROVE OneEach'
  BY <1>12 DEF ProcessAnswer, Processes, Drains, Complete, LeaveFrame,
      LeaveFinish, LeaveDrain, Completions
<1>13. ASSUME StopReceiver PROVE OneEach'
  BY <1>13 DEF StopReceiver
<1>14. CASE UNCHANGED vars
  BY <1>14 DEF vars
<1>. QED
  BY <1>1, <1>2, <1>3, <1>4, <1>5, <1>6, <1>7, <1>8,
     <1>9, <1>10, <1>11, <1>12, <1>13, <1>14
  DEF Next, Continue

(* After the answer nothing happens. *)
LEMMA UnansweredStep == Inv /\ [Next]_vars => Unanswered'
<1> SUFFICES ASSUME Inv, [Next]_vars PROVE Unanswered'
  OBVIOUS
<1> USE NoneAssumption
    DEF Inv, TypeOK, OneEach, Unanswered, DrainKnows, FinishKnows, ChildKnows,
        NobodyDrains, NobodyFinishes, Starting, receiverVars, frames, childVars
<1>1. ASSUME NEW t \in Threads, Start(t) PROVE Unanswered'
  BY <1>1 DEF Start
<1>2. ASSUME NEW t \in Threads, DrainCheck(t) PROVE Unanswered'
  BY <1>2 DEF DrainCheck, Drains, Complete, LeaveDrain
<1>3. ASSUME NEW t \in Threads, DrainLoad(t) PROVE Unanswered'
  BY <1>3 DEF DrainLoad, Drains
<1>4. ASSUME NEW t \in Threads, DrainConnect(t) PROVE Unanswered'
  BY <1>4 DEF DrainConnect, Drains
<1>5. ASSUME NEW t \in Threads, DrainConnectThrows(t) PROVE Unanswered'
  BY <1>5 DEF DrainConnectThrows, Drains, Complete, LeaveDrain
<1>6. ASSUME NEW t \in Threads, StartReturns(t) PROVE Unanswered'
  BY <1>6 DEF StartReturns, Drains
<1>7. ASSUME NEW t \in Threads, DrainCas(t) PROVE Unanswered'
  BY <1>7 DEF DrainCas, Drains, LeaveDrain
<1>8. ASSUME NEW t \in Threads, ChildCompletes(t) PROVE Unanswered'
  BY <1>8 DEF ChildCompletes
<1>9. ASSUME NEW t \in Threads, NEW kind \in Completions, ChildStores(t, kind)
     PROVE Unanswered'
  BY <1>9 DEF ChildStores, Completions
<1>10. ASSUME NEW t \in Threads, FinishCas(t) PROVE Unanswered'
  BY <1>10 DEF FinishCas, LeaveFinish
<1>11. ASSUME NEW t \in Threads, ProcessAgain(t) PROVE Unanswered'
  BY <1>11 DEF ProcessAgain, Processes, Drains
<1>12. ASSUME NEW t \in Threads, NEW kind \in Completions, ProcessAnswer(t, kind)
     PROVE Unanswered'
  BY <1>12 DEF ProcessAnswer, Processes, Drains, Complete, LeaveFrame,
      LeaveFinish, LeaveDrain, Completions
<1>13. ASSUME StopReceiver PROVE Unanswered'
  BY <1>13 DEF StopReceiver
<1>14. CASE UNCHANGED vars
  BY <1>14 DEF vars
<1>. QED
  BY <1>1, <1>2, <1>3, <1>4, <1>5, <1>6, <1>7, <1>8,
     <1>9, <1>10, <1>11, <1>12, <1>13, <1>14
  DEF Next, Continue

(* The places of drain(). *)
LEMMA DrainKnowsStep == Inv /\ [Next]_vars => DrainKnows'
<1> SUFFICES ASSUME Inv, [Next]_vars PROVE DrainKnows'
  OBVIOUS
<1> USE NoneAssumption
    DEF Inv, TypeOK, OneEach, Unanswered, DrainKnows, FinishKnows, ChildKnows,
        NobodyDrains, NobodyFinishes, Starting, receiverVars, frames, childVars
<1>1. ASSUME NEW t \in Threads, Start(t) PROVE DrainKnows'
  BY <1>1 DEF Start
<1>2. ASSUME NEW t \in Threads, DrainCheck(t) PROVE DrainKnows'
  BY <1>2 DEF DrainCheck, Drains, Complete, LeaveDrain
<1>3. ASSUME NEW t \in Threads, DrainLoad(t) PROVE DrainKnows'
  BY <1>3 DEF DrainLoad, Drains
<1>4. ASSUME NEW t \in Threads, DrainConnect(t) PROVE DrainKnows'
  BY <1>4 DEF DrainConnect, Drains
<1>5. ASSUME NEW t \in Threads, DrainConnectThrows(t) PROVE DrainKnows'
  BY <1>5 DEF DrainConnectThrows, Drains, Complete, LeaveDrain
<1>6. ASSUME NEW t \in Threads, StartReturns(t) PROVE DrainKnows'
  BY <1>6 DEF StartReturns, Drains
<1>7. ASSUME NEW t \in Threads, DrainCas(t) PROVE DrainKnows'
  BY <1>7 DEF DrainCas, Drains, LeaveDrain
<1>8. ASSUME NEW t \in Threads, ChildCompletes(t) PROVE DrainKnows'
  BY <1>8 DEF ChildCompletes
<1>9. ASSUME NEW t \in Threads, NEW kind \in Completions, ChildStores(t, kind)
     PROVE DrainKnows'
  BY <1>9 DEF ChildStores, Completions
<1>10. ASSUME NEW t \in Threads, FinishCas(t) PROVE DrainKnows'
  BY <1>10 DEF FinishCas, LeaveFinish
<1>11. ASSUME NEW t \in Threads, ProcessAgain(t) PROVE DrainKnows'
  BY <1>11 DEF ProcessAgain, Processes, Drains
<1>12. ASSUME NEW t \in Threads, NEW kind \in Completions, ProcessAnswer(t, kind)
     PROVE DrainKnows'
  BY <1>12 DEF ProcessAnswer, Processes, Drains, Complete, LeaveFrame,
      LeaveFinish, LeaveDrain, Completions
<1>13. ASSUME StopReceiver PROVE DrainKnows'
  BY <1>13 DEF StopReceiver
<1>14. CASE UNCHANGED vars
  BY <1>14 DEF vars
<1>. QED
  BY <1>1, <1>2, <1>3, <1>4, <1>5, <1>6, <1>7, <1>8,
     <1>9, <1>10, <1>11, <1>12, <1>13, <1>14
  DEF Next, Continue

(* The places of finish_child(). *)
LEMMA FinishKnowsStep == Inv /\ [Next]_vars => FinishKnows'
<1> SUFFICES ASSUME Inv, [Next]_vars PROVE FinishKnows'
  OBVIOUS
<1> USE NoneAssumption
    DEF Inv, TypeOK, OneEach, Unanswered, DrainKnows, FinishKnows, ChildKnows,
        NobodyDrains, NobodyFinishes, Starting, receiverVars, frames, childVars
<1>1. ASSUME NEW t \in Threads, Start(t) PROVE FinishKnows'
  BY <1>1 DEF Start
<1>2. ASSUME NEW t \in Threads, DrainCheck(t) PROVE FinishKnows'
  BY <1>2 DEF DrainCheck, Drains, Complete, LeaveDrain
<1>3. ASSUME NEW t \in Threads, DrainLoad(t) PROVE FinishKnows'
  BY <1>3 DEF DrainLoad, Drains
<1>4. ASSUME NEW t \in Threads, DrainConnect(t) PROVE FinishKnows'
  BY <1>4 DEF DrainConnect, Drains
<1>5. ASSUME NEW t \in Threads, DrainConnectThrows(t) PROVE FinishKnows'
  BY <1>5 DEF DrainConnectThrows, Drains, Complete, LeaveDrain
<1>6. ASSUME NEW t \in Threads, StartReturns(t) PROVE FinishKnows'
  BY <1>6 DEF StartReturns, Drains
<1>7. ASSUME NEW t \in Threads, DrainCas(t) PROVE FinishKnows'
  BY <1>7 DEF DrainCas, Drains, LeaveDrain
<1>8. ASSUME NEW t \in Threads, ChildCompletes(t) PROVE FinishKnows'
  BY <1>8 DEF ChildCompletes
<1>9. ASSUME NEW t \in Threads, NEW kind \in Completions, ChildStores(t, kind)
     PROVE FinishKnows'
  BY <1>9 DEF ChildStores, Completions
<1>10. ASSUME NEW t \in Threads, FinishCas(t) PROVE FinishKnows'
  BY <1>10 DEF FinishCas, LeaveFinish
<1>11. ASSUME NEW t \in Threads, ProcessAgain(t) PROVE FinishKnows'
  BY <1>11 DEF ProcessAgain, Processes, Drains
<1>12. ASSUME NEW t \in Threads, NEW kind \in Completions, ProcessAnswer(t, kind)
     PROVE FinishKnows'
  BY <1>12 DEF ProcessAnswer, Processes, Drains, Complete, LeaveFrame,
      LeaveFinish, LeaveDrain, Completions
<1>13. ASSUME StopReceiver PROVE FinishKnows'
  BY <1>13 DEF StopReceiver
<1>14. CASE UNCHANGED vars
  BY <1>14 DEF vars
<1>. QED
  BY <1>1, <1>2, <1>3, <1>4, <1>5, <1>6, <1>7, <1>8,
     <1>9, <1>10, <1>11, <1>12, <1>13, <1>14
  DEF Next, Continue

(* The child, between them. *)
LEMMA ChildKnowsStep == Inv /\ [Next]_vars => ChildKnows'
<1> SUFFICES ASSUME Inv, [Next]_vars PROVE ChildKnows'
  OBVIOUS
<1> USE NoneAssumption
    DEF Inv, TypeOK, OneEach, Unanswered, DrainKnows, FinishKnows, ChildKnows,
        NobodyDrains, NobodyFinishes, Starting, receiverVars, frames, childVars
<1>1. ASSUME NEW t \in Threads, Start(t) PROVE ChildKnows'
  BY <1>1 DEF Start
<1>2. ASSUME NEW t \in Threads, DrainCheck(t) PROVE ChildKnows'
  BY <1>2 DEF DrainCheck, Drains, Complete, LeaveDrain
<1>3. ASSUME NEW t \in Threads, DrainLoad(t) PROVE ChildKnows'
  BY <1>3 DEF DrainLoad, Drains
<1>4. ASSUME NEW t \in Threads, DrainConnect(t) PROVE ChildKnows'
  BY <1>4 DEF DrainConnect, Drains
<1>5. ASSUME NEW t \in Threads, DrainConnectThrows(t) PROVE ChildKnows'
  BY <1>5 DEF DrainConnectThrows, Drains, Complete, LeaveDrain
<1>6. ASSUME NEW t \in Threads, StartReturns(t) PROVE ChildKnows'
  BY <1>6 DEF StartReturns, Drains
<1>7. ASSUME NEW t \in Threads, DrainCas(t) PROVE ChildKnows'
  BY <1>7 DEF DrainCas, Drains, LeaveDrain
<1>8. ASSUME NEW t \in Threads, ChildCompletes(t) PROVE ChildKnows'
  BY <1>8 DEF ChildCompletes
<1>9. ASSUME NEW t \in Threads, NEW kind \in Completions, ChildStores(t, kind)
     PROVE ChildKnows'
  BY <1>9 DEF ChildStores, Completions
<1>10. ASSUME NEW t \in Threads, FinishCas(t) PROVE ChildKnows'
  BY <1>10 DEF FinishCas, LeaveFinish
<1>11. ASSUME NEW t \in Threads, ProcessAgain(t) PROVE ChildKnows'
  BY <1>11 DEF ProcessAgain, Processes, Drains
<1>12. ASSUME NEW t \in Threads, NEW kind \in Completions, ProcessAnswer(t, kind)
     PROVE ChildKnows'
  BY <1>12 DEF ProcessAnswer, Processes, Drains, Complete, LeaveFrame,
      LeaveFinish, LeaveDrain, Completions
<1>13. ASSUME StopReceiver PROVE ChildKnows'
  BY <1>13 DEF StopReceiver
<1>14. CASE UNCHANGED vars
  BY <1>14 DEF vars
<1>. QED
  BY <1>1, <1>2, <1>3, <1>4, <1>5, <1>6, <1>7, <1>8,
     <1>9, <1>10, <1>11, <1>12, <1>13, <1>14
  DEF Next, Continue

-----------------------------------------------------------------------------
(* The theorems. *)

(* Inv holds in every reachable state. *)
THEOREM Invariance == Spec => []Inv
<1>1. Init => Inv
  BY InvInit
<1>2. Inv /\ [Next]_vars => Inv'
  BY TypeOKStep, OneEachStep, UnansweredStep, DrainKnowsStep, FinishKnowsStep,
     ChildKnowsStep
  DEF Inv
<1>. QED
  BY <1>1, <1>2, PTL DEF Spec

(* The variables of the operation and of its threads keep their types. *)
THEOREM TypeCorrect == Spec => []TypeOK
<1>1. Inv => TypeOK
  BY DEF Inv
<1>. QED
  BY <1>1, Invariance, PTL

(* The compare-exchanges on epoch_ give the operation to one thread at a   *)
(* time, destroy no child that is in use, and leave nobody inside after    *)
(* the answer.                                                             *)
THEOREM EpochExcludes == Spec => []Exclusive
<1>1. Inv => Exclusive
  <2> SUFFICES ASSUME Inv PROVE Exclusive
    OBVIOUS
  <2> USE DEF Inv, OneEach
  <2>1. ASSUME NEW t \in Threads, NEW u \in Threads,
               DrainOwns(t) \/ FinishOwns(t), DrainOwns(u) \/ FinishOwns(u)
        PROVE t = u
    BY <2>1 DEF DrainOwns, FinishOwns, Drains, Starting, FinishKnows,
                NobodyDrains
  <2>2. ASSUME NEW t \in Threads, Drains(t, "check")
        PROVE /\ current \in {"none", "done"}
              /\ \A u \in Threads \ {t} : ~Inside(u)
    BY <2>2 DEF Drains, Inside, Starting, DrainKnows
  <2>3. \A t \in Threads : finish[t] = "process" => drain[t] = "none"
    BY DEF FinishKnows, NobodyDrains
  <2>4. answer # None => answers = 1 /\ \A t \in Threads : ~Inside(t)
    BY DEF Unanswered, NobodyDrains, NobodyFinishes, Inside
  <2>. QED
    BY <2>1, <2>2, <2>3, <2>4 DEF Exclusive
<1>. QED
  BY <1>1, Invariance, PTL

-----------------------------------------------------------------------------
(* The race for the epoch loses no completion. *)

(* The thread is at a step that it may take by itself. *)
Proceeds(t) ==
    \/ finish[t] \in {"store", "cas"}
    \/ \E label \in {"check", "load", "connect", "start", "cas"} :
         Drains(t, label)
    \/ Processes(t) /\ stored # None

(* Until the receiver is answered a child runs, or a thread has the        *)
(* operation in hand and goes on.                                          *)
NotLost ==
    started /\ answer = None /\ current # "running" =>
        \E t \in Threads : Proceeds(t)

(* Somebody is inside as long as there is something to do. *)
Occupied ==
    started /\ answer = None /\ current # "running" =>
        \E t \in Threads : Inside(t)

(* Whoever leaves without an answer leaves a running child, or another     *)
(* thread, behind.                                                         *)
LEMMA OccupiedStep == Inv /\ Occupied /\ [Next]_vars => Occupied'
<1> SUFFICES ASSUME Inv, Occupied, [Next]_vars,
                    started', answer' = None, current' # "running"
             PROVE  \E t \in Threads : Inside(t)'
  BY DEF Occupied
<1> USE NoneAssumption DEF Inside
<1>1. ASSUME NEW t \in Threads,
             \/ Start(t) \/ DrainLoad(t) \/ StartReturns(t)
             \/ ChildCompletes(t) \/ ProcessAgain(t)
             \/ \E kind \in Completions : ChildStores(t, kind)
      PROVE  Inside(t)'
  BY <1>1 DEF Start, DrainLoad, StartReturns, ChildCompletes, ProcessAgain,
              ChildStores, Inv, TypeOK
<1>2. ASSUME NEW t \in Threads, DrainCheck(t)
      PROVE  Inside(t)'
  BY <1>2 DEF DrainCheck, Complete, Inv, TypeOK
<1>3. ASSUME NEW t \in Threads,
             \/ DrainConnect(t) \/ DrainConnectThrows(t)
             \/ \E kind \in Completions : ProcessAnswer(t, kind)
      PROVE  FALSE
  BY <1>3 DEF DrainConnect, DrainConnectThrows, ProcessAnswer, Complete,
              Completions
<1>4. ASSUME NEW t \in Threads, DrainCas(t)
      PROVE  \E u \in Threads : Inside(u)'
  <2>1. CASE epoch = drained[t]
    <3>1. /\ current # "none" /\ epoch = child_epoch /\ current # "running"
          /\ finish' = finish
      BY <1>4, <2>1 DEF DrainCas, Drains, LeaveDrain, childVars, Inv,
                        DrainKnows, Starting
    <3>2. PICK u \in Threads : finish[u] # "none"
      BY <1>4, <3>1 DEF DrainCas, Drains, Inv, TypeOK, Currents, DrainKnows,
                        ChildKnows, Starting, NobodyFinishes
    <3>. QED
      BY <3>1, <3>2
  <2>2. CASE epoch # drained[t]
    BY <1>4, <2>2 DEF DrainCas, Inv, TypeOK
  <2>. QED
    BY <2>1, <2>2
<1>5. ASSUME NEW t \in Threads, FinishCas(t)
      PROVE  \E u \in Threads : Inside(u)'
  <2>1. CASE epoch = finished[t]
    <3>1. ~NobodyDrains /\ drain' = drain
      BY <1>5, <2>1 DEF FinishCas, LeaveFinish, Inv, TypeOK, FinishKnows
    <3>. QED
      BY <3>1 DEF NobodyDrains
  <2>2. CASE epoch # finished[t]
    BY <1>5, <2>2 DEF FinishCas, Inv, TypeOK
  <2>. QED
    BY <2>1, <2>2
<1>6. CASE StopReceiver \/ UNCHANGED vars
  BY <1>6 DEF StopReceiver, vars, receiverVars, childVars, frames, Occupied
<1>. QED
  BY <1>1, <1>2, <1>3, <1>4, <1>5, <1>6 DEF Next, Continue

(* The safety that KeepsGoing rests on: a completion is lost neither       *)
(* between start() and the compare-exchange after it, nor to a drain()     *)
(* that has left.                                                          *)
THEOREM CompletionsKept == Spec => []NotLost
<1>1. Init => Occupied
  BY DEF Init, Occupied
<1>2. Inv /\ Occupied => NotLost
  <2> SUFFICES ASSUME Inv, NEW t \in Threads, Inside(t)
               PROVE  Proceeds(t)
    BY DEF NotLost, Occupied
  <2>1. CASE finish[t] # "none"
    BY <2>1 DEF Proceeds, Processes, Inv, TypeOK, FinishPcs, FinishKnows
  <2>2. CASE finish[t] = "none"
    BY <2>2 DEF Inside, Proceeds, Processes, Drains, Inv, TypeOK, DrainPcs,
                DrainKnows
  <2>. QED
    BY <2>1, <2>2
<1>. QED
  BY <1>1, <1>2, OccupiedStep, Invariance, PTL DEF Spec

-----------------------------------------------------------------------------
(* The contract. *)

(* Every step of the operation is one of the contract's, or none. *)
LEMMA StepRefines == Inv /\ [Next]_vars => [Contract!Next]_(Contract!vars)
<1> SUFFICES ASSUME Inv, [Next]_vars
             PROVE  Contract!Next \/ UNCHANGED Contract!vars
  OBVIOUS
<1> USE NoneAssumption DEF Contract!vars, receiverVars, childVars
<1>1. ASSUME NEW t \in Threads, DrainCheck(t)
      PROVE  Contract!Next \/ UNCHANGED Contract!vars
  <2>1. current \in {"none", "done"} /\ stored = None /\ answer = None
    BY <1>1 DEF DrainCheck, Drains, Inv, DrainKnows, Unanswered, NobodyDrains
  <2>2. Contract!GiveUp \/ UNCHANGED Contract!vars
    BY <1>1, <2>1 DEF DrainCheck, Complete, Contract!GiveUp
  <2>. QED
    BY <2>2 DEF Contract!Next
<1>2. ASSUME NEW t \in Threads, DrainConnect(t) \/ DrainConnectThrows(t)
      PROVE  Contract!Next \/ UNCHANGED Contract!vars
  <2>1. current = "none" /\ stored = None /\ answer = None
    BY <1>2 DEF DrainConnect, DrainConnectThrows, Drains, Inv, DrainKnows,
                Unanswered, NobodyDrains, ChildKnows
  <2>2. Contract!StartChild \/ Contract!GiveUp
    BY <1>2, <2>1 DEF DrainConnect, DrainConnectThrows, Complete,
                      Contract!StartChild, Contract!GiveUp
  <2>. QED
    BY <2>2 DEF Contract!Next
<1>3. ASSUME NEW t \in Threads, NEW kind \in Completions, ChildStores(t, kind)
      PROVE  Contract!Next \/ UNCHANGED Contract!vars
  <2>1. current = "completing"
    BY <1>3 DEF ChildStores, Inv, FinishKnows
  <2>2. Contract!ChildEnds(kind)
    BY <1>3, <2>1 DEF ChildStores, Contract!ChildEnds
  <2>. QED
    BY <2>2 DEF Contract!Next, Contract!Completions, Completions
<1>4. ASSUME NEW t \in Threads, Processes(t)
      PROVE  answer = None /\ stored # None
  BY <1>4 DEF Processes, Drains, Inv, DrainKnows, FinishKnows, Unanswered,
              NobodyDrains, NobodyFinishes
<1>5. ASSUME NEW t \in Threads, ProcessAgain(t)
      PROVE  Contract!Next \/ UNCHANGED Contract!vars
  <2>1. Contract!Again
    BY <1>4, <1>5 DEF ProcessAgain, Contract!Again
  <2>. QED
    BY <2>1 DEF Contract!Next
<1>6. ASSUME NEW t \in Threads, NEW kind \in Completions,
             ProcessAnswer(t, kind)
      PROVE  Contract!Next \/ UNCHANGED Contract!vars
  <2>1. Contract!Answer
    BY <1>4, <1>6 DEF ProcessAnswer, Complete, Contract!Answer
  <2>. QED
    BY <2>1 DEF Contract!Next
<1>7. ASSUME NEW t \in Threads,
             \/ Start(t) \/ DrainLoad(t) \/ StartReturns(t) \/ DrainCas(t)
             \/ ChildCompletes(t) \/ FinishCas(t)
      PROVE  UNCHANGED Contract!vars
  BY <1>7 DEF Start, DrainLoad, StartReturns, DrainCas, ChildCompletes,
              FinishCas
<1>8. ASSUME StopReceiver \/ UNCHANGED vars PROVE UNCHANGED Contract!vars
  BY <1>8 DEF StopReceiver, vars
<1>. QED
  BY <1>1, <1>2, <1>3, <1>5, <1>6, <1>7, <1>8 DEF Next, Continue

(* The operation runs its children one after the other and answers once,   *)
(* as the contract says, on any number of threads.                         *)
THEOREM RepeatImplementsContract == Spec => ContractSpec
<1>1. Init => Contract!Init
  BY DEF Init, Contract!Init
<1>2. Inv /\ [Next]_vars => [Contract!Next]_(Contract!vars)
  BY StepRefines
<1>. QED
  BY <1>1, <1>2, Invariance, PTL DEF Spec, ContractSpec, Contract!Spec
=============================================================================
