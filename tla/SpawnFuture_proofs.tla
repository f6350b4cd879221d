------------------------- MODULE SpawnFuture_proofs -------------------------
(***************************************************************************)
(* Proofs about SpawnFuture.                                               *)
(*                                                                         *)
(* The state is settled once: its result is delivered, or it is left to    *)
(* the completion of a stopped or abandoned child, and whoever settles it  *)
(* destroys it. That nobody else uses it then follows from what the flags  *)
(* say about the other two activities: a registered callback will still    *)
(* run, a cancellation under way holds the completion back, and a consumer *)
(* that is set has not been answered.                                      *)
(***************************************************************************)
EXTENDS SpawnFuture, FiniteSetTheorems, TLAPS

-----------------------------------------------------------------------------
(* The inductive invariant, in named parts. *)

(* The types, but for the answers, of which there is one at most, and what *)
(* the activities never do.                                                *)
Typed ==
    /\ alive \in BOOLEAN /\ associations \in {0, 1}
    /\ completed \in BOOLEAN /\ stopped \in BOOLEAN
    /\ abandoned \in BOOLEAN /\ cancelling \in BOOLEAN
    /\ consumer \in BOOLEAN /\ stop \in BOOLEAN
    /\ callback \in {"none", "registered", "fired", "reset"}
    /\ pc \in [Activities -> Labels]
    /\ on \in [Activities -> Threads]
    /\ on["owner"] = Owner /\ on["cancel"] \in {Owner, Stopper}
    /\ pc["cancel"] \notin {"construct", "starting", "holding", "abandon",
                            "consume", "complete"}
    /\ pc["complete"] \in {"idle", "complete", "deliver", "destroy", "release",
                           "done"}
    /\ pc["owner"] \notin {"idle", "try_cancel", "finish_cancellation",
                           "complete"}

(* What the flags tell of the activities. *)
Flags ==
    /\ completed <=> pc["complete"] \notin {"idle", "complete"}
    /\ cancelling <=>
         pc["cancel"] \in {"request_stop", "callbacks", "finish_cancellation"}
    /\ abandoned =>
         /\ callback = "none"
         /\ pc["owner"] \in {"request_stop", "callbacks", "done"}
    /\ pc["owner"] \in {"request_stop", "callbacks"} => abandoned
    /\ stopped =>
         /\ stop /\ ~abandoned
         /\ callback \in {"fired", "reset"}
         /\ pc["cancel"] \in {"done", "deliver_stopped"}
         /\ pc["owner"] \in {"consume", "deliver_stopped", "done"}
    /\ pc["cancel"] = "deliver_stopped" => stopped /\ pc["owner"] = "done"
    /\ pc["owner"] = "deliver_stopped" => stopped
    /\ consumer =>
         /\ pc["owner"] = "done" /\ callback \in {"registered", "fired"}
         /\ ~stopped /\ ~abandoned /\ (completed => cancelling)

(* The registration with the token of the consumer. *)
Registration ==
    /\ callback \in {"none", "registered"} => pc["cancel"] = "idle"
    /\ callback = "fired" => pc["cancel"] # "idle"
    /\ pc["cancel"] # "idle" => stop
    /\ pc["owner"] \in {"construct", "starting", "holding", "abandon",
                        "request_stop", "callbacks"} => callback = "none"
    /\ callback = "none" => pc["owner"] \notin {"consume", "deliver",
                                              "deliver_stopped"}
    /\ callback = "reset" =>
         /\ pc["cancel"] \in {"idle", "done", "destroy", "release"}
         /\ pc["complete"] # "deliver"
         /\ pc["owner"] \in {"destroy", "release", "done"}

(* A completion that is nested in a call comes before the rest of that. *)
Nesting ==
    UnderWay("complete") /\ on["complete"] # Worker =>
        \/ pc["owner"] \in {"starting", "callbacks"} /\ on["complete"] = Owner
        \/ pc["cancel"] = "callbacks" /\ on["cancel"] = on["complete"]

Settling(a) == pc[a] \in {"deliver", "destroy", "release"}

Gone == ~alive \/ \E a \in Activities : pc[a] = "destroy"

(* One activity settles the state. *)
Settled ==
    /\ \A a, b \in Activities : Settling(a) /\ Settling(b) => a = b
    /\ \A a \in Activities :
         /\ Settling(a) => completed /\ ~consumer
         /\ pc[a] \in {"deliver", "destroy"} => alive
         /\ pc[a] = "release" => ~alive
         /\ pc[a] = "deliver" => ~stopped
    /\ Settling("cancel") => pc["owner"] = "done"
    /\ pc["complete"] = "deliver" => pc["owner"] = "done" /\ ~cancelling
    /\ completed /\ (stopped \/ abandoned) =>
         ~alive \/ pc["complete"] = "destroy"

(* Whoever may still use it is not there, or has set a flag. *)
NoUse ==
    /\ ~alive => completed /\ ~consumer
    /\ Gone =>
         /\ callback # "registered"
         /\ pc["cancel"] \in {"idle", "done", "deliver_stopped", "destroy",
                              "release"}
         /\ pc["complete"] # "deliver"
         /\ pc["owner"] \notin {"construct", "starting", "holding", "abandon",
                                "deliver"}
         /\ pc["owner"] = "consume" => stopped

(* The child is associated with the scope until it completes. *)
Begin ==
    /\ pc["owner"] = "construct" =>
         pc["complete"] = "idle" /\ associations = 0
    /\ associations = 1 \/ completed \/ pc["owner"] = "construct"
                        \/ pc["complete"] = "complete"

(* The answer. *)
Answer ==
    /\ callback # "reset" => answers = <<>>
    /\ callback = "reset" =>
         \/ answers = <<"result">> /\ completed
         \/ answers = <<"stopped">> /\ stop

IInv ==
    /\ Typed
    /\ Flags
    /\ Registration
    /\ Nesting
    /\ Settled
    /\ NoUse
    /\ Begin
    /\ Answer

-----------------------------------------------------------------------------
(* The invariant is inductive. *)

(* The activities, and which may be nested in which. *)
LEMMA Three ==
    /\ Activities = {"owner", "cancel", "complete"}
    /\ Nested("owner") = {"cancel", "complete"}
    /\ Nested("cancel") = {"complete"} /\ Nested("complete") = {}
    /\ Owner # Stopper /\ Owner # Worker /\ Stopper # Worker
    /\ Owner \in Threads /\ Stopper \in Threads /\ Worker \in Threads
<1>1. \A x, y : Cardinality({x, y}) # 3
  <2> TAKE x, y
  <2>1. Cardinality({x} \union {y}) \in {1, 2}
    <3>1. IsFiniteSet({x}) /\ Cardinality({x}) = 1
      BY FS_Singleton
    <3>2. Cardinality({x} \union {y}) = IF y \in {x} THEN 1 ELSE 2
      BY <3>1, FS_AddElement
    <3>. QED
      BY <3>2
  <2>2. {x} \union {y} = {x, y}
    OBVIOUS
  <2>. QED
    BY <2>1, <2>2
<1>2. Owner # Stopper /\ Owner # Worker /\ Stopper # Worker
  <2>1. Owner = Stopper => {Owner, Stopper, Worker} = {Owner, Worker}
    OBVIOUS
  <2>2. Owner = Worker => {Owner, Stopper, Worker} = {Owner, Stopper}
    OBVIOUS
  <2>3. Stopper = Worker => {Owner, Stopper, Worker} = {Owner, Worker}
    OBVIOUS
  <2>. QED
    BY <1>1, <2>1, <2>2, <2>3, ThreadsAssumption
<1>. QED
  BY <1>2 DEF Activities, Nested, Threads

(* No step of the code or of its users breaks the invariant. *)
LEMMA IInvStep == IInv /\ [Next]_vars => IInv'
<1> SUFFICES ASSUME IInv, [Next]_vars PROVE IInv'
  OBVIOUS
<1> USE Three
    DEF IInv, Typed, Flags, Registration, Nesting, Settled, NoUse, Begin,
        Answer, Settling, Gone, At, Goto, Usable, UnderWay, MayReset, Labels,
        flags, stateVars, consumerVars
<1>1. CASE Associate
  BY <1>1 DEF Associate
<1>2. CASE Refuse
  BY <1>2 DEF Refuse
<1>3. CASE ConstructReturns
  BY <1>3 DEF ConstructReturns
<1>4. CASE Complete
  BY <1>4 DEF Complete
<1>5. CASE Abandon
  BY <1>5 DEF Abandon
<1>6. CASE Consume
  <2>1. completed => ~stopped /\ ~abandoned
    BY <1>6 DEF Consume, Uses
  <2>. QED
    BY <1>6, <2>1 DEF Consume
<1>7. CASE FireCallback
  BY <1>7 DEF FireCallback
<1>8. CASE TryCancel
  <2>1. Typed'
    <3>1. /\ pc' = [pc EXCEPT !["cancel"] = "done"]
             \/ pc' = [pc EXCEPT !["cancel"] = "request_stop"]
          /\ cancelling' \in BOOLEAN
          /\ UNCHANGED <<alive, associations, completed, stopped, abandoned,
                         consumer, stop, callback, on>>
      BY <1>8 DEF TryCancel
    <3>2. /\ pc' \in [Activities -> Labels] /\ pc'["owner"] = pc["owner"]
          /\ pc'["complete"] = pc["complete"]
          /\ pc'["cancel"] \in {"done", "request_stop"}
      BY ONLY <3>1, IInv, Three DEF IInv, Typed, Labels
    <3>. QED
      BY ONLY <3>1, <3>2, IInv DEF IInv, Typed
  <2>2. Flags'
    BY <1>8 DEF TryCancel
  <2>3. Registration'
    BY <1>8 DEF TryCancel
  <2>4. Nesting'
    BY <1>8 DEF TryCancel
  <2>5. Settled'
    BY <1>8 DEF TryCancel
  <2>6. NoUse'
    BY <1>8 DEF TryCancel
  <2>7. Begin'
    BY <1>8 DEF TryCancel
  <2>8. Answer'
    BY <1>8 DEF TryCancel
  <2>. QED
    BY <2>1, <2>2, <2>3, <2>4, <2>5, <2>6, <2>7, <2>8
<1>9. CASE FinishCancellation
  <2>1. Typed'
    BY <1>9 DEF FinishCancellation
  <2>2. Flags'
    BY <1>9 DEF FinishCancellation
  <2>3. Registration'
    BY <1>9 DEF FinishCancellation
  <2>4. Nesting'
    BY <1>9 DEF FinishCancellation
  <2>5. Settled'
    <3>1. ~stopped /\ ~abandoned
      BY <1>9 DEF FinishCancellation
    <3>2. \A b \in Activities : ~Settling(b) \/ ~consumer
      BY <1>9
    <3>. QED
      BY <1>9, <3>1, <3>2 DEF FinishCancellation
  <2>6. NoUse'
    BY <1>9 DEF FinishCancellation
  <2>7. Begin'
    BY <1>9 DEF FinishCancellation
  <2>8. Answer'
    BY <1>9 DEF FinishCancellation
  <2>. QED
    BY <2>1, <2>2, <2>3, <2>4, <2>5, <2>6, <2>7, <2>8
<1>10. ASSUME NEW a \in {"owner", "cancel"}, RequestStop(a)
       PROVE  IInv'
  BY <1>10 DEF RequestStop
<1>11. ASSUME NEW a \in {"owner", "cancel"}, CallbacksReturn(a)
       PROVE  IInv'
  BY <1>11 DEF CallbacksReturn
<1>12. ASSUME NEW a \in Activities, Deliver(a)
       PROVE  IInv'
  <2>1. Typed'
    BY <1>12 DEF Deliver
  <2>2. Flags'
    BY <1>12 DEF Deliver
  <2>3. Registration'
    BY <1>12 DEF Deliver
  <2>4. Nesting'
    BY <1>12 DEF Deliver
  <2>5. Settled'
    BY <1>12 DEF Deliver
  <2>6. NoUse'
    BY <1>12 DEF Deliver
  <2>7. Begin'
    BY <1>12 DEF Deliver
  <2>8. Answer'
    <3>1. answers = <<>>
      BY <1>12 DEF Deliver
    <3>2. answers' = <<"result">>
      BY <1>12, <3>1 DEF Deliver
    <3>. QED
      BY <1>12, <3>2 DEF Deliver
  <2>. QED
    BY <2>1, <2>2, <2>3, <2>4, <2>5, <2>6, <2>7, <2>8
<1>13. ASSUME NEW a \in Activities, DeliverStopped(a)
       PROVE  IInv'
  <2>1. Typed'
    BY <1>13 DEF DeliverStopped
  <2>2. Flags'
    BY <1>13 DEF DeliverStopped
  <2>3. Registration'
    BY <1>13 DEF DeliverStopped
  <2>4. Nesting'
    BY <1>13 DEF DeliverStopped
  <2>5. Settled'
    BY <1>13 DEF DeliverStopped
  <2>6. NoUse'
    BY <1>13 DEF DeliverStopped
  <2>7. Begin'
    BY <1>13 DEF DeliverStopped
  <2>8. Answer'
    <3>1. answers = <<>>
      BY <1>13 DEF DeliverStopped
    <3>2. answers' = <<"stopped">>
      BY <1>13, <3>1 DEF DeliverStopped
    <3>. QED
      BY <1>13, <3>2 DEF DeliverStopped
  <2>. QED
    BY <2>1, <2>2, <2>3, <2>4, <2>5, <2>6, <2>7, <2>8
<1>14. ASSUME NEW a \in Activities, Destroy(a)
       PROVE  IInv'
  <2>1. Typed'
    BY <1>14 DEF Destroy
  <2>2. Flags'
    BY <1>14 DEF Destroy
  <2>3. Registration'
    BY <1>14 DEF Destroy
  <2>4. Nesting'
    BY <1>14 DEF Destroy
  <2>5. Settled'
    BY <1>14 DEF Destroy
  <2>6. NoUse'
    BY <1>14 DEF Destroy
  <2>7. Begin'
    BY <1>14 DEF Destroy
  <2>8. Answer'
    BY <1>14 DEF Destroy
  <2>. QED
    BY <2>1, <2>2, <2>3, <2>4, <2>5, <2>6, <2>7, <2>8
<1>15. ASSUME NEW a \in Activities, Release(a)
       PROVE  IInv'
  BY <1>15 DEF Release
<1>16. ASSUME NEW t \in Threads, ChildCompletes(t)
       PROVE  IInv'
  BY <1>16 DEF ChildCompletes
<1>17. CASE DropFuture
  BY <1>17 DEF DropFuture
<1>18. CASE StartFuture
  BY <1>18 DEF StartFuture
<1>19. CASE StopConsumer
  BY <1>19 DEF StopConsumer
<1>20. CASE UNCHANGED vars
  BY <1>20 DEF vars
<1>. QED
  BY <1>1, <1>2, <1>3, <1>4, <1>5, <1>6, <1>7, <1>8, <1>9, <1>10,
     <1>11, <1>12, <1>13, <1>14, <1>15, <1>16, <1>17, <1>18, <1>19, <1>20
  DEF Next, Step

(* The invariant holds in the beginning. *)
LEMMA IInvInit == Init => IInv
<1> SUFFICES ASSUME Init PROVE IInv
  OBVIOUS
<1>. QED
  BY Three
  DEF Init, IInv, Typed, Flags, Registration, Nesting, Settled, NoUse, Begin,
      Answer, Settling, Gone, UnderWay, Labels

-----------------------------------------------------------------------------
(* The theorems. *)

(* IInv holds in every reachable state: the state is settled once, and     *)
(* whoever may still use it is known by a flag or by the registration.     *)
THEOREM Invariance == Spec => []IInv
  BY IInvInit, IInvStep, PTL DEF Spec

(* Every variable keeps its type. *)
THEOREM TypeCorrect == Spec => []TypeOK
<1>1. ASSUME IInv PROVE TypeOK
  <2>1. answers \in Seq(Answers)
    <3>1. /\ <<>> \in Seq(Answers)
          /\ <<"result">> \in Seq(Answers) /\ <<"stopped">> \in Seq(Answers)
      BY DEF Answers
    <3>. QED
      BY <1>1, <3>1 DEF IInv, Answer
  <2>. QED
    BY <1>1, <2>1 DEF IInv, Typed, TypeOK
<1>. QED
  BY <1>1, Invariance, PTL

(* Neither the completion of the child nor the cancellation, and nobody    *)
(* who delivers or destroys, ever finds the state destroyed or about to be *)
(* destroyed by another.                                                   *)
THEOREM SettlesOnce == Spec => []SettlingSafe
<1>1. ASSUME IInv PROVE SettlingSafe
  BY <1>1, Three
  DEF IInv, Typed, Flags, Settled, Settling, NoUse, Gone, SettlingSafe, Usable,
      Uses
<1>. QED
  BY <1>1, Invariance, PTL

(* The state, and with it the child, is there until the child completes,   *)
(* and the scope counts it for as long.                                    *)
THEOREM ChildIsKept == Spec => []ChildKeepsState
<1>1. IInv => ChildKeepsState
  BY DEF IInv, NoUse, Begin, ChildKeepsState
<1>. QED
  BY <1>1, Invariance, PTL

(* The consumer gets one answer at most, that the child or a stop request  *)
(* accounts for, and none once the future is abandoned.                    *)
THEOREM AnswersJustified == Spec => []AnswerJustified
<1>1. ASSUME IInv PROVE AnswerJustified
  <2>1. abandoned => callback = "none"
    BY <1>1 DEF IInv, Flags
  <2>2. CASE answers = <<>>
    BY <2>2 DEF AnswerJustified, Range
  <2>3. CASE answers = <<"result">> /\ completed /\ callback = "reset"
    BY <2>1, <2>3 DEF AnswerJustified, Range
  <2>4. CASE answers = <<"stopped">> /\ stop /\ callback = "reset"
    BY <2>1, <2>4 DEF AnswerJustified, Range
  <2>. QED
    BY <1>1, <2>2, <2>3, <2>4 DEF IInv, Answer
<1>. QED
  BY <1>1, Invariance, PTL

-----------------------------------------------------------------------------
(* What is known where a call may run into a destroyed state, and who a    *)
(* reset of the stop callback waits for.                                   *)

(* AbandonSafe and ConsumeSafe, which the code violates, fail in one case  *)
(* each: when the child completes between the mutex section of abandon()   *)
(* and the end of its request_stop(); and when a cancellation has stopped  *)
(* the future, and the child has completed, before consume() runs.         *)
HazardsKnown ==
    /\ ~AbandonSafe =>
         /\ pc["owner"] \in {"request_stop", "callbacks"}
         /\ abandoned /\ completed /\ callback = "none"
    /\ ~ConsumeSafe =>
         /\ stopped /\ completed /\ stop
         /\ callback = "fired" /\ pc["cancel"] = "done"

(* An answer that waits for the stop callback to return waits for another  *)
(* thread that is at a step it may take: that is not itself waiting, nor   *)
(* held up by a completion nested in the callback.                         *)
NoCircularWait ==
    \A a \in Activities :
        pc[a] \in {"deliver", "deliver_stopped"} /\ ~MayReset(a) =>
            /\ pc["cancel"] \in {"try_cancel", "request_stop", "callbacks",
                                 "finish_cancellation"}
            /\ At("cancel", pc["cancel"])

(* The only two ways in which abandon() and consume() meet a destroyed     *)
(* state; at every other point of either, it is there.                     *)
THEOREM HazardsAreKnown == Spec => []HazardsKnown
<1>1. ASSUME IInv, ~AbandonSafe
      PROVE  /\ pc["owner"] \in {"request_stop", "callbacks"}
             /\ abandoned /\ completed /\ callback = "none"
  <2>1. pc["owner"] \in {"abandon", "request_stop", "callbacks"} /\ Gone
    BY <1>1, Three DEF AbandonSafe, Usable, Gone
  <2>2. pc["owner"] \in {"request_stop", "callbacks"} /\ abandoned
    BY <1>1, <2>1 DEF IInv, NoUse, Flags
  <2>3. completed
    BY <1>1, <2>1 DEF IInv, NoUse, Gone, Settled, Settling
  <2>. QED
    BY <1>1, <2>2, <2>3 DEF IInv, Flags
<1>2. ASSUME IInv, ~ConsumeSafe
      PROVE  /\ stopped /\ completed /\ stop
             /\ callback = "fired" /\ pc["cancel"] = "done"
  <2>1. pc["owner"] = "consume" /\ Gone
    BY <1>2, Three DEF ConsumeSafe, Usable, Gone
  <2>2. stopped
    BY <1>2, <2>1 DEF IInv, NoUse
  <2>3. completed
    BY <1>2, <2>1 DEF IInv, NoUse, Gone, Settled, Settling
  <2>4. stop /\ callback \in {"fired", "reset"}
        /\ pc["cancel"] \in {"done", "deliver_stopped"}
    BY <1>2, <2>2 DEF IInv, Flags
  <2>5. pc["cancel"] # "deliver_stopped"
    BY <1>2, <2>1 DEF IInv, Flags
  <2>6. callback # "reset"
    BY <1>2, <2>1 DEF IInv, Registration
  <2>. QED
    BY <2>2, <2>3, <2>4, <2>5, <2>6
<1>3. IInv => HazardsKnown
  BY <1>1, <1>2 DEF HazardsKnown
<1>. QED
  BY <1>3, Invariance, PTL

(* Resetting the stop callback never closes a circle of waiting threads:   *)
(* while a cancellation runs, no completion that it could be waiting for   *)
(* is under way, and nobody destroys the state that it still uses.         *)
THEOREM ResetsProceed == Spec => []NoCircularWait
<1>1. ASSUME IInv,
             NEW a \in Activities,
             pc[a] \in {"deliver", "deliver_stopped"}, ~MayReset(a)
      PROVE  /\ pc["cancel"] \in {"try_cancel", "request_stop", "callbacks",
                                  "finish_cancellation"}
             /\ At("cancel", pc["cancel"])
  <2>1. a # "cancel" /\ UnderWay("cancel") /\ on["cancel"] # on[a]
    BY <1>1 DEF MayReset
  <2>2. pc[a] = "deliver"
    <3>1. CASE a = "owner"
      BY <1>1, <2>1, <3>1 DEF IInv, Flags, UnderWay
    <3>2. CASE a = "complete"
      BY <1>1, <3>2 DEF IInv, Typed
    <3>. QED
      BY <2>1, <3>1, <3>2, Three
  <2>3. completed /\ alive /\ ~stopped
    BY <1>1, <2>2 DEF IInv, Settled, Settling
  <2>4. \A b \in Activities \ {a} : ~Settling(b)
    BY <1>1, <2>2 DEF IInv, Settled, Settling
  <2>5. pc["cancel"] \notin {"deliver", "destroy", "release",
                            "deliver_stopped"}
    BY <1>1, <2>1, <2>3, <2>4, Three DEF IInv, Flags, Settling
  <2>6. pc["cancel"] \in {"try_cancel", "request_stop", "callbacks",
                         "finish_cancellation"}
    BY <1>1, <2>1, <2>5, Three DEF IInv, Typed, UnderWay, Labels
  <2>7. Usable("cancel")
    BY <1>1, <2>2, <2>3, <2>4, Three DEF Usable, Settling
  <2>8. on["complete"] = on["cancel"] => ~UnderWay("complete")
    <3>1. a = "complete" => on["complete"] # on["cancel"]
      BY <2>1
    <3>2. a # "complete" => pc["complete"] = "done"
      BY <1>1, <2>3, <2>4, Three
      DEF IInv, Flags, Typed, Settling
    <3>. QED
      BY <3>1, <3>2 DEF UnderWay
  <2>. QED
    BY <2>6, <2>7, <2>8, Three DEF At
<1>2. IInv => NoCircularWait
  BY <1>1 DEF NoCircularWait
<1>. QED
  BY <1>2, Invariance, PTL

-----------------------------------------------------------------------------
(* Whoever is last does what is left to do. *)

AllOver == \A a \in Activities : ~UnderWay(a)

(* When no call is under way any more, a future whose child has completed  *)
(* has left nothing behind; and one that was started has answered, if the  *)
(* child has completed or a stop request has come to its callback.         *)
NothingLeft ==
    AllOver =>
        /\ completed => ~alive /\ associations = 0
        /\ callback # "none"
             /\ (completed \/ (stop /\ callback # "registered"))
             => answers # <<>>

(* What is still to be done, and who will do it.                           *)
Owed ==
    /\ completed /\ alive =>
         \/ cancelling \/ \E a \in Activities : Settling(a)
         \/ pc["owner"] \in {"construct", "starting", "holding", "abandon",
                             "consume"}
    /\ pc["owner"] \in {"request_stop", "callbacks", "done"} /\ ~completed =>
         abandoned \/ consumer \/ stopped
    /\ cancelling => consumer \/ pc["owner"] \in {"consume", "deliver"}
    /\ ~alive /\ associations # 0 =>
         \E a \in Activities : pc[a] = "release"
    /\ stopped /\ callback # "reset" =>
         \/ pc["cancel"] = "deliver_stopped"
         \/ pc["owner"] \in {"consume", "deliver_stopped"}
    /\ pc["cancel"] = "done" /\ callback = "fired" => completed \/ stopped
    /\ Gone => callback \in {"none", "reset"} \/ stopped

LEMMA OwedStep == IInv /\ Owed /\ [Next]_vars => Owed'
<1> SUFFICES ASSUME IInv, Owed, [Next]_vars PROVE Owed'
  OBVIOUS
<1> USE Three DEF Owed, IInv, Typed, Flags, Registration, Settled, NoUse,
                  Settling, Gone, stateVars, consumerVars, flags, Goto
<1>1. ASSUME Associate PROVE Owed'
  BY <1>1 DEF Associate, At
<1>2. ASSUME Refuse PROVE Owed'
  BY <1>2 DEF Refuse, At
<1>3. ASSUME ConstructReturns PROVE Owed'
  BY <1>3 DEF ConstructReturns, At
<1>4. ASSUME NEW t \in Threads, ChildCompletes(t) PROVE Owed'
  BY <1>4 DEF ChildCompletes
<1>5. ASSUME Complete PROVE Owed'
  BY <1>5 DEF Complete, At, Labels
<1>6. ASSUME DropFuture PROVE Owed'
  BY <1>6 DEF DropFuture, At
<1>7. ASSUME Abandon PROVE Owed'
  BY <1>7 DEF Abandon, At
<1>8. ASSUME StartFuture PROVE Owed'
  BY <1>8 DEF StartFuture, At
<1>9. ASSUME Consume PROVE Owed'
  BY <1>9 DEF Consume, At, Uses, Usable, Labels
<1>10. ASSUME StopConsumer PROVE Owed'
  BY <1>10 DEF StopConsumer
<1>11. ASSUME FireCallback PROVE Owed'
  BY <1>11 DEF FireCallback
<1>12. ASSUME TryCancel PROVE Owed'
  BY <1>12 DEF TryCancel, At, Uses, Usable, Labels
<1>13. ASSUME FinishCancellation PROVE Owed'
  BY <1>13 DEF FinishCancellation, At
<1>14. ASSUME NEW a \in {"owner", "cancel"},
              RequestStop(a) \/ CallbacksReturn(a)
       PROVE  Owed'
  BY <1>14 DEF RequestStop, CallbacksReturn, At
<1>15. ASSUME NEW a \in Activities, Deliver(a) PROVE Owed'
  BY <1>15 DEF Deliver, At, MayReset, UnderWay, Labels
<1>16. ASSUME NEW a \in Activities, DeliverStopped(a) PROVE Owed'
  BY <1>16 DEF DeliverStopped, At
<1>17. ASSUME NEW a \in Activities, Destroy(a) PROVE Owed'
  BY <1>17 DEF Destroy, At
<1>18. ASSUME NEW a \in Activities, Release(a) PROVE Owed'
  BY <1>18 DEF Release, At
<1>19. CASE UNCHANGED vars
  BY <1>19 DEF vars
<1>. QED
  BY <1>1, <1>2, <1>3, <1>4, <1>5, <1>6, <1>7, <1>8, <1>9, <1>10,
     <1>11, <1>12, <1>13, <1>14, <1>15, <1>16, <1>17, <1>18, <1>19
  DEF Next, Step

(* The safety that FutureAnswered and StateReclaimed rest on: no order of  *)
(* owner, cancellation and completion leaves the state, its association or *)
(* the answer to somebody who has left already.                            *)
THEOREM LastOneFinishes == Spec => []NothingLeft
<1>1. Init => Owed
  BY Three DEF Init, Owed, Gone, Settling
<1>2. IInv /\ Owed => NothingLeft
  <2> SUFFICES ASSUME IInv, Owed, AllOver
               PROVE  /\ completed => ~alive /\ associations = 0
                      /\ callback # "none"
                           /\ (completed \/ (stop /\ callback # "registered"))
                           => answers # <<>>
    BY DEF NothingLeft
  <2>1. \A a \in Activities : pc[a] \in {"idle", "done"}
    BY DEF AllOver, UnderWay
  <2>2. ~cancelling /\ \A a \in Activities : ~Settling(a)
    BY <2>1, Three DEF IInv, Flags, Settling
  <2>3. completed => ~alive /\ associations = 0
    BY <2>1, <2>2, Three DEF Owed
  <2>4. stopped => callback = "reset"
    BY <2>1, Three DEF Owed
  <2>5. completed => callback \in {"none", "reset"}
    BY <2>3, <2>4 DEF Owed, Gone
  <2>6. callback = "fired" => completed \/ stopped
    BY <2>1, Three DEF Owed, IInv, Registration
  <2>7. callback = "reset" => answers # <<>>
    BY DEF IInv, Answer
  <2>8. callback \in {"none", "registered", "fired", "reset"}
    BY DEF IInv, Typed
  <2>9. completed /\ callback # "none" => answers # <<>>
    BY ONLY <2>5, <2>7, <2>8
  <2>10. callback = "fired" => answers # <<>>
    BY ONLY <2>4, <2>6, <2>7, <2>9
  <2>. QED
    BY ONLY <2>3, <2>7, <2>8, <2>9, <2>10
<1>. QED
  BY <1>1, <1>2, OwedStep, Invariance, PTL DEF Spec
=============================================================================
