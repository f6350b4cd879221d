-------------------------- MODULE ScopedWork_proofs --------------------------
(***************************************************************************)
(* Proofs about ScopedWork, for any spawned operations, associated senders *)
(* and joins.                                                              *)
(*                                                                         *)
(* Jobs meet in the scope only, so the invariant is about every job by     *)
(* itself: which of start() and the completion of the child is where, what *)
(* is left of the child, and what the stop callback may still do.          *)
(***************************************************************************)
EXTENDS ScopedWork, TLAPS

-----------------------------------------------------------------------------
(* The inductive invariant, in named parts. *)

(* Once a join was answered the scope is empty, and shut for good. *)
Shut == joined # {} => ~open /\ active = {}

Completing == {"reset_base", "reset_scope", "complete"}

(* The two activities of a spawned operation meet at the flag, and whoever *)
(* comes second finishes it.                                               *)
SpawnPhases ==
    \A j \in Spawns :
        \/ /\ child[j] = "none" /\ ~arrived[j]
           /\ At("owner", j, "idle") /\ At("child", j, "idle")
        \/ /\ child[j] = "made" /\ ~arrived[j]
           /\ pc["owner"][j] \in {"register_scope", "register_base", "finish"}
           /\ At("child", j, "idle")
        \/ /\ child[j] = "running"
           /\ At("owner", j, IF arrived[j] THEN "done" ELSE "arrive")
           /\ pc["child"][j] \in Completing \union {"idle"}
        \/ /\ child[j] = "completed" /\ ~arrived[j]
           /\ At("owner", j, "arrive") /\ At("child", j, "arrive")
        \/ /\ child[j] = "completed" /\ arrived[j]
           /\ \/ At("owner", j, "done") /\ At("child", j, "arrive")
              \/ At("owner", j, "arrive") /\ At("child", j, "done")
              \/ At("owner", j, "done") /\ At("child", j, "finish")
              \/ At("owner", j, "finish") /\ At("child", j, "done")
        \/ /\ child[j] = "destroyed"
           /\ \/ /\ pc["owner"][j] \in {"release", "done"}
                 /\ pc["child"][j] \in {"idle", "done"}
              \/ At("owner", j, "done") /\ At("child", j, "release")

(* The operation of an associated sender is its owner's again once the     *)
(* receiver was completed.                                                 *)
SenderPhases ==
    \A j \in Senders :
        \/ /\ child[j] = "none"
           /\ pc["owner"][j] \in {"idle", "holding", "answered"}
           /\ At("child", j, "idle")
        \/ /\ child[j] = "made"
           /\ pc["owner"][j] \in {"holding", "register_scope", "register_base"}
           /\ At("child", j, "idle")
        \/ /\ child[j] = "running"
           /\ At("owner", j, "started")
           /\ pc["child"][j] \in Completing \union {"idle"}
        \/ /\ child[j] = "completed"
           /\ At("owner", j, "answered") /\ At("child", j, "done")
        \/ /\ child[j] = "destroyed"
           /\ pc["owner"][j] \in {"release", "done"}
           /\ pc["child"][j] \in {"idle", "done"}

(* A child that may run, or be in use, has its association. *)
Associated ==
    \A j \in Jobs :
        child[j] \in {"running", "completed"}
          \/ (child[j] = "made" /\ ~At("owner", j, "finish"))
        => j \in active

(* A registration is made by start(), and is gone after the reset unless   *)
(* the completion is nested in its own call.                               *)
CallbacksOf(j) ==
    /\ invoked[j] = IF called[j] THEN 1 ELSE 0
    /\ At("child", j, "idle") /\ child[j] # "running" =>
         callback[j]["base"] = "none"
    /\ At("child", j, "idle") /\ child[j] # "running"
         /\ ~At("owner", j, "register_base") =>
           callback[j]["scope"] = "none"
    /\ pc["child"][j] \notin {"idle", "reset_base"} =>
         callback[j]["base"] = "reset" \/ within[j] = "base"
    /\ pc["child"][j] \notin {"idle", "reset_base", "reset_scope"} =>
         callback[j]["scope"] = "reset" \/ within[j] = "scope"

Callbacks == \A j \in Jobs : CallbacksOf(j)

Inv ==
    /\ TypeOK
    /\ Shut
    /\ SpawnPhases /\ SenderPhases
    /\ Associated
    /\ Callbacks

-----------------------------------------------------------------------------
(* The invariant is inductive. *)

(* The invariant holds in the beginning. *)
LEMMA InvInit == Init => Inv
<1> SUFFICES ASSUME Init PROVE Inv
  OBVIOUS
<1> USE DEF Init, Scope!Init, At, Roles, Tokens, Jobs
<1>1. TypeOK /\ Shut
  BY DEF TypeOK, Shut
<1>2. SpawnPhases /\ SenderPhases
  BY DEF SpawnPhases, SenderPhases
<1>3. Associated
  BY DEF Associated
<1>4. Callbacks
  BY DEF Callbacks, CallbacksOf
<1>. QED
  BY <1>1, <1>2, <1>3, <1>4 DEF Inv

(* Every variable keeps its type. *)
LEMMA TypeOKStep == Inv /\ [Next]_vars => TypeOK'
<1> SUFFICES ASSUME Inv, [Next]_vars PROVE TypeOK'
  OBVIOUS
<1> USE DEF Inv, TypeOK, Roles, Tokens, Jobs, Goto, SetChild, scopeVars,
            stopVars
<1>1. ASSUME NEW j \in Jobs, Associate(j)
      PROVE  TypeOK'
  BY <1>1 DEF Associate, Scope!Associate
<1>2. ASSUME NEW j \in Jobs, Refuse(j)
      PROVE  TypeOK'
  BY <1>2 DEF Refuse
<1>3. ASSUME NEW j \in Jobs, StartSender(j)
      PROVE  TypeOK'
  BY <1>3 DEF StartSender
<1>4. ASSUME NEW j \in Jobs, DestroySender(j)
      PROVE  TypeOK'
  BY <1>4 DEF DestroySender, DestroyJob
<1>5. ASSUME NEW j \in Jobs, ChildCompletes(j)
      PROVE  TypeOK'
  BY <1>5 DEF ChildCompletes
<1>6. ASSUME NEW j \in Jobs, StopEnv(j)
      PROVE  TypeOK'
  BY <1>6 DEF StopEnv
<1>7. ASSUME NEW j \in Jobs, Complete(j)
      PROVE  TypeOK'
  BY <1>7 DEF Complete
<1>8. ASSUME NEW j \in Jobs, NEW k \in Tokens, Register(j, k)
      PROVE  TypeOK'
  <2>1. /\ callback' \in [Jobs -> [Tokens -> {"none", "registered",
                                    "invoking", "over", "reset"}]]
        /\ called' \in [Jobs -> BOOLEAN]
        /\ invoked' \in [Jobs -> Nat]
    <3>1. CASE Stopped(j, k)
      <4>1. callback' = [callback EXCEPT ![j][k] = "over"] /\ CallOnce(j)
        BY <1>8, <3>1 DEF Register
      <4>2. called' \in [Jobs -> BOOLEAN] /\ invoked' \in [Jobs -> Nat]
        BY <4>1 DEF CallOnce
      <4>. QED
        BY <4>1, <4>2
    <3>2. CASE ~Stopped(j, k)
      BY <1>8, <3>2 DEF Register
    <3>. QED
      BY <3>1, <3>2
  <2>2. /\ pc' \in [Roles -> [Jobs ->
              {"idle", "holding", "register_scope", "register_base",
               "started", "arrive", "answered", "reset_base", "reset_scope",
               "complete", "finish", "release", "done"}]]
        /\ child' \in [Jobs -> {"none", "made", "running", "completed",
                                "destroyed"}]
    BY <1>8 DEF Register
  <2>. QED
    BY <1>8, <2>1, <2>2 DEF Register
<1>9. ASSUME NEW j \in Jobs, NEW k \in Tokens, Call(j, k)
      PROVE  TypeOK'
  BY <1>9 DEF Call, CallOnce
<1>10. ASSUME NEW j \in Jobs, NEW k \in Tokens, CallReturns(j, k)
      PROVE  TypeOK'
  BY <1>10 DEF CallReturns
<1>11. ASSUME NEW j \in Jobs, NEW k \in Tokens, Reset(j, k)
      PROVE  TypeOK'
  BY <1>11 DEF Reset
<1>12. ASSUME NEW j \in Jobs, NEW r \in Roles, Arrive(r, j)
      PROVE  TypeOK'
  BY <1>12 DEF Arrive
<1>13. ASSUME NEW j \in Jobs, NEW r \in Roles, Finish(r, j)
      PROVE  TypeOK'
  BY <1>13 DEF Finish, DestroyJob
<1>14. ASSUME NEW j \in Jobs, NEW r \in Roles, Release(r, j)
      PROVE  TypeOK'
  BY <1>14 DEF Release, Scope!Disassociate
<1>15. CASE StopScope
  BY <1>15 DEF StopScope
<1>16. CASE UseScope
  BY <1>16 DEF UseScope, Scope!Close, Scope!StartJoin
<1>17. ASSUME NEW w \in Joins, AnswerJoin(w)
      PROVE  TypeOK'
  BY <1>17 DEF AnswerJoin, Scope!AnswerJoin
<1>18. CASE UNCHANGED vars
  BY <1>18 DEF vars
<1> HIDE DEF Inv, TypeOK, Roles, Tokens, Jobs, Goto, SetChild, scopeVars,
             stopVars
<1>. QED
  BY <1>1, <1>2, <1>3, <1>4, <1>5, <1>6, <1>7, <1>8, <1>9,
     <1>10, <1>11, <1>12, <1>13, <1>14, <1>15, <1>16, <1>17, <1>18
  DEF Next, Step

(* A scope that answered a join stays empty. *)
LEMMA ShutStep == Inv /\ [Next]_vars => Shut'
<1> SUFFICES ASSUME Inv, [Next]_vars PROVE Shut'
  OBVIOUS
<1>0. TypeOK /\ Shut
  BY DEF Inv
<1> USE <1>0 DEF TypeOK, Shut, scopeVars
<1>1. ASSUME NEW j \in Jobs, Associate(j)
      PROVE  Shut'
  BY <1>1 DEF Associate, Scope!Associate
<1>2. ASSUME NEW j \in Jobs, Refuse(j)
      PROVE  Shut'
  BY <1>2 DEF Refuse
<1>3. ASSUME NEW j \in Jobs, StartSender(j)
      PROVE  Shut'
  BY <1>3 DEF StartSender
<1>4. ASSUME NEW j \in Jobs, DestroySender(j)
      PROVE  Shut'
  BY <1>4 DEF DestroySender, DestroyJob
<1>5. ASSUME NEW j \in Jobs, ChildCompletes(j)
      PROVE  Shut'
  BY <1>5 DEF ChildCompletes
<1>6. ASSUME NEW j \in Jobs, StopEnv(j)
      PROVE  Shut'
  BY <1>6 DEF StopEnv
<1>7. ASSUME NEW j \in Jobs, Complete(j)
      PROVE  Shut'
  BY <1>7 DEF Complete
<1>8. ASSUME NEW j \in Jobs, NEW k \in Tokens, Register(j, k)
      PROVE  Shut'
  BY <1>8 DEF Register, CallOnce
<1>9. ASSUME NEW j \in Jobs, NEW k \in Tokens, Call(j, k)
      PROVE  Shut'
  BY <1>9 DEF Call, CallOnce
<1>10. ASSUME NEW j \in Jobs, NEW k \in Tokens, CallReturns(j, k)
      PROVE  Shut'
  BY <1>10 DEF CallReturns
<1>11. ASSUME NEW j \in Jobs, NEW k \in Tokens, Reset(j, k)
      PROVE  Shut'
  BY <1>11 DEF Reset
<1>12. ASSUME NEW j \in Jobs, NEW r \in Roles, Arrive(r, j)
      PROVE  Shut'
  BY <1>12 DEF Arrive
<1>13. ASSUME NEW j \in Jobs, NEW r \in Roles, Finish(r, j)
      PROVE  Shut'
  BY <1>13 DEF Finish, DestroyJob
<1>14. ASSUME NEW j \in Jobs, NEW r \in Roles, Release(r, j)
      PROVE  Shut'
  BY <1>14 DEF Release, Scope!Disassociate
<1>15. CASE StopScope
  BY <1>15 DEF StopScope
<1>16. CASE UseScope
  BY <1>16 DEF UseScope, Scope!Close, Scope!StartJoin
<1>17. ASSUME NEW w \in Joins, AnswerJoin(w)
      PROVE  Shut'
  BY <1>17 DEF AnswerJoin, Scope!AnswerJoin
<1>18. CASE UNCHANGED vars
  BY <1>18 DEF vars
<1> HIDE DEF TypeOK, Shut, scopeVars
<1>. QED
  BY <1>1, <1>2, <1>3, <1>4, <1>5, <1>6, <1>7, <1>8, <1>9,
     <1>10, <1>11, <1>12, <1>13, <1>14, <1>15, <1>16, <1>17, <1>18
  DEF Next, Step

(* The activities of a spawned operation. *)
LEMMA SpawnPhasesStep == Inv /\ [Next]_vars => SpawnPhases'
<1> SUFFICES ASSUME Inv, [Next]_vars PROVE SpawnPhases'
  OBVIOUS
<1>0. TypeOK /\ SpawnPhases
  BY DEF Inv
<1> USE <1>0, KindsAssumption
    DEF TypeOK, SpawnPhases, Completing, At, Goto, SetChild, Roles, Tokens,
        Jobs
<1>1. ASSUME NEW j \in Jobs, Associate(j)
      PROVE  SpawnPhases'
  BY <1>1 DEF Associate, Scope!Associate
<1>2. ASSUME NEW j \in Jobs, Refuse(j)
      PROVE  SpawnPhases'
  BY <1>2 DEF Refuse
<1>3. ASSUME NEW j \in Jobs, StartSender(j)
      PROVE  SpawnPhases'
  BY <1>3 DEF StartSender
<1>4. ASSUME NEW j \in Jobs, DestroySender(j)
      PROVE  SpawnPhases'
  BY <1>4 DEF DestroySender, DestroyJob
<1>5. ASSUME NEW j \in Jobs, ChildCompletes(j)
      PROVE  SpawnPhases'
  BY <1>5 DEF ChildCompletes
<1>6. ASSUME NEW j \in Jobs, StopEnv(j)
      PROVE  SpawnPhases'
  BY <1>6 DEF StopEnv
<1>7. ASSUME NEW j \in Jobs, Complete(j)
      PROVE  SpawnPhases'
  BY <1>7 DEF Complete
<1>8. ASSUME NEW j \in Jobs, NEW k \in Tokens, Register(j, k)
      PROVE  SpawnPhases'
  BY <1>8 DEF Register, CallOnce
<1>9. ASSUME NEW j \in Jobs, NEW k \in Tokens, Call(j, k)
      PROVE  SpawnPhases'
  BY <1>9 DEF Call, CallOnce
<1>10. ASSUME NEW j \in Jobs, NEW k \in Tokens, CallReturns(j, k)
      PROVE  SpawnPhases'
  BY <1>10 DEF CallReturns
<1>11. ASSUME NEW j \in Jobs, NEW k \in Tokens, Reset(j, k)
      PROVE  SpawnPhases'
  BY <1>11 DEF Reset
<1>12. ASSUME NEW j \in Jobs, NEW r \in Roles, Arrive(r, j)
      PROVE  SpawnPhases'
  BY <1>12 DEF Arrive
<1>13. ASSUME NEW j \in Jobs, NEW r \in Roles, Finish(r, j)
      PROVE  SpawnPhases'
  BY <1>13 DEF Finish, DestroyJob
<1>14. ASSUME NEW j \in Jobs, NEW r \in Roles, Release(r, j)
      PROVE  SpawnPhases'
  BY <1>14 DEF Release, Scope!Disassociate
<1>15. CASE StopScope
  BY <1>15 DEF StopScope
<1>16. CASE UseScope
  BY <1>16 DEF UseScope, Scope!Close, Scope!StartJoin
<1>17. ASSUME NEW w \in Joins, AnswerJoin(w)
      PROVE  SpawnPhases'
  BY <1>17 DEF AnswerJoin, Scope!AnswerJoin
<1>18. CASE UNCHANGED vars
  BY <1>18 DEF vars
<1> HIDE DEF TypeOK, SpawnPhases, Completing, At, Goto, SetChild, Roles,
             Tokens, Jobs
<1>. QED
  BY <1>1, <1>2, <1>3, <1>4, <1>5, <1>6, <1>7, <1>8, <1>9,
     <1>10, <1>11, <1>12, <1>13, <1>14, <1>15, <1>16, <1>17, <1>18
  DEF Next, Step

(* The activities of an associated sender. *)
LEMMA SenderPhasesStep == Inv /\ [Next]_vars => SenderPhases'
<1> SUFFICES ASSUME Inv, [Next]_vars PROVE SenderPhases'
  OBVIOUS
<1>0. TypeOK /\ SenderPhases
  BY DEF Inv
<1> USE <1>0, KindsAssumption
    DEF TypeOK, SenderPhases, Completing, At, Goto, SetChild, Roles, Tokens,
        Jobs
<1>1. ASSUME NEW j \in Jobs, Associate(j)
      PROVE  SenderPhases'
  BY <1>1 DEF Associate, Scope!Associate
<1>2. ASSUME NEW j \in Jobs, Refuse(j)
      PROVE  SenderPhases'
  BY <1>2 DEF Refuse
<1>3. ASSUME NEW j \in Jobs, StartSender(j)
      PROVE  SenderPhases'
  BY <1>3 DEF StartSender
<1>4. ASSUME NEW j \in Jobs, DestroySender(j)
      PROVE  SenderPhases'
  BY <1>4 DEF DestroySender, DestroyJob
<1>5. ASSUME NEW j \in Jobs, ChildCompletes(j)
      PROVE  SenderPhases'
  BY <1>5 DEF ChildCompletes
<1>6. ASSUME NEW j \in Jobs, StopEnv(j)
      PROVE  SenderPhases'
  BY <1>6 DEF StopEnv
<1>7. ASSUME NEW j \in Jobs, Complete(j)
      PROVE  SenderPhases'
  BY <1>7 DEF Complete
<1>8. ASSUME NEW j \in Jobs, NEW k \in Tokens, Register(j, k)
      PROVE  SenderPhases'
  BY <1>8 DEF Register, CallOnce
<1>9. ASSUME NEW j \in Jobs, NEW k \in Tokens, Call(j, k)
      PROVE  SenderPhases'
  BY <1>9 DEF Call, CallOnce
<1>10. ASSUME NEW j \in Jobs, NEW k \in Tokens, CallReturns(j, k)
      PROVE  SenderPhases'
  BY <1>10 DEF CallReturns
<1>11. ASSUME NEW j \in Jobs, NEW k \in Tokens, Reset(j, k)
      PROVE  SenderPhases'
  BY <1>11 DEF Reset
<1>12. ASSUME NEW j \in Jobs, NEW r \in Roles, Arrive(r, j)
      PROVE  SenderPhases'
  BY <1>12 DEF Arrive
<1>13. ASSUME NEW j \in Jobs, NEW r \in Roles, Finish(r, j)
      PROVE  SenderPhases'
  BY <1>13 DEF Finish, DestroyJob
<1>14. ASSUME NEW j \in Jobs, NEW r \in Roles, Release(r, j)
      PROVE  SenderPhases'
  BY <1>14 DEF Release, Scope!Disassociate
<1>15. CASE StopScope
  BY <1>15 DEF StopScope
<1>16. CASE UseScope
  BY <1>16 DEF UseScope, Scope!Close, Scope!StartJoin
<1>17. ASSUME NEW w \in Joins, AnswerJoin(w)
      PROVE  SenderPhases'
  BY <1>17 DEF AnswerJoin, Scope!AnswerJoin
<1>18. CASE UNCHANGED vars
  BY <1>18 DEF vars
<1> HIDE DEF TypeOK, SenderPhases, Completing, At, Goto, SetChild, Roles,
             Tokens, Jobs
<1>. QED
  BY <1>1, <1>2, <1>3, <1>4, <1>5, <1>6, <1>7, <1>8, <1>9,
     <1>10, <1>11, <1>12, <1>13, <1>14, <1>15, <1>16, <1>17, <1>18
  DEF Next, Step

(* What may run has its association. *)
LEMMA AssociatedStep == Inv /\ [Next]_vars => Associated'
<1> SUFFICES ASSUME Inv, [Next]_vars PROVE Associated'
  OBVIOUS
<1>0. TypeOK /\ SpawnPhases /\ SenderPhases /\ Associated
  BY DEF Inv
<1> USE <1>0, KindsAssumption
    DEF TypeOK, SpawnPhases, SenderPhases, Associated, Completing, At, Goto,
        SetChild, Roles, Tokens, Jobs, scopeVars
<1>1. ASSUME NEW j \in Jobs, Associate(j)
      PROVE  Associated'
  BY <1>1 DEF Associate, Scope!Associate
<1>2. ASSUME NEW j \in Jobs, Refuse(j)
      PROVE  Associated'
  BY <1>2 DEF Refuse
<1>3. ASSUME NEW j \in Jobs, StartSender(j)
      PROVE  Associated'
  BY <1>3 DEF StartSender
<1>4. ASSUME NEW j \in Jobs, DestroySender(j)
      PROVE  Associated'
  BY <1>4 DEF DestroySender, DestroyJob
<1>5. ASSUME NEW j \in Jobs, ChildCompletes(j)
      PROVE  Associated'
  BY <1>5 DEF ChildCompletes
<1>6. ASSUME NEW j \in Jobs, StopEnv(j)
      PROVE  Associated'
  BY <1>6 DEF StopEnv
<1>7. ASSUME NEW j \in Jobs, Complete(j)
      PROVE  Associated'
  BY <1>7 DEF Complete
<1>8. ASSUME NEW j \in Jobs, NEW k \in Tokens, Register(j, k)
      PROVE  Associated'
  BY <1>8 DEF Register, CallOnce
<1>9. ASSUME NEW j \in Jobs, NEW k \in Tokens, Call(j, k)
      PROVE  Associated'
  BY <1>9 DEF Call, CallOnce
<1>10. ASSUME NEW j \in Jobs, NEW k \in Tokens, CallReturns(j, k)
      PROVE  Associated'
  BY <1>10 DEF CallReturns
<1>11. ASSUME NEW j \in Jobs, NEW k \in Tokens, Reset(j, k)
      PROVE  Associated'
  BY <1>11 DEF Reset
<1>12. ASSUME NEW j \in Jobs, NEW r \in Roles, Arrive(r, j)
      PROVE  Associated'
  BY <1>12 DEF Arrive
<1>13. ASSUME NEW j \in Jobs, NEW r \in Roles, Finish(r, j)
      PROVE  Associated'
  BY <1>13 DEF Finish, DestroyJob
<1>14. ASSUME NEW j \in Jobs, NEW r \in Roles, Release(r, j)
      PROVE  Associated'
  BY <1>14 DEF Release, Scope!Disassociate
<1>15. CASE StopScope
  BY <1>15 DEF StopScope
<1>16. CASE UseScope
  BY <1>16 DEF UseScope, Scope!Close, Scope!StartJoin
<1>17. ASSUME NEW w \in Joins, AnswerJoin(w)
      PROVE  Associated'
  BY <1>17 DEF AnswerJoin, Scope!AnswerJoin
<1>18. CASE UNCHANGED vars
  BY <1>18 DEF vars
<1> HIDE DEF TypeOK, SpawnPhases, SenderPhases, Associated, Completing, At,
             Goto, SetChild, Roles, Tokens, Jobs, scopeVars
<1>. QED
  BY <1>1, <1>2, <1>3, <1>4, <1>5, <1>6, <1>7, <1>8, <1>9,
     <1>10, <1>11, <1>12, <1>13, <1>14, <1>15, <1>16, <1>17, <1>18
  DEF Next, Step

(* What the stop callback may still do. *)
LEMMA CallbacksStep == Inv /\ [Next]_vars => Callbacks'
<1> SUFFICES ASSUME Inv, [Next]_vars PROVE Callbacks'
  OBVIOUS
<1>0. TypeOK /\ SpawnPhases /\ SenderPhases /\ Callbacks
  BY DEF Inv
<1> USE <1>0, KindsAssumption
    DEF TypeOK, SpawnPhases, SenderPhases, Callbacks, CallbacksOf, Completing, At, Goto,
        SetChild, Roles, Tokens, Jobs, stopVars
<1>1. ASSUME NEW j \in Jobs, Associate(j)
      PROVE  Callbacks'
  BY <1>1 DEF Associate, Scope!Associate
<1>2. ASSUME NEW j \in Jobs, Refuse(j)
      PROVE  Callbacks'
  BY <1>2 DEF Refuse
<1>3. ASSUME NEW j \in Jobs, StartSender(j)
      PROVE  Callbacks'
  BY <1>3 DEF StartSender
<1>4. ASSUME NEW j \in Jobs, DestroySender(j)
      PROVE  Callbacks'
  BY <1>4 DEF DestroySender, DestroyJob
<1>5. ASSUME NEW j \in Jobs, ChildCompletes(j)
      PROVE  Callbacks'
  BY <1>5 DEF ChildCompletes
<1>6. ASSUME NEW j \in Jobs, StopEnv(j)
      PROVE  Callbacks'
  BY <1>6 DEF StopEnv
<1>7. ASSUME NEW j \in Jobs, Complete(j)
      PROVE  Callbacks'
  BY <1>7 DEF Complete
<1>8. ASSUME NEW j \in Jobs, NEW k \in Tokens, Register(j, k)
      PROVE  Callbacks'
  <2> SUFFICES ASSUME NEW i \in Jobs PROVE CallbacksOf(i)'
    BY DEF Callbacks
  <2>1. CASE i = j
    BY <1>8, <2>1 DEF Register, CallOnce
  <2>2. CASE i # j
    BY <1>8, <2>2 DEF Register, CallOnce
  <2>. QED
    BY <2>1, <2>2
<1>9. ASSUME NEW j \in Jobs, NEW k \in Tokens, Call(j, k)
      PROVE  Callbacks'
  <2> SUFFICES ASSUME NEW i \in Jobs PROVE CallbacksOf(i)'
    BY DEF Callbacks
  <2>1. CASE i = j
    BY <1>9, <2>1 DEF Call, CallOnce
  <2>2. CASE i # j
    BY <1>9, <2>2 DEF Call, CallOnce
  <2>. QED
    BY <2>1, <2>2
<1>10. ASSUME NEW j \in Jobs, NEW k \in Tokens, CallReturns(j, k)
      PROVE  Callbacks'
  BY <1>10 DEF CallReturns
<1>11. ASSUME NEW j \in Jobs, NEW k \in Tokens, Reset(j, k)
      PROVE  Callbacks'
  <2> SUFFICES ASSUME NEW i \in Jobs PROVE CallbacksOf(i)'
    BY DEF Callbacks
  <2>1. CASE i = j
    BY <1>11, <2>1 DEF Reset
  <2>2. CASE i # j
    BY <1>11, <2>2 DEF Reset
  <2>. QED
    BY <2>1, <2>2
<1>12. ASSUME NEW j \in Jobs, NEW r \in Roles, Arrive(r, j)
      PROVE  Callbacks'
  BY <1>12 DEF Arrive
<1>13. ASSUME NEW j \in Jobs, NEW r \in Roles, Finish(r, j)
      PROVE  Callbacks'
  <2> SUFFICES ASSUME NEW i \in Jobs PROVE CallbacksOf(i)'
    BY DEF Callbacks
  <2>1. CASE i = j
    BY <1>13, <2>1 DEF Finish, DestroyJob
  <2>2. CASE i # j
    BY <1>13, <2>2 DEF Finish, DestroyJob
  <2>. QED
    BY <2>1, <2>2
<1>14. ASSUME NEW j \in Jobs, NEW r \in Roles, Release(r, j)
      PROVE  Callbacks'
  BY <1>14 DEF Release, Scope!Disassociate
<1>15. CASE StopScope
  BY <1>15 DEF StopScope
<1>16. CASE UseScope
  BY <1>16 DEF UseScope, Scope!Close, Scope!StartJoin
<1>17. ASSUME NEW w \in Joins, AnswerJoin(w)
      PROVE  Callbacks'
  BY <1>17 DEF AnswerJoin, Scope!AnswerJoin
<1>18. CASE UNCHANGED vars
  BY <1>18 DEF vars
<1> HIDE DEF TypeOK, SpawnPhases, SenderPhases, Callbacks, CallbacksOf, Completing, At,
             Goto, SetChild, Roles, Tokens, Jobs, stopVars
<1>. QED
  BY <1>1, <1>2, <1>3, <1>4, <1>5, <1>6, <1>7, <1>8, <1>9,
     <1>10, <1>11, <1>12, <1>13, <1>14, <1>15, <1>16, <1>17, <1>18
  DEF Next, Step

(* The invariant is inductive. *)
LEMMA InvStep == Inv /\ [Next]_vars => Inv'
  BY TypeOKStep, ShutStep, SpawnPhasesStep, SenderPhasesStep, AssociatedStep,
     CallbacksStep
  DEF Inv

-----------------------------------------------------------------------------
(* What follows, for any jobs and joins. *)

(* The invariant holds in every behaviour: whatever is spawned, associated *)
(* and stopped, and wherever the children complete.                        *)
THEOREM Invariance == Spec => []Inv
  BY InvInit, InvStep, PTL DEF Spec

(* Every variable keeps its type. *)
THEOREM TypeCorrect == Spec => []TypeOK
<1>1. Inv => TypeOK
  BY DEF Inv
<1>. QED
  BY <1>1, Invariance, PTL

(* When a join is answered, every child that was started in the scope has  *)
(* been destroyed, and none will start.                                    *)
THEOREM JoinSafe == Spec => []JoinMeansGone
<1>1. Inv => JoinMeansGone
  <2> SUFFICES ASSUME Inv, joined # {}, NEW j \in Jobs
               PROVE  /\ child[j] \in {"none", "made", "destroyed"}
                      /\ child[j] = "made" => At("owner", j, "finish")
    BY DEF JoinMeansGone
  <2>1. j \notin active
    BY DEF Inv, Shut
  <2>. QED
    BY <2>1 DEF Inv, TypeOK, Associated
<1>. QED
  BY <1>1, Invariance, PTL

(* A job that was destroyed is used by nobody but the stop callback that   *)
(* its completion is nested in, and its child was stopped once at most.    *)
THEOREM DestroyedAlone == Spec => []NobodyInside
<1>1. Inv => NobodyInside
  <2> SUFFICES ASSUME Inv, NEW j \in Jobs
               PROVE  /\ child[j] = "destroyed" =>
                           /\ \A r \in Roles :
                                pc[r][j] \in {"idle", "done", "release"}
                           /\ \A k \in Tokens :
                                callback[j][k] \in {"registered", "invoking"}
                                  => within[j] = k
                      /\ invoked[j] <= 1
    BY DEF NobodyInside
  <2>1. invoked[j] <= 1
    BY DEF Inv, Callbacks, CallbacksOf
  <2>2. ASSUME child[j] = "destroyed"
        PROVE  /\ pc["owner"][j] \in {"release", "done"}
               /\ pc["child"][j] \in {"idle", "release", "done"}
    BY <2>2 DEF Inv, SpawnPhases, SenderPhases, Jobs, At
  <2>3. ASSUME child[j] = "destroyed", NEW k \in Tokens,
               callback[j][k] \in {"registered", "invoking"}
        PROVE  within[j] = k
    BY <2>2, <2>3 DEF Inv, Callbacks, CallbacksOf, Tokens, At
  <2>. QED
    BY <2>1, <2>2, <2>3 DEF Roles
<1>. QED
  BY <1>1, Invariance, PTL

-----------------------------------------------------------------------------
(* Whoever is last does what is left to do, and no stop request is missed. *)

(* When neither start() nor a completion of a job is under way, and its    *)
(* child does not run, the child has been destroyed and the scope left.    *)
JobsEnd ==
    \A j \in Jobs :
        At("owner", j, "done") /\ pc["child"][j] \in {"idle", "done"}
             /\ child[j] # "running"
             => child[j] = "destroyed" /\ j \notin active

(* A child that runs has been told to stop, or its callback is registered  *)
(* with both tokens, so that a request of either is going to tell it.      *)
StopsArrive ==
    \A j \in Jobs, k \in Tokens :
        child[j] = "running" /\ At("child", j, "idle") =>
            invoked[j] = 1 \/ callback[j][k] = "registered"

(* Whoever destroys a child gives its association back after that. *)
Leaving ==
    \A j \in Jobs :
        child[j] = "destroyed" /\ j \in active =>
            At("owner", j, "release") \/ At("child", j, "release")

(* Until the completion destroys it, a registration waits or was called.   *)
Registered ==
    \A j \in Jobs, k \in Tokens :
        /\ callback[j][k] \in {"invoking", "over"} => called[j]
        /\ At("child", j, "idle") => callback[j][k] # "reset"
        /\ At("owner", j, "register_base") => callback[j]["scope"] # "none"
        /\ child[j] = "running" => callback[j][k] # "none"

(* The activities of a job keep it so. *)
LEMMA LeavingStep == Inv /\ Leaving /\ [Next]_vars => Leaving'
<1> SUFFICES ASSUME Inv, Leaving, [Next]_vars PROVE Leaving'
  OBVIOUS
<1>0. TypeOK /\ Leaving /\ SpawnPhases /\ SenderPhases
  BY DEF Inv
<1> USE <1>0, KindsAssumption
    DEF TypeOK, Leaving, At, Goto, SetChild, Roles, Tokens, Jobs, scopeVars
<1>1. ASSUME NEW j \in Jobs, Associate(j)
      PROVE  Leaving'
  BY <1>1 DEF Associate, Scope!Associate
<1>2. ASSUME NEW j \in Jobs, Refuse(j)
      PROVE  Leaving'
  BY <1>2 DEF Refuse
<1>3. ASSUME NEW j \in Jobs, StartSender(j)
      PROVE  Leaving'
  BY <1>3 DEF StartSender
<1>4. ASSUME NEW j \in Jobs, DestroySender(j)
      PROVE  Leaving'
  BY <1>4 DEF DestroySender, DestroyJob
<1>5. ASSUME NEW j \in Jobs, ChildCompletes(j)
      PROVE  Leaving'
  BY <1>5 DEF ChildCompletes
<1>6. ASSUME NEW j \in Jobs, StopEnv(j)
      PROVE  Leaving'
  BY <1>6 DEF StopEnv
<1>7. ASSUME NEW j \in Jobs, Complete(j)
      PROVE  Leaving'
  BY <1>7 DEF Complete
<1>8. ASSUME NEW j \in Jobs, NEW k \in Tokens, Register(j, k)
      PROVE  Leaving'
  BY <1>8 DEF Register
<1>9. ASSUME NEW j \in Jobs, NEW k \in Tokens,
             Call(j, k) \/ CallReturns(j, k)
      PROVE  Leaving'
  BY <1>9 DEF Call, CallReturns
<1>10. ASSUME NEW j \in Jobs, NEW k \in Tokens, Reset(j, k)
      PROVE  Leaving'
  BY <1>10 DEF Reset
<1>11. ASSUME NEW j \in Jobs, NEW r \in Roles, Arrive(r, j)
      PROVE  Leaving'
  BY <1>11 DEF Arrive
<1>12. ASSUME NEW j \in Jobs, NEW r \in Roles, Finish(r, j)
      PROVE  Leaving'
  BY <1>12 DEF Finish, DestroyJob
<1>13. ASSUME NEW j \in Jobs, NEW r \in Roles, Release(r, j)
      PROVE  Leaving'
  BY <1>13 DEF Release, Scope!Disassociate
<1>14. CASE StopScope
  BY <1>14 DEF StopScope
<1>15. CASE UseScope
  BY <1>15 DEF UseScope, Scope!Close, Scope!StartJoin
<1>16. ASSUME NEW w \in Joins, AnswerJoin(w)
      PROVE  Leaving'
  BY <1>16 DEF AnswerJoin, Scope!AnswerJoin
<1>17. CASE UNCHANGED vars
  BY <1>17 DEF vars
<1> HIDE DEF TypeOK, Leaving, At, Goto, SetChild, Roles, Tokens, Jobs,
             scopeVars
<1>. QED
  BY <1>1, <1>2, <1>3, <1>4, <1>5, <1>6, <1>7, <1>8, <1>9,
     <1>10, <1>11, <1>12, <1>13, <1>14, <1>15, <1>16, <1>17
  DEF Next, Step

(* Registering, calling and resetting keep it so. *)
LEMMA RegisteredStep == Inv /\ Registered /\ [Next]_vars => Registered'
<1> SUFFICES ASSUME Inv, Registered, [Next]_vars PROVE Registered'
  OBVIOUS
<1>0. TypeOK /\ Registered /\ SpawnPhases /\ SenderPhases
  BY DEF Inv
<1> USE <1>0, KindsAssumption
    DEF TypeOK, Registered, At, Goto, SetChild, Roles, Tokens, Jobs, scopeVars,
        stopVars
<1>1. ASSUME NEW j \in Jobs, Associate(j)
      PROVE  Registered'
  BY <1>1 DEF Associate, Scope!Associate
<1>2. ASSUME NEW j \in Jobs, Refuse(j)
      PROVE  Registered'
  BY <1>2 DEF Refuse
<1>3. ASSUME NEW j \in Jobs, StartSender(j)
      PROVE  Registered'
  BY <1>3 DEF StartSender
<1>4. ASSUME NEW j \in Jobs, DestroySender(j)
      PROVE  Registered'
  BY <1>4 DEF DestroySender, DestroyJob
<1>5. ASSUME NEW j \in Jobs, ChildCompletes(j)
      PROVE  Registered'
  BY <1>5 DEF ChildCompletes
<1>6. ASSUME NEW j \in Jobs, StopEnv(j)
      PROVE  Registered'
  BY <1>6 DEF StopEnv
<1>7. ASSUME NEW j \in Jobs, Complete(j)
      PROVE  Registered'
  BY <1>7 DEF Complete
<1>8. ASSUME NEW j \in Jobs, NEW k \in Tokens, Register(j, k)
      PROVE  Registered'
  BY <1>8 DEF Register, CallOnce
<1>9. ASSUME NEW j \in Jobs, NEW k \in Tokens,
             Call(j, k) \/ CallReturns(j, k)
      PROVE  Registered'
  <2>1. CASE Call(j, k)
    BY <2>1 DEF Call, CallOnce
  <2>2. CASE CallReturns(j, k)
    BY <2>2 DEF CallReturns
  <2>. QED
    BY <1>9, <2>1, <2>2
<1>10. ASSUME NEW j \in Jobs, NEW k \in Tokens, Reset(j, k)
      PROVE  Registered'
  BY <1>10 DEF Reset
<1>11. ASSUME NEW j \in Jobs, NEW r \in Roles, Arrive(r, j)
      PROVE  Registered'
  BY <1>11 DEF Arrive
<1>12. ASSUME NEW j \in Jobs, NEW r \in Roles, Finish(r, j)
      PROVE  Registered'
  BY <1>12 DEF Finish, DestroyJob
<1>13. ASSUME NEW j \in Jobs, NEW r \in Roles, Release(r, j)
      PROVE  Registered'
  BY <1>13 DEF Release, Scope!Disassociate
<1>14. CASE StopScope
  BY <1>14 DEF StopScope
<1>15. CASE UseScope
  BY <1>15 DEF UseScope, Scope!Close, Scope!StartJoin
<1>16. ASSUME NEW w \in Joins, AnswerJoin(w)
      PROVE  Registered'
  BY <1>16 DEF AnswerJoin, Scope!AnswerJoin
<1>17. CASE UNCHANGED vars
  BY <1>17 DEF vars
<1> HIDE DEF TypeOK, Registered, At, Goto, SetChild, Roles, Tokens,
             Jobs, scopeVars, stopVars
<1>. QED
  BY <1>1, <1>2, <1>3, <1>4, <1>5, <1>6, <1>7, <1>8, <1>9,
     <1>10, <1>11, <1>12, <1>13, <1>14, <1>15, <1>16, <1>17
  DEF Next, Step

(* The safety that ChildrenEnd rests on, for the end of a job: whichever   *)
(* of start() and the completion is late destroys the child, after which   *)
(* the association is not forgotten.                                       *)
THEOREM NoneLeftBehind == Spec => []JobsEnd
<1>1. Init => Leaving
  BY DEF Init, Leaving, Scope!Init
<1>2. Inv /\ Leaving => JobsEnd
  BY DEF Inv, SpawnPhases, SenderPhases, Leaving, JobsEnd, Jobs, At
<1>. QED
  BY <1>1, <1>2, LeavingStep, Invariance, PTL DEF Spec

(* The safety that it rests on for stop requests: whichever comes first,   *)
(* the registration or the request, of either token, the child is told.    *)
THEOREM NoStopMissed == Spec => []StopsArrive
<1>1. Init => Registered
  BY DEF Init, Registered, At, Roles, Tokens
<1>2. Inv /\ Registered => StopsArrive
  <2> SUFFICES ASSUME Inv, Registered, NEW j \in Jobs, NEW k \in Tokens,
                      child[j] = "running", At("child", j, "idle")
               PROVE  invoked[j] = 1 \/ callback[j][k] = "registered"
    BY DEF StopsArrive
  <2>1. callback[j][k] \in {"none", "registered", "invoking", "over", "reset"}
    BY DEF Inv, TypeOK
  <2>2. callback[j][k] = "registered" \/ called[j]
    BY <2>1 DEF Registered
  <2>. QED
    BY <2>2 DEF Inv, Callbacks, CallbacksOf
<1>. QED
  BY <1>1, <1>2, RegisteredStep, Invariance, PTL DEF Spec

(* The scope is used as a scope may be: whatever the jobs and the users of *)
(* the scope do to it is a step of its contract, which CountingScope       *)
(* implements.                                                             *)
THEOREM ScopeIsContract == Spec => Scope!Spec
<1>1. Init => Scope!Init
  BY DEF Init
<1>2. ASSUME [Next]_vars PROVE [Scope!Next]_(Scope!vars)
  <2>1. CASE UNCHANGED scopeVars
    BY <2>1 DEF scopeVars, Scope!vars
  <2>2. ASSUME NEW j \in Jobs, Scope!Associate(j) \/ Scope!Disassociate(j)
        PROVE  [Scope!Next]_(Scope!vars)
    BY <2>2 DEF Scope!Next
  <2>3. ASSUME NEW j \in Jobs, Associate(j)
        PROVE  [Scope!Next]_(Scope!vars)
    BY <2>2, <2>3 DEF Associate
  <2>4. ASSUME NEW j \in Jobs, NEW r \in Roles, Release(r, j)
        PROVE  [Scope!Next]_(Scope!vars)
    BY <2>1, <2>2, <2>4 DEF Release
  <2>5. CASE UseScope
    BY <2>5 DEF UseScope, Scope!Next
  <2>6. ASSUME NEW w \in Joins, AnswerJoin(w)
        PROVE  [Scope!Next]_(Scope!vars)
    BY <2>6 DEF AnswerJoin, Scope!Next
  <2>7. ASSUME NEW j \in Jobs,
               \/ Refuse(j) \/ StartSender(j) \/ DestroySender(j)
               \/ ChildCompletes(j) \/ StopEnv(j) \/ Complete(j)
               \/ \E k \in Tokens : \/ Register(j, k) \/ Call(j, k)
                                    \/ CallReturns(j, k) \/ Reset(j, k)
               \/ \E r \in Roles : Arrive(r, j) \/ Finish(r, j)
        PROVE  UNCHANGED scopeVars
    BY <2>7
    DEF Refuse, StartSender, DestroySender, DestroyJob, ChildCompletes,
        StopEnv, Complete, Register, Call, CallReturns, Reset, Arrive, Finish
  <2>8. CASE StopScope \/ UNCHANGED vars
    BY <2>1, <2>8 DEF StopScope, vars
  <2>. QED
    BY <1>2, <2>1, <2>3, <2>4, <2>5, <2>6, <2>7, <2>8 DEF Next, Step
<1>. QED
  BY <1>1, <1>2, PTL DEF Spec, Scope!Spec
=============================================================================
