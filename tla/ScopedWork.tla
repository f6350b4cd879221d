----------------------------- MODULE ScopedWork -----------------------------
(***************************************************************************)
(* Work in a counting_scope: spawn() and associate()                       *)
(* (include/bexec/detail/associate.hpp), over what the scope promises.     *)
(*                                                                         *)
(* spawn() puts an operation on the heap, which destroys itself when the   *)
(* child has completed and its start() has returned. associate() returns a *)
(* sender that holds an association and passes it on to its operation.     *)
(* Both give it back last. A child of a counting_scope sees two stop       *)
(* tokens, of the scope and of its environment, through one callback.      *)
(*                                                                         *)
(* The scope is ScopeContract, which CountingScope implements, and a stop  *)
(* token does what StopToken does: a registration fires at most once, and  *)
(* destroying it waits for a callback that runs on another thread. A child *)
(* stands for any operation that registers a callback when it is started   *)
(* and destroys it before it completes.                                    *)
(***************************************************************************)
EXTENDS Integers, FiniteSets

CONSTANTS
    Spawns,     \* the operations that spawn() allocates
    Senders,    \* the senders that associate() returns, and their operations
    Joins       \* the joins of the scope

ASSUME KindsAssumption == Spawns \intersect Senders = {}

VARIABLES
    open, active, joining, joined,  \* the scope
    pc,         \* the progress of both activities of every job
    child,      \* the sender or operation of the child
    arrived,    \* release_arrived_
    within,     \* the stop callback that the completion is nested in
    scope_stop, \* stop was requested of the scope
    env_stop,   \* stop was requested of the token of the environment
    callback,   \* scope_callback_ and base_callback_
    called,     \* called_
    invoked     \* how often the callback of the child was invoked

scopeVars == <<open, active, joining, joined>>
stopVars == <<scope_stop, env_stop, callback, called, invoked>>
vars == <<scopeVars, pc, child, arrived, within, stopVars>>

-----------------------------------------------------------------------------

Jobs == Spawns \union Senders

(* Whoever makes, starts and drops a job, and the completion of its child. *)
Roles == {"owner", "child"}

Tokens == {"scope", "base"}

Scope == INSTANCE ScopeContract WITH Associations <- Jobs, Waiters <- Joins

Init ==
    /\ Scope!Init
    /\ pc = [r \in Roles |-> [j \in Jobs |-> "idle"]]
    /\ child = [j \in Jobs |-> "none"]
    /\ arrived = [j \in Jobs |-> FALSE]
    /\ within = [j \in Jobs |-> "none"]
    /\ scope_stop = FALSE
    /\ env_stop = [j \in Jobs |-> FALSE]
    /\ callback = [j \in Jobs |-> [k \in Tokens |-> "none"]]
    /\ called = [j \in Jobs |-> FALSE]
    /\ invoked = [j \in Jobs |-> 0]

At(r, j, label) == pc[r][j] = label

Goto(r, j, label) == pc' = [pc EXCEPT ![r][j] = label]

SetChild(j, state) == child' = [child EXCEPT ![j] = state]

-----------------------------------------------------------------------------
(* Making a job *)

(* The sender is wrapped, and by spawn() connected, before an association  *)
(* is asked for, which nobody else can tell. The copy of a sender asks for *)
(* an association of its own, and does not if the sender was refused: the  *)
(* scope is closed then, for good. So it is one more sender.               *)
Associate(j) ==
    /\ At("owner", j, "idle")
    /\ Scope!Associate(j)
    /\ SetChild(j, "made")
    /\ Goto("owner", j, IF j \in Spawns THEN "register_scope" ELSE "holding")
    /\ UNCHANGED <<arrived, within, stopVars>>

(* A closed scope refuses. associate() drops the child, which the          *)
(* destructor of spawn()'s operation does as well, never having started it.*)
Refuse(j) ==
    /\ At("owner", j, "idle")
    /\ ~open
    /\ IF j \in Spawns
       THEN Goto("owner", j, "finish") /\ SetChild(j, "made")
       ELSE Goto("owner", j, "holding") /\ UNCHANGED child
    /\ UNCHANGED <<scopeVars, arrived, within, stopVars>>

(* connect() hands association and child on, start() starts the child; the *)
(* operation of a refused sender is stopped.                               *)
StartSender(j) ==
    /\ At("owner", j, "holding")
    /\ Goto("owner", j, IF child[j] = "made" THEN "register_scope"
                        ELSE "answered")
    /\ UNCHANGED <<scopeVars, child, arrived, within, stopVars>>

-----------------------------------------------------------------------------
(* scope_stop_callback *)

Stopped(j, k) == IF k = "scope" THEN scope_stop ELSE env_stop[j]

(* call_once(): the exchange of called_ lets one of the two through. *)
CallOnce(j) ==
    /\ called' = [called EXCEPT ![j] = TRUE]
    /\ invoked' = [invoked EXCEPT ![j] = IF called[j] THEN @ ELSE @ + 1]

(* The child registers with one token, then with the other, in its start() *)
(* and is then under way. A registration with a token that was stopped     *)
(* invokes the callback on the spot; nothing completes in it.              *)
Register(j, k) ==
    /\ At("owner", j, IF k = "scope" THEN "register_scope" ELSE "register_base")
    /\ IF Stopped(j, k)
       THEN /\ callback' = [callback EXCEPT ![j][k] = "over"]
            /\ CallOnce(j)
       ELSE /\ callback' = [callback EXCEPT ![j][k] = "registered"]
            /\ UNCHANGED <<called, invoked>>
    /\ IF k = "scope"
       THEN Goto("owner", j, "register_base") /\ UNCHANGED child
       ELSE /\ SetChild(j, "running")
            /\ Goto("owner", j, IF j \in Spawns THEN "arrive" ELSE "started")
    /\ UNCHANGED <<scopeVars, arrived, within, scope_stop, env_stop>>

(* request_stop() of a token comes to the callback. *)
Call(j, k) ==
    /\ callback[j][k] = "registered" /\ Stopped(j, k)
    /\ CallOnce(j)
    /\ callback' = [callback EXCEPT ![j][k] =
                      IF called[j] THEN "over" ELSE "invoking"]
    /\ UNCHANGED <<scopeVars, pc, child, arrived, within, scope_stop, env_stop>>

(* The callback of the child returns, after a completion nested in it. *)
CallReturns(j, k) ==
    /\ callback[j][k] = "invoking"
    /\ within[j] = k => At("child", j, "done")
    /\ callback' = [callback EXCEPT ![j][k] = "over"]
    /\ UNCHANGED <<scopeVars, pc, child, arrived, within, scope_stop, env_stop,
                   called, invoked>>

StopScope ==
    /\ ~scope_stop
    /\ scope_stop' = TRUE
    /\ UNCHANGED <<scopeVars, pc, child, arrived, within, env_stop, callback,
                   called, invoked>>

StopEnv(j) ==
    /\ ~env_stop[j]
    /\ env_stop' = [env_stop EXCEPT ![j] = TRUE]
    /\ UNCHANGED <<scopeVars, pc, child, arrived, within, scope_stop, callback,
                   called, invoked>>

-----------------------------------------------------------------------------
(* Completion of the child *)

(* On a thread of its own, inside start(), which makes no difference to    *)
(* what follows, or nested in its stop callback.                           *)
ChildCompletes(j) ==
    /\ child[j] = "running" /\ At("child", j, "idle")
    /\ \/ UNCHANGED within
       \/ \E k \in Tokens : /\ callback[j][k] = "invoking"
                           /\ within' = [within EXCEPT ![j] = k]
    /\ Goto("child", j, "reset_base")
    /\ UNCHANGED <<scopeVars, child, arrived, stopVars>>

(* The members of the callback go in reverse order. Each waits for a call  *)
(* that runs on another thread.                                            *)
Reset(j, k) ==
    /\ At("child", j, IF k = "scope" THEN "reset_scope" ELSE "reset_base")
    /\ callback[j][k] = "invoking" => within[j] = k
    /\ callback' = [callback EXCEPT ![j][k] =
                      IF within[j] = k THEN @ ELSE "reset"]
    /\ Goto("child", j, IF k = "base" THEN "reset_scope" ELSE "complete")
    /\ UNCHANGED <<scopeVars, child, arrived, within, scope_stop, env_stop,
                   called, invoked>>

(* spawn_operation::complete(), or the receiver of the associated sender   *)
(* is completed, which leaves the operation to its owner.                  *)
Complete(j) ==
    /\ At("child", j, "complete")
    /\ SetChild(j, "completed")
    /\ IF j \in Spawns
       THEN Goto("child", j, "arrive")
       ELSE pc' = [pc EXCEPT !["child"][j] = "done", !["owner"][j] = "answered"]
    /\ UNCHANGED <<scopeVars, arrived, within, stopVars>>

(* Mutant: the bit is set, and not tested. *)
Arrive_Sets(r, j) ==
    /\ At(r, j, "arrive")
    /\ arrived' = [arrived EXCEPT ![j] = TRUE]
    /\ Goto(r, j, "done")
    /\ UNCHANGED <<scopeVars, child, within, stopVars>>

(* Mutant: the completion does not wait for start() to return. *)
Arrive_Child(r, j) ==
    /\ At(r, j, "arrive")
    /\ arrived' = [arrived EXCEPT ![j] = TRUE]
    /\ Goto(r, j, IF arrived[j] \/ r = "child" THEN "finish" ELSE "done")
    /\ UNCHANGED <<scopeVars, child, within, stopVars>>

(* test_and_set: start() has returned, or the child has completed. *)
Arrive(r, j) ==
    /\ At(r, j, "arrive")
    /\ arrived' = [arrived EXCEPT ![j] = TRUE]
    /\ Goto(r, j, IF arrived[j] THEN "finish" ELSE "done")
    /\ UNCHANGED <<scopeVars, child, within, stopVars>>

-----------------------------------------------------------------------------
(* The end of a job *)

(* The child is destroyed, and its memory with it ... *)
DestroyJob(r, j) ==
    /\ SetChild(j, "destroyed")
    /\ Goto(r, j, "release")
    /\ UNCHANGED <<scopeVars, arrived, within, stopVars>>

(* The owner destroys a sender that was not connected, an operation that   *)
(* was not started, or one whose receiver was completed.                   *)
DestroySender(j) ==
    /\ At("owner", j, "holding") \/ At("owner", j, "answered")
    /\ DestroyJob("owner", j)

(* Mutant: the association is given back first. *)
Finish_Released(r, j) ==
    /\ At(r, j, "finish")
    /\ IF j \in active
       THEN Scope!Disassociate(j) /\ UNCHANGED <<pc, child>>
       ELSE /\ SetChild(j, "destroyed")
            /\ Goto(r, j, "release")
            /\ UNCHANGED scopeVars
    /\ UNCHANGED <<arrived, within, stopVars>>

(* finish(), or the destructor of an operation that was refused. *)
Finish(r, j) ==
    /\ At(r, j, "finish")
    /\ DestroyJob(r, j)

(* ... and the association, if there is one. *)
Release(r, j) ==
    /\ At(r, j, "release")
    /\ IF j \in active THEN Scope!Disassociate(j) ELSE UNCHANGED scopeVars
    /\ Goto(r, j, "done")
    /\ UNCHANGED <<child, arrived, within, stopVars>>

(* The other users of the scope. *)
UseScope ==
    /\ \/ Scope!Close
       \/ \E w \in Joins : Scope!StartJoin(w)
    /\ UNCHANGED <<pc, child, arrived, within, stopVars>>

AnswerJoin(w) ==
    /\ Scope!AnswerJoin(w)
    /\ UNCHANGED <<pc, child, arrived, within, stopVars>>

-----------------------------------------------------------------------------

(* The steps of a call that is under way. *)
Step(j) ==
    \/ Complete(j)
    \/ \E k \in Tokens :
         Register(j, k) \/ Call(j, k) \/ CallReturns(j, k) \/ Reset(j, k)
    \/ \E r \in Roles : Arrive(r, j) \/ Finish(r, j) \/ Release(r, j)

Next ==
    \/ \E j \in Jobs :
         \/ Associate(j) \/ Refuse(j) \/ StartSender(j) \/ DestroySender(j)
         \/ ChildCompletes(j) \/ StopEnv(j)
         \/ Step(j)
    \/ StopScope \/ UseScope
    \/ \E w \in Joins : AnswerJoin(w)

Spec == Init /\ [][Next]_vars

(* Whatever is under way in a job goes on, on its threads, none of which   *)
(* has more than one thing to do at a time; calls are made, and children   *)
(* complete, at will.                                                      *)
FairSpec == Spec /\ \A j \in Jobs : WF_vars(Step(j))

-----------------------------------------------------------------------------
(* Properties *)

TypeOK ==
    /\ open \in BOOLEAN /\ active \in SUBSET Jobs
    /\ joining \in SUBSET Joins /\ joined \in SUBSET Joins
    /\ pc \in [Roles -> [Jobs ->
            {"idle", "holding", "register_scope", "register_base",
             "started", "arrive", "answered", "reset_base", "reset_scope",
             "complete", "finish", "release", "done"}]]
    /\ child \in [Jobs -> {"none", "made", "running", "completed", "destroyed"}]
    /\ arrived \in [Jobs -> BOOLEAN]
    /\ within \in [Jobs -> Tokens \union {"none"}]
    /\ scope_stop \in BOOLEAN /\ env_stop \in [Jobs -> BOOLEAN]
    /\ callback \in [Jobs -> [Tokens ->
            {"none", "registered", "invoking", "over", "reset"}]]
    /\ called \in [Jobs -> BOOLEAN]
    /\ invoked \in [Jobs -> Nat]

(* What a join is for: when it is answered, every child that was started   *)
(* in the scope has been destroyed, with the memory that spawn() got for   *)
(* it, and none will start any more. Releasing the association last is     *)
(* what makes it so.                                                       *)
JoinMeansGone ==
    joined # {} =>
        \A j \in Jobs :
            /\ child[j] \in {"none", "made", "destroyed"}
            /\ child[j] = "made" => At("owner", j, "finish")

(* Nobody uses a job that was destroyed: neither start() returning, nor    *)
(* the completion of its child, nor a stop callback that the completion    *)
(* is not nested in; and the child is stopped once at most, by the scope   *)
(* or by its environment.                                                  *)
NobodyInside ==
    \A j \in Jobs :
        /\ child[j] = "destroyed" =>
             /\ \A r \in Roles :
                  pc[r][j] \in {"idle", "done", "release"}
             /\ \A k \in Tokens :
                  callback[j][k] \in {"registered", "invoking"}
                      => within[j] = k
        /\ invoked[j] <= 1

(* A spawned operation whose child has completed is destroyed and leaves   *)
(* the scope, whoever of start() and the completion is late; and a stop    *)
(* request of either token reaches a child that runs.                      *)
ChildrenEnd ==
    /\ \A j \in Spawns :
         At("child", j, "reset_base")
             ~> (child[j] = "destroyed" /\ j \notin active)
    /\ \A j \in Jobs :
         (child[j] = "running" /\ (scope_stop \/ env_stop[j]))
             ~> (invoked[j] = 1 \/ child[j] # "running"
                               \/ ~At("child", j, "idle"))
=============================================================================
