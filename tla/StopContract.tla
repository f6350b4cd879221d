---------------------------- MODULE StopContract ----------------------------
(***************************************************************************)
(* What a stop source promises those who register callbacks with its       *)
(* tokens, with no word, no list and no lock: stop is requested once, and  *)
(* callbacks run one after the other, each at most once. A destructor of a *)
(* callback returns when the callback does not run and will not, unless it *)
(* is the callback itself that destroys its registration.                  *)
(*                                                                         *)
(* StopToken implements this specification (Contract there).               *)
(***************************************************************************)

CONSTANTS
    Threads,    \* the threads that use the source
    Records,    \* the registrations ever made
    Null        \* no thread, and no registration

VARIABLES
    requester,  \* the thread whose request for stop came first
    callee,     \* the registration whose callback it is in
    status      \* what became of every registration

vars == <<requester, callee, status>>

-----------------------------------------------------------------------------

Init ==
    /\ requester = Null
    /\ callee = Null
    /\ status = [r \in Records |-> "none"]

Request(t) ==
    /\ requester = Null
    /\ requester' = t
    /\ UNCHANGED <<callee, status>>

(* After the request, a callback runs inside its own registration. *)
Register(r) ==
    /\ status[r] = "none"
    /\ status' = [status EXCEPT ![r] =
                     IF requester = Null THEN "registered" ELSE "ran"]
    /\ UNCHANGED <<requester, callee>>

Run(r) ==
    /\ requester # Null /\ callee = Null
    /\ status[r] = "registered"
    /\ status' = [status EXCEPT ![r] = "running"]
    /\ callee' = r
    /\ UNCHANGED requester

(* The registration may be gone by then. *)
Return ==
    /\ callee # Null
    /\ callee' = Null
    /\ status' = [status EXCEPT ![callee] = IF @ = "running" THEN "ran" ELSE @]
    /\ UNCHANGED requester

(* A destructor returns on thread t. *)
Unregister(t, r) ==
    /\ \/ status[r] \in {"registered", "ran"}
       \/ status[r] = "running" /\ t = requester
    /\ status' = [status EXCEPT ![r] = "gone"]
    /\ UNCHANGED <<requester, callee>>

Next ==
    \/ \E t \in Threads : Request(t) \/ \E r \in Records : Unregister(t, r)
    \/ \E r \in Records : Register(r) \/ Run(r)
    \/ Return

Spec == Init /\ [][Next]_vars
=============================================================================
