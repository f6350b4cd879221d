--------------------------- MODULE ScopeContract ---------------------------
(***************************************************************************)
(* What a counting scope promises its users, with no word, no list and no  *)
(* threads: associations are handed out until the scope is closed, a join  *)
(* that was started is answered once, and only when nothing is associated  *)
(* any more; from then on the scope is shut for good.                      *)
(*                                                                         *)
(* CountingScope implements this specification (Contract there).           *)
(***************************************************************************)
EXTENDS FiniteSets

CONSTANTS
    Associations,   \* the associations a scope can have at one time
    Waiters         \* the join operations ever started on the scope

VARIABLES
    open,       \* new associations are still accepted
    active,     \* the associations that were made and not yet given back
    joining,    \* the joins that were started and not yet answered
    joined      \* the joins that were answered

vars == <<open, active, joining, joined>>

-----------------------------------------------------------------------------

Init ==
    /\ open = TRUE
    /\ active = {}
    /\ joining = {}
    /\ joined = {}

(* A new association: refused once the scope is closed. *)
Associate(a) ==
    /\ open
    /\ a \notin active
    /\ active' = active \union {a}
    /\ UNCHANGED <<open, joining, joined>>

(* An association is given back. Giving back the last one while a join is  *)
(* waiting also shuts the scope, in the same instant.                      *)
Disassociate(a) ==
    /\ a \in active
    /\ active' = active \ {a}
    /\ open' = (open /\ ~(active' = {} /\ joining # {}))
    /\ UNCHANGED <<joining, joined>>

Close ==
    /\ open' = FALSE
    /\ UNCHANGED <<active, joining, joined>>

(* A join is started. On a scope without associations it shuts the scope   *)
(* and may be answered in the same instant.                                *)
StartJoin(w) ==
    /\ w \notin joining \union joined
    /\ open' = (open /\ active # {})
    /\ \/ /\ joining' = joining \union {w}
          /\ UNCHANGED joined
       \/ /\ active = {}
          /\ joined' = joined \union {w}
          /\ UNCHANGED joining
    /\ UNCHANGED active

(* A waiting join is answered. *)
AnswerJoin(w) ==
    /\ w \in joining
    /\ active = {} /\ ~open
    /\ joining' = joining \ {w}
    /\ joined' = joined \union {w}
    /\ UNCHANGED <<open, active>>

Next ==
    \/ \E a \in Associations : Associate(a) \/ Disassociate(a)
    \/ \E w \in Waiters : StartJoin(w) \/ AnswerJoin(w)
    \/ Close

Spec == Init /\ [][Next]_vars
=============================================================================
