----------------------------- MODULE MCSyncWait -----------------------------
(* SyncWait with every way to nest a few tasks and adaptors. *)
EXTENDS SyncWait

(* Tasks, schedulers and let over any sender, where everything may fail. *)
MCNestings ==
    {[kind |-> [n \in Operations |-> IF n = Innermost THEN "other" ELSE k[n]],
      throws |-> [n \in Adaptors |-> TRUE],
      upstream |-> Completions, pool |-> Completions] :
        k \in [Adaptors -> Kinds \ TransformKinds]}

(* Transformations among them, over every sender and with at most one      *)
(* task, where less is declared. Callables may throw over any sender, not  *)
(* over a task, and over a factory both.                                   *)
MCTransformations ==
    {p \in
      {[kind |-> [n \in Operations |-> IF n = Innermost THEN leaf ELSE k[n]],
        throws |-> [n \in Adaptors |-> throwing],
        upstream |-> {"value", "error"}, pool |-> {"value"}] :
          k \in [Adaptors -> Kinds], leaf \in Leaves, throwing \in BOOLEAN} :
      LET tasks == {n \in Adaptors : p.kind[n] = "task"}
      IN  /\ \E n \in Adaptors : p.kind[n] \in TransformKinds
          /\ IF p.kind[Innermost] = "other"
             THEN tasks = {} /\ p.throws[1]
             ELSE Cardinality(tasks) <= 1 /\ (tasks # {} => ~p.throws[1])}

(* let_value() and its sisters over one completion of a factory, where     *)
(* little else is declared than what they hide.                            *)
MCHidden ==
    {[kind |-> [n \in Operations |-> IF n = Innermost THEN leaf ELSE k[n]],
      throws |-> [n \in Adaptors |-> FALSE],
      upstream |-> {only}, pool |-> {"value"}] :
        k \in [Adaptors -> LetKinds \union {"then", "upon_error"}],
        leaf \in Leaves \ {"other"}, only \in {"value", "stopped"}}

MCPrograms == MCNestings \union MCTransformations \union MCHidden
=============================================================================
