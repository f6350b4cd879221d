----------------------------- MODULE MCWhenAll -----------------------------
(* WhenAll with a small set of children. *)
EXTENDS WhenAll

MCSender(declares, throws, registers) ==
    [declares |-> declares,
     stores |-> throws, connects |-> throws, registers |-> registers]

(* Every completion of every child, and nothing throws. *)
MCAny ==
    {MCSender([c \in Children |-> {"value", "error", "stopped"}], FALSE, FALSE)}

(* Children that can only succeed, unless something throws. *)
MCThrowing == {MCSender([c \in Children |-> {"value"}], TRUE, FALSE)}

(* One child that has no value, among others that have one. *)
MCOneOdd ==
    {MCSender([c \in Children |->
                 IF c = CHOOSE d \in Children : TRUE THEN odd ELSE {"value"}],
              FALSE, TRUE) :
        odd \in {{"error"}, {"stopped"}, {"exception", "stopped"}}}

MCSenders == MCAny \union MCThrowing \union MCOneOdd
=============================================================================
