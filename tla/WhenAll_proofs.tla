--------------------------- MODULE WhenAll_proofs ---------------------------
(***************************************************************************)
(* Proofs about WhenAll, for any number of children and any senders.       *)
(*                                                                         *)
(* The countdown elects the last child because remaining counts the        *)
(* children that have not been counted, whatever their order; the terminal *)
(* state is settled by one child, which stores its error before it is      *)
(* counted; and the stop callback is waited for, unless it is on the stack *)
(* of the thread that waits.                                               *)
(***************************************************************************)
EXTENDS WhenAll, FiniteSetTheorems, SequenceTheorems, TLAPS

-----------------------------------------------------------------------------
(* The inductive invariant, in named parts. *)

Storing == {"store", "store_exception"}

(* The children that have not been counted down. *)
Uncounted == {c \in Children : pc[c] \notin {"finish", "deliver", "done"}}

(* The stop callback could not be registered, and no child is started. *)
Refused ==
    /\ pc[Start] = "done" /\ callback = "none"
    /\ \A c \in Children : pc[c] = "idle"
    /\ terminal = "error" /\ error = Null
    /\ answers = <<"exception">> /\ senders.registers

(* Until the stop callback is registered nothing has happened. *)
Registering ==
    /\ pc[Start] \in {"register", "start", "done"}
    /\ pc[Start] = "register" =>
         /\ \A c \in Children : pc[c] = "idle"
         /\ terminal = "none" /\ error = Null /\ answers = <<>>
         /\ callback = "none"
    /\ callback \in {"none", "registered"} => pc[Cancel] = "idle"

(* The countdown counts, and elects the last child. *)
Elected ==
    /\ Refused \/ remaining = Cardinality(Uncounted)
    /\ \A c \in Children : pc[c] \in {"finish", "deliver"} =>
         /\ answers = <<>>
         /\ \A d \in Children \ {c} : pc[d] = "done"
    /\ answers # <<>> => Refused \/ \A c \in Children : pc[c] = "done"
    /\ Len(answers) <= 1

(* One child decides, and stores its error before it is counted. *)
Arbitrated ==
    /\ error # Null => terminal = "error"
    /\ terminal = "error" /\ error = Null =>
         Refused \/ \E c \in Children : pc[c] \in Storing
    /\ \A c \in Children : pc[c] \in Storing =>
         /\ terminal = "error" /\ error = Null
         /\ \A d \in Children : pc[d] \in Storing => d = c
    /\ \A c \in Children :
         pc[c] \in Storing \union {"request_stop", "callbacks", "count",
                                   "finish", "deliver", "done"} =>
            terminal # "none" \/ c \in values

(* What is under way or stored is declared. *)
Justified ==
    /\ WellFormed(senders)
    /\ \A c \in Children :
         /\ pc[c] \in {"value", "error", "stopped"} =>
              pc[c] \in senders.declares[c]
         /\ pc[c] \in {"error", "store"} => "error" \in ErrorList(senders)
         /\ pc[c] \in {"exception", "store_exception"} =>
              "exception" \in ErrorList(senders)
         /\ c \in values => "value" \in senders.declares[c]
    /\ error # Null => error.as \in ErrorList(senders)
    /\ terminal = "stopped" =>
         \E c \in Children : "stopped" \in senders.declares[c]
    /\ answers # <<>> => answers[1] \in Declared(senders)

(* Every activity that is under way is on one stack, once. *)
OnStack(t, a) == \E i \in 1 .. Len(stack[t]) : stack[t][i] = a

Stacked ==
    /\ \A a \in Activities : UnderWay(a) => \E t \in Threads : OnStack(t, a)
    /\ \A t \in Threads, a \in Activities : OnStack(t, a) => UnderWay(a)
    /\ \A t, u \in Threads :
         \A i \in 1 .. Len(stack[t]), j \in 1 .. Len(stack[u]) :
            stack[t][i] = stack[u][j] => t = u /\ i = j

(* The child that delivers has dealt with the stop callback. *)
Reset ==
    /\ \A c \in Children : pc[c] = "deliver" => callback = "reset"
    /\ \A t \in Threads, c \in Children :
         pc[c] = "deliver" /\ OnStack(t, c) /\ UnderWay(Cancel) =>
            OnStack(t, Cancel)

Inv ==
    /\ TypeOK
    /\ Registering
    /\ Elected
    /\ Arbitrated
    /\ Justified
    /\ Stacked
    /\ Reset

-----------------------------------------------------------------------------
(* Facts about stacks and the countdown. *)

(* What Front and Last make of a stack that is not empty. *)
LEMMA PopStack ==
    ASSUME NEW S, NEW s \in Seq(S), s # <<>>
    PROVE  /\ Front(s) \in Seq(S)
           /\ Len(s) \in Nat \ {0} /\ Len(Front(s)) = Len(s) - 1
           /\ \A i \in 1 .. Len(s) - 1 : Front(s)[i] = s[i]
           /\ Last(s) = s[Len(s)] /\ Last(s) \in S
<1>1. Len(s) \in Nat \ {0} /\ \A i \in 1 .. Len(s) : s[i] \in S
  BY EmptySeq, ElementOfSeq
<1>2. \A i \in 1 .. Len(s) - 1 : s[i] \in S
  BY <1>1
<1>3. /\ SubSeq(s, 1, Len(s) - 1) \in Seq(S)
      /\ Len(SubSeq(s, 1, Len(s) - 1)) = Len(s) - 1
      /\ \A i \in 1 .. Len(s) - 1 : SubSeq(s, 1, Len(s) - 1)[i] = s[i]
  <2>1. /\ 1 \in Int /\ Len(s) - 1 \in Int
        /\ \A i \in 1 .. Len(s) - 1 : s[i] \in S
    BY <1>1, <1>2
  <2>2. /\ SubSeq(s, 1, Len(s) - 1) \in Seq(S)
        /\ Len(SubSeq(s, 1, Len(s) - 1))
             = IF 1 <= Len(s) - 1 THEN (Len(s) - 1) - 1 + 1 ELSE 0
        /\ \A i \in 1 .. (Len(s) - 1) - 1 + 1 :
             SubSeq(s, 1, Len(s) - 1)[i] = s[1 + i - 1]
    BY <2>1, SubSeqProperties
  <2>3. /\ (Len(s) - 1) - 1 + 1 = Len(s) - 1
        /\ 1 <= Len(s) - 1 \/ Len(s) - 1 = 0
        /\ \A i \in 1 .. Len(s) - 1 : 1 + i - 1 = i
    <3>1. \A n \in Nat \ {0} :
            /\ (n - 1) - 1 + 1 = n - 1
            /\ 1 <= n - 1 \/ n - 1 = 0
            /\ \A i \in 1 .. n - 1 : 1 + i - 1 = i
      OBVIOUS
    <3>2. Len(s) \in Nat \ {0}
      BY <1>1
    <3>. QED
      BY <3>1, <3>2
  <2>. QED
    BY <2>2, <2>3
<1>4. Last(s) = s[Len(s)] /\ Last(s) \in S
  BY <1>1 DEF Last
<1>. QED
  BY <1>1, <1>3, <1>4 DEF Front

(* The children that have not been counted are finitely many. *)
LEMMA UncountedFinite ==
    /\ IsFiniteSet(Uncounted) /\ Cardinality(Uncounted) \in Nat
    /\ Cardinality(Uncounted) <= Cardinality(Children)
    /\ Cardinality(Children) \in Nat
<1>1. Uncounted \in SUBSET Children
  BY DEF Uncounted
<1>. QED
  BY <1>1, FS_Subset, FS_CardinalityType, ActivitiesAssumption

(* Pushing and popping keep the type of the stacks. *)
LEMMA StackTypes ==
    ASSUME TypeOK, NEW t \in Threads
    PROVE  /\ \A a \in Activities : Push(t, a) \in [Threads -> Seq(Activities)]
           /\ \A a : Runs(t, a) => Pop(t) \in [Threads -> Seq(Activities)]
<1>1. stack[t] \in Seq(Activities) /\ stack \in [Threads -> Seq(Activities)]
  BY DEF TypeOK
<1>2. ASSUME NEW s \in Seq(Activities)
      PROVE  [stack EXCEPT ![t] = s] \in [Threads -> Seq(Activities)]
  BY <1>1
<1>3. ASSUME NEW a \in Activities
      PROVE  Push(t, a) \in [Threads -> Seq(Activities)]
  <2>1. Append(stack[t], a) \in Seq(Activities)
    BY <1>1, AppendProperties
  <2>. QED
    BY <1>2, <2>1 DEF Push
<1>4. ASSUME NEW a, Runs(t, a) PROVE Pop(t) \in [Threads -> Seq(Activities)]
  <2>1. Front(stack[t]) \in Seq(Activities)
    BY <1>1, <1>4, PopStack DEF Runs
  <2>. QED
    BY <1>2, <2>1 DEF Pop
<1>. QED
  BY <1>3, <1>4

(* The child that delivers has an answer. *)
LEMMA AnswerIsCompletion ==
    ASSUME Inv, NEW t \in Threads, NEW c \in Children, Deliver(t, c)
    PROVE  Answer \subseteq Completions
<1>1. pc[c] = "deliver" /\ ~Refused
  BY DEF Deliver, At, Refused
<1>2. terminal = "error" =>
        error \in [of : Children, as : {"error", "exception"}]
  BY <1>1 DEF Inv, TypeOK, Arbitrated, Elected, Storing
<1>3. Answer \subseteq {"value", "exception", "stopped"}
                      \union (IF terminal = "error" THEN {error.as} ELSE {})
  BY DEF Inv, TypeOK, Answer, Maybe
<1>. QED
  BY <1>2, <1>3 DEF Completions

(* The countdown of a child. *)
LEMMA CountDown ==
    ASSUME Inv, NEW t \in Threads, NEW c \in Children, Count(t, c)
    PROVE  /\ remaining \in Nat \ {0} /\ remaining = Cardinality(Uncounted)
           /\ Uncounted' = Uncounted \ {c}
           /\ remaining' = Cardinality(Uncounted') /\ remaining' \in Nat
           /\ remaining' = 0 <=> Uncounted' = {}
<1>1. c \in Uncounted /\ ~Refused
  BY DEF Count, At, Uncounted, Refused
<1>2. remaining = Cardinality(Uncounted)
  BY <1>1 DEF Inv, Elected
<1>3. Uncounted' = Uncounted \ {c}
  BY DEF Count, At, Runs, Goto, Leave, Uncounted, Inv, TypeOK, Activities
<1>4. IsFiniteSet(Uncounted') /\ Cardinality(Uncounted') = remaining - 1
  BY <1>1, <1>2, <1>3, UncountedFinite, FS_RemoveElement
<1>5. Cardinality(Uncounted') \in Nat /\ remaining \in Nat
  BY <1>2, <1>4, UncountedFinite, FS_CardinalityType
<1>. QED
  BY <1>2, <1>3, <1>4, <1>5, FS_EmptySet DEF Count

-----------------------------------------------------------------------------
(* The invariant is inductive. *)

(* The invariant holds in the beginning. *)
LEMMA InvInit == Init => Inv
<1> SUFFICES ASSUME Init PROVE Inv
  OBVIOUS
<1> USE ActivitiesAssumption DEF Init, Activities, Threads
<1>1. /\ Uncounted = Children /\ Cardinality(Children) \in Nat
      /\ \A S : <<>> \in Seq(S)
  BY FS_CardinalityType, EmptySeq DEF Uncounted
<1>2. TypeOK
  <2>1. pc \in [Activities -> Labels]
    BY DEF Labels
  <2>2. stack \in [Threads -> Seq(Activities)]
    <3>1. <<Start>> \in Seq(Activities)
      OBVIOUS
    <3>. QED
      BY <1>1, <3>1
  <2>3. remaining \in 0 .. Cardinality(Children)
    BY <1>1
  <2>. QED
    BY <1>1, <2>1, <2>2, <2>3 DEF TypeOK
<1>3. Registering /\ Elected /\ Arbitrated
  BY <1>1 DEF Registering, Elected, Arbitrated, Storing
<1>4. Justified
  BY DEF Justified
<1>5. /\ \A t \in Threads : Len(stack[t]) = IF t = Start THEN 1 ELSE 0
      /\ stack[Start][1] = Start
  OBVIOUS
<1>6. Stacked
  <2>1. \A t \in Threads : \A i \in 1 .. Len(stack[t]) :
          t = Start /\ i = 1 /\ stack[t][i] = Start
    BY <1>5
  <2>2. \A a \in Activities : UnderWay(a) <=> a = Start
    BY DEF UnderWay
  <2>3. Start \in Threads /\ OnStack(Start, Start)
    BY <1>5 DEF OnStack
  <2>4. \A t, u \in Threads :
          \A i \in 1 .. Len(stack[t]), j \in 1 .. Len(stack[u]) :
            stack[t][i] = stack[u][j] => t = u /\ i = j
    BY <2>1
  <2>5. \A t \in Threads, a \in Activities : OnStack(t, a) => a = Start
    BY <2>1 DEF OnStack
  <2>. QED
    BY <2>2, <2>3, <2>4, <2>5 DEF Stacked
<1>7. Reset
  BY DEF Reset, At
<1>. QED
  BY <1>2, <1>3, <1>4, <1>6, <1>7 DEF Inv

(* Every variable keeps its type. *)
LEMMA TypeOKStep == Inv /\ [Next]_vars => TypeOK'
<1> SUFFICES ASSUME Inv, [Next]_vars PROVE TypeOK'
  OBVIOUS
<1>0. /\ \A t \in Threads :
           /\ \A a \in Activities : Push(t, a) \in [Threads -> Seq(Activities)]
           /\ \A a : Runs(t, a) => Pop(t) \in [Threads -> Seq(Activities)]
      /\ \A x \in Completions : Append(answers, x) \in Seq(Completions)
  BY StackTypes, AppendProperties DEF Inv, TypeOK
<1>a. /\ Threads = Activities /\ Start \in Activities /\ Cancel \in Activities
      /\ \A c \in Children : c \in Activities
  BY DEF Activities, Threads
<1>b. /\ Completions \subseteq Labels
      /\ "exception" \in Completions
      /\ "start" \in Labels /\ "running" \in Labels /\ "exception" \in Labels
      /\ "store" \in Labels /\ "store_exception" \in Labels
      /\ "request_stop" \in Labels /\ "callbacks" \in Labels
      /\ "count" \in Labels /\ "finish" \in Labels /\ "deliver" \in Labels
      /\ "done" \in Labels
  BY DEF Labels, Completions
<1>c. TypeOK /\ Cardinality(Children) \in Nat
  BY UncountedFinite DEF Inv
<1> USE <1>c DEF TypeOK, receiverVars, stateVars
<1>1. ASSUME NEW t \in Threads, Register(t)
      PROVE  TypeOK'
  <2>1. CASE stop
    <3>1. pc' = [pc EXCEPT ![Start] = "start", ![Cancel] = "request_stop"]
      BY <1>1, <2>1 DEF Register
    <3>2. pc' \in [Activities -> Labels]
      BY <1>a, <1>b, <3>1
    <3>3. stack' \in [Threads -> Seq(Activities)]
      BY <1>0, <1>a, <1>1, <2>1 DEF Register
    <3>. QED
      BY <1>1, <2>1, <3>2, <3>3 DEF Register
  <2>2. CASE ~stop
    BY <1>0, <1>a, <1>b, <1>1, <2>2 DEF Register, At, Goto
  <2>. QED
    BY <2>1, <2>2
<1>2. ASSUME NEW t \in Threads, RegisterFails(t)
      PROVE  TypeOK'
  <2>1. /\ pc' \in [Activities -> Labels]
        /\ stack' \in [Threads -> Seq(Activities)]
        /\ answers' \in Seq(Completions)
    BY <1>0, <1>a, <1>b, <1>2 DEF RegisterFails, At, Leave
  <2>. QED
    BY <1>2, <2>1 DEF RegisterFails
<1>3. ASSUME NEW t \in Threads, NEW c \in Children, StartOne(t, c)
      PROVE  TypeOK'
  <2>1. CASE Goto(c, "running")
    BY <1>0, <1>a, <1>b, <1>3, <2>1 DEF StartOne, At, Goto
  <2>2. CASE Enter(t, c, "exception")
    BY <1>0, <1>a, <1>b, <1>3, <2>2 DEF StartOne, At, Enter
  <2>. QED
    BY <1>3, <2>1, <2>2 DEF StartOne
<1>4. ASSUME NEW t \in Threads, StartReturns(t)
      PROVE  TypeOK'
  BY <1>0, <1>a, <1>b, <1>4 DEF StartReturns, At, Goto, Leave, Enter
<1>5. ASSUME NEW t \in Threads, NEW c \in Children,
             NEW completion \in Completions, ChildCompletes(t, c, completion)
      PROVE  TypeOK'
  BY <1>0, <1>a, <1>b, <1>5 DEF ChildCompletes, At, Goto, Leave, Enter
<1>6. ASSUME NEW t \in Threads, NEW c \in Children, ChildValue(t, c)
      PROVE  TypeOK'
  BY <1>0, <1>a, <1>b, <1>6 DEF ChildValue, At, Goto, Leave, Enter
<1>7. ASSUME NEW t \in Threads, NEW c \in Children, ChildTerminal(t, c)
      PROVE  TypeOK'
  BY <1>0, <1>a, <1>b, <1>7 DEF ChildTerminal, Fails, Decided, TerminalKind,
                                At, Goto, Leave, Enter
<1>8. ASSUME NEW t \in Threads, NEW c \in Children, StoreError(t, c)
      PROVE  TypeOK'
  <2>1. error' \in [of : Children, as : {"error", "exception"}] \union {Null}
    BY <1>8 DEF StoreError
  <2>2. pc' \in [Activities -> Labels]
    BY <1>0, <1>a, <1>b, <1>8 DEF StoreError, Goto
  <2>. QED
    BY <1>8, <2>1, <2>2 DEF StoreError, Goto
<1>9. ASSUME NEW t \in Threads, NEW a \in Children \union {Cancel},
             RequestStop(t, a)
      PROVE  TypeOK'
  <2>1. a \in Activities
    BY <1>a
  <2>. QED
    <3>1. CASE Leave(t)
      BY <1>0, <1>b, <1>9, <3>1 DEF RequestStop, At, Leave
    <3>2. CASE Goto(a, IF source THEN "count" ELSE "callbacks")
      BY <1>b, <1>9, <2>1, <3>2 DEF RequestStop, Goto
    <3>. QED
      BY <1>9, <3>1, <3>2 DEF RequestStop
<1>10. ASSUME NEW t \in Threads, NEW a \in Children \union {Cancel},
              CallbacksReturn(t, a)
      PROVE  TypeOK'
  <2>1. CASE a = Cancel
    BY <1>0, <1>b, <1>10, <2>1 DEF CallbacksReturn, At, Leave
  <2>2. CASE a # Cancel
    BY <1>a, <1>b, <1>10, <2>2 DEF CallbacksReturn, Goto
  <2>. QED
    BY <2>1, <2>2
<1>11. ASSUME NEW t \in Threads, NEW c \in Children, Count(t, c)
      PROVE  TypeOK'
  <2>1. remaining' = remaining - 1 /\ remaining \in Nat \ {0}
    BY <1>11, CountDown DEF Count
  <2>2. remaining' \in 0 .. Cardinality(Children)
    BY <2>1
  <2>. QED
    <3>1. CASE Goto(c, "finish")
      BY <1>0, <1>a, <1>b, <1>11, <2>2, <3>1 DEF Count, At, Goto
    <3>2. CASE Leave(t)
      BY <1>0, <1>a, <1>b, <1>11, <2>2, <3>2 DEF Count, At, Leave
    <3>. QED
      BY <1>11, <3>1, <3>2 DEF Count
<1>12. ASSUME NEW t \in Threads, NEW c \in Children, Finish(t, c)
      PROVE  TypeOK'
  BY <1>0, <1>a, <1>b, <1>12 DEF Finish, At, Goto, Leave, Enter
<1>13. ASSUME NEW t \in Threads, NEW c \in Children, Deliver(t, c)
      PROVE  TypeOK'
  <2>1. PICK answer \in Answer : answers' = Append(answers, answer)
    BY <1>13 DEF Deliver
  <2>2. answer \in Completions
    BY AnswerIsCompletion, <1>13
  <2>3. answers' \in Seq(Completions)
    BY <1>0, <2>1, <2>2
  <2>. QED
    BY <1>0, <1>a, <1>b, <1>13, <2>3 DEF Deliver, At, Leave
<1>14. ASSUME StopReceiver PROVE TypeOK'
  BY <1>0, <1>a, <1>b, <1>14 DEF StopReceiver
<1>15. ASSUME FireCallback PROVE TypeOK'
  BY <1>0, <1>a, <1>b, <1>15 DEF FireCallback, At, Goto, Leave, Enter
<1>16. CASE UNCHANGED vars
  BY <1>0, <1>a, <1>b, <1>16 DEF vars
<1>. QED
  BY <1>1, <1>2, <1>3, <1>4, <1>5, <1>6, <1>7, <1>8,
     <1>9, <1>10, <1>11, <1>12, <1>13, <1>14, <1>15, <1>16
  DEF Next, Step

(* Nothing happens before the stop callback is registered. *)
LEMMA RegisteringStep == Inv /\ [Next]_vars => Registering'
<1> SUFFICES ASSUME Inv, [Next]_vars PROVE Registering'
  OBVIOUS
<1> USE ActivitiesAssumption
    DEF Inv, TypeOK, Registering, Refused, Activities, Threads, Completions,
        receiverVars, stateVars
<1>1. ASSUME NEW t \in Threads, Register(t)
      PROVE  Registering'
  BY <1>1 DEF Register, At, Runs, Goto, Leave, Enter
<1>2. ASSUME NEW t \in Threads, RegisterFails(t)
      PROVE  Registering'
  BY <1>2 DEF RegisterFails, At, Runs, Goto, Leave, Enter
<1>3. ASSUME NEW t \in Threads, NEW c \in Children, StartOne(t, c)
      PROVE  Registering'
  BY <1>3 DEF StartOne, At, Runs, Goto, Leave, Enter
<1>4. ASSUME NEW t \in Threads, StartReturns(t)
      PROVE  Registering'
  BY <1>4 DEF StartReturns, At, Runs, Goto, Leave, Enter
<1>5. ASSUME NEW t \in Threads, NEW c \in Children,
             NEW completion \in Completions, ChildCompletes(t, c, completion)
      PROVE  Registering'
  BY <1>5 DEF ChildCompletes, At, Runs, Goto, Leave, Enter
<1>6. ASSUME NEW t \in Threads, NEW c \in Children, ChildValue(t, c)
      PROVE  Registering'
  BY <1>6 DEF ChildValue, At, Runs, Goto, Leave, Enter
<1>7. ASSUME NEW t \in Threads, NEW c \in Children, ChildTerminal(t, c)
      PROVE  Registering'
  BY <1>7 DEF ChildTerminal, Fails, Decided, TerminalKind, At, Runs, Goto,
              Leave, Enter
<1>8. ASSUME NEW t \in Threads, NEW c \in Children, StoreError(t, c)
      PROVE  Registering'
  BY <1>8 DEF StoreError, At, Runs, Goto, Leave, Enter
<1>9. ASSUME NEW t \in Threads, NEW a \in Children \union {Cancel},
             RequestStop(t, a)
      PROVE  Registering'
  BY <1>9 DEF RequestStop, At, Runs, Goto, Leave, Enter
<1>10. ASSUME NEW t \in Threads, NEW a \in Children \union {Cancel},
              CallbacksReturn(t, a)
      PROVE  Registering'
  BY <1>10 DEF CallbacksReturn, At, Runs, Goto, Leave, Enter
<1>11. ASSUME NEW t \in Threads, NEW c \in Children, Count(t, c)
      PROVE  Registering'
  BY <1>11 DEF Count, At, Runs, Goto, Leave, Enter
<1>12. ASSUME NEW t \in Threads, NEW c \in Children, Finish(t, c)
      PROVE  Registering'
  BY <1>12 DEF Finish, At, Runs, Goto, Leave, Enter
<1>13. ASSUME NEW t \in Threads, NEW c \in Children, Deliver(t, c)
      PROVE  Registering'
  BY <1>13 DEF Deliver, At, Runs, Goto, Leave, Enter
<1>14. ASSUME StopReceiver PROVE Registering'
  BY <1>14 DEF StopReceiver
<1>15. ASSUME FireCallback PROVE Registering'
  BY <1>15 DEF FireCallback, At, Runs, Goto, Leave, Enter
<1>16. CASE UNCHANGED vars
  BY <1>16 DEF vars
<1> HIDE DEF Inv, TypeOK, Registering, Refused, Activities, Threads,
        Completions, receiverVars, stateVars
<1>. QED
  BY <1>1, <1>2, <1>3, <1>4, <1>5, <1>6, <1>7, <1>8,
     <1>9, <1>10, <1>11, <1>12, <1>13, <1>14, <1>15, <1>16
  DEF Next, Step

(* The first child that fails or stops decides. *)
LEMMA ArbitratedStep == Inv /\ [Next]_vars => Arbitrated'
<1> SUFFICES ASSUME Inv, [Next]_vars PROVE Arbitrated'
  OBVIOUS
<1> USE ActivitiesAssumption
    DEF Inv, TypeOK, Registering, Arbitrated, Refused, Storing, Activities,
        Threads, Completions,
        receiverVars, stateVars
<1>1. ASSUME NEW t \in Threads, Register(t)
      PROVE  Arbitrated'
  BY <1>1 DEF Register, At, Runs, Goto, Leave, Enter
<1>2. ASSUME NEW t \in Threads, RegisterFails(t)
      PROVE  Arbitrated'
  BY <1>2 DEF RegisterFails, At, Runs, Goto, Leave, Enter
<1>3. ASSUME NEW t \in Threads, NEW c \in Children, StartOne(t, c)
      PROVE  Arbitrated'
  BY <1>3 DEF StartOne, At, Runs, Goto, Leave, Enter
<1>4. ASSUME NEW t \in Threads, StartReturns(t)
      PROVE  Arbitrated'
  BY <1>4 DEF StartReturns, At, Runs, Goto, Leave, Enter
<1>5. ASSUME NEW t \in Threads, NEW c \in Children,
             NEW completion \in Completions, ChildCompletes(t, c, completion)
      PROVE  Arbitrated'
  BY <1>5 DEF ChildCompletes, At, Runs, Goto, Leave, Enter
<1>6. ASSUME NEW t \in Threads, NEW c \in Children, ChildValue(t, c)
      PROVE  Arbitrated'
  BY <1>6 DEF ChildValue, At, Runs, Goto, Leave, Enter
<1>7. ASSUME NEW t \in Threads, NEW c \in Children, ChildTerminal(t, c)
      PROVE  Arbitrated'
  BY <1>7 DEF ChildTerminal, Fails, Decided, TerminalKind, At, Runs, Goto,
              Leave, Enter
<1>8. ASSUME NEW t \in Threads, NEW c \in Children, StoreError(t, c)
      PROVE  Arbitrated'
  BY <1>8 DEF StoreError, At, Runs, Goto, Leave, Enter
<1>9. ASSUME NEW t \in Threads, NEW a \in Children \union {Cancel},
             RequestStop(t, a)
      PROVE  Arbitrated'
  BY <1>9 DEF RequestStop, At, Runs, Goto, Leave, Enter
<1>10. ASSUME NEW t \in Threads, NEW a \in Children \union {Cancel},
              CallbacksReturn(t, a)
      PROVE  Arbitrated'
  BY <1>10 DEF CallbacksReturn, At, Runs, Goto, Leave, Enter
<1>11. ASSUME NEW t \in Threads, NEW c \in Children, Count(t, c)
      PROVE  Arbitrated'
  BY <1>11 DEF Count, At, Runs, Goto, Leave, Enter
<1>12. ASSUME NEW t \in Threads, NEW c \in Children, Finish(t, c)
      PROVE  Arbitrated'
  BY <1>12 DEF Finish, At, Runs, Goto, Leave, Enter
<1>13. ASSUME NEW t \in Threads, NEW c \in Children, Deliver(t, c)
      PROVE  Arbitrated'
  BY <1>13 DEF Deliver, At, Runs, Goto, Leave, Enter
<1>14. ASSUME StopReceiver PROVE Arbitrated'
  BY <1>14 DEF StopReceiver
<1>15. ASSUME FireCallback PROVE Arbitrated'
  BY <1>15 DEF FireCallback, At, Runs, Goto, Leave, Enter
<1>16. CASE UNCHANGED vars
  BY <1>16 DEF vars
<1> HIDE DEF Inv, TypeOK, Registering, Arbitrated, Refused, Storing,
        Activities, Threads, Completions, receiverVars, stateVars
<1>. QED
  BY <1>1, <1>2, <1>3, <1>4, <1>5, <1>6, <1>7, <1>8,
     <1>9, <1>10, <1>11, <1>12, <1>13, <1>14, <1>15, <1>16
  DEF Next, Step

(* The countdown elects the last child. *)
LEMMA ElectedStep == Inv /\ [Next]_vars => Elected'
<1> SUFFICES ASSUME Inv, [Next]_vars PROVE Elected'
  OBVIOUS
<1> USE ActivitiesAssumption
    DEF Inv, TypeOK, Registering, Elected, Refused, Activities, Threads,
        Completions,
        receiverVars, stateVars
<1>1. ASSUME NEW t \in Threads, Register(t)
      PROVE  Elected'
  <2>1. Uncounted' = Uncounted
    BY <1>1 DEF Uncounted, Register, At, Runs, Goto, Leave, Enter
  <2>. QED
    BY <1>1, <2>1 DEF Register, At, Runs, Goto, Leave, Enter
<1>2. ASSUME NEW t \in Threads, RegisterFails(t)
      PROVE  Elected'
  <2>1. Refused'
    BY <1>2 DEF RegisterFails, At, Runs, Leave
  <2>2. Len(answers') = 1
    BY <2>1
  <2>. QED
    BY <1>2, <2>1, <2>2
<1>3. ASSUME NEW t \in Threads, NEW c \in Children, StartOne(t, c)
      PROVE  Elected'
  <2>1. Uncounted' = Uncounted
    BY <1>3 DEF Uncounted, StartOne, At, Runs, Goto, Leave, Enter
  <2>. QED
    BY <1>3, <2>1 DEF StartOne, At, Runs, Goto, Leave, Enter
<1>4. ASSUME NEW t \in Threads, StartReturns(t)
      PROVE  Elected'
  <2>1. Uncounted' = Uncounted
    BY <1>4 DEF Uncounted, StartReturns, At, Runs, Goto, Leave, Enter
  <2>. QED
    BY <1>4, <2>1 DEF StartReturns, At, Runs, Goto, Leave, Enter
<1>5. ASSUME NEW t \in Threads, NEW c \in Children,
             NEW completion \in Completions, ChildCompletes(t, c, completion)
      PROVE  Elected'
  <2>1. Uncounted' = Uncounted
    BY <1>5 DEF Uncounted, ChildCompletes, At, Runs, Goto, Leave, Enter
  <2>. QED
    BY <1>5, <2>1 DEF ChildCompletes, At, Runs, Goto, Leave, Enter
<1>6. ASSUME NEW t \in Threads, NEW c \in Children, ChildValue(t, c)
      PROVE  Elected'
  <2>1. Uncounted' = Uncounted
    BY <1>6 DEF Uncounted, ChildValue, At, Runs, Goto, Leave, Enter
  <2>. QED
    BY <1>6, <2>1 DEF ChildValue, At, Runs, Goto, Leave, Enter
<1>7. ASSUME NEW t \in Threads, NEW c \in Children, ChildTerminal(t, c)
      PROVE  Elected'
  <2>1. Uncounted' = Uncounted
    BY <1>7 DEF Uncounted, ChildTerminal, Fails, Decided, TerminalKind, At,
                Runs, Goto, Leave, Enter
  <2>. QED
    BY <1>7, <2>1 DEF ChildTerminal, Fails, Decided, TerminalKind, At, Runs,
                      Goto, Leave, Enter
<1>8. ASSUME NEW t \in Threads, NEW c \in Children, StoreError(t, c)
      PROVE  Elected'
  <2>1. Uncounted' = Uncounted
    BY <1>8 DEF Uncounted, StoreError, At, Runs, Goto, Leave, Enter
  <2>. QED
    BY <1>8, <2>1 DEF StoreError, At, Runs, Goto, Leave, Enter
<1>9. ASSUME NEW t \in Threads, NEW a \in Children \union {Cancel},
             RequestStop(t, a)
      PROVE  Elected'
  <2>1. Uncounted' = Uncounted
    BY <1>9 DEF Uncounted, RequestStop, At, Runs, Goto, Leave, Enter
  <2>. QED
    BY <1>9, <2>1 DEF RequestStop, At, Runs, Goto, Leave, Enter
<1>10. ASSUME NEW t \in Threads, NEW a \in Children \union {Cancel},
              CallbacksReturn(t, a)
      PROVE  Elected'
  <2>1. Uncounted' = Uncounted
    BY <1>10 DEF Uncounted, CallbacksReturn, At, Runs, Goto, Leave, Enter
  <2>. QED
    BY <1>10, <2>1 DEF CallbacksReturn, At, Runs, Goto, Leave, Enter
<1>11. ASSUME NEW t \in Threads, NEW c \in Children, Count(t, c)
      PROVE  Elected'
  <2>1. ~Refused /\ answers = <<>> /\ pc[c] = "count" /\ answers' = answers
    BY <1>11 DEF Count, At
  <2>2. /\ remaining' = Cardinality(Uncounted')
        /\ remaining = Cardinality(Uncounted)
        /\ remaining' = 0 <=> Uncounted' = {}
        /\ remaining \in Nat \ {0} /\ remaining' = remaining - 1
    BY <1>11, CountDown DEF Count
  <2>3. \A d \in Children : pc[d] \notin {"finish", "deliver"}
    BY <2>1
  <2>4. CASE remaining = 1
    <3>1. pc' = [pc EXCEPT ![c] = "finish"] /\ Uncounted' = {}
      BY <1>11, <2>2, <2>4 DEF Count, Goto
    <3>2. \A d \in Children \ {c} : pc'[d] = "done"
      BY <2>3, <3>1 DEF Uncounted
    <3>. QED
      BY <2>1, <2>2, <2>3, <3>1, <3>2
  <2>5. CASE remaining # 1
    <3>1. pc' = [pc EXCEPT ![c] = "done"]
      BY <1>11, <2>5 DEF Count, Leave, At, Runs
    <3>. QED
      BY <2>1, <2>2, <2>3, <3>1
  <2>. QED
    BY <2>4, <2>5
<1>12. ASSUME NEW t \in Threads, NEW c \in Children, Finish(t, c)
      PROVE  Elected'
  <2>1. Uncounted' = Uncounted
    BY <1>12 DEF Uncounted, Finish, At, Runs, Goto, Leave, Enter
  <2>. QED
    BY <1>12, <2>1 DEF Finish, At, Runs, Goto, Leave, Enter
<1>13. ASSUME NEW t \in Threads, NEW c \in Children, Deliver(t, c)
      PROVE  Elected'
  <2>1. PICK answer \in Answer : answers' = Append(answers, answer)
    BY <1>13 DEF Deliver
  <2>2. /\ ~Refused /\ answers = <<>> /\ pc[c] = "deliver"
        /\ \A d \in Children \ {c} : pc[d] = "done"
        /\ pc' = [pc EXCEPT ![c] = "done"] /\ remaining' = remaining
    BY <1>13 DEF Deliver, At, Runs, Leave
  <2>3. Len(answers') = 1
    BY <2>1, <2>2
  <2>4. Uncounted' = Uncounted
    BY <2>2 DEF Uncounted
  <2>. QED
    BY <2>2, <2>3, <2>4
<1>14. ASSUME StopReceiver PROVE Elected'
  BY <1>14 DEF Uncounted, StopReceiver
<1>15. ASSUME FireCallback PROVE Elected'
  <2>1. Uncounted' = Uncounted
    BY <1>15 DEF Uncounted, FireCallback, At, Runs, Goto, Leave, Enter
  <2>. QED
    BY <1>15, <2>1 DEF FireCallback, At, Runs, Goto, Leave, Enter
<1>16. CASE UNCHANGED vars
  BY <1>16 DEF vars, Uncounted
<1> HIDE DEF Inv, TypeOK, Registering, Elected, Refused, Activities,
        Threads, Completions, receiverVars, stateVars
<1>. QED
  BY <1>1, <1>2, <1>3, <1>4, <1>5, <1>6, <1>7, <1>8,
     <1>9, <1>10, <1>11, <1>12, <1>13, <1>14, <1>15, <1>16
  DEF Next, Step

-----------------------------------------------------------------------------
(* What a sender declares. *)

(* The errors of the children and the exceptions of when_all() are in the  *)
(* list of errors, and that is part of what is declared.                   *)
LEMMA DeclaredErrors ==
    ASSUME NEW s \in Senders, WellFormed(s)
    PROVE  /\ \A c \in Children : \A k \in {"error", "exception"} :
                k \in s.declares[c] => k \in ErrorList(s)
           /\ s.stores \/ s.registers \/ s.connects =>
                "exception" \in ErrorList(s)
           /\ ErrorList(s) \subseteq Declared(s)
<1>1. ASSUME NEW c \in Children, NEW k \in {"error", "exception"},
             k \in s.declares[c]
      PROVE  k \in ErrorList(s)
  <2>1. k \in Errors(s.declares[c])
    BY <1>1 DEF Errors, Gather, Tag
  <2>. QED
    BY <2>1 DEF ErrorList, Unique
<1>2. s.stores \/ s.registers => "exception" \in ErrorList(s)
  BY DEF ErrorList, Unique, Maybe, Nothrow
<1>3. ErrorList(s) \subseteq Declared(s)
  BY DEF Declared, Unique
<1>. QED
  BY <1>1, <1>2, <1>3 DEF WellFormed

(* A value that every child sends and a stop that some child sends are     *)
(* declared.                                                               *)
LEMMA DeclaredOthers ==
    ASSUME NEW s \in Senders
    PROVE  /\ (\A c \in Children : "value" \in s.declares[c]) =>
                "value" \in Declared(s) /\ SendsValue(s)
           /\ (\E c \in Children : "stopped" \in s.declares[c]) =>
                "stopped" \in Declared(s)
<1>1. ASSUME \A c \in Children : "value" \in s.declares[c]
      PROVE  "value" \in Declared(s) /\ SendsValue(s)
  BY <1>1 DEF SendsValue, Declared, Unique, Maybe
<1>2. ASSUME NEW c \in Children, "stopped" \in s.declares[c]
      PROVE  "stopped" \in Declared(s)
  <2>1. SendsStopped(s.declares[c])
    BY <1>2 DEF SendsStopped, Gather, Tag
  <2>. QED
    BY <2>1 DEF Declared, Unique, Maybe
<1>. QED
  BY <1>1, <1>2

(* Nothing happens that is not declared. *)
LEMMA JustifiedStep == Inv /\ [Next]_vars => Justified'
<1> SUFFICES ASSUME Inv, [Next]_vars PROVE Justified'
  OBVIOUS
<1>0. /\ \A x \in Children : \A k \in {"error", "exception"} :
           k \in senders.declares[x] => k \in ErrorList(senders)
      /\ senders.stores \/ senders.registers \/ senders.connects =>
           "exception" \in ErrorList(senders)
      /\ ErrorList(senders) \subseteq Declared(senders)
  BY DeclaredErrors DEF Inv, TypeOK, Justified
<1> USE <1>0
    DEF Inv, TypeOK, Registering, Justified, Refused, Activities, Threads,
        Completions, receiverVars, stateVars
<1>1. ASSUME NEW t \in Threads, Register(t)
      PROVE  Justified'
  BY <1>1 DEF Register, At, Runs, Goto, Leave, Enter
<1>2. ASSUME NEW t \in Threads, RegisterFails(t)
      PROVE  Justified'
  <2>1. answers' = <<"exception">>
    BY <1>2 DEF RegisterFails, At
  <2>2. "exception" \in Declared(senders)
    BY <1>2 DEF RegisterFails
  <2>3. answers'[1] = "exception"
    BY <2>1
  <2>. QED
    BY <1>2, <2>2, <2>3 DEF RegisterFails, At, Runs, Leave
<1>3. ASSUME NEW t \in Threads, NEW c \in Children, StartOne(t, c)
      PROVE  Justified'
  BY <1>3 DEF StartOne, At, Runs, Goto, Leave, Enter
<1>4. ASSUME NEW t \in Threads, StartReturns(t)
      PROVE  Justified'
  BY <1>4 DEF StartReturns, At, Runs, Goto, Leave, Enter
<1>5. ASSUME NEW t \in Threads, NEW c \in Children,
             NEW completion \in Completions, ChildCompletes(t, c, completion)
      PROVE  Justified'
  BY <1>5 DEF ChildCompletes, At, Runs, Goto, Leave, Enter
<1>6. ASSUME NEW t \in Threads, NEW c \in Children, ChildValue(t, c)
      PROVE  Justified'
  BY <1>6 DEF ChildValue, At, Runs, Goto, Leave, Enter
<1>7. ASSUME NEW t \in Threads, NEW c \in Children, ChildTerminal(t, c)
      PROVE  Justified'
  BY <1>7 DEF ChildTerminal, Fails, Decided, TerminalKind, At, Runs, Goto,
              Leave, Enter
<1>8. ASSUME NEW t \in Threads, NEW c \in Children, StoreError(t, c)
      PROVE  Justified'
  BY <1>8 DEF StoreError, At, Runs, Goto, Leave, Enter
<1>9. ASSUME NEW t \in Threads, NEW a \in Children \union {Cancel},
             RequestStop(t, a)
      PROVE  Justified'
  BY <1>9 DEF RequestStop, At, Runs, Goto, Leave, Enter
<1>10. ASSUME NEW t \in Threads, NEW a \in Children \union {Cancel},
              CallbacksReturn(t, a)
      PROVE  Justified'
  BY <1>10 DEF CallbacksReturn, At, Runs, Goto, Leave, Enter
<1>11. ASSUME NEW t \in Threads, NEW c \in Children, Count(t, c)
      PROVE  Justified'
  BY <1>11 DEF Count, At, Runs, Goto, Leave, Enter
<1>12. ASSUME NEW t \in Threads, NEW c \in Children, Finish(t, c)
      PROVE  Justified'
  BY <1>12 DEF Finish, At, Runs, Goto, Leave, Enter
<1>13. ASSUME NEW t \in Threads, NEW c \in Children, Deliver(t, c)
      PROVE  Justified'
  <2>1. PICK answer \in Answer : answers' = Append(answers, answer)
    BY <1>13 DEF Deliver
  <2>2. /\ ~Refused /\ answers = <<>> /\ pc[c] = "deliver"
        /\ \A d \in Children \ {c} : pc[d] = "done"
    BY <1>13 DEF Deliver, At, Elected
  <2>3. answer \in Declared(senders)
    <3>1. CASE terminal = "error"
      <4>1. answer = error.as
        BY <2>1, <3>1 DEF Answer
      <4>2. error # Null
        BY <2>2, <3>1 DEF Arbitrated, Storing
      <4>. QED
        BY <4>1, <4>2
    <3>2. CASE terminal = "stopped"
      BY <2>1, <3>2, DeclaredOthers DEF Answer
    <3>3. CASE terminal = "none"
      <4>1. \A d \in Children : d \in values
        BY <2>2, <3>3 DEF Arbitrated, Storing
      <4>2. answer = "value" \/ (answer = "exception" /\ senders.stores)
        BY <2>1, <3>3 DEF Answer, Maybe
      <4>. QED
        BY <4>1, <4>2, DeclaredOthers
    <3>. QED
      BY <3>1, <3>2, <3>3
  <2>4. answers'[1] = answer
    BY <2>1, <2>2
  <2>. QED
    BY <1>13, <2>3, <2>4 DEF Deliver, At, Runs, Leave
<1>14. ASSUME StopReceiver PROVE Justified'
  BY <1>14 DEF StopReceiver
<1>15. ASSUME FireCallback PROVE Justified'
  BY <1>15 DEF FireCallback, At, Runs, Goto, Leave, Enter
<1>16. CASE UNCHANGED vars
  BY <1>16 DEF vars
<1> HIDE DEF Inv, TypeOK, Registering, Justified, Refused, Activities,
        Threads, Completions, receiverVars, stateVars
<1>. QED
  BY <1>1, <1>2, <1>3, <1>4, <1>5, <1>6, <1>7, <1>8,
     <1>9, <1>10, <1>11, <1>12, <1>13, <1>14, <1>15, <1>16
  DEF Next, Step

-----------------------------------------------------------------------------
(* The stacks. *)

(* Where an activity may begin: on a thread of its own, in start(), or in  *)
(* the callbacks of a stop request.                                        *)
Beginning(t, a) ==
    /\ a # Start
    /\ \/ t = a /\ (a = Cancel \/ stack[t] = <<>>)
       \/ Runs(t, Start)
       \/ \E b \in Activities : At(t, b, "callbacks")

(* A step may leave the stacks alone, push an activity that it begins, or  *)
(* pop the one that it ends.                                               *)
Kept ==
    /\ stack' = stack
    /\ \A b \in Activities : UnderWay(b)' <=> UnderWay(b)

Pushed(t, a) ==
    /\ ~UnderWay(a) /\ Beginning(t, a)
    /\ stack' = Push(t, a)
    /\ \A b \in Activities : UnderWay(b)' <=> UnderWay(b) \/ b = a
    /\ \A b \in Activities \ {a, Start} : pc'[b] = pc[b]

Popped(t, a) ==
    /\ Runs(t, a)
    /\ stack' = Pop(t)
    /\ \A b \in Activities : UnderWay(b)' <=> UnderWay(b) /\ b # a

Shape ==
    \/ Kept
    \/ \E t \in Threads, a \in Activities : Pushed(t, a) \/ Popped(t, a)

(* A push puts the activity on top of one stack and changes nothing else.  *)
LEMMA PushIndices ==
    ASSUME TypeOK, NEW t \in Threads, NEW a \in Activities, Pushed(t, a)
    PROVE  /\ \A u \in Threads \ {t} : stack'[u] = stack[u]
           /\ Len(stack[t]) \in Nat /\ Len(stack'[t]) = Len(stack[t]) + 1
           /\ \A i \in 1 .. Len(stack[t]) : stack'[t][i] = stack[t][i]
           /\ stack'[t][Len(stack[t]) + 1] = a
<1>1. stack[t] \in Seq(Activities) /\ stack'[t] = Append(stack[t], a)
  BY DEF TypeOK, Pushed, Push
<1>2. \A u \in Threads \ {t} : stack'[u] = stack[u]
  BY DEF TypeOK, Pushed, Push
<1>. QED
  BY <1>1, <1>2, AppendProperties, LenProperties

(* A pop takes the top off one stack and changes nothing else.             *)
LEMMA PopIndices ==
    ASSUME TypeOK, NEW t \in Threads, NEW a \in Activities, Popped(t, a)
    PROVE  /\ \A u \in Threads \ {t} : stack'[u] = stack[u]
           /\ Len(stack[t]) \in Nat \ {0} /\ Len(stack'[t]) = Len(stack[t]) - 1
           /\ \A i \in 1 .. Len(stack[t]) - 1 : stack'[t][i] = stack[t][i]
           /\ stack[t][Len(stack[t])] = a
<1>1. stack[t] \in Seq(Activities) /\ stack'[t] = Front(stack[t])
  BY DEF TypeOK, Popped, Pop
<1>2. \A u \in Threads \ {t} : stack'[u] = stack[u]
  BY DEF TypeOK, Popped, Pop
<1>3. stack[t] # <<>> /\ Last(stack[t]) = a
  BY DEF Popped, Runs
<1>4. /\ Len(stack[t]) \in Nat \ {0}
      /\ Len(Front(stack[t])) = Len(stack[t]) - 1
      /\ \A i \in 1 .. Len(stack[t]) - 1 : Front(stack[t])[i] = stack[t][i]
      /\ Last(stack[t]) = stack[t][Len(stack[t])]
  BY <1>1, <1>3, PopStack
<1>. QED
  BY <1>1, <1>2, <1>3, <1>4

(* What a push does to the activities that are on a stack. *)
LEMMA PushKeeps ==
    ASSUME TypeOK, Stacked, NEW t \in Threads, NEW a \in Activities,
           Pushed(t, a)
    PROVE  /\ \A u \in Threads, b \in Activities :
                 OnStack(u, b)' <=> OnStack(u, b) \/ (u = t /\ b = a)
           /\ Stacked'
<1> DEFINE n == Len(stack[t])
<1>1. /\ \A u \in Threads \ {t} : stack'[u] = stack[u]
      /\ n \in Nat /\ Len(stack'[t]) = n + 1
      /\ \A i \in 1 .. n : stack'[t][i] = stack[t][i]
      /\ stack'[t][n + 1] = a
  BY PushIndices
<1>2. ASSUME NEW u \in Threads, NEW b \in Activities
      PROVE  OnStack(u, b)' <=> OnStack(u, b) \/ (u = t /\ b = a)
  <2>1. CASE u # t
    BY <1>1, <2>1 DEF OnStack
  <2>2. CASE u = t
    <3>1. \A i \in 1 .. n + 1 : i = n + 1 \/ i \in 1 .. n
      BY <1>1
    <3>2. n + 1 \in 1 .. n + 1 /\ \A i \in 1 .. n : i \in 1 .. n + 1
      BY <1>1
    <3>. QED
      BY <1>1, <2>2, <3>1, <3>2 DEF OnStack
  <2>. QED
    BY <2>1, <2>2
<1>3. \A b \in Activities : UnderWay(b)' <=> UnderWay(b) \/ b = a
  BY DEF Pushed
<1>4. /\ \A b \in Activities : UnderWay(b) => \E u \in Threads : OnStack(u, b)
      /\ \A u \in Threads, b \in Activities : OnStack(u, b) => UnderWay(b)
  BY DEF Stacked
<1>5. \A b \in Activities : UnderWay(b)' => \E u \in Threads : OnStack(u, b)'
  BY <1>2, <1>3, <1>4
<1>6. \A u \in Threads, b \in Activities : OnStack(u, b)' => UnderWay(b)'
  BY <1>2, <1>3, <1>4
<1>7. ASSUME NEW u \in Threads, NEW v \in Threads,
             NEW i \in 1 .. Len(stack'[u]), NEW j \in 1 .. Len(stack'[v]),
             stack'[u][i] = stack'[v][j]
      PROVE  u = v /\ i = j
  <2>1. ASSUME NEW w \in Threads, NEW k \in 1 .. Len(stack'[w])
        PROVE  \/ w = t /\ k = n + 1 /\ stack'[w][k] = a
               \/ /\ k \in 1 .. Len(stack[w])
                  /\ stack'[w][k] = stack[w][k]
                  /\ stack[w][k] # a
    <3>1. \/ w = t /\ k = n + 1
          \/ k \in 1 .. Len(stack[w]) /\ stack'[w][k] = stack[w][k]
      <4>1. CASE w = t
        <5>1. k \in 1 .. n + 1
          BY <1>1, <2>1, <4>1
        <5>2. k = n + 1 \/ k \in 1 .. n
          BY <1>1, <5>1
        <5>. QED
          BY <1>1, <4>1, <5>2
      <4>2. CASE w # t
        BY <1>1, <2>1, <4>2
      <4>. QED
        BY <4>1, <4>2
    <3>2. ASSUME k \in 1 .. Len(stack[w]) PROVE stack[w][k] # a
      BY <1>4, <3>2 DEF OnStack, Pushed
    <3>. QED
      BY <1>1, <3>1, <3>2
  <2>2. \A w \in Threads, x \in Threads :
          \A k \in 1 .. Len(stack[w]), l \in 1 .. Len(stack[x]) :
            stack[w][k] = stack[x][l] => w = x /\ k = l
    BY DEF Stacked
  <2>3. \/ u = t /\ i = n + 1 /\ stack'[u][i] = a
        \/ /\ i \in 1 .. Len(stack[u])
           /\ stack'[u][i] = stack[u][i] /\ stack[u][i] # a
    BY <2>1
  <2>4. \/ v = t /\ j = n + 1 /\ stack'[v][j] = a
        \/ /\ j \in 1 .. Len(stack[v])
           /\ stack'[v][j] = stack[v][j] /\ stack[v][j] # a
    BY <2>1
  <2>. QED
    BY <1>7, <2>2, <2>3, <2>4
<1>. QED
  BY <1>2, <1>5, <1>6, <1>7 DEF Stacked

(* What a pop does to the activities that are on a stack. *)
LEMMA PopKeeps ==
    ASSUME TypeOK, Stacked, NEW t \in Threads, NEW a \in Activities,
           Popped(t, a)
    PROVE  /\ \A u \in Threads, b \in Activities :
                 OnStack(u, b)' <=> OnStack(u, b) /\ b # a
           /\ Stacked'
<1> DEFINE n == Len(stack[t])
<1>1. /\ \A u \in Threads \ {t} : stack'[u] = stack[u]
      /\ n \in Nat \ {0} /\ Len(stack'[t]) = n - 1
      /\ \A i \in 1 .. n - 1 : stack'[t][i] = stack[t][i]
      /\ stack[t][n] = a
  BY PopIndices
<1>2. n \in 1 .. n /\ \A i \in 1 .. n : i # n => i \in 1 .. n - 1
  BY <1>1
<1>3. \A i \in 1 .. n - 1 : i \in 1 .. n /\ i # n
  BY <1>1
<1>4. \A w \in Threads, x \in Threads :
        \A k \in 1 .. Len(stack[w]), l \in 1 .. Len(stack[x]) :
          stack[w][k] = stack[x][l] => w = x /\ k = l
  BY DEF Stacked
<1>5. \A w \in Threads : \A k \in 1 .. Len(stack[w]) :
        stack[w][k] = a => w = t /\ k = n
  BY <1>1, <1>2, <1>4
<1>6. \A w \in Threads : \A k \in 1 .. Len(stack'[w]) :
        /\ k \in 1 .. Len(stack[w])
        /\ stack'[w][k] = stack[w][k] /\ stack[w][k] # a
  BY <1>1, <1>3, <1>5
<1>7. \A w \in Threads : \A k \in 1 .. Len(stack[w]) :
        stack[w][k] # a =>
          k \in 1 .. Len(stack'[w]) /\ stack'[w][k] = stack[w][k]
  <2>1. ASSUME NEW w \in Threads, NEW k \in 1 .. Len(stack[w]), stack[w][k] # a
        PROVE  k \in 1 .. Len(stack'[w]) /\ stack'[w][k] = stack[w][k]
    <3>1. CASE w = t
      <4>1. k \in 1 .. n /\ k # n
        BY <1>1, <2>1, <3>1
      <4>. QED
        BY <1>1, <1>2, <3>1, <4>1
    <3>2. CASE w # t
      BY <1>1, <3>2
    <3>. QED
      BY <3>1, <3>2
  <2>. QED
    BY <2>1
<1>8. ASSUME NEW u \in Threads, NEW b \in Activities
      PROVE  OnStack(u, b)' <=> OnStack(u, b) /\ b # a
  BY <1>6, <1>7 DEF OnStack
<1>9. \A b \in Activities : UnderWay(b)' <=> UnderWay(b) /\ b # a
  BY DEF Popped
<1>10. /\ \A b \in Activities : UnderWay(b) => \E u \in Threads : OnStack(u, b)
       /\ \A u \in Threads, b \in Activities : OnStack(u, b) => UnderWay(b)
  BY DEF Stacked
<1>11. \A b \in Activities : UnderWay(b)' => \E u \in Threads : OnStack(u, b)'
  BY <1>8, <1>9, <1>10
<1>12. \A u \in Threads, b \in Activities : OnStack(u, b)' => UnderWay(b)'
  BY <1>8, <1>9, <1>10
<1>13. ASSUME NEW u \in Threads, NEW v \in Threads,
              NEW i \in 1 .. Len(stack'[u]), NEW j \in 1 .. Len(stack'[v]),
              stack'[u][i] = stack'[v][j]
       PROVE  u = v /\ i = j
  BY <1>4, <1>6, <1>13
<1>. QED
  BY <1>8, <1>11, <1>12, <1>13 DEF Stacked

(* Every step keeps the stacks, or pushes one activity, or pops one. *)
LEMMA Moves == Inv /\ [Next]_vars => Shape
<1> SUFFICES ASSUME Inv, [Next]_vars PROVE Shape
  OBVIOUS
<1> USE ActivitiesAssumption
    DEF Inv, TypeOK, Registering, Refused, Activities, Threads, Completions,
        UnderWay
<1>1. ASSUME NEW t \in Threads, Register(t)
      PROVE  Shape
  <2>1. CASE stop
    <3>1. Pushed(t, Cancel)
      BY <1>1, <2>1 DEF Register, At, Runs, Pushed, Beginning
    <3>. QED
      BY <3>1 DEF Shape
  <2>2. CASE ~stop
    <3>1. Kept
      BY <1>1, <2>2 DEF Register, At, Runs, Goto, Kept
    <3>. QED
      BY <3>1 DEF Shape
  <2>. QED
    BY <2>1, <2>2
<1>2. ASSUME NEW t \in Threads, RegisterFails(t)
      PROVE  Shape
  <2>1. Popped(t, Start)
    BY <1>2 DEF RegisterFails, At, Runs, Leave, Popped
  <2>. QED
    BY <2>1 DEF Shape
<1>3. ASSUME NEW t \in Threads, NEW c \in Children, StartOne(t, c)
      PROVE  Shape
  <2>1. CASE Goto(c, "running")
    <3>1. Kept
      BY <1>3, <2>1 DEF StartOne, Goto, Kept
    <3>. QED
      BY <3>1 DEF Shape
  <2>2. CASE Enter(t, c, "exception")
    <3>1. Pushed(t, c)
      BY <1>3, <2>2 DEF StartOne, At, Enter, Pushed, Beginning
    <3>. QED
      BY <3>1 DEF Shape
  <2>. QED
    BY <1>3, <2>1, <2>2 DEF StartOne
<1>4. ASSUME NEW t \in Threads, StartReturns(t)
      PROVE  Shape
  <2>1. CASE Leave(t)
    <3>1. Popped(t, Start)
      BY <1>4, <2>1 DEF StartReturns, At, Runs, Leave, Popped
    <3>. QED
      BY <3>1 DEF Shape
  <2>2. CASE UNCHANGED <<pc, stack>>
    <3>1. Kept
      BY <2>2 DEF Kept
    <3>. QED
      BY <3>1 DEF Shape
  <2>. QED
    BY <1>4, <2>1, <2>2 DEF StartReturns
<1>5. ASSUME NEW t \in Threads, NEW c \in Children,
             NEW completion \in Completions, ChildCompletes(t, c, completion)
      PROVE  Shape
  <2>1. Beginning(t, c)
    BY <1>5 DEF ChildCompletes, At, Beginning
  <2>2. Pushed(t, c)
    BY <1>5, <2>1 DEF ChildCompletes, Enter, Pushed
  <2>. QED
    BY <2>2 DEF Shape
<1>6. ASSUME NEW t \in Threads, NEW c \in Children, ChildValue(t, c)
      PROVE  Shape
  <2>1. Kept
    BY <1>6 DEF ChildValue, At, Goto, Kept
  <2>. QED
    BY <2>1 DEF Shape
<1>7. ASSUME NEW t \in Threads, NEW c \in Children, ChildTerminal(t, c)
      PROVE  Shape
  <2>1. Kept
    BY <1>7 DEF ChildTerminal, Fails, Decided, Goto, Kept
  <2>. QED
    BY <2>1 DEF Shape
<1>8. ASSUME NEW t \in Threads, NEW c \in Children, StoreError(t, c)
      PROVE  Shape
  <2>1. Kept
    BY <1>8 DEF StoreError, Goto, Kept
  <2>. QED
    BY <2>1 DEF Shape
<1>9. ASSUME NEW t \in Threads, NEW a \in Children \union {Cancel},
             RequestStop(t, a)
      PROVE  Shape
  <2>1. CASE source /\ a = Cancel
    <3>1. Popped(t, a)
      BY <1>9, <2>1 DEF RequestStop, At, Runs, Leave, Popped
    <3>. QED
      BY <3>1 DEF Shape
  <2>2. CASE ~(source /\ a = Cancel)
    <3>1. Kept
      BY <1>9, <2>2 DEF RequestStop, At, Goto, Kept
    <3>. QED
      BY <3>1 DEF Shape
  <2>. QED
    BY <2>1, <2>2
<1>10. ASSUME NEW t \in Threads, NEW a \in Children \union {Cancel},
              CallbacksReturn(t, a)
      PROVE  Shape
  <2>1. CASE a = Cancel
    <3>1. Popped(t, a)
      BY <1>10, <2>1 DEF CallbacksReturn, At, Runs, Leave, Popped
    <3>. QED
      BY <3>1 DEF Shape
  <2>2. CASE a # Cancel
    <3>1. Kept
      BY <1>10, <2>2 DEF CallbacksReturn, At, Goto, Kept
    <3>. QED
      BY <3>1 DEF Shape
  <2>. QED
    BY <2>1, <2>2
<1>11. ASSUME NEW t \in Threads, NEW c \in Children, Count(t, c)
      PROVE  Shape
  <2>1. CASE remaining = 1
    <3>1. Kept
      BY <1>11, <2>1 DEF Count, At, Goto, Kept
    <3>. QED
      BY <3>1 DEF Shape
  <2>2. CASE remaining # 1
    <3>1. Popped(t, c)
      BY <1>11, <2>2 DEF Count, At, Runs, Leave, Popped
    <3>. QED
      BY <3>1 DEF Shape
  <2>. QED
    BY <2>1, <2>2
<1>12. ASSUME NEW t \in Threads, NEW c \in Children, Finish(t, c)
      PROVE  Shape
  <2>1. Kept
    BY <1>12 DEF Finish, At, Goto, Kept
  <2>. QED
    BY <2>1 DEF Shape
<1>13. ASSUME NEW t \in Threads, NEW c \in Children, Deliver(t, c)
      PROVE  Shape
  <2>1. Popped(t, c)
    BY <1>13 DEF Deliver, At, Runs, Leave, Popped
  <2>. QED
    BY <2>1 DEF Shape
<1>14. ASSUME StopReceiver PROVE Shape
  BY <1>14 DEF StopReceiver, Shape, Kept
<1>15. ASSUME FireCallback PROVE Shape
  <2>1. Pushed(Cancel, Cancel)
    BY <1>15 DEF FireCallback, Enter, Pushed, Beginning
  <2>. QED
    BY <2>1 DEF Shape
<1>16. CASE UNCHANGED vars
  BY <1>16 DEF vars, Shape, Kept
<1> HIDE DEF Inv, TypeOK, Registering, Refused, Activities, Threads,
        Completions, UnderWay
<1>. QED
  BY <1>1, <1>2, <1>3, <1>4, <1>5, <1>6, <1>7, <1>8,
     <1>9, <1>10, <1>11, <1>12, <1>13, <1>14, <1>15, <1>16
  DEF Next, Step

-----------------------------------------------------------------------------
(* The stop callback and the delivery. *)

(* A delivery is led to by finish_one(), which resets the stop callback,   *)
(* and a callback that was reset does not begin to run.                    *)
Delivering ==
    /\ \A c \in Children : pc'[c] = "deliver" =>
         /\ callback' = "reset"
         /\ pc[c] = "deliver" \/ \E t \in Threads : Finish(t, c)
    /\ callback = "reset" /\ UnderWay(Cancel)' => UnderWay(Cancel)

(* Only finish_one() leads to a delivery. *)
LEMMA Deliveries == Inv /\ [Next]_vars => Delivering
<1> SUFFICES ASSUME Inv, [Next]_vars PROVE Delivering
  OBVIOUS
<1> USE ActivitiesAssumption
    DEF Inv, TypeOK, Registering, Reset, Delivering, Activities, Threads,
        Completions, receiverVars, stateVars, UnderWay
<1>1. ASSUME NEW t \in Threads, Register(t)
      PROVE  Delivering
  BY <1>1 DEF Register, At, Runs, Goto, Leave, Enter
<1>2. ASSUME NEW t \in Threads, RegisterFails(t)
      PROVE  Delivering
  BY <1>2 DEF RegisterFails, At, Runs, Goto, Leave, Enter
<1>3. ASSUME NEW t \in Threads, NEW c \in Children, StartOne(t, c)
      PROVE  Delivering
  BY <1>3 DEF StartOne, At, Runs, Goto, Leave, Enter
<1>4. ASSUME NEW t \in Threads, StartReturns(t)
      PROVE  Delivering
  BY <1>4 DEF StartReturns, At, Runs, Goto, Leave, Enter
<1>5. ASSUME NEW t \in Threads, NEW c \in Children,
             NEW completion \in Completions, ChildCompletes(t, c, completion)
      PROVE  Delivering
  BY <1>5 DEF ChildCompletes, At, Runs, Goto, Leave, Enter
<1>6. ASSUME NEW t \in Threads, NEW c \in Children, ChildValue(t, c)
      PROVE  Delivering
  BY <1>6 DEF ChildValue, At, Runs, Goto, Leave, Enter
<1>7. ASSUME NEW t \in Threads, NEW c \in Children, ChildTerminal(t, c)
      PROVE  Delivering
  <2>1. pc'[c] # "deliver" /\ \A d \in Activities \ {c} : pc'[d] = pc[d]
    BY <1>7 DEF ChildTerminal, Fails, Decided, Goto
  <2>. QED
    BY <1>7, <2>1 DEF ChildTerminal
<1>8. ASSUME NEW t \in Threads, NEW c \in Children, StoreError(t, c)
      PROVE  Delivering
  BY <1>8 DEF StoreError, At, Runs, Goto, Leave, Enter
<1>9. ASSUME NEW t \in Threads, NEW a \in Children \union {Cancel},
             RequestStop(t, a)
      PROVE  Delivering
  BY <1>9 DEF RequestStop, At, Runs, Goto, Leave, Enter
<1>10. ASSUME NEW t \in Threads, NEW a \in Children \union {Cancel},
              CallbacksReturn(t, a)
      PROVE  Delivering
  BY <1>10 DEF CallbacksReturn, At, Runs, Goto, Leave, Enter
<1>11. ASSUME NEW t \in Threads, NEW c \in Children, Count(t, c)
      PROVE  Delivering
  BY <1>11 DEF Count, At, Runs, Goto, Leave, Enter
<1>12. ASSUME NEW t \in Threads, NEW c \in Children, Finish(t, c)
      PROVE  Delivering
  <2>1. /\ callback' = "reset" /\ Finish(t, c)
        /\ pc' = [pc EXCEPT ![c] = "deliver"]
    BY <1>12 DEF Finish, Goto
  <2>. QED
    BY <2>1
<1>13. ASSUME NEW t \in Threads, NEW c \in Children, Deliver(t, c)
      PROVE  Delivering
  BY <1>13 DEF Deliver, At, Runs, Goto, Leave, Enter
<1>14. ASSUME StopReceiver PROVE Delivering
  BY <1>14 DEF StopReceiver
<1>15. ASSUME FireCallback PROVE Delivering
  BY <1>15 DEF FireCallback, At, Runs, Goto, Leave, Enter
<1>16. CASE UNCHANGED vars
  BY <1>16 DEF vars
<1> HIDE DEF Inv, TypeOK, Registering, Reset, Delivering, Activities,
        Threads, Completions, receiverVars, stateVars, UnderWay
<1>. QED
  BY <1>1, <1>2, <1>3, <1>4, <1>5, <1>6, <1>7, <1>8,
     <1>9, <1>10, <1>11, <1>12, <1>13, <1>14, <1>15, <1>16
  DEF Next, Step

(* The activity that runs is on its stack. *)
LEMMA RunsOnStack ==
    ASSUME TypeOK, NEW t \in Threads, NEW a \in Activities, Runs(t, a)
    PROVE  OnStack(t, a)
<1>1. /\ Len(stack[t]) \in Nat \ {0} /\ stack[t][Len(stack[t])] = a
  BY PopStack DEF TypeOK, Runs
<1>. QED
  BY <1>1 DEF OnStack

(* To be within an activity is to have it on the stack. *)
LEMMA WithinOnStack ==
    ASSUME TypeOK, NEW t \in Threads, NEW a
    PROVE  Within(t, a) <=> OnStack(t, a)
<1>1. stack[t] \in Seq(Activities)
  BY DEF TypeOK
<1>2. DOMAIN stack[t] = 1 .. Len(stack[t])
  BY <1>1, LenProperties
<1>. QED
  BY <1>2 DEF Within, OnStack, Range

(* Every activity that is under way stays on one stack. *)
LEMMA StackedStep == Inv /\ [Next]_vars => Stacked'
<1> SUFFICES ASSUME Inv, [Next]_vars PROVE Stacked'
  OBVIOUS
<1>1. TypeOK /\ Stacked /\ Shape
  BY Moves DEF Inv
<1>2. CASE Kept
  BY <1>1, <1>2 DEF Kept, Stacked, OnStack
<1>3. ASSUME NEW t \in Threads, NEW a \in Activities, Pushed(t, a)
      PROVE  Stacked'
  BY <1>1, <1>3, PushKeeps
<1>4. ASSUME NEW t \in Threads, NEW a \in Activities, Popped(t, a)
      PROVE  Stacked'
  BY <1>1, <1>4, PopKeeps
<1>. QED
  BY <1>1, <1>2, <1>3, <1>4 DEF Shape

(* A stop callback that is under way when a child delivers is one that the *)
(* child completes in.                                                     *)
LEMMA ResetStep == Inv /\ [Next]_vars => Reset'
<1> SUFFICES ASSUME Inv, [Next]_vars PROVE Reset'
  OBVIOUS
<1>1. TypeOK /\ Stacked /\ Reset /\ Shape /\ Delivering
  BY Moves, Deliveries DEF Inv
<1>2. /\ Cancel \in Activities
      /\ \A c \in Children : c \in Activities /\ c # Cancel
      /\ Threads = Activities
  BY ActivitiesAssumption DEF Activities, Threads
<1>3. ASSUME NEW t \in Threads, NEW c \in Children,
             pc'[c] = "deliver", OnStack(t, c)', UnderWay(Cancel)'
      PROVE  OnStack(t, Cancel)'
  <2>1. ASSUME UnderWay(c), UnderWay(Cancel), OnStack(t, c) => OnStack(t,
               Cancel)
        PROVE  OnStack(t, Cancel)'
    <3>1. CASE Kept
      BY <1>3, <2>1, <3>1 DEF Kept, OnStack
    <3>2. ASSUME NEW u \in Threads, NEW a \in Activities, Pushed(u, a)
          PROVE  OnStack(t, Cancel)'
      <4>1. \A w \in Threads, b \in Activities :
              OnStack(w, b)' <=> OnStack(w, b) \/ (w = u /\ b = a)
        BY <1>1, <3>2, PushKeeps
      <4>2. a # c
        BY <2>1, <3>2 DEF Pushed
      <4>. QED
        BY <1>2, <1>3, <2>1, <4>1, <4>2
    <3>3. ASSUME NEW u \in Threads, NEW a \in Activities, Popped(u, a)
          PROVE  OnStack(t, Cancel)'
      <4>1. \A w \in Threads, b \in Activities :
              OnStack(w, b)' <=> OnStack(w, b) /\ b # a
        BY <1>1, <3>3, PopKeeps
      <4>2. a # Cancel
        BY <1>2, <1>3, <3>3 DEF Popped
      <4>. QED
        BY <1>2, <1>3, <2>1, <4>1, <4>2
    <3>. QED
      BY <1>1, <3>1, <3>2, <3>3 DEF Shape
  <2>2. CASE pc[c] = "deliver"
    <3>1. callback = "reset" /\ UnderWay(c)
      BY <1>1, <2>2 DEF Reset, UnderWay
    <3>2. UnderWay(Cancel)
      BY <1>1, <1>3, <3>1 DEF Delivering
    <3>3. OnStack(t, c) => OnStack(t, Cancel)
      BY <1>1, <2>2, <3>2 DEF Reset
    <3>. QED
      BY <2>1, <3>1, <3>2, <3>3
  <2>3. CASE pc[c] # "deliver"
    <3>1. PICK u \in Threads : Finish(u, c)
      BY <1>1, <1>3, <2>3 DEF Delivering
    <3>2. /\ Runs(u, c) /\ pc[c] = "finish"
          /\ UnderWay(Cancel) => Within(u, Cancel)
          /\ pc' = [pc EXCEPT ![c] = "deliver"]
      BY <3>1 DEF Finish, At, Goto
    <3>3. UnderWay(c) /\ UnderWay(Cancel)
      BY <1>1, <1>2, <1>3, <3>2 DEF UnderWay, TypeOK
    <3>4. OnStack(u, c)
      BY <1>1, <1>2, <3>2, RunsOnStack
    <3>5. OnStack(u, Cancel)
      BY <1>1, <3>2, <3>3, WithinOnStack
    <3>6. OnStack(t, c) => t = u
      BY <1>1, <3>4 DEF Stacked, OnStack
    <3>. QED
      BY <2>1, <3>3, <3>5, <3>6
  <2>. QED
    BY <2>2, <2>3
<1>4. \A c \in Children : pc'[c] = "deliver" => callback' = "reset"
  BY <1>1 DEF Delivering
<1>. QED
  BY <1>3, <1>4 DEF Reset

(* The invariant holds in every state. *)
THEOREM Invariance == Spec => []Inv
<1>1. Init => Inv
  BY InvInit
<1>2. Inv /\ [Next]_vars => Inv'
  BY TypeOKStep, RegisteringStep, ElectedStep, ArbitratedStep, JustifiedStep,
     StackedStep, ResetStep DEF Inv
<1>. QED
  BY <1>1, <1>2, PTL DEF Spec

(* The variables of an operation of any number of children keep their      *)
(* types.                                                                  *)
THEOREM TypeCorrect == Spec => []TypeOK
<1>1. Inv => TypeOK
  BY DEF Inv
<1>. QED
  BY <1>1, Invariance, PTL

(* However many children complete, on whatever threads and nested in       *)
(* whatever calls, the receiver is answered once, by the last of them,     *)
(* with a completion that is declared and when all of it is stored.        *)
THEOREM AnswersComplete == Spec => []AnswerComplete
<1>1. ASSUME Inv PROVE AnswerComplete
  <2>1. Len(answers) <= 1
    BY <1>1 DEF Inv, Elected
  <2>2. ASSUME answers # <<>>
        PROVE  /\ \A c \in Children : ~UnderWay(c)
               /\ answers[1] \in Declared(senders)
    BY <1>1, <2>2 DEF Inv, Elected, Refused, Justified, UnderWay
  <2>3. ASSUME NEW c \in Children, pc[c] = "deliver"
        PROVE  /\ answers = <<>>
               /\ \A d \in Children \ {c} : pc[d] = "done"
               /\ terminal = "none" => values = Children
               /\ terminal = "error" => error # Null
               /\ terminal = "error" \/ error = Null
    <3>1. /\ answers = <<>> /\ ~Refused
          /\ \A d \in Children \ {c} : pc[d] = "done"
      BY <1>1, <2>3 DEF Inv, Elected, Refused
    <3>2. \A d \in Children : pc[d] \in {"deliver", "done"}
      BY <2>3, <3>1
    <3>3. terminal = "none" => values = Children
      <4>1. \A d \in Children : terminal # "none" \/ d \in values
        BY <1>1, <3>2 DEF Inv, Arbitrated, Storing
      <4>2. values \in SUBSET Children
        BY <1>1 DEF Inv, TypeOK
      <4>. QED
        BY <4>1, <4>2
    <3>4. terminal = "error" => error # Null
      BY <1>1, <3>1, <3>2 DEF Inv, Arbitrated, Storing
    <3>5. terminal = "error" \/ error = Null
      BY <1>1 DEF Inv, Arbitrated
    <3>. QED
      BY <3>1, <3>3, <3>4, <3>5
  <2>. QED
    BY <2>1, <2>2, <2>3 DEF AnswerComplete
<1>. QED
  BY <1>1, Invariance, PTL

(* on_stop.reset() lets no stop callback run beside the delivery, except   *)
(* one that the delivery is nested in.                                     *)
THEOREM Quiescent == Spec => []CallbackQuiescent
<1>1. ASSUME Inv PROVE CallbackQuiescent
  <2>1. ASSUME NEW t \in Threads, NEW c \in Children, At(t, c, "deliver")
        PROVE  /\ callback # "registered"
               /\ UnderWay(Cancel) => Within(t, Cancel)
    <3>1. TypeOK /\ Reset /\ Runs(t, c) /\ pc[c] = "deliver"
      BY <1>1, <2>1 DEF Inv, At
    <3>2. OnStack(t, c)
      BY <3>1, RunsOnStack DEF Activities
    <3>3. UnderWay(Cancel) => OnStack(t, Cancel)
      BY <3>1, <3>2 DEF Reset
    <3>4. callback = "reset"
      BY <3>1 DEF Reset
    <3>. QED
      BY <3>1, <3>3, <3>4, WithinOnStack
  <2>. QED
    BY <2>1 DEF CallbackQuiescent
<1>. QED
  BY <1>1, Invariance, PTL

(* The compare-exchange of the terminal state keeps the first failure or   *)
(* stop, and the error that is stored first is never stored over.          *)
THEOREM FirstDecidesHolds == Spec => FirstDecides
<1> DEFINE A == /\ terminal # "none" => terminal' = terminal
                /\ error # Null => error' = error
<1>1. ASSUME Inv, [Next]_vars PROVE A
  <2> USE ActivitiesAssumption DEF Inv, Registering, Arbitrated, Storing,
          stateVars
  <2>1. ASSUME NEW t \in Threads, Register(t) PROVE A
    BY <2>1 DEF Register, At, Runs
  <2>2. ASSUME NEW t \in Threads, RegisterFails(t) PROVE A
    <3>1. terminal = "none" /\ error' = error
      BY <1>1, <2>2 DEF RegisterFails, At
    <3>. QED
      BY <3>1
  <2>3. ASSUME NEW t \in Threads, NEW c \in Children, StartOne(t, c) PROVE A
    BY <2>3 DEF StartOne, At, Runs
  <2>4. ASSUME NEW t \in Threads, StartReturns(t) PROVE A
    BY <2>4 DEF StartReturns, At, Runs
  <2>5. ASSUME NEW t \in Threads, NEW c \in Children,
               NEW completion \in Completions,
               ChildCompletes(t, c, completion)
        PROVE  A
    BY <2>5 DEF ChildCompletes, At, Runs
  <2>6. ASSUME NEW t \in Threads, NEW c \in Children, ChildValue(t, c) PROVE A
    BY <2>6 DEF ChildValue, At, Runs
  <2>7. ASSUME NEW t \in Threads, NEW c \in Children, ChildTerminal(t,
               c)
        PROVE  A
    BY <2>7 DEF ChildTerminal, Fails, Decided, TerminalKind, At, Runs
  <2>8. ASSUME NEW t \in Threads, NEW c \in Children, StoreError(t, c) PROVE A
    <3>1. error = Null /\ terminal' = terminal
      BY <1>1, <2>8 DEF StoreError
    <3>. QED
      BY <3>1
  <2>9. ASSUME NEW t \in Threads, NEW a \in Children \union {Cancel},
               RequestStop(t, a)
        PROVE  A
    BY <2>9 DEF RequestStop, At, Runs
  <2>10. ASSUME NEW t \in Threads, NEW a \in Children \union {Cancel},
                CallbacksReturn(t, a)
         PROVE  A
    BY <2>10 DEF CallbacksReturn, At, Runs
  <2>11. ASSUME NEW t \in Threads, NEW c \in Children, Count(t, c) PROVE A
    BY <2>11 DEF Count, At, Runs
  <2>12. ASSUME NEW t \in Threads, NEW c \in Children, Finish(t, c) PROVE A
    BY <2>12 DEF Finish, At, Runs
  <2>13. ASSUME NEW t \in Threads, NEW c \in Children, Deliver(t, c) PROVE A
    BY <2>13 DEF Deliver, At, Runs
  <2>14. ASSUME StopReceiver PROVE A
    BY <2>14 DEF StopReceiver, At, Runs
  <2>15. ASSUME FireCallback PROVE A
    BY <2>15 DEF FireCallback, At, Runs
  <2>16. CASE UNCHANGED vars
    BY <2>16 DEF vars
  <2> HIDE DEF Inv, Registering, Arbitrated, Storing, stateVars, A
  <2>. QED
    BY <1>1, <2>1, <2>2, <2>3, <2>4, <2>5, <2>6, <2>7, <2>8,
       <2>9, <2>10, <2>11, <2>12, <2>13, <2>14, <2>15, <2>16
    DEF Next, Step
<1>2. [A]_<<terminal, error>> <=> A \/ UNCHANGED <<terminal, error>>
  OBVIOUS
<1>3. Inv /\ [Next]_vars => [A]_<<terminal, error>>
  BY <1>1
<1>. QED
  BY <1>3, Invariance, PTL DEF Spec, FirstDecides

-----------------------------------------------------------------------------
(* What lies beneath the running activity of a thread. *)

(* The outermost activity of a thread is the one that it is for, and every *)
(* other but the innermost is in the callbacks of a stop request, unless   *)
(* it is start(), which is never nested itself.                            *)
Below ==
    \A t \in Threads :
        /\ stack[t] # <<>> => stack[t][1] = t
        /\ \A i \in 1 .. Len(stack[t]) - 1 :
             /\ stack[t][i] = Start \/ pc[stack[t][i]] = "callbacks"
             /\ stack[t][i + 1] # Start

(* The stop callback requests stop. After the answer none begins, and one  *)
(* that had begun is in the callbacks of its request.                      *)
Leftover ==
    /\ pc[Cancel] \in {"idle", "request_stop", "callbacks", "done"}
    /\ answers # <<>> =>
         /\ callback # "registered"
         /\ UnderWay(Cancel) => pc[Cancel] = "callbacks"

(* Only the innermost activity of a thread leaves callbacks. *)
Frame ==
    \A b \in Activities :
        pc[b] = "callbacks" =>
            pc'[b] = "callbacks" \/ \E t \in Threads : Runs(t, b)

(* Every step has its thread run the activity that it moves. *)
LEMMA Frames == Inv /\ [Next]_vars => Frame
<1> SUFFICES ASSUME Inv, [Next]_vars PROVE Frame
  OBVIOUS
<1> USE ActivitiesAssumption
    DEF Inv, TypeOK, Frame, Activities, Threads, stateVars, receiverVars
<1>1. ASSUME NEW t \in Threads, Register(t) PROVE Frame
  BY <1>1 DEF Register, Registering, At, Goto
<1>2. ASSUME NEW t \in Threads, RegisterFails(t) PROVE Frame
  BY <1>2 DEF RegisterFails, At, Runs, Leave
<1>3. ASSUME NEW t \in Threads, NEW c \in Children, StartOne(t, c) PROVE Frame
  BY <1>3 DEF StartOne, Goto, Enter
<1>4. ASSUME NEW t \in Threads, StartReturns(t) PROVE Frame
  BY <1>4 DEF StartReturns, At, Runs, Leave
<1>5. ASSUME NEW t \in Threads, NEW c \in Children,
             NEW completion \in Completions, ChildCompletes(t, c, completion)
      PROVE  Frame
  BY <1>5 DEF ChildCompletes, Enter
<1>6. ASSUME NEW t \in Threads, NEW c \in Children, ChildValue(t, c)
      PROVE  Frame
  BY <1>6 DEF ChildValue, At, Goto
<1>7. ASSUME NEW t \in Threads, NEW c \in Children, ChildTerminal(t, c)
      PROVE  Frame
  <2>1. \A d \in Activities \ {c} : pc'[d] = pc[d]
    BY <1>7 DEF ChildTerminal, Goto
  <2>. QED
    BY <1>7, <2>1 DEF ChildTerminal, Fails
<1>8. ASSUME NEW t \in Threads, NEW c \in Children, StoreError(t, c)
      PROVE  Frame
  BY <1>8 DEF StoreError, Goto
<1>9. ASSUME NEW t \in Threads, NEW a \in Children \union {Cancel},
             RequestStop(t, a)
      PROVE  Frame
  BY <1>9 DEF RequestStop, At, Runs, Leave, Goto
<1>10. ASSUME NEW t \in Threads, NEW a \in Children \union {Cancel},
              CallbacksReturn(t, a)
       PROVE  Frame
  BY <1>10 DEF CallbacksReturn, At, Runs, Leave, Goto
<1>11. ASSUME NEW t \in Threads, NEW c \in Children, Count(t, c) PROVE Frame
  BY <1>11 DEF Count, At, Runs, Leave, Goto
<1>12. ASSUME NEW t \in Threads, NEW c \in Children, Finish(t, c) PROVE Frame
  BY <1>12 DEF Finish, At, Goto
<1>13. ASSUME NEW t \in Threads, NEW c \in Children, Deliver(t, c) PROVE Frame
  BY <1>13 DEF Deliver, At, Runs, Leave
<1>14. ASSUME StopReceiver PROVE Frame
  BY <1>14 DEF StopReceiver
<1>15. ASSUME FireCallback PROVE Frame
  BY <1>15 DEF FireCallback, Registering, Enter
<1>16. CASE UNCHANGED vars
  BY <1>16 DEF vars
<1> HIDE DEF Inv, TypeOK, Frame, Activities, Threads, stateVars, receiverVars
<1>. QED
  BY <1>1, <1>2, <1>3, <1>4, <1>5, <1>6, <1>7, <1>8,
     <1>9, <1>10, <1>11, <1>12, <1>13, <1>14, <1>15, <1>16
  DEF Next, Step

(* What is beneath the top of a stack does not run, and so stays where it  *)
(* is.                                                                     *)
LEMMA BeneathStays ==
    ASSUME TypeOK, Stacked, Below, Frame,
           NEW t \in Threads, NEW i \in 1 .. Len(stack[t]) - 1
    PROVE  stack[t][i] = Start \/ pc'[stack[t][i]] = "callbacks"
<1>1. /\ Len(stack[t]) \in Nat
      /\ \A j \in 1 .. Len(stack[t]) : stack[t][j] \in Activities
  BY ElementOfSeq, LenProperties DEF TypeOK
<1>2. i \in 1 .. Len(stack[t]) /\ i # Len(stack[t])
  BY <1>1
<1>3. ASSUME NEW u \in Threads, Runs(u, stack[t][i]) PROVE FALSE
  <2>1. /\ Len(stack[u]) \in Nat \ {0}
        /\ stack[u][Len(stack[u])] = stack[t][i]
    BY <1>3, PopStack DEF TypeOK, Runs
  <2>2. Len(stack[u]) \in 1 .. Len(stack[u])
    BY <2>1
  <2>. QED
    BY <1>2, <2>1, <2>2 DEF Stacked
<1>4. stack[t][i] \in Activities
  BY <1>1, <1>2
<1>. QED
  BY <1>3, <1>4 DEF Below, Frame

(* The shape of the stacks is kept. *)
LEMMA BelowStep == Inv /\ Below /\ [Next]_vars => Below'
<1> SUFFICES ASSUME Inv, Below, [Next]_vars PROVE Below'
  OBVIOUS
<1>1. TypeOK /\ Stacked /\ Shape /\ Frame
  BY Moves, Frames DEF Inv
<1>2. \A t \in Threads : \A i \in 1 .. Len(stack[t]) - 1 :
        /\ stack[t][i] = Start \/ pc'[stack[t][i]] = "callbacks"
        /\ stack[t][i + 1] # Start
  BY <1>1, BeneathStays DEF Below
<1>3. CASE Kept
  BY <1>2, <1>3 DEF Kept, Below
<1>4. ASSUME NEW t \in Threads, NEW a \in Activities, Pushed(t, a)
      PROVE  Below'
  <2> DEFINE n == Len(stack[t])
  <2>1. /\ \A u \in Threads \ {t} : stack'[u] = stack[u]
        /\ n \in Nat /\ Len(stack'[t]) = n + 1
        /\ \A i \in 1 .. n : stack'[t][i] = stack[t][i]
        /\ stack'[t][n + 1] = a
    BY <1>1, <1>4, PushIndices
  <2>2. stack[t] = <<>> <=> n = 0
    BY <1>1, EmptySeq DEF TypeOK
  <2>3. stack[t] # <<>> => Runs(t, stack[t][n]) /\ stack[t][n] \in Activities
    <3>1. stack[t] \in Seq(Activities)
      BY <1>1 DEF TypeOK
    <3>. QED
      BY <3>1, PopStack DEF Runs
  <2>4. a # Start /\ Beginning(t, a) /\ ~UnderWay(a)
    BY <1>4 DEF Pushed, Beginning
  <2>5. ~OnStack(t, a)
    BY <1>1, <2>4 DEF Stacked
  <2>6. n = 0 => a = t
    BY <2>2, <2>4 DEF Beginning, Runs, At
  <2>7. ASSUME n # 0
        PROVE  stack[t][n] = Start \/ pc'[stack[t][n]] = "callbacks"
    <3>1. stack[t][1] = t /\ 1 \in 1 .. n
      BY <2>1, <2>2, <2>7 DEF Below
    <3>2. t # a
      BY <2>5, <3>1 DEF OnStack
    <3>3. stack[t][n] = Start \/ pc[stack[t][n]] = "callbacks"
      <4>1. Runs(t, Start) \/ \E b \in Activities : At(t, b, "callbacks")
        BY <2>4, <3>2 DEF Beginning
      <4>2. \A b \in Activities : Runs(t, b) => b = stack[t][n]
        BY <2>2, <2>3, <2>7 DEF Runs
      <4>3. Start \in Activities
        BY DEF Activities
      <4>. QED
        BY <4>1, <4>2, <4>3 DEF At
    <3>4. n \in 1 .. n
      BY <2>1, <2>7
    <3>5. stack[t][n] # a /\ stack[t][n] \in Activities
      BY <2>2, <2>3, <2>5, <2>7, <3>4 DEF OnStack
    <3>. QED
      BY <1>4, <3>3, <3>5 DEF Pushed
  <2>8. ASSUME NEW i \in 1 .. n
        PROVE  /\ stack'[t][i] = Start \/ pc'[stack'[t][i]] = "callbacks"
               /\ stack'[t][i + 1] # Start
    <3>1. stack'[t][i] = stack[t][i] /\ n # 0
      BY <2>1
    <3>2. CASE i = n
      BY <2>1, <2>4, <2>7, <3>1, <3>2
    <3>3. CASE i # n
      <4>1. i \in 1 .. n - 1 /\ i + 1 \in 1 .. n
        BY <2>1, <3>3
      <4>2. stack'[t][i + 1] = stack[t][i + 1]
        BY <2>1, <4>1
      <4>. QED
        BY <1>2, <3>1, <4>1, <4>2
    <3>. QED
      BY <3>2, <3>3
  <2>9. stack'[t][1] = t
    <3>1. CASE n = 0
      BY <2>1, <2>6, <3>1
    <3>2. CASE n # 0
      <4>1. 1 \in 1 .. n
        BY <2>1, <3>2
      <4>. QED
        BY <2>1, <2>2, <3>2, <4>1 DEF Below
    <3>. QED
      BY <3>1, <3>2
  <2>10. Len(stack'[t]) - 1 = n
    BY <2>1
  <2>11. ASSUME NEW u \in Threads
        PROVE  /\ stack'[u] # <<>> => stack'[u][1] = u
               /\ \A i \in 1 .. Len(stack'[u]) - 1 :
                    /\ stack'[u][i] = Start \/ pc'[stack'[u][i]] = "callbacks"
                    /\ stack'[u][i + 1] # Start
    <3>1. CASE u = t
      BY <2>8, <2>9, <2>10, <3>1
    <3>2. CASE u # t
      <4>1. stack'[u] = stack[u] /\ (stack[u] # <<>> => stack[u][1] = u)
        BY <2>1, <3>2 DEF Below
      <4>. QED
        BY <1>2, <4>1
    <3>. QED
      BY <3>1, <3>2
  <2>. QED
    BY <2>11 DEF Below
<1>5. ASSUME NEW t \in Threads, NEW a \in Activities, Popped(t, a)
      PROVE  Below'
  <2> DEFINE n == Len(stack[t])
  <2>1. /\ \A u \in Threads \ {t} : stack'[u] = stack[u]
        /\ n \in Nat \ {0} /\ Len(stack'[t]) = n - 1
        /\ \A i \in 1 .. n - 1 : stack'[t][i] = stack[t][i]
    BY <1>1, <1>5, PopIndices
  <2>2. stack'[t] # <<>> => n - 1 # 0
    <3>1. stack'[t] = Front(stack[t]) /\ stack[t] # <<>>
      BY <1>1, <1>5 DEF Popped, Pop, TypeOK, Runs
    <3>2. stack[t] \in Seq(Activities)
      BY <1>1 DEF TypeOK
    <3>3. stack'[t] \in Seq(Activities)
      BY <3>1, <3>2, PopStack
    <3>4. Len(stack'[t]) = 0 => stack'[t] = <<>>
      BY <3>3, EmptySeq
    <3>. QED
      BY <2>1, <3>4
  <2>3. stack'[t] # <<>> => stack'[t][1] = t
    <3>1. ASSUME stack'[t] # <<>> PROVE 1 \in 1 .. n - 1
      BY <2>1, <2>2, <3>1
    <3>2. stack[t] # <<>>
      BY <1>5 DEF Popped, Runs
    <3>. QED
      BY <2>1, <3>1, <3>2 DEF Below
  <2>4. ASSUME NEW i \in 1 .. Len(stack'[t]) - 1
        PROVE  /\ stack'[t][i] = Start \/ pc'[stack'[t][i]] = "callbacks"
               /\ stack'[t][i + 1] # Start
    <3>1. i \in 1 .. n - 1 /\ i + 1 \in 1 .. n - 1
      BY <2>1
    <3>2. stack'[t][i] = stack[t][i] /\ stack'[t][i + 1] = stack[t][i + 1]
      BY <2>1, <3>1
    <3>. QED
      BY <1>2, <3>1, <3>2
  <2>5. ASSUME NEW u \in Threads
        PROVE  /\ stack'[u] # <<>> => stack'[u][1] = u
               /\ \A i \in 1 .. Len(stack'[u]) - 1 :
                    /\ stack'[u][i] = Start \/ pc'[stack'[u][i]] = "callbacks"
                    /\ stack'[u][i + 1] # Start
    <3>1. CASE u = t
      BY <2>3, <2>4, <3>1
    <3>2. CASE u # t
      <4>1. stack'[u] = stack[u] /\ (stack[u] # <<>> => stack[u][1] = u)
        BY <2>1, <3>2 DEF Below
      <4>. QED
        BY <1>2, <4>1
    <3>. QED
      BY <3>1, <3>2
  <2>. QED
    BY <2>5 DEF Below
<1>. QED
  BY <1>1, <1>3, <1>4, <1>5 DEF Shape

(* The callback that the answer leaves behind is the one that the answer   *)
(* is nested in.                                                           *)
LEMMA LeftoverStep == Inv /\ Below /\ Leftover /\ [Next]_vars => Leftover'
<1> SUFFICES ASSUME Inv, Below, Leftover, [Next]_vars PROVE Leftover'
  OBVIOUS
<1> USE ActivitiesAssumption
    DEF Inv, TypeOK, Leftover, UnderWay, Activities, Threads, stateVars,
        receiverVars
<1>1. ASSUME NEW t \in Threads, Register(t) PROVE Leftover'
  <2>1. answers' = <<>>
    BY <1>1 DEF Register, Registering, At
  <2>2. pc'[Cancel] \in {pc[Cancel], "request_stop"}
    BY <1>1 DEF Register, Goto
  <2>. QED
    BY <2>1, <2>2
<1>2. ASSUME NEW t \in Threads, RegisterFails(t) PROVE Leftover'
  BY <1>2 DEF RegisterFails, Registering, At, Runs, Leave
<1>3. ASSUME NEW t \in Threads, NEW c \in Children, StartOne(t, c) PROVE Leftover'
  BY <1>3 DEF StartOne, Goto, Enter
<1>4. ASSUME NEW t \in Threads, StartReturns(t) PROVE Leftover'
  BY <1>4 DEF StartReturns, At, Runs, Leave
<1>5. ASSUME NEW t \in Threads, NEW c \in Children,
             NEW completion \in Completions, ChildCompletes(t, c, completion)
      PROVE  Leftover'
  BY <1>5 DEF ChildCompletes, Enter
<1>6. ASSUME NEW t \in Threads, NEW c \in Children, ChildValue(t, c)
      PROVE  Leftover'
  BY <1>6 DEF ChildValue, At, Goto
<1>7. ASSUME NEW t \in Threads, NEW c \in Children, ChildTerminal(t, c)
      PROVE  Leftover'
  <2>1. pc'[Cancel] = pc[Cancel]
    BY <1>7 DEF ChildTerminal, Goto
  <2>. QED
    BY <1>7, <2>1 DEF ChildTerminal
<1>8. ASSUME NEW t \in Threads, NEW c \in Children, StoreError(t, c)
      PROVE  Leftover'
  BY <1>8 DEF StoreError, Goto
<1>9. ASSUME NEW t \in Threads, NEW a \in Children \union {Cancel},
             RequestStop(t, a)
      PROVE  Leftover'
  BY <1>9 DEF RequestStop, At, Runs, Leave, Goto
<1>10. ASSUME NEW t \in Threads, NEW a \in Children \union {Cancel},
              CallbacksReturn(t, a)
       PROVE  Leftover'
  BY <1>10 DEF CallbacksReturn, At, Runs, Leave, Goto
<1>11. ASSUME NEW t \in Threads, NEW c \in Children, Count(t, c) PROVE Leftover'
  BY <1>11 DEF Count, At, Runs, Leave, Goto
<1>12. ASSUME NEW t \in Threads, NEW c \in Children, Finish(t, c) PROVE Leftover'
  BY <1>12 DEF Finish, At, Goto
<1>13. ASSUME NEW t \in Threads, NEW c \in Children, Deliver(t, c) PROVE Leftover'
  <2>1. /\ Runs(t, c) /\ pc[c] = "deliver"
        /\ callback' = callback /\ pc' = [pc EXCEPT ![c] = "done"]
    BY <1>13 DEF Deliver, At, Runs, Leave
  <2>2. callback' = "reset" /\ OnStack(t, c)
    BY <2>1, RunsOnStack DEF Reset
  <2>3. UnderWay(Cancel) => OnStack(t, Cancel)
    BY <2>1, <2>2 DEF Reset
  <2>4. /\ Len(stack[t]) \in Nat \ {0} /\ stack[t][Len(stack[t])] = c
    BY <2>1, PopStack DEF Runs
  <2>5. UnderWay(Cancel) => pc[Cancel] = "callbacks"
    <3>1. ASSUME NEW i \in 1 .. Len(stack[t]), stack[t][i] = Cancel
          PROVE  pc[Cancel] = "callbacks"
      <4>1. i \in 1 .. Len(stack[t]) - 1
        BY <2>4, <3>1
      <4>. QED
        BY <3>1, <4>1 DEF Below
    <3>. QED
      BY <2>3, <3>1 DEF OnStack
  <2>. QED
    BY <2>1, <2>2, <2>5
<1>14. ASSUME StopReceiver PROVE Leftover'
  BY <1>14 DEF StopReceiver
<1>15. ASSUME FireCallback PROVE Leftover'
  BY <1>15 DEF FireCallback, Enter
<1>16. CASE UNCHANGED vars
  BY <1>16 DEF vars
<1> HIDE DEF Inv, TypeOK, Leftover, UnderWay, Activities, Threads, stateVars,
        receiverVars
<1>. QED
  BY <1>1, <1>2, <1>3, <1>4, <1>5, <1>6, <1>7, <1>8,
     <1>9, <1>10, <1>11, <1>12, <1>13, <1>14, <1>15, <1>16
  DEF Next, Step

-----------------------------------------------------------------------------
(* The two ends of the stop callback. *)

(* After the answer all that is left of a stop callback is the return from *)
(* the callbacks of its request, in which the answer was given: the one    *)
(* step with which the code violates CancelLeft.                           *)
OnlyTail ==
    answers # <<>> /\ UnderWay(Cancel) =>
        \E t \in Threads : At(t, Cancel, "callbacks")

(* A child that waits in on_stop.reset() for a stop callback waits for     *)
(* another thread, on which that callback runs and nothing inside it, so   *)
(* that it goes on: neither it nor another child waits as well.            *)
NoCircularWait ==
    \A t \in Threads, c \in Children :
        At(t, c, "finish") /\ UnderWay(Cancel) /\ ~Within(t, Cancel) =>
            \E u \in Threads \ {t} :
                At(u, Cancel, "request_stop") \/ At(u, Cancel, "callbacks")

(* The stacks and the stop callback, beside Inv. *)
LEMMA BelowInvariant == Spec => [](Inv /\ Below /\ Leftover)
<1>1. Init => Inv
  BY InvInit
<1>2. Init => Below
  <2>1. \A t \in Threads : Init =>
          stack[t] = <<>> \/ (t = Start /\ stack[t] = <<Start>>)
    BY DEF Init, Threads, Activities
  <2>2. Len(<<>>) - 1 = -1 /\ Len(<<Start>>) - 1 = 0 /\ <<Start>>[1] = Start
    OBVIOUS
  <2>3. 1 .. -1 = {} /\ 1 .. 0 = {}
    OBVIOUS
  <2>. QED
    BY <2>1, <2>2, <2>3 DEF Below
<1>3. Init => Leftover
  BY ActivitiesAssumption DEF Init, Leftover, Activities
<1>4. Inv /\ [Next]_vars => Inv'
  BY TypeOKStep, RegisteringStep, ElectedStep, ArbitratedStep, JustifiedStep,
     StackedStep, ResetStep DEF Inv
<1>. QED
  BY <1>1, <1>2, <1>3, <1>4, BelowStep, LeftoverStep, PTL DEF Spec

(* On the stack of a thread that is inside of no child, the stop callback  *)
(* is on top.                                                              *)
LEMMA CancelOnTop ==
    ASSUME Inv, Below, NEW u \in Threads, OnStack(u, Cancel),
           \A c \in Children : ~OnStack(u, c)
    PROVE  Runs(u, Cancel)
<1> DEFINE n == Len(stack[u])
<1>1. PICK i \in 1 .. n : stack[u][i] = Cancel
  BY DEF OnStack
<1>2. stack[u] \in Seq(Activities) /\ n \in Nat /\ stack[u] # <<>>
  BY <1>1, LenProperties, EmptySeq DEF Inv, TypeOK
<1>3. ASSUME i # n PROVE FALSE
  <2>1. i \in 1 .. n - 1 /\ i + 1 \in 1 .. n /\ i + 1 # i
    BY <1>1, <1>2, <1>3
  <2>2. stack[u][i + 1] \in Activities /\ stack[u][i + 1] # Start
    BY <1>2, <2>1, ElementOfSeq DEF Below
  <2>3. stack[u][i + 1] # Cancel
    BY <1>1, <2>1 DEF Inv, Stacked
  <2>4. \A c \in Children : stack[u][i + 1] # c
    BY <2>1 DEF OnStack
  <2>. QED
    BY <2>2, <2>3, <2>4 DEF Activities
<1>4. Last(stack[u]) = stack[u][n]
  BY DEF Last
<1>. QED
  BY <1>1, <1>2, <1>3, <1>4 DEF Runs

(* The disagreement that the code has with CancelLeft goes no further than *)
(* the return of the outermost request_stop().                             *)
THEOREM OnlyTailLeft == Spec => []OnlyTail
<1>1. ASSUME Inv, Below, Leftover, answers # <<>>, UnderWay(Cancel)
      PROVE  \E t \in Threads : At(t, Cancel, "callbacks")
  <2>1. pc[Cancel] = "callbacks"
    BY <1>1 DEF Leftover
  <2>2. \A c \in Children : ~UnderWay(c)
    BY <1>1 DEF Inv, Elected, Refused, UnderWay
  <2>3. PICK u \in Threads : OnStack(u, Cancel)
    BY <1>1 DEF Inv, Stacked, Activities
  <2>4. \A c \in Children : ~OnStack(u, c)
    BY <1>1, <2>2 DEF Inv, Stacked, Activities
  <2>5. Runs(u, Cancel)
    BY <1>1, <2>3, <2>4, CancelOnTop
  <2>. QED
    BY <2>1, <2>5 DEF At
<1>2. Inv /\ Below /\ Leftover => OnlyTail
  BY <1>1 DEF OnlyTail
<1>. QED
  BY <1>2, BelowInvariant, PTL

(* Whatever is nested in whatever, the wait of the last child ends: no     *)
(* circle of threads waits, for any number of children.                    *)
THEOREM ResetsProceed == Spec => []NoCircularWait
<1>1. ASSUME Inv, Below, Leftover,
             NEW t \in Threads, NEW c \in Children,
             At(t, c, "finish"), UnderWay(Cancel), ~Within(t, Cancel)
      PROVE  \E u \in Threads \ {t} :
                At(u, Cancel, "request_stop") \/ At(u, Cancel, "callbacks")
  <2>1. TypeOK /\ Stacked /\ pc[c] = "finish" /\ Runs(t, c)
    BY <1>1 DEF Inv, At
  <2>2. \A d \in Children \ {c} : ~UnderWay(d)
    BY <1>1, <2>1 DEF Inv, Elected, UnderWay
  <2>3. PICK u \in Threads : OnStack(u, Cancel)
    BY <1>1 DEF Inv, Stacked, Activities
  <2>4. u # t
    BY <1>1, <2>1, <2>3, WithinOnStack
  <2>5. \A d \in Children : ~OnStack(u, d)
    <3>1. OnStack(t, c)
      BY <2>1, RunsOnStack DEF Activities
    <3>2. ~OnStack(u, c)
      BY <2>1, <2>4, <3>1 DEF Stacked, OnStack
    <3>3. \A d \in Children \ {c} : ~OnStack(u, d)
      BY <2>1, <2>2 DEF Stacked, Activities
    <3>. QED
      BY <3>2, <3>3
  <2>6. Runs(u, Cancel)
    BY <1>1, <2>3, <2>5, CancelOnTop
  <2>7. pc[Cancel] \in {"request_stop", "callbacks"}
    BY <1>1 DEF Leftover, UnderWay
  <2>. QED
    BY <2>4, <2>6, <2>7 DEF At
<1>2. Inv /\ Below /\ Leftover => NoCircularWait
  BY <1>1 DEF NoCircularWait
<1>. QED
  BY <1>2, BelowInvariant, PTL

-----------------------------------------------------------------------------
(* Whoever is last answers, and a failure or a stop request reaches the    *)
(* children.                                                               *)

(* The children do not all leave without an answer. *)
AnswerSent == (\A c \in Children : pc[c] = "done") => answers # <<>>

(* A child that decided requests stop before it is counted, and the stop   *)
(* callback does when it runs.                                             *)
StopSent ==
    /\ terminal # "none" =>
         \/ source \/ answers # <<>>
         \/ \E c \in Children : pc[c] \in Storing \union {"request_stop"}
    /\ callback = "fired" => source \/ pc[Cancel] = "request_stop"

(* The last child that is counted goes on to deliver the answer. *)
LEMMA AnswerSentStep == Inv /\ AnswerSent /\ [Next]_vars => AnswerSent'
<1> SUFFICES ASSUME Inv, AnswerSent, [Next]_vars PROVE AnswerSent'
  OBVIOUS
<1> USE ActivitiesAssumption
    DEF Inv, TypeOK, AnswerSent, Activities, Threads, Completions,
        receiverVars, stateVars
<1>1. ASSUME NEW t \in Threads,
             Register(t)
      PROVE  AnswerSent'
  BY <1>1 DEF Register, At, Runs, Goto, Leave, Enter
<1>2. ASSUME NEW t \in Threads,
             RegisterFails(t)
      PROVE  AnswerSent'
  <2>1. answers \in Seq(Completions) /\ answers' = Append(answers, "exception")
    BY <1>2 DEF RegisterFails
  <2>. QED
    BY ONLY <2>1 DEF AnswerSent, Completions
<1>3. ASSUME NEW t \in Threads, NEW c \in Children,
             StartOne(t, c)
      PROVE  AnswerSent'
  BY <1>3 DEF StartOne, At, Runs, Goto, Leave, Enter
<1>4. ASSUME NEW t \in Threads,
             StartReturns(t)
      PROVE  AnswerSent'
  BY <1>4 DEF StartReturns, At, Runs, Goto, Leave, Enter
<1>5. ASSUME NEW t \in Threads, NEW c \in Children,
             NEW completion \in Completions,
             ChildCompletes(t, c, completion)
      PROVE  AnswerSent'
  BY <1>5 DEF ChildCompletes, At, Runs, Goto, Leave, Enter
<1>6. ASSUME NEW t \in Threads, NEW c \in Children,
             ChildValue(t, c)
      PROVE  AnswerSent'
  BY <1>6 DEF ChildValue, At, Runs, Goto, Leave, Enter
<1>7. ASSUME NEW t \in Threads, NEW c \in Children,
             ChildTerminal(t, c)
      PROVE  AnswerSent'
  <2>1. /\ pc' = [pc EXCEPT ![c] = Decided(c)] \/ pc' = [pc EXCEPT ![c] = "count"]
        /\ Decided(c) # "done"
    BY <1>7 DEF ChildTerminal, Fails, Decided, Goto
  <2>2. pc'[c] # "done"
    BY ONLY <1>7, <2>1, TypeOK DEF TypeOK, Activities
  <2>. QED
    BY ONLY <1>7, <2>2 DEF AnswerSent
<1>8. ASSUME NEW t \in Threads, NEW c \in Children,
             StoreError(t, c)
      PROVE  AnswerSent'
  BY <1>8 DEF StoreError, At, Runs, Goto, Leave, Enter
<1>9. ASSUME NEW t \in Threads,
             NEW a \in Children \union {Cancel},
             RequestStop(t, a)
      PROVE  AnswerSent'
  BY <1>9 DEF RequestStop, At, Runs, Goto, Leave, Enter
<1>10. ASSUME NEW t \in Threads,
              NEW a \in Children \union {Cancel},
              CallbacksReturn(t, a)
       PROVE  AnswerSent'
  BY <1>10 DEF CallbacksReturn, At, Runs, Goto, Leave, Enter
<1>11. ASSUME NEW t \in Threads, NEW c \in Children,
              Count(t, c)
       PROVE  AnswerSent'
  <2>1. CASE remaining = 1
    BY <1>11, <2>1 DEF Count, At, Runs, Goto
  <2>2. CASE remaining # 1
    <3>1. remaining' # 0
      BY <1>11, <2>2 DEF Count
    <3>2. Uncounted' # {}
      BY <1>11, <3>1, CountDown
    <3>. QED
      BY <3>2 DEF Uncounted
  <2>. QED
    BY <2>1, <2>2
<1>12. ASSUME NEW t \in Threads, NEW c \in Children,
              Finish(t, c)
       PROVE  AnswerSent'
  BY <1>12 DEF Finish, At, Runs, Goto, Leave, Enter
<1>13. ASSUME NEW t \in Threads, NEW c \in Children,
              Deliver(t, c)
       PROVE  AnswerSent'
  BY <1>13 DEF Deliver, At, Runs, Goto, Leave, Enter
<1>14. ASSUME StopReceiver
       PROVE  AnswerSent'
  BY <1>14 DEF StopReceiver
<1>15. ASSUME FireCallback
       PROVE  AnswerSent'
  BY <1>15 DEF FireCallback, At, Runs, Goto, Leave, Enter
<1>16. CASE UNCHANGED vars
  BY <1>16 DEF vars
<1> HIDE DEF Inv, TypeOK, AnswerSent, Activities, Threads, Completions,
        receiverVars, stateVars
<1>. QED
  BY <1>1, <1>2, <1>3, <1>4, <1>5, <1>6, <1>7, <1>8,
     <1>9, <1>10, <1>11, <1>12, <1>13, <1>14, <1>15, <1>16
  DEF Next, Step

(* The source is never asked less than it was. *)
LEMMA StopSentStep == Inv /\ StopSent /\ [Next]_vars => StopSent'
<1> SUFFICES ASSUME Inv, StopSent, [Next]_vars PROVE StopSent'
  OBVIOUS
<1> USE ActivitiesAssumption
    DEF Inv, TypeOK, StopSent, Storing, Activities, Threads, Completions,
        receiverVars, stateVars
<1>1. ASSUME NEW t \in Threads,
             Register(t)
      PROVE  StopSent'
  BY <1>1 DEF Register, At, Runs, Goto, Leave, Enter
<1>2. ASSUME NEW t \in Threads,
             RegisterFails(t)
      PROVE  StopSent'
  BY <1>2 DEF RegisterFails, At, Runs, Goto, Leave, Enter
<1>3. ASSUME NEW t \in Threads, NEW c \in Children,
             StartOne(t, c)
      PROVE  StopSent'
  BY <1>3 DEF StartOne, At, Runs, Goto, Leave, Enter
<1>4. ASSUME NEW t \in Threads,
             StartReturns(t)
      PROVE  StopSent'
  BY <1>4 DEF StartReturns, At, Runs, Goto, Leave, Enter
<1>5. ASSUME NEW t \in Threads, NEW c \in Children,
             NEW completion \in Completions,
             ChildCompletes(t, c, completion)
      PROVE  StopSent'
  BY <1>5 DEF ChildCompletes, At, Runs, Goto, Leave, Enter
<1>6. ASSUME NEW t \in Threads, NEW c \in Children,
             ChildValue(t, c)
      PROVE  StopSent'
  BY <1>6 DEF ChildValue, At, Runs, Goto, Leave, Enter
<1>7. ASSUME NEW t \in Threads, NEW c \in Children,
             ChildTerminal(t, c)
      PROVE  StopSent'
  <2>1. /\ terminal = "none" => pc'[c] \in Storing \union {"request_stop"}
        /\ terminal # "none" => terminal' = terminal
        /\ \A a \in Activities \ {c} : pc'[a] = pc[a]
        /\ pc[c] \notin Storing \union {"request_stop"}
    BY <1>7 DEF ChildTerminal, Fails, Decided, Goto
  <2>2. UNCHANGED <<source, answers, callback>>
    BY <1>7 DEF ChildTerminal
  <2>. QED
    BY ONLY <1>7, <2>1, <2>2, StopSent, ActivitiesAssumption
    DEF StopSent, Activities
<1>8. ASSUME NEW t \in Threads, NEW c \in Children,
             StoreError(t, c)
      PROVE  StopSent'
  BY <1>8 DEF StoreError, At, Runs, Goto, Leave, Enter
<1>9. ASSUME NEW t \in Threads,
             NEW a \in Children \union {Cancel},
             RequestStop(t, a)
      PROVE  StopSent'
  BY <1>9 DEF RequestStop, At, Runs, Goto, Leave, Enter
<1>10. ASSUME NEW t \in Threads,
              NEW a \in Children \union {Cancel},
              CallbacksReturn(t, a)
       PROVE  StopSent'
  BY <1>10 DEF CallbacksReturn, At, Runs, Goto, Leave, Enter
<1>11. ASSUME NEW t \in Threads, NEW c \in Children,
              Count(t, c)
       PROVE  StopSent'
  BY <1>11 DEF Count, At, Runs, Goto, Leave, Enter
<1>12. ASSUME NEW t \in Threads, NEW c \in Children,
              Finish(t, c)
       PROVE  StopSent'
  BY <1>12 DEF Finish, At, Runs, Goto, Leave, Enter
<1>13. ASSUME NEW t \in Threads, NEW c \in Children,
              Deliver(t, c)
       PROVE  StopSent'
  <2>1. PICK answer \in Answer : answers' = Append(answers, answer)
    BY <1>13 DEF Deliver
  <2>2. answers' # <<>>
    <3>1. answer \in Completions /\ answers \in Seq(Completions)
      BY ONLY <1>13, <2>1, Inv, AnswerIsCompletion DEF Inv, TypeOK
    <3>2. Len(answers) \in Nat /\ Len(answers') = Len(answers) + 1
      BY ONLY <2>1, <3>1, AppendProperties, LenProperties
    <3>. QED
      BY ONLY <3>2
  <2>3. UNCHANGED <<source, callback>> /\ pc'[Cancel] = pc[Cancel]
    BY <1>13 DEF Deliver, At, Runs, Leave
  <2>. QED
    BY ONLY <2>2, <2>3, StopSent DEF StopSent
<1>14. ASSUME StopReceiver
       PROVE  StopSent'
  BY <1>14 DEF StopReceiver
<1>15. ASSUME FireCallback
       PROVE  StopSent'
  BY <1>15 DEF FireCallback, At, Runs, Goto, Leave, Enter
<1>16. CASE UNCHANGED vars
  BY <1>16 DEF vars
<1> HIDE DEF Inv, TypeOK, StopSent, Storing, Activities, Threads,
        Completions, receiverVars, stateVars
<1>. QED
  BY <1>1, <1>2, <1>3, <1>4, <1>5, <1>6, <1>7, <1>8,
     <1>9, <1>10, <1>11, <1>12, <1>13, <1>14, <1>15, <1>16
  DEF Next, Step

(* The safety that Answered rests on: once all children are counted, the   *)
(* receiver has been answered.                                             *)
THEOREM AnswerNotLost == Spec => []AnswerSent
<1>1. Init => AnswerSent
  BY ActivitiesAssumption, FS_EmptySet DEF Init, AnswerSent, Activities
<1>. QED
  BY <1>1, AnswerSentStep, Invariance, PTL DEF Spec

(* The safety that StopSpreads rests on: a failure that is decided has     *)
(* requested stop of the children, or is about to; so has a stop callback. *)
THEOREM StopNotLost == Spec => []StopSent
<1>1. Init => StopSent
  BY DEF Init, StopSent
<1>. QED
  BY <1>1, StopSentStep, Invariance, PTL DEF Spec
=============================================================================
