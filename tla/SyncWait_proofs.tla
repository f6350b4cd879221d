--------------------------- MODULE SyncWait_proofs ---------------------------
(***************************************************************************)
(* Proofs about SyncWait, for any program of any depth.                    *)
(*                                                                         *)
(* One hand holds the computation: a thread in a call, an operation that   *)
(* waits, or the queue of the loop. The operations around the one in that  *)
(* hand are constructed and have not completed; those inside it have not   *)
(* been started yet, or have just completed. Every step passes the hand to *)
(* the same operation, the one inside it or the one around it, so that no  *)
(* induction along the nesting is needed.                                  *)
(*                                                                         *)
(* Most actions move the hand in one of four ways, each of which is shown  *)
(* to keep the invariant once: a completion is sent, an operation inside   *)
(* is called, an operation is left to wait, and a thread takes it up.      *)
(***************************************************************************)
EXTENDS SyncWait, FiniteSetTheorems, WellFoundedInduction, TLAPS

-----------------------------------------------------------------------------
(* The inductive invariant, in named parts. *)

(* The sender is one that the library connects. *)
Connected ==
    \A n \in Adaptors :
        kind[n] = "on" => Scheduler(kind, n) \in {"loop", "pool"}

(* A transformation has the operation inside it constructed with it. *)
Whole == \A n \in Adaptors : alive[n] /\ Transforms(n) => alive[n + 1]

(* The one hand, or none before sync_wait() starts the sender and after it *)
(* has told the loop to finish.                                            *)
Hand ==
    /\ phase = "connect" =>
         ~finished /\ \A n \in Operations : sent[n] = None
    /\ IF phase = "connect" \/ finished
       THEN /\ \A t \in Threads : calls[t] = Idle
            /\ \A n \in Operations : waits[n] = "nowhere"
            /\ queue = <<>>
       ELSE \/ \E t \in Threads :
                 /\ calls[t] # Idle
                 /\ \A u \in Threads \ {t} : calls[u] = Idle
                 /\ \A n \in Operations : waits[n] = "nowhere"
                 /\ queue = <<>>
            \/ \E n \in Operations :
                 /\ waits[n] # "nowhere"
                 /\ \A m \in Operations \ {n} : waits[m] = "nowhere"
                 /\ \A t \in Threads : calls[t] = Idle
                 /\ queue = <<>>
            \/ \E n \in Operations :
                 /\ queue = <<n>>
                 /\ \A t \in Threads : calls[t] = Idle
                 /\ \A m \in Operations : waits[m] = "nowhere"

(* Operation n and those around it are there, and have not completed. *)
Reached(n) == \A m \in 1 .. n : alive[m] /\ sent[m] = None

(* Those inside it have not completed either. *)
Fresh(n) == \A m \in n + 1 .. Innermost : sent[m] = None

(* An operation that waits has not started the one inside it, but that an  *)
(* on() waits to deliver what it was sent.                                 *)
IsOn(n) == n \in Adaptors /\ kind[n] = "on"

Suspended(n) ==
    /\ Reached(n)
    /\ IsOn(n) => stored[n] = sent[n + 1] /\ stored[n] # None
    /\ ~IsOn(n) => Fresh(n)

(* The result is what operation 1 sent, or what storing it threw. *)
Stored ==
    /\ sent[1] # None
    /\ result = sent[1] \/ (sent[1] = "value" /\ result = "exception")

(* What a thread is called with fits where its operation is. *)
Fits(t, at, n, completion) ==
    /\ at = "start" => n \in Operations /\ Reached(n) /\ Fresh(n)
    /\ at = "body" =>
         n \in Adaptors /\ kind[n] = "task" /\ Reached(n) /\ Fresh(n)
    /\ at = "first" =>
         /\ n \in Operations /\ completion # None
         /\ Suspended(n)
         /\ completion \in Awaited(n)
         /\ IsOn(n) => t = Deliverer(n) /\ (completion # "value" => t = Pool)
    /\ at = "receive" =>
         /\ n \in 0 .. Depth /\ completion # None
         /\ Reached(n) /\ sent[n + 1] = completion /\ carrier[n + 1] = t
    /\ at = "finish" => n = 0 /\ Stored

Called ==
    \A t \in Threads :
        /\ calls[t].at = "idle" => calls[t] = Idle
        /\ Fits(t, calls[t].at, calls[t].op, calls[t].completion)

(* So does what waits, and what the loop will execute, which gives a       *)
(* value.                                                                  *)
WaitedFor ==
    \A n \in Operations :
        /\ waits[n] # "nowhere" \/ queue = <<n>> => Suspended(n)
        /\ queue = <<n>> => "value" \in Awaited(n)
        /\ IsOn(n) =>
             /\ waits[n] # "nowhere" =>
                  waits[n] = "pool" /\ Deliverer(n) = Pool
             /\ queue = <<n>> => Deliverer(n) = Main

Inv ==
    /\ TypeOK
    /\ Connected
    /\ Whole
    /\ Hand
    /\ Called
    /\ WaitedFor
    /\ Faithful

-----------------------------------------------------------------------------
(* The nesting. *)

(* Where operations are. *)
LEMMA Nesting ==
    /\ Innermost = Depth + 1 /\ Depth \in Nat \ {0} /\ Innermost \in Nat
    /\ \A n \in Adaptors : /\ n \in Operations /\ n \in Nat /\ n # 0
                           /\ n + 1 \in Operations /\ n \in 0 .. Depth
                           /\ n < Innermost
    /\ \A n \in Operations : /\ n \in Nat /\ n # 0 /\ n - 1 \in 0 .. Depth
                             /\ n # Innermost => n \in Adaptors
                             /\ n <= Innermost /\ n \in 1 .. n
                             /\ n - 1 \in 0 .. Innermost
                             /\ n \in 0 .. Innermost
    /\ Innermost \in Operations /\ Innermost \notin Adaptors
    /\ 1 \in Operations /\ 0 \in 0 .. Innermost
  BY DepthAssumption DEF Innermost, Adaptors, Operations

(* What is constructed with an operation is inside it, and where it ends   *)
(* there is an operation that is no transformation.                        *)
LEMMA TogetherFacts ==
    ASSUME program \in Programs
    PROVE  /\ \A n \in Operations : n \in Together(n)
           /\ \A n \in Operations : Together(n) \subseteq Operations
           /\ \A n \in Operations, m \in Adaptors :
                m \in Together(n) /\ Transforms(m) => m + 1 \in Together(n)
<1>1. \A n \in Operations : n \in Together(n)
  BY Nesting DEF Together
<1>2. \A n \in Operations : Together(n) \subseteq Operations
  BY Nesting DEF Together, Operations
<1>3. ASSUME NEW n \in Operations, NEW m \in Adaptors,
             m \in Together(n), Transforms(m)
      PROVE  m + 1 \in Together(n)
  <2>1. /\ n \in Nat /\ m \in n .. Innermost /\ Innermost \in Nat
        /\ m + 1 \in n .. Innermost
        /\ \A i \in n .. m - 1 : Transforms(i)
    BY <1>3, Nesting DEF Together
  <2>2. \A i \in n .. (m + 1) - 1 : i = m \/ i \in n .. m - 1
    BY <2>1
  <2>. QED
    BY <1>3, <2>1, <2>2 DEF Together
<1>. QED
  BY <1>1, <1>2, <1>3

(* What the program says does not change. *)
LEMMA SameProgram ==
    ASSUME UNCHANGED program
    PROVE  /\ kind' = kind /\ throws' = throws
           /\ \A n : IsOn(n)' = IsOn(n) /\ Deliverer(n)' = Deliverer(n)
           /\ \A n : IsLet(n)' = IsLet(n) /\ Transforms(n)' = Transforms(n)
           /\ \A n : Awaited(n)' = Awaited(n) /\ Together(n)' = Together(n)
           /\ \A t, n, inner, c :
                Follows(t, n, inner, c)' = Follows(t, n, inner, c)
<1>1. kind' = kind /\ throws' = throws
  BY DEF kind, throws
<1>2. /\ \A n : IsOn(n)' = IsOn(n) /\ IsLet(n)' = IsLet(n)
      /\ \A n : Transforms(n)' = Transforms(n)
  BY <1>1 DEF IsOn, IsLet, Transforms
<1>3. \A n : Awaited(n)' = Awaited(n)
  BY <1>1, <1>2 DEF Awaited
<1>4. \A n : Deliverer(n)' = Deliverer(n)
  BY <1>1 DEF Deliverer
<1>5. \A n : Together(n)' = Together(n)
  BY <1>2 DEF Together
<1>6. \A n : StartThrows(n)' = StartThrows(n)
  BY <1>1, <1>2, <1>5 DEF StartThrows, NothrowConnect
<1>7. \A n, c : Selects(n, c)' = Selects(n, c)
  BY <1>1 DEF Selects
<1>8. ASSUME NEW t, NEW n, NEW inner, NEW c
      PROVE  Follows(t, n, inner, c)' = Follows(t, n, inner, c)
  <2>1. StartsOnFollows(inner, c)' = StartsOnFollows(inner, c)
    BY DEF StartsOnFollows
  <2>2. OnFollows(t, n, inner, c)' = OnFollows(t, n, inner, c)
    BY <1>4 DEF OnFollows
  <2>3. LetFollows(n, inner, c)' = LetFollows(n, inner, c)
    BY <1>6, <1>7 DEF LetFollows
  <2>4. TransformFollows(n, inner, c)' = TransformFollows(n, inner, c)
    BY <1>1, <1>7 DEF TransformFollows
  <2>. QED
    BY <1>1, <1>2, <2>1, <2>2, <2>3, <2>4 DEF Follows, TaskFollows
<1>. QED
  BY <1>1, <1>2, <1>3, <1>4, <1>5, <1>8

-----------------------------------------------------------------------------
(* The hand. *)

(* The calls that a thread may be in. *)
CallRecords ==
    [at : {"idle", "start", "body", "first", "receive", "finish"},
     op : 0 .. Innermost, completion : Completions \union {None}]

USE DEF CallRecords

(* While a thread is in a call it has the hand. *)
LEMMA Holds ==
    ASSUME Inv, NEW t \in Threads, calls[t] # Idle
    PROVE  /\ phase # "connect" /\ ~finished
           /\ \A u \in Threads \ {t} : calls[u] = Idle
           /\ \A n \in Operations : waits[n] = "nowhere"
           /\ queue = <<>>
  BY DEF Inv, Hand

(* What waits is the hand. *)
LEMMA Waits ==
    ASSUME Inv, NEW n \in Operations, waits[n] # "nowhere" \/ queue = <<n>>
    PROVE  /\ phase # "connect" /\ ~finished
           /\ \A t \in Threads : calls[t] = Idle
           /\ \A m \in Operations \ {n} : waits[m] = "nowhere"
           /\ waits[n] # "nowhere" => queue = <<>>
           /\ queue = <<n>> => waits[n] = "nowhere"
<1>1. queue = <<n>> => queue # <<>> /\ \A m : queue = <<m>> => m = n
  OBVIOUS
<1>. QED
  BY <1>1 DEF Inv, Hand

(* A thread that is at a point of an operation is in a call, which fits. *)
LEMMA Inside ==
    ASSUME Inv, NEW t \in Threads, NEW at, NEW n, At(t, at, n), at # "idle"
    PROVE  /\ calls[t] # Idle
           /\ calls[t].completion \in Completions \union {None}
           /\ Fits(t, at, n, calls[t].completion)
  BY DEF Inv, TypeOK, Called, At, Idle

(* The idle thread is idle, and fits. *)
LEMMA IdleFits ==
    /\ Idle.at = "idle"
    /\ \A t \in Threads : calls'[t] = Idle =>
         (Fits(t, calls[t].at, calls[t].op, calls[t].completion))'
  BY DEF Idle, Fits

-----------------------------------------------------------------------------
(* The four moves. *)

CallPoints == {"start", "body", "first", "receive", "finish"}

(* A thread leaves the call it is in for another one. *)
LEMMA Moves ==
    ASSUME Inv, NEW t \in Threads, calls[t] # Idle,
           NEW at \in CallPoints, NEW n \in 0 .. Innermost,
           NEW completion \in Completions \union {None},
           Call(t, at, n, completion),
           UNCHANGED <<program, phase, waits, loopVars>>,
           Fits(t, at, n, completion)'
    PROVE  /\ Connected' /\ Hand' /\ Called' /\ WaitedFor'
           /\ calls' \in [Threads -> CallRecords]
           /\ ~finished' /\ phase' # "connect"
<1> DEFINE c == [at |-> at, op |-> n, completion |-> completion]
<1>1. /\ phase # "connect" /\ ~finished
      /\ \A u \in Threads \ {t} : calls[u] = Idle
      /\ \A m \in Operations : waits[m] = "nowhere"
      /\ queue = <<>>
  BY Holds
<1>2. c \in CallRecords
  BY DEF CallPoints
<1>3. /\ c.at = at /\ c.op = n /\ c.completion = completion
      /\ c # Idle /\ at # "idle"
  BY IdleFits DEF CallPoints
<1>4. calls \in [Threads -> CallRecords]
  BY DEF Inv, TypeOK
<1>5. calls' = [calls EXCEPT ![t] = c]
  BY DEF Call
<1> HIDE DEF c
<1>6. calls'[t] = c /\ \A u \in Threads \ {t} : calls'[u] = Idle
  BY <1>1, <1>4, <1>5
<1>7. calls' \in [Threads -> CallRecords]
  BY <1>2, <1>4, <1>5
<1>8. UNCHANGED <<program, phase, waits, queue, finished>>
  BY DEF loopVars
<1>9. Connected'
  BY <1>8 DEF Inv, Connected, kind
<1>10. Hand'
  BY <1>1, <1>3, <1>6, <1>8 DEF Hand
<1>11. Called'
  <2>1. /\ calls'[t].at = at /\ calls'[t].op = n
        /\ calls'[t].completion = completion
    BY <1>3, <1>6
  <2>2. (Fits(t, calls[t].at, calls[t].op, calls[t].completion))'
    BY <1>8, <2>1, SameProgram DEF Fits, Suspended, Reached, Fresh, Stored
  <2>. QED
    BY <1>3, <1>6, <2>1, <2>2, IdleFits DEF Called
<1>12. WaitedFor'
  <2>1. \A m : queue' # <<m>>
    BY <1>1, <1>8
  <2>. QED
    BY <1>1, <1>8, <2>1 DEF WaitedFor
<1>. QED
  BY <1>1, <1>7, <1>8, <1>9, <1>10, <1>11, <1>12

(* What an operation may send: the part of Faithful about it. *)
Justified(t, n, completion) ==
    n \in Adaptors =>
        /\ Follows(t, n, sent[n + 1], completion)
        /\ kind[n] # "on" /\ sent[n + 1] # None => t = carrier[n + 1]

(* A completion is sent. *)
LEMMA SendMove ==
    ASSUME Inv, NEW t \in Threads, calls[t] # Idle,
           NEW n \in Operations, NEW completion \in Completions,
           Reached(n), Justified(t, n, completion),
           Send(t, n, completion),
           UNCHANGED <<program, phase, result, waits, opVars, loopVars>>
    PROVE  Inv'
<1>1. /\ n \in Nat /\ n # 0 /\ n - 1 \in 0 .. Depth /\ n - 1 \in 0 .. Innermost
      /\ completion \in Completions \union {None} /\ completion # None
      /\ (n - 1) + 1 = n
  BY Nesting, DistinctAssumption
<1>2. /\ sent \in [Operations -> Completions \union {None}]
      /\ carrier \in [Operations -> Threads \union {None}]
  BY DEF Inv, TypeOK
<1>3. /\ sent' = [sent EXCEPT ![n] = completion]
      /\ carrier' = [carrier EXCEPT ![n] = t]
      /\ Call(t, "receive", n - 1, completion)
  BY DEF Send
<1>4. /\ sent' \in [Operations -> Completions \union {None}]
      /\ carrier' \in [Operations -> Threads \union {None}]
      /\ sent'[n] = completion /\ carrier'[n] = t
      /\ \A m \in Operations \ {n} :
           sent'[m] = sent[m] /\ carrier'[m] = carrier[m]
  BY <1>1, <1>2, <1>3
<1>5. UNCHANGED <<program, phase, result, waits, alive, stored, left,
                  queue, finished, returned>>
  BY DEF opVars, loopVars
<1>6. \A m \in 1 .. n - 1 : m \in 1 .. n /\ m \in Operations \ {n}
  BY Nesting DEF Operations
<1>7. Fits(t, "receive", n - 1, completion)'
  <2>1. \A m \in 1 .. n - 1 : alive'[m] /\ sent'[m] = None
    BY <1>4, <1>5, <1>6 DEF Reached
  <2>2. sent'[(n - 1) + 1] = completion /\ carrier'[(n - 1) + 1] = t
    BY <1>1, <1>4
  <2>. QED
    BY <1>1, <2>1, <2>2 DEF Fits, Reached
<1>8. /\ Connected' /\ Hand' /\ Called' /\ WaitedFor'
      /\ calls' \in [Threads -> CallRecords]
      /\ ~finished'
  BY <1>1, <1>3, <1>7, Moves DEF CallPoints
<1>9. TypeOK'
  BY <1>4, <1>5, <1>8 DEF Inv, TypeOK
<1>10. Whole'
  BY <1>5 DEF Inv, Whole, Transforms, kind
<1>11. Faithful'
  <2> SUFFICES ASSUME NEW m \in Adaptors, alive'[m], sent'[m] # None
               PROVE  (/\ Follows(carrier[m], m, sent[m + 1], sent[m])
                       /\ kind[m] # "on" /\ sent[m + 1] # None =>
                            carrier[m] = carrier[m + 1])'
    BY <1>8 DEF Faithful
  <2>1. /\ m \in Operations /\ m + 1 \in Operations /\ m + 1 # m
        /\ program' = program /\ kind' = kind /\ alive[m]
        /\ \A u, inner, c :
             Follows(u, m, inner, c)' = Follows(u, m, inner, c)
    BY <1>5, Nesting, SameProgram
  <2>2. CASE m = n
    <3>1. sent'[m + 1] = sent[m + 1] /\ carrier'[m + 1] = carrier[m + 1]
      BY <1>4, <2>1, <2>2
    <3>. QED
      BY <1>4, <2>1, <2>2, <3>1 DEF Justified
  <2>3. CASE m + 1 = n
    <3>1. m \in 1 .. n /\ m # n
      BY <2>1, <2>3, <1>1, Nesting
    <3>. QED
      BY <1>4, <2>1, <3>1 DEF Reached
  <2>4. CASE m # n /\ m + 1 # n
    <3>1. /\ sent'[m] = sent[m] /\ sent'[m + 1] = sent[m + 1]
          /\ carrier'[m] = carrier[m] /\ carrier'[m + 1] = carrier[m + 1]
      BY <1>4, <2>1, <2>4
    <3>. QED
      BY <2>1, <3>1 DEF Inv, Faithful
  <2>. QED
    BY <2>2, <2>3, <2>4
<1>. QED
  BY <1>8, <1>9, <1>10, <1>11 DEF Inv

(* An operation that is there, with everything around it, is called, while *)
(* no operation has completed: it is started, or the body of a task goes   *)
(* on, or what came before the operation inside it completes at once.      *)
LEMMA DownMove ==
    ASSUME Inv, NEW t \in Threads, calls[t] # Idle,
           NEW n \in Operations, NEW at \in {"start", "body", "first"},
           NEW completion \in Completions \union {None},
           at = "body" => n \in Adaptors /\ kind[n] = "task",
           at = "first" =>
               completion # None /\ ~IsOn(n) /\ completion \in Awaited(n),
           Call(t, at, n, completion),
           UNCHANGED <<program, phase, result, waits, carrier, stored,
                       loopVars>>,
           sent' \in [Operations -> Completions \union {None}],
           alive' \in [Operations -> BOOLEAN],
           left' \in [Operations -> 0 .. Awaits],
           \A m \in Operations : sent'[m] = None,
           \A m \in 1 .. n : alive'[m],
           Whole'
    PROVE  Inv'
<1>1. UNCHANGED <<program, phase, result, waits, carrier, stored,
                  queue, finished, returned>>
  BY DEF loopVars
<1>2. Fits(t, at, n, completion)'
  <2>1. /\ \A m \in 1 .. n : m \in Operations
        /\ \A m \in n + 1 .. Innermost : m \in Operations
        /\ at \notin {"receive", "finish"}
    BY Nesting DEF Operations
  <2>. QED
    BY <1>1, <2>1, SameProgram DEF Fits, Suspended, Reached, Fresh
<1>3. /\ Connected' /\ Hand' /\ Called' /\ WaitedFor'
      /\ calls' \in [Threads -> CallRecords]
      /\ ~finished'
  BY <1>2, Nesting, Moves DEF CallPoints
<1>4. TypeOK'
  BY <1>1, <1>3 DEF Inv, TypeOK
<1>5. Faithful'
  <2>1. \A m \in Adaptors : sent'[m] = None
    BY Nesting
  <2>. QED
    BY <1>3, <2>1 DEF Faithful
<1>. QED
  BY <1>3, <1>4, <1>5 DEF Inv

(* A thread leaves an operation waiting, or in the queue of the loop. *)
LEMMA ParkMove ==
    ASSUME Inv, NEW t \in Threads, calls[t] # Idle,
           NEW n \in Operations, NEW where \in {"loop", "pool", "anywhere"},
           Reached(n),
           IF IsOn(n)
           THEN /\ where = Scheduler(kind, n)
                /\ stored'[n] = sent[n + 1] /\ stored'[n] # None
           ELSE Fresh(n),
           where = "loop" => "value" \in Awaited(n),
           Schedule(t, n, where),
           UNCHANGED <<program, phase, result, sentVars, alive, left>>,
           stored' \in [Operations -> Completions \union {None}]
    PROVE  Inv'
<1>1. /\ phase # "connect" /\ ~finished
      /\ \A u \in Threads \ {t} : calls[u] = Idle
      /\ \A m \in Operations : waits[m] = "nowhere"
      /\ queue = <<>>
  BY Holds
<1>2. UNCHANGED <<program, phase, result, sent, carrier, alive, left>>
  BY DEF sentVars
<1>3. /\ calls' \in [Threads -> CallRecords]
      /\ \A u \in Threads : calls'[u] = Idle
  <2>1. Idle \in CallRecords
    BY Nesting DEF Idle
  <2>2. calls' = [calls EXCEPT ![t] = Idle]
    BY DEF Schedule, Return
  <2>. QED
    BY <1>1, <2>1, <2>2 DEF Inv, TypeOK
<1>4. \/ /\ where = "loop" /\ queue' = <<n>> /\ waits' = waits
         /\ UNCHANGED <<finished, returned>>
      \/ /\ where # "loop" /\ waits' = [waits EXCEPT ![n] = where]
         /\ UNCHANGED <<queue, finished, returned>>
  BY <1>1 DEF Schedule, Loop!Enqueue, loopVars
<1>5. /\ waits' \in [Operations -> {"nowhere", "pool", "anywhere"}]
      /\ \A m \in Operations \ {n} : waits'[m] = "nowhere"
      /\ where = "loop" => waits'[n] = "nowhere"
      /\ where # "loop" => waits'[n] = where
  BY <1>1, <1>4 DEF Inv, TypeOK
<1>6. /\ queue' \in Seq(Operations)
      /\ where = "loop" => queue' = <<n>>
      /\ where # "loop" => queue' = <<>>
  <2>1. <<n>> \in Seq(Operations) /\ <<>> \in Seq(Operations)
    OBVIOUS
  <2>2. queue' = IF where = "loop" THEN <<n>> ELSE <<>>
    BY <1>1, <1>4
  <2>. QED
    BY <2>1, <2>2
<1>7. TypeOK'
  BY <1>2, <1>3, <1>4, <1>5, <1>6 DEF Inv, TypeOK
<1>8. Connected' /\ Whole'
  BY <1>2 DEF Inv, Connected, Whole, Transforms, kind
<1>9. Hand'
  BY <1>1, <1>2, <1>3, <1>4, <1>5, <1>6 DEF Hand
<1>10. Called'
  BY <1>3, IdleFits DEF Called
<1>11. WaitedFor'
  <2>1. Suspended(n)'
    BY <1>2 DEF Suspended, Reached, Fresh, IsOn, kind
  <2>2. \A m \in Operations : queue' = <<m>> => m = n /\ where = "loop"
    BY <1>6
  <2>3. \A m \in Operations : waits'[m] # "nowhere" => m = n /\ where # "loop"
    BY <1>5
  <2>4. IsOn(n)' => /\ where = "loop" => Deliverer(n)' = Main
                    /\ where # "loop" => where = "pool" /\ Deliverer(n)' = Pool
    BY <1>2, <1>8 DEF IsOn, Deliverer, kind, Connected
  <2>5. Awaited(n)' = Awaited(n)
    BY <1>2, SameProgram
  <2>. QED
    BY <1>5, <2>1, <2>2, <2>3, <2>4, <2>5 DEF WaitedFor
<1>12. Faithful'
  BY <1>1, <1>2, <1>4, SameProgram DEF Inv, Faithful
<1>. QED
  BY <1>7, <1>8, <1>9, <1>10, <1>11, <1>12 DEF Inv

(* A thread takes up what waits, or what is in the queue. *)
LEMMA TakeMove ==
    ASSUME Inv, NEW t \in Threads, NEW n \in Operations,
           NEW completion \in Completions,
           Call(t, "first", n, completion),
           \/ /\ waits[n] # "nowhere"
              /\ waits' = [waits EXCEPT ![n] = "nowhere"]
              /\ UNCHANGED queue
           \/ /\ queue = <<n>> /\ queue' = <<>>
              /\ UNCHANGED waits,
           completion \in Awaited(n),
           IsOn(n) => t = Deliverer(n) /\ (completion # "value" => t = Pool),
           UNCHANGED <<program, phase, result, sentVars, opVars,
                       finished, returned>>
    PROVE  Inv'
<1>1. /\ phase # "connect" /\ ~finished
      /\ \A u \in Threads : calls[u] = Idle
      /\ \A m \in Operations \ {n} : waits[m] = "nowhere"
      /\ waits[n] # "nowhere" => queue = <<>>
      /\ queue = <<n>> => waits[n] = "nowhere"
  BY Waits
<1>2. UNCHANGED <<program, phase, result, sent, carrier, alive, left, stored,
                  finished, returned>>
  BY DEF sentVars, opVars
<1> DEFINE c == [at |-> "first", op |-> n, completion |-> completion]
<1>3. c \in CallRecords
  BY Nesting
<1>4. /\ c.at = "first" /\ c.op = n /\ c.completion = completion
      /\ c # Idle
  BY IdleFits
<1>5. calls' = [calls EXCEPT ![t] = c]
  BY DEF Call
<1> HIDE DEF c
<1>6. /\ calls' \in [Threads -> CallRecords]
      /\ calls'[t] = c /\ \A u \in Threads \ {t} : calls'[u] = Idle
  BY <1>1, <1>3, <1>5 DEF Inv, TypeOK
<1>7. /\ waits' \in [Operations -> {"nowhere", "pool", "anywhere"}]
      /\ \A m \in Operations : waits'[m] = "nowhere"
      /\ queue' = <<>> /\ queue' \in Seq(Operations)
  <2>1. waits \in [Operations -> {"nowhere", "pool", "anywhere"}]
    BY DEF Inv, TypeOK
  <2>2. waits' \in [Operations -> {"nowhere", "pool", "anywhere"}]
    BY <2>1
  <2>3. \A m \in Operations : waits'[m] = "nowhere"
    BY <1>1, <2>1
  <2>4. queue' = <<>>
    BY <1>1
  <2>5. <<>> \in Seq(Operations)
    OBVIOUS
  <2>. QED
    BY <2>2, <2>3, <2>4, <2>5
<1>8. TypeOK'
  BY <1>2, <1>6, <1>7 DEF Inv, TypeOK
<1>9. Connected' /\ Whole'
  BY <1>2 DEF Inv, Connected, Whole, Transforms, kind
<1>10. Hand'
  BY <1>1, <1>2, <1>4, <1>6, <1>7 DEF Hand
<1>11. Called'
  <2>1. Suspended(n) /\ completion # None
    BY DistinctAssumption DEF Inv, WaitedFor
  <2>2. (Fits(t, calls[t].at, calls[t].op, calls[t].completion))'
    BY <1>2, <1>4, <1>6, <2>1, SameProgram
    DEF Fits, Suspended, Reached, Fresh
  <2>. QED
    BY <1>4, <1>6, <2>2, IdleFits DEF Called
<1>12. WaitedFor'
  <2>1. \A m : queue' # <<m>>
    BY <1>7
  <2>. QED
    BY <1>7, <2>1 DEF WaitedFor
<1>13. Faithful'
  BY <1>1, <1>2, SameProgram DEF Inv, Faithful
<1>. QED
  BY <1>8, <1>9, <1>10, <1>11, <1>12, <1>13 DEF Inv

(* The operation inside is constructed, and started. *)
LEMMA NextMove ==
    ASSUME Inv, NEW t \in Threads, calls[t] # Idle,
           NEW n \in Adaptors, Reached(n), Fresh(n),
           alive' = [m \in Operations |-> alive[m] \/ m \in Together(n + 1)],
           left' \in [Operations -> 0 .. Awaits],
           Call(t, "start", n + 1, None),
           UNCHANGED <<program, phase, result, waits, sentVars, stored,
                       loopVars>>
    PROVE  Inv'
<1>1. /\ n + 1 \in Operations /\ UNCHANGED <<program, sent, carrier>>
      /\ program \in Programs /\ alive \in [Operations -> BOOLEAN]
  BY Nesting DEF sentVars, Inv, TypeOK
<1>2. /\ n + 1 \in Together(n + 1)
      /\ \A m \in Adaptors :
           m \in Together(n + 1) /\ Transforms(m) => m + 1 \in Together(n + 1)
  BY <1>1, TogetherFacts
<1>3. \A m \in Operations : sent'[m] = None
  BY <1>1, Nesting DEF Reached, Fresh, Operations
<1>4. \A m \in 1 .. n + 1 : alive'[m]
  <2>1. \A m \in 1 .. n : alive[m]
    BY DEF Reached
  <2>2. \A m \in 1 .. n + 1 : m \in Operations /\ (m \in 1 .. n \/ m = n + 1)
    BY ONLY Nesting, <1>1, n \in Adaptors DEF Operations
  <2>. QED
    BY ONLY <1>1, <1>2, <2>1, <2>2,
            alive' = [m \in Operations |-> alive[m] \/ m \in Together(n + 1)]
<1>5. Whole'
  <2> SUFFICES ASSUME NEW m \in Adaptors, alive'[m], Transforms(m)
               PROVE  alive'[m + 1]
    BY <1>1 DEF Whole, Transforms, kind
  <2>. QED
    BY <1>1, <1>2, Nesting DEF Inv, Whole
<1>6. alive' \in [Operations -> BOOLEAN]
  BY <1>1
<1>7. sent' \in [Operations -> Completions \union {None}]
  BY <1>1 DEF Inv, TypeOK
<1>. QED
  BY <1>1, <1>3, <1>4, <1>5, <1>6, <1>7, DownMove DEF sentVars

-----------------------------------------------------------------------------
(* The invariant is inductive. *)

(* The invariant holds in the beginning. *)
LEMMA InvInit == Init => Inv
<1> SUFFICES ASSUME Init PROVE Inv
  OBVIOUS
<1> USE DepthAssumption DEF Init, Loop!Init
<1>1. TypeOK
  <2>1. <<>> \in Seq(Operations)
    OBVIOUS
  <2>2. left \in [Operations -> 0 .. Awaits]
    OBVIOUS
  <2>. QED
    BY <2>1, <2>2, Nesting DEF TypeOK, Idle
<1>2. Connected
  BY DEF Connected, WellFormed, OnIsConnected, Scheduler, kind
<1>3. Hand
  BY DEF Hand
<1>4. Called
  BY DEF Called, Idle, Fits
<1>5. WaitedFor
  <2>1. \A m : queue # <<m>>
    OBVIOUS
  <2>. QED
    BY <2>1 DEF WaitedFor
<1>6. Faithful /\ Whole
  BY Nesting DEF Faithful, Whole
<1>. QED
  BY <1>1, <1>2, <1>3, <1>4, <1>5, <1>6 DEF Inv

(* An operation that is started: none has completed. *)
LEMMA AtStart ==
    ASSUME Inv, NEW t \in Threads, NEW n, At(t, "start", n)
    PROVE  /\ calls[t] # Idle /\ n \in Operations
           /\ Reached(n) /\ Fresh(n)
           /\ \A m \in Operations : sent[m] = None
<1>1. calls[t] # Idle /\ n \in Operations /\ Reached(n) /\ Fresh(n)
  BY Inside DEF Fits
<1>. QED
  BY <1>1, Nesting DEF Reached, Fresh, Operations

(* A task whose body runs: no operation has completed. *)
LEMMA AtBody ==
    ASSUME Inv, NEW t \in Threads, NEW n, At(t, "body", n)
    PROVE  /\ calls[t] # Idle /\ n \in Adaptors /\ n \in Operations
           /\ kind[n] = "task"
           /\ Reached(n) /\ Fresh(n)
  BY Inside, Nesting DEF Fits

(* An operation that is called by what came before the one inside it. *)
LEMMA AtFirst ==
    ASSUME Inv, NEW t \in Threads, NEW n, At(t, "first", n)
    PROVE  /\ calls[t] # Idle /\ n \in Operations
           /\ calls[t].completion \in Completions
           /\ calls[t].completion \in Awaited(n)
           /\ Suspended(n) /\ Reached(n)
           /\ IsOn(n) => /\ t = Deliverer(n)
                         /\ calls[t].completion # "value" => t = Pool
  BY Inside DEF Fits, Suspended

(* An operation that is sent the completion of the one inside it. *)
LEMMA AtReceive ==
    ASSUME Inv, NEW t \in Threads, NEW n \in Adaptors, At(t, "receive", n)
    PROVE  /\ calls[t] # Idle /\ n \in Operations
           /\ calls[t].completion \in Completions
           /\ Reached(n) /\ sent[n + 1] = calls[t].completion
           /\ sent[n + 1] # None /\ carrier[n + 1] = t
  BY Inside, Nesting DEF Fits

(* What the kind of an adaptor says of what it sends. *)
LEMMA FollowsByKind ==
    ASSUME NEW t, NEW n, NEW inner, NEW c
    PROVE  /\ kind[n] = "task" =>
                (Follows(t, n, inner, c) <=> TaskFollows(inner, c))
           /\ kind[n] = "starts_on" =>
                (Follows(t, n, inner, c) <=> StartsOnFollows(inner, c))
           /\ kind[n] = "on" =>
                (Follows(t, n, inner, c) <=> OnFollows(t, n, inner, c))
           /\ IsLet(n) =>
                (Follows(t, n, inner, c) <=> LetFollows(n, inner, c))
           /\ Transforms(n) =>
                (Follows(t, n, inner, c) <=> TransformFollows(n, inner, c))
  BY DEF Follows, IsLet, LetKinds, Transforms, TransformKinds

(* An operation that is about to start the one inside it has been sent     *)
(* nothing yet.                                                            *)
LEMMA NothingSent ==
    ASSUME NEW n \in Adaptors, Fresh(n)
    PROVE  sent[n + 1] = None
<1>1. n + 1 \in n + 1 .. Innermost
  BY Nesting DEF Adaptors, Innermost, Operations
<1>. QED
  BY <1>1 DEF Fresh

(* starts_on(), let_value() and its sisters, and on() may send the         *)
(* exception that starting the operation inside throws.                    *)
LEMMA Exception ==
    ASSUME NEW t \in Threads, NEW n \in Adaptors, Fresh(n),
           \/ kind[n] \in {"starts_on", "on"}
           \/ IsLet(n) /\ StartThrows(n)
    PROVE  Justified(t, n, "exception") /\ "exception" \in Completions
  BY NothingSent, FollowsByKind
  DEF Justified, Completions, StartsOnFollows, OnFollows, LetFollows

(* What changes nothing but the calls keeps what DownMove asks for. *)
LEMMA Unchanged ==
    ASSUME Inv, UNCHANGED <<program, sentVars, opVars>>
    PROVE  /\ sent' \in [Operations -> Completions \union {None}]
           /\ alive' \in [Operations -> BOOLEAN]
           /\ left' \in [Operations -> 0 .. Awaits]
           /\ Whole'
  BY DEF Inv, TypeOK, Whole, Transforms, kind, sentVars, opVars

(* Starting the operation inside, which may throw. *)
LEMMA NextStarts ==
    ASSUME Inv, NEW t \in Threads, calls[t] # Idle,
           NEW n \in Adaptors, Reached(n), Fresh(n), StartNext(t, n),
           kind[n] \in {"starts_on", "on"} \/ IsLet(n),
           UNCHANGED <<program, phase, result, waits, loopVars>>
    PROVE  Inv'
<1>1. CASE Construct(t, n + 1) /\ UNCHANGED sentVars
  <2>1. /\ alive' = [m \in Operations |-> alive[m] \/ m \in Together(n + 1)]
        /\ left' = [m \in Operations |->
                       IF m \in Together(n + 1) THEN Awaits ELSE left[m]]
        /\ Call(t, "start", n + 1, None)
        /\ UNCHANGED stored
    BY <1>1 DEF Construct
  <2>2. left' \in [Operations -> 0 .. Awaits]
    BY <2>1, DepthAssumption DEF Inv, TypeOK
  <2>. QED
    BY <1>1, <2>1, <2>2, NextMove
<1>2. CASE StartThrows(n) /\ Send(t, n, "exception") /\ UNCHANGED opVars
  BY <1>2, Nesting, Exception, SendMove
<1>. QED
  BY <1>1, <1>2 DEF StartNext

(* Every step of a handler keeps the invariant. *)
LEMMA HandleStep ==
    ASSUME Inv, NEW t \in Threads, NEW n \in Adaptors, Handle(t, n)
    PROVE  Inv'
<1>0. /\ n \in Operations /\ n + 1 \in Operations
      /\ kind[n] # "on" => ~IsOn(n)
      /\ \A c \in Completions : c \in Completions \union {None} /\ c # None
      /\ {"value", "error", "exception", "stopped"} \subseteq Completions
      /\ program.upstream \subseteq Completions /\ "value" \in program.pool
  BY Nesting, ProgramsAssumption, DistinctAssumption
  DEF IsOn, Completions, Inv, TypeOK
<1>1. CASE TaskStart(t, n)
  <2>1. At(t, "start", n) /\ kind[n] = "task"
    BY <1>1 DEF TaskStart
  <2>2. /\ Call(t, "body", n, None)
        /\ UNCHANGED <<program, phase, result, waits, sentVars, opVars,
                       loopVars>>
    BY <1>1 DEF TaskStart
  <2>3. UNCHANGED <<sent, carrier, alive, stored>>
    BY <2>2 DEF sentVars, opVars
  <2>4. \A m \in 1 .. n : alive'[m]
    BY <2>1, <2>3, AtStart DEF Reached
  <2>. QED
    BY <1>0, <2>1, <2>2, <2>3, <2>4, AtStart, Unchanged, DownMove
<1>2. CASE TaskAwaits(t, n)
  <2>1. /\ At(t, "body", n) /\ left[n] > 0
        /\ alive' = [m \in Operations |-> alive[m] \/ m \in Together(n + 1)]
        /\ left' = [m \in Operations |->
                       IF m \in Together(n + 1) THEN Awaits
                       ELSE IF m = n THEN left[m] - 1 ELSE left[m]]
        /\ Call(t, "start", n + 1, None)
        /\ UNCHANGED <<program, phase, result, waits, sentVars, stored,
                       loopVars>>
    BY <1>2 DEF TaskAwaits
  <2>2. left' \in [Operations -> 0 .. Awaits]
    BY <2>1, DepthAssumption DEF Inv, TypeOK
  <2>. QED
    BY <2>1, <2>2, AtBody, NextMove
<1>3. CASE TaskEnds(t, n)
  <2>1. At(t, "body", n)
    BY <1>3 DEF TaskEnds
  <2>2. PICK completion \in {"value", "exception"} : Send(t, n, completion)
    BY <1>3 DEF TaskEnds
  <2>3. UNCHANGED <<program, phase, result, waits, opVars, loopVars>>
    BY <1>3 DEF TaskEnds
  <2>4. Justified(t, n, completion)
    BY <2>1, AtBody, NothingSent, FollowsByKind DEF Justified, TaskFollows
  <2>. QED
    BY <1>0, <2>1, <2>2, <2>3, <2>4, AtBody, SendMove
<1>4. CASE TaskReceives(t, n)
  <2>1. /\ At(t, "receive", n) /\ kind[n] = "task"
        /\ UNCHANGED <<program, phase, result, waits, stored, left, loopVars>>
    BY <1>4 DEF TaskReceives
  <2>2. CASE calls[t].completion = "stopped"
    <3>1. Send(t, n, "stopped") /\ UNCHANGED alive
      BY <1>4, <2>2 DEF TaskReceives
    <3>2. UNCHANGED opVars
      BY <2>1, <3>1 DEF opVars
    <3>3. Justified(t, n, "stopped")
      BY <2>1, <2>2, AtReceive, FollowsByKind DEF Justified, TaskFollows
    <3>. QED
      BY <1>0, <2>1, <3>1, <3>2, <3>3, AtReceive, SendMove
  <2>3. CASE calls[t].completion # "stopped"
    <3>1. /\ Call(t, "body", n, None)
          /\ alive' = [m \in Operations |-> alive[m] /\ m <= n]
          /\ sent' = [m \in Operations |-> IF m <= n THEN sent[m] ELSE None]
          /\ UNCHANGED carrier
      BY <1>4, <2>3 DEF TaskReceives
    <3>2. /\ sent \in [Operations -> Completions \union {None}]
          /\ alive \in [Operations -> BOOLEAN]
          /\ left \in [Operations -> 0 .. Awaits]
      BY DEF Inv, TypeOK
    <3>3. /\ sent' \in [Operations -> Completions \union {None}]
          /\ alive' \in [Operations -> BOOLEAN]
          /\ left' \in [Operations -> 0 .. Awaits]
      BY <2>1, <3>1, <3>2
    <3>4. \A m \in Operations : sent'[m] = None
      BY <2>1, <3>1, AtReceive, Nesting DEF Reached
    <3>5. \A m \in 1 .. n : alive'[m]
      <4>1. \A m \in 1 .. n : m \in Operations /\ m <= n /\ alive[m]
        BY <2>1, AtReceive, Nesting DEF Reached, Operations
      <4>. QED
        BY <3>1, <4>1
    <3>6. Whole'
      <4> SUFFICES ASSUME NEW m \in Adaptors, alive'[m], Transforms(m)
                   PROVE  alive'[m + 1]
        BY <2>1 DEF Whole, Transforms, kind
      <4>1. m # n /\ m \in Operations /\ m + 1 \in Operations
            /\ m \in Nat /\ n \in Nat
        BY <2>1, Nesting DEF Transforms, TransformKinds
      <4>2. alive[m] /\ m <= n
        BY <3>1, <4>1
      <4>3. alive[m + 1] /\ m + 1 <= n
        BY <4>1, <4>2 DEF Inv, Whole
      <4>. QED
        BY <3>1, <4>1, <4>3
    <3>. QED
      BY <1>0, <2>1, <3>1, <3>3, <3>4, <3>5, <3>6, AtReceive, DownMove
  <2>. QED
    BY <2>2, <2>3
<1>5. CASE StartsOnStart(t, n)
  <2>1. /\ At(t, "start", n) /\ kind[n] = "starts_on"
        /\ UNCHANGED <<program, phase, result, opVars>>
    BY <1>5 DEF StartsOnStart
  <2>2. CASE Schedule(t, n, "pool") /\ UNCHANGED sentVars
    BY <1>0, <2>1, <2>2, AtStart, Unchanged, ParkMove DEF opVars, Inv, TypeOK
  <2>3. CASE Send(t, n, "exception") /\ UNCHANGED <<waits, loopVars>>
    BY <1>0, <2>1, <2>3, AtStart, Exception, SendMove
  <2>. QED
    BY <1>5, <2>2, <2>3 DEF StartsOnStart
<1>6. CASE LetStart(t, n)
  <2>1. /\ At(t, "start", n) /\ kind[n] # "on"
        /\ UNCHANGED <<program, phase, result, sentVars, opVars>>
    BY <1>6 DEF LetStart, IsLet, LetKinds
  <2>2. ASSUME NEW completion \in program.upstream,
               Call(t, "first", n, completion), UNCHANGED <<waits, loopVars>>
        PROVE  Inv'
    <3>1. UNCHANGED <<sent, carrier, alive, stored>>
      BY <2>1 DEF sentVars, opVars
    <3>2. \A m \in 1 .. n : alive'[m]
      BY <2>1, <3>1, AtStart DEF Reached
    <3>3. Awaited(n) = program.upstream
      BY <1>0, <1>6, Nesting DEF Awaited, LetStart
    <3>. QED
      BY <1>0, <2>1, <2>2, <3>1, <3>2, <3>3, AtStart, Unchanged, DownMove
  <2>3. CASE Schedule(t, n, "anywhere")
    BY <1>0, <2>1, <2>3, AtStart, Unchanged, ParkMove DEF opVars, Inv, TypeOK
  <2>. QED
    BY <1>6, <2>2, <2>3 DEF LetStart
<1>7. CASE FirstCompletes(t, n)
  <2>1. /\ At(t, "first", n) /\ (kind[n] = "starts_on" \/ IsLet(n))
        /\ UNCHANGED <<program, phase, result, waits, loopVars>>
    BY <1>7 DEF FirstCompletes
  <2>2. ~IsOn(n) /\ Fresh(n)
    BY <2>1, AtFirst DEF Suspended, IsOn, IsLet, LetKinds
  <2>3. ASSUME StartNext(t, n) PROVE Inv'
    BY <1>0, <2>1, <2>2, <2>3, AtFirst, NextStarts
  <2>4. CASE ~Continues(n, calls[t].completion)
    <3>1. Send(t, n, calls[t].completion) /\ UNCHANGED opVars
      BY <1>7, <2>4 DEF FirstCompletes
    <3>2. Justified(t, n, calls[t].completion)
      <4>1. /\ calls[t].completion \in Awaited(n) /\ sent[n + 1] = None
            /\ Awaited(n) = IF IsLet(n) THEN program.upstream ELSE program.pool
        BY <2>1, <2>2, AtFirst, NothingSent, Nesting DEF Awaited
      <4>2. CASE kind[n] = "starts_on"
        <5>1. ~IsLet(n) /\ calls[t].completion # "value"
          BY <2>4, <4>2 DEF Continues, IsLet, LetKinds
        <5>. QED
          BY <4>1, <4>2, <5>1, FollowsByKind DEF Justified, StartsOnFollows
      <4>3. CASE IsLet(n)
        <5>1. ~Selects(n, calls[t].completion)
          BY <2>4, <4>3 DEF Continues, IsLet, LetKinds
        <5>. QED
          BY <4>1, <4>3, <5>1, FollowsByKind DEF Justified, LetFollows
      <4>. QED
        BY <2>1, <4>2, <4>3
    <3>. QED
      BY <1>0, <2>1, <3>1, <3>2, AtFirst, SendMove
  <2>. QED
    BY <1>7, <2>3, <2>4 DEF FirstCompletes
<1>8. CASE SecondCompletes(t, n)
  <2>1. /\ At(t, "receive", n) /\ (kind[n] = "starts_on" \/ IsLet(n))
        /\ Send(t, n, calls[t].completion)
        /\ UNCHANGED <<program, phase, result, waits, opVars, loopVars>>
    BY <1>8 DEF SecondCompletes
  <2>2. Justified(t, n, calls[t].completion)
    BY <2>1, AtReceive, FollowsByKind
    DEF Justified, StartsOnFollows, LetFollows
  <2>. QED
    BY <1>0, <2>1, <2>2, AtReceive, SendMove
<1>9. CASE OnStart(t, n)
  <2>1. /\ At(t, "start", n) /\ StartNext(t, n) /\ kind[n] = "on"
        /\ UNCHANGED <<program, phase, result, waits, loopVars>>
    BY <1>9 DEF OnStart
  <2>. QED
    BY <1>0, <2>1, AtStart, NextStarts
<1>10. CASE OnStores(t, n)
  <2>1. /\ At(t, "receive", n) /\ kind[n] = "on"
        /\ UNCHANGED <<program, phase, result, alive, left>>
    BY <1>10 DEF OnStores
  <2>2. CASE /\ stored' = [stored EXCEPT ![n] = calls[t].completion]
             /\ Schedule(t, n, Scheduler(kind, n))
             /\ UNCHANGED sentVars
    <3>1. Scheduler(kind, n) \in {"loop", "pool", "anywhere"} /\ IsOn(n)
      BY <2>1 DEF Inv, Connected, IsOn
    <3>2. /\ stored' \in [Operations -> Completions \union {None}]
          /\ stored'[n] = calls[t].completion
      BY <1>0, <2>1, <2>2, AtReceive DEF Inv, TypeOK
    <3>3. "value" \in Awaited(n)
      BY <1>0, <2>1, Nesting DEF Awaited, IsLet, LetKinds
    <3>. QED
      BY <1>0, <2>1, <2>2, <3>1, <3>2, <3>3, AtReceive, ParkMove
  <2>3. CASE Send(t, n, "exception") /\ UNCHANGED <<stored, waits, loopVars>>
    <3>1. Justified(t, n, "exception")
      BY <2>1, FollowsByKind DEF Justified, OnFollows
    <3>. QED
      BY <1>0, <2>1, <2>3, <3>1, AtReceive, SendMove DEF opVars
  <2>. QED
    BY <1>10, <2>2, <2>3 DEF OnStores
<1>11. CASE OnDelivers(t, n)
  <2> DEFINE c == IF calls[t].completion = "value"
                  THEN stored[n] ELSE calls[t].completion
  <2>1. /\ At(t, "first", n) /\ kind[n] = "on"
        /\ Send(t, n, c)
        /\ UNCHANGED <<program, phase, result, waits, opVars, loopVars>>
    BY <1>11 DEF OnDelivers
  <2>2. /\ IsOn(n) /\ t = Deliverer(n)
        /\ stored[n] = sent[n + 1] /\ stored[n] # None
        /\ stored[n] \in Completions
    BY <1>0, <2>1, AtFirst DEF IsOn, Suspended, Inv, TypeOK
  <2>3. c \in Completions
    BY <2>1, <2>2, AtFirst
  <2>4. Justified(t, n, c)
    <3>1. calls[t].completion # "value" =>
            t = Pool /\ calls[t].completion \in program.pool \ {"value"}
      BY <1>0, <2>1, <2>2, AtFirst, Nesting DEF Awaited, IsLet, LetKinds
    <3>. QED
      BY <2>1, <2>2, <3>1, FollowsByKind DEF Justified, OnFollows
  <2> HIDE DEF c
  <2>. QED
    BY <1>0, <2>1, <2>3, <2>4, AtFirst, SendMove
<1>12. CASE TransformStart(t, n)
  <2>1. At(t, "start", n) /\ Transforms(n)
    BY <1>12 DEF TransformStart
  <2>2. /\ Call(t, "start", n + 1, None)
        /\ UNCHANGED <<program, phase, result, waits, sentVars, opVars,
                       loopVars>>
    BY <1>12 DEF TransformStart
  <2>3. UNCHANGED <<sent, carrier, alive, stored>>
    BY <2>2 DEF sentVars, opVars
  <2>4. alive[n + 1]
    BY <2>1, AtStart, Nesting DEF Reached, Inv, Whole
  <2>5. \A m \in 1 .. n + 1 : alive'[m]
    BY <2>1, <2>3, <2>4, AtStart, Nesting DEF Reached
  <2>. QED
    BY <1>0, <2>1, <2>2, <2>3, <2>5, AtStart, Unchanged, DownMove
<1>13. ASSUME ThenReceives(t, n) \/ IntoVariantReceives(t, n)
       PROVE  Inv'
  <2>1. /\ At(t, "receive", n)
        /\ kind[n] \in {"then", "upon_error", "upon_stopped", "into_variant"}
        /\ UNCHANGED <<program, phase, result, waits, opVars, loopVars>>
    BY <1>13 DEF ThenReceives, IntoVariantReceives
  <2>2. /\ Transforms(n)
        /\ sent[n + 1] = calls[t].completion /\ carrier[n + 1] = t
        /\ calls[t].completion \in Completions /\ sent[n + 1] # None
    BY <2>1, AtReceive DEF Transforms, TransformKinds
  <2>3. PICK c \in Completions :
          /\ Send(t, n, c)
          /\ TransformFollows(n, sent[n + 1], c)
    <3>1. CASE ThenReceives(t, n)
      BY <1>0, <2>2, <3>1 DEF ThenReceives, TransformFollows
    <3>2. CASE IntoVariantReceives(t, n)
      <4>1. kind[n] = "into_variant"
        BY <3>2 DEF IntoVariantReceives
      <4>2. Selects(n, sent[n + 1]) <=> sent[n + 1] = "value"
        BY <2>2, <4>1 DEF Selects, SelectedTag, Tag, Completions
      <4>. QED
        BY <1>0, <2>2, <3>2, <4>2 DEF IntoVariantReceives, TransformFollows
    <3>. QED
      BY <1>13, <3>1, <3>2
  <2>4. Justified(t, n, c)
    BY <2>2, <2>3, FollowsByKind DEF Justified
  <2>. QED
    BY <1>0, <2>1, <2>3, <2>4, AtReceive, SendMove
<1>. QED
  BY <1>1, <1>2, <1>3, <1>4, <1>5, <1>6, <1>7, <1>8, <1>9, <1>10, <1>11,
     <1>12, <1>13
  DEF Handle

(* What an operation that waits for a thread may be called with. *)
LEMMA AwaitedFacts ==
    ASSUME Inv, NEW n \in Operations
    PROVE  Awaited(n) \subseteq Completions
<1>1. program \in Programs /\ kind[Innermost] \in Leaves
  BY ProgramsAssumption DEF Inv, TypeOK, kind
<1>2. JustDeclares(kind[Innermost]) \subseteq Completions
  BY <1>1 DEF JustDeclares, Leaves, Completions
<1>. QED
  BY <1>1, <1>2, ProgramsAssumption DEF Awaited

(* So do the innermost operation and the threads that call operations. *)
LEMMA LeafStep ==
    ASSUME Inv, NEW t \in Threads,
           JustStart(t) \/ OtherStart(t) \/ OtherCompletes(t)
    PROVE  Inv'
<1>0. /\ Innermost \in Operations /\ ~IsOn(Innermost)
      /\ \A c : Justified(t, Innermost, c)
  BY Nesting DEF IsOn, Justified
<1>1. CASE JustStart(t)
  <2>1. kind[Innermost] \in Leaves
    BY ProgramsAssumption DEF Inv, TypeOK, kind
  <2>2. JustDeclares(kind[Innermost]) \subseteq Completions
    BY <2>1 DEF JustDeclares, Leaves, Completions
  <2>3. PICK c \in Completions : Send(t, Innermost, c)
    BY <1>1, <2>2 DEF JustStart
  <2>. QED
    BY <1>0, <1>1, <2>3, AtStart, SendMove DEF JustStart
<1>2. CASE OtherStart(t)
  <2>1. /\ At(t, "start", Innermost)
        /\ UNCHANGED <<program, phase, result, opVars>>
    BY <1>2 DEF OtherStart
  <2>2. ASSUME NEW c \in Completions, Send(t, Innermost, c),
               UNCHANGED <<waits, loopVars>>
        PROVE  Inv'
    BY <1>0, <2>1, <2>2, AtStart, SendMove
  <2>3. ASSUME NEW where \in {"loop", "anywhere"},
               Schedule(t, Innermost, where), UNCHANGED sentVars
        PROVE  Inv'
    <3>1. Awaited(Innermost) = Completions /\ "value" \in Completions
      BY <1>2, Nesting DEF OtherStart, Awaited, JustDeclares, Completions
    <3>. QED
      BY <1>0, <2>1, <2>3, <3>1, AtStart, ParkMove DEF opVars, Inv, TypeOK
  <2>. QED
    BY <1>2, <2>2, <2>3 DEF OtherStart
<1>3. CASE OtherCompletes(t)
  BY <1>0, <1>3, AtFirst, SendMove DEF OtherCompletes
<1>. QED
  BY <1>1, <1>2, <1>3

(* A thread that calls an operation takes up what waits. *)
LEMMA CompleteStep ==
    ASSUME Inv, NEW t \in Threads, NEW n \in Operations, Complete(t, n)
    PROVE  Inv'
<1>1. PICK c \in Awaited(n) : Call(t, "first", n, c)
  BY DEF Complete
<1>2. /\ waits[n] # "nowhere"
      /\ waits[n] = "pool" => t = Pool
      /\ waits' = [waits EXCEPT ![n] = "nowhere"]
      /\ UNCHANGED <<program, phase, result, sentVars, opVars, loopVars>>
  BY DEF Complete
<1>3. IsOn(n) => t = Deliverer(n) /\ t = Pool
  BY <1>2 DEF Inv, WaitedFor
<1>4. c \in Completions
  BY <1>1, AwaitedFacts
<1>. QED
  BY <1>1, <1>2, <1>3, <1>4, TakeMove DEF loopVars

(* The loop takes up what is queued, of which there is one. *)
LEMMA LoopExecutesStep ==
    ASSUME Inv, LoopExecutes
    PROVE  Inv'
<1>1. /\ queue # <<>> /\ queue' = Tail(queue)
      /\ Call(Main, "first", Head(queue), "value")
      /\ UNCHANGED <<program, phase, result, waits, sentVars, opVars,
                     finished, returned>>
  BY DEF LoopExecutes, Loop!Execute
<1>2. PICK n \in Operations : queue = <<n>>
  BY <1>1 DEF Inv, Hand
<1>3. Head(queue) = n /\ Tail(queue) = <<>>
  BY <1>2
<1>4. Main \in Threads /\ "value" \in Completions
  BY DEF Threads, Completions
<1>5. (IsOn(n) => Main = Deliverer(n)) /\ "value" \in Awaited(n)
  BY <1>2 DEF Inv, WaitedFor
<1>. QED
  BY <1>1, <1>2, <1>3, <1>4, <1>5, TakeMove

(* sync_wait() starts operation 1, ... *)
LEMMA ConnectStep ==
    ASSUME Inv, Connect
    PROVE  Inv'
<1>1. /\ phase = "connect" /\ phase' = "start"
      /\ alive' = [m \in Operations |-> alive[m] \/ m \in Together(1)]
      /\ left' = [m \in Operations |->
                     IF m \in Together(1) THEN Awaits ELSE left[m]]
      /\ Call(Main, "start", 1, None)
      /\ UNCHANGED <<program, result, waits, sent, carrier, stored,
                     queue, finished, returned>>
  BY DEF Connect, Construct, sentVars, loopVars
<1>2. /\ ~finished /\ \A n \in Operations : sent[n] = None
      /\ \A t \in Threads : calls[t] = Idle
      /\ \A n \in Operations : waits[n] = "nowhere"
      /\ queue = <<>>
  BY <1>1 DEF Inv, Hand
<1>3. /\ Main \in Threads /\ 1 \in Operations /\ program \in Programs
      /\ 1 \in 0 .. Innermost
      /\ alive \in [Operations -> BOOLEAN]
      /\ left \in [Operations -> 0 .. Awaits]
  BY Nesting DEF Threads, Inv, TypeOK
<1>4. /\ 1 \in Together(1)
      /\ \A m \in Adaptors :
           m \in Together(1) /\ Transforms(m) => m + 1 \in Together(1)
  BY <1>3, TogetherFacts
<1> DEFINE c == [at |-> "start", op |-> 1, completion |-> None]
<1>5. /\ c \in CallRecords
      /\ c.at = "start" /\ c.op = 1 /\ c.completion = None
      /\ c # Idle /\ c.at # "idle"
  BY <1>3, IdleFits
<1>6. calls' = [calls EXCEPT ![Main] = c]
  BY <1>1 DEF Call
<1> HIDE DEF c
<1>7. /\ calls' \in [Threads -> CallRecords]
      /\ calls'[Main] = c /\ \A u \in Threads \ {Main} : calls'[u] = Idle
  BY <1>2, <1>3, <1>5, <1>6 DEF Inv, TypeOK
<1>8. /\ alive' \in [Operations -> BOOLEAN] /\ alive'[1]
      /\ left' \in [Operations -> 0 .. Awaits]
  <2>1. alive' \in [Operations -> BOOLEAN]
    BY <1>1, <1>3
  <2>2. alive'[1] = (alive[1] \/ 1 \in Together(1))
    BY <1>1, <1>3
  <2>3. left' \in [Operations -> 0 .. Awaits]
    BY <1>1, <1>3, DepthAssumption
  <2>. QED
    BY <1>4, <2>1, <2>2, <2>3
<1>9. TypeOK'
  BY <1>1, <1>7, <1>8 DEF Inv, TypeOK
<1>10. Connected'
  BY <1>1 DEF Inv, Connected, kind
<1>11. Whole'
  <2> SUFFICES ASSUME NEW m \in Adaptors, alive'[m], Transforms(m)
               PROVE  alive'[m + 1]
    BY <1>1 DEF Whole, Transforms, kind
  <2>. QED
    BY <1>1, <1>3, <1>4, Nesting DEF Inv, Whole
<1>12. Hand'
  BY <1>1, <1>2, <1>3, <1>5, <1>7 DEF Hand
<1>13. Called'
  <2>1. /\ \A m \in 1 .. 1 : m = 1
        /\ \A m \in 1 + 1 .. Innermost : m \in Operations
    BY Nesting DEF Operations
  <2>2. (Fits(Main, calls[Main].at, calls[Main].op, calls[Main].completion))'
    BY <1>1, <1>2, <1>3, <1>5, <1>7, <1>8, <2>1 DEF Fits, Reached, Fresh
  <2>. QED
    BY <1>5, <1>7, <2>2, IdleFits DEF Called
<1>14. WaitedFor'
  <2>1. \A m : queue' # <<m>>
    BY <1>1, <1>2
  <2>. QED
    BY <1>1, <1>2, <2>1 DEF WaitedFor
<1>15. Faithful'
  <2>1. \A m \in Adaptors : sent'[m] = None
    BY <1>1, <1>2, Nesting
  <2>. QED
    BY <1>1, <1>2, <2>1 DEF Faithful
<1>. QED
  BY <1>9, <1>10, <1>11, <1>12, <1>13, <1>14, <1>15 DEF Inv

(* ... runs its loop, ... *)
LEMMA RunStep ==
    ASSUME Inv, Run
    PROVE  Inv'
<1>1. /\ phase = "start" /\ phase' = "run"
      /\ UNCHANGED <<program, result, calls, waits, sent, carrier, alive,
                     stored, left, queue, finished, returned>>
  BY DEF Run, sentVars, opVars, loopVars
<1>2. TypeOK' /\ Connected' /\ Whole' /\ Hand'
  BY <1>1 DEF Inv, TypeOK, Connected, Whole, Hand, Transforms, kind
<1>3. Called'
  BY <1>1, SameProgram
  DEF Inv, Called, Fits, Suspended, Reached, Fresh, Stored
<1>4. WaitedFor'
  BY <1>1, SameProgram DEF Inv, WaitedFor, Suspended, Reached, Fresh
<1>5. Faithful'
  BY <1>1, SameProgram DEF Inv, Faithful
<1>. QED
  BY <1>2, <1>3, <1>4, <1>5 DEF Inv

(* ... is answered, ... *)
LEMMA ReceiveStep ==
    ASSUME Inv, NEW t \in Threads, Receive(t)
    PROVE  Inv'
<1>1. /\ At(t, "receive", 0) /\ Call(t, "finish", 0, None)
      /\ \/ result' = calls[t].completion
         \/ calls[t].completion = "value" /\ result' = "exception"
      /\ UNCHANGED <<program, phase, waits, sentVars, opVars, loopVars>>
  BY DEF Receive
<1>2. /\ calls[t] # Idle /\ calls[t].completion \in Completions
      /\ sent[0 + 1] = calls[t].completion
  BY <1>1, Inside DEF Fits
<1>3. UNCHANGED <<program, phase, waits, sent, carrier, alive, stored, left,
                  queue, finished, returned>>
  BY <1>1 DEF sentVars, opVars, loopVars
<1>4. Fits(t, "finish", 0, None)'
  BY <1>1, <1>2, <1>3, DistinctAssumption DEF Fits, Stored
<1>5. /\ Connected' /\ Hand' /\ Called' /\ WaitedFor'
      /\ calls' \in [Threads -> CallRecords]
      /\ ~finished'
  BY <1>1, <1>2, <1>4, Nesting, Moves DEF CallPoints
<1>6. result' \in Completions \union {None}
  BY <1>1, <1>2 DEF Completions
<1>7. TypeOK'
  BY <1>3, <1>5, <1>6 DEF Inv, TypeOK
<1>8. Whole'
  BY <1>3 DEF Inv, Whole, Transforms, kind
<1>9. Faithful'
  BY <1>3, <1>5, SameProgram DEF Inv, Faithful
<1>. QED
  BY <1>5, <1>7, <1>8, <1>9 DEF Inv

(* ... tells its loop to finish, ... *)
LEMMA FinishStep ==
    ASSUME Inv, NEW t \in Threads, Finish(t)
    PROVE  Inv'
<1>1. /\ At(t, "finish", 0) /\ calls' = [calls EXCEPT ![t] = Idle]
      /\ finished' = TRUE
      /\ UNCHANGED <<program, phase, result, waits, sent, carrier, alive,
                     stored, left, queue, returned>>
  BY DEF Finish, Return, Loop!Finish, sentVars, opVars
<1>2. calls[t] # Idle /\ Stored
  BY <1>1, Inside DEF Fits
<1>3. /\ phase # "connect" /\ ~finished
      /\ \A u \in Threads \ {t} : calls[u] = Idle
      /\ \A n \in Operations : waits[n] = "nowhere"
      /\ queue = <<>>
  BY <1>2, Holds
<1>4. /\ calls' \in [Threads -> CallRecords]
      /\ \A u \in Threads : calls'[u] = Idle
  <2>1. Idle \in CallRecords
    BY Nesting DEF Idle
  <2>. QED
    BY <1>1, <1>3, <2>1 DEF Inv, TypeOK
<1>5. TypeOK'
  BY <1>1, <1>4 DEF Inv, TypeOK
<1>6. Connected' /\ Whole'
  BY <1>1 DEF Inv, Connected, Whole, Transforms, kind
<1>7. Hand'
  BY <1>1, <1>3, <1>4 DEF Hand
<1>8. Called'
  BY <1>4, IdleFits DEF Called
<1>9. WaitedFor'
  <2>1. \A m : queue' # <<m>>
    BY <1>1, <1>3
  <2>. QED
    BY <1>1, <1>3, <2>1 DEF WaitedFor
<1>10. Faithful'
  BY <1>1, <1>2, SameProgram DEF Inv, Faithful, Stored
<1>. QED
  BY <1>5, <1>6, <1>7, <1>8, <1>9, <1>10 DEF Inv

(* ... and returns. *)
LEMMA LoopReturnsStep ==
    ASSUME Inv, LoopReturns
    PROVE  Inv'
<1>1. /\ finished /\ phase' = "returned" /\ returned' = TRUE
      /\ alive' = [n \in Operations |-> FALSE]
      /\ UNCHANGED <<program, result, calls, waits, sent, carrier, stored,
                     left, queue, finished>>
  BY DEF LoopReturns, Loop!Return, sentVars
<1>2. /\ \A t \in Threads : calls[t] = Idle
      /\ \A n \in Operations : waits[n] = "nowhere"
      /\ queue = <<>>
  BY <1>1 DEF Inv, Hand
<1>3. TypeOK'
  BY <1>1 DEF Inv, TypeOK
<1>4. Connected'
  BY <1>1 DEF Inv, Connected, kind
<1>5. Whole'
  BY <1>1, Nesting DEF Whole
<1>6. Hand'
  BY <1>1, <1>2 DEF Hand
<1>7. Called'
  BY <1>1, <1>2, IdleFits DEF Called
<1>8. WaitedFor'
  <2>1. \A m : queue' # <<m>>
    BY <1>1, <1>2
  <2>. QED
    BY <1>1, <1>2, <2>1 DEF WaitedFor
<1>9. Faithful'
  BY <1>1, Nesting DEF Inv, Faithful
<1>. QED
  BY <1>3, <1>4, <1>5, <1>6, <1>7, <1>8, <1>9 DEF Inv

(* What changes nothing keeps everything. *)
LEMMA StutterStep ==
    ASSUME Inv, UNCHANGED vars
    PROVE  Inv'
<1>1. UNCHANGED <<program, phase, result, calls, waits, sent, carrier, alive,
                  stored, left, queue, finished, returned>>
  BY DEF vars, sentVars, opVars, loopVars
<1>2. TypeOK' /\ Connected' /\ Whole' /\ Hand'
  BY <1>1 DEF Inv, TypeOK, Connected, Whole, Hand, Transforms, kind
<1>3. Called'
  BY <1>1, SameProgram
  DEF Inv, Called, Fits, Suspended, Reached, Fresh, Stored
<1>4. WaitedFor'
  BY <1>1, SameProgram DEF Inv, WaitedFor, Suspended, Reached, Fresh
<1>5. Faithful'
  BY <1>1, SameProgram DEF Inv, Faithful
<1>. QED
  BY <1>2, <1>3, <1>4, <1>5 DEF Inv

(* No step of any thread breaks the invariant. *)
LEMMA InvStep == Inv /\ [Next]_vars => Inv'
  BY HandleStep, LeafStep, CompleteStep, ReceiveStep, FinishStep, ConnectStep,
     RunStep, LoopExecutesStep, LoopReturnsStep, StutterStep
  DEF Next, Step, Wait

-----------------------------------------------------------------------------
(* The theorems. *)

(* Inv holds in every reachable state: the computation is in one hand, and *)
(* where that is, the operations fit it.                                   *)
THEOREM Invariance == Spec => []Inv
  BY InvInit, InvStep, PTL DEF Spec

(* Every variable keeps its type, for any depth of the sender: nothing but *)
(* a completion is ever sent, stored or returned.                          *)
THEOREM TypeCorrect == Spec => []TypeOK
<1>1. Inv => TypeOK
  BY DEF Inv
<1>. QED
  BY <1>1, Invariance, PTL

(* For any nesting of tasks, adaptors and factories: what an operation     *)
(* sends follows from what it was sent, and sync_wait() returns what the   *)
(* outermost one sent.                                                     *)
THEOREM FaithfulHolds == Spec => []Faithful
<1>1. Inv => Faithful
  BY DEF Inv
<1>. QED
  BY <1>1, Invariance, PTL

(* For any nesting: one thread, one waiting operation or the queue has the *)
(* computation, and no operation is called, waits or is queued before it   *)
(* is constructed, after it has completed or when it was destroyed.        *)
THEOREM HandHolds == Spec => []OneHand
<1>1. ASSUME Inv PROVE OneHand
  <2>1. Cardinality(Busy) + Cardinality(Waiting) + Len(queue)
          = IF phase = "connect" \/ finished THEN 0 ELSE 1
    <3>1. CASE \E t \in Threads : calls[t] # Idle
      <4>1. PICK t \in Threads : calls[t] # Idle
        BY <3>1
      <4>2. Busy = {t} /\ Waiting = {} /\ queue = <<>>
        BY <1>1, <4>1, Holds DEF Busy, Waiting
      <4>3. Cardinality({t}) = 1 /\ Cardinality({}) = 0
        BY FS_Singleton, FS_EmptySet
      <4>. QED
        BY <1>1, <4>1, <4>2, <4>3, Holds
    <3>2. CASE \E n \in Operations : waits[n] # "nowhere"
      <4>1. PICK n \in Operations : waits[n] # "nowhere"
        BY <3>2
      <4>2. Busy = {} /\ Waiting = {n} /\ queue = <<>>
        BY <1>1, <4>1, Waits DEF Busy, Waiting
      <4>3. Cardinality({n}) = 1 /\ Cardinality({}) = 0
        BY FS_Singleton, FS_EmptySet
      <4>. QED
        BY <1>1, <4>1, <4>2, <4>3, Waits
    <3>3. CASE \E n \in Operations : queue = <<n>>
      <4>1. PICK n \in Operations : queue = <<n>>
        BY <3>3
      <4>2. Busy = {} /\ Waiting = {} /\ Len(queue) = 1
        BY <1>1, <4>1, Waits DEF Busy, Waiting
      <4>3. Cardinality({}) = 0
        BY FS_EmptySet
      <4>. QED
        BY <1>1, <4>1, <4>2, <4>3, Waits
    <3>4. CASE phase = "connect" \/ finished
      <4>1. Busy = {} /\ Waiting = {} /\ queue = <<>>
        BY <1>1, <3>4 DEF Inv, Hand, Busy, Waiting
      <4>. QED
        BY <3>4, <4>1, FS_EmptySet
    <3>. QED
      BY <1>1, <3>1, <3>2, <3>3, <3>4 DEF Inv, Hand
  <2>2. \A n \in InUse \ {0} : alive[n] /\ sent[n] = None
    <3>1. ASSUME NEW t \in Threads, calls[t] # Idle, calls[t].op # 0
          PROVE  alive[calls[t].op] /\ sent[calls[t].op] = None
      <4> DEFINE n == calls[t].op
      <4>1. /\ n \in 0 .. Innermost /\ calls[t].at # "idle"
            /\ calls[t].at \in {"idle", "start", "body", "first", "receive",
                                "finish"}
            /\ Fits(t, calls[t].at, n, calls[t].completion)
        BY <1>1, <3>1 DEF Inv, TypeOK, Called
      <4>2. Reached(n)
        BY <3>1, <4>1 DEF Fits, Suspended
      <4>3. n \in 1 .. n
        BY <3>1, <4>1, Nesting
      <4>. QED
        BY <4>2, <4>3 DEF Reached
    <3>2. ASSUME NEW n \in Operations, waits[n] # "nowhere" \/ queue = <<n>>
          PROVE  alive[n] /\ sent[n] = None
      BY <1>1, <3>2, Nesting DEF Inv, WaitedFor, Suspended, Reached
    <3>3. ASSUME NEW i \in 1 .. Len(queue)
          PROVE  queue[i] \in Operations /\ queue = <<queue[i]>>
      <4>1. queue # <<>>
        BY <3>3
      <4>2. PICK n \in Operations : queue = <<n>>
        BY <1>1, <4>1 DEF Inv, Hand
      <4>3. i = 1
        BY <3>3, <4>2
      <4>. QED
        BY <4>2, <4>3
    <3>. QED
      BY <3>1, <3>2, <3>3 DEF InUse, Busy, Waiting
  <2>. QED
    BY <2>1, <2>2 DEF OneHand
<1>. QED
  BY <1>1, Invariance, PTL

-----------------------------------------------------------------------------
(* Declares: no operation completes in a way that its sender does not      *)
(* declare.                                                                *)

(* A factory, or any other sender, declares what its kind says. *)
LEMMA InnermostDeclares ==
    ASSUME NEW p \in Programs, NEW child
    PROVE  SenderDeclares(p, Innermost, child) = JustDeclares(p.kind[Innermost])
  BY ProgramsAssumption
  DEF SenderDeclares, Leaves, LetKinds

(* The recursive function Declared(p) satisfies its own equation: there is *)
(* a function that solves it for the innermost operation, and one that     *)
(* solves it for the innermost k operations can be made to solve it for    *)
(* one more. If there were none for all of them, there would be a least k  *)
(* at which that fails.                                                    *)
LEMMA DeclaredEquation ==
    ASSUME NEW p \in Programs
    PROVE  \A n \in Operations :
             Declared(p)[n] = SenderDeclares(p, n, Declared(p)[n + 1])
<1> DEFINE Solves(g, n) ==
             g[n] = IF n = Innermost THEN JustDeclares(p.kind[n])
                    ELSE SenderDeclares(p, n, g[n + 1])
           Solved(k) ==
             \E g : /\ g = [n \in Operations |-> g[n]]
                    /\ \A n \in Innermost - k .. Innermost : Solves(g, n)
<1>1. Solved(0)
  <2> DEFINE g == [n \in Operations |-> JustDeclares(p.kind[n])]
  <2>1. g = [n \in Operations |-> g[n]]
    OBVIOUS
  <2>2. \A n \in Innermost - 0 .. Innermost : n = Innermost /\ n \in Operations
    BY Nesting
  <2>3. \A n \in Innermost - 0 .. Innermost : Solves(g, n)
    BY <2>2
  <2> HIDE DEF g
  <2>. QED
    BY <2>1, <2>3
<1>2. ASSUME NEW k \in Nat, k < Depth, Solved(k)
      PROVE  Solved(k + 1)
  <2>1. PICK g : /\ g = [n \in Operations |-> g[n]]
                 /\ \A n \in Innermost - k .. Innermost : Solves(g, n)
    BY <1>2
  <2> DEFINE m == Innermost - (k + 1)
             h == [n \in Operations |-> IF n = m THEN SenderDeclares(p, m, g[m + 1])
                                        ELSE g[n]]
  <2>2. /\ m \in Operations /\ m \in Nat /\ m # Innermost /\ m + 1 = Innermost - k
        /\ m + 1 \in Operations
    BY <1>2, DepthAssumption DEF Innermost, Operations
  <2>3. ASSUME NEW n \in m .. Innermost
        PROVE  Solves(h, n)
    <3>1. n \in Operations /\ (n # Innermost => n + 1 \in Operations)
      BY <2>2, <2>3, Nesting DEF Operations
    <3>2. CASE n = m
      BY <2>2, <3>1, <3>2
    <3>3. CASE n # m
      <4>1. n \in Innermost - k .. Innermost /\ n + 1 # m
        BY <2>2, <3>3, Nesting
      <4>2. h[n] = g[n] /\ (n # Innermost => h[n + 1] = g[n + 1])
        BY <3>1, <3>3, <4>1
      <4>3. Solves(g, n)
        BY <2>1, <4>1
      <4> HIDE DEF h
      <4>. QED
        BY <4>2, <4>3
    <3>. QED
      BY <3>2, <3>3
  <2>4. h = [n \in Operations |-> h[n]]
    OBVIOUS
  <2> HIDE DEF h, Solves
  <2>. QED
    BY <2>3, <2>4
<1>3. Solved(Depth)
  <2> DEFINE T == {k \in Nat : k <= Depth /\ ~Solved(k)}
  <2> HIDE DEF Solved
  <2>1. SUFFICES ASSUME T # {} PROVE FALSE
    BY DepthAssumption
  <2>2. PICK k \in T : \A i \in T : ~(<<i, k>> \in OpToRel(<, Nat))
    BY <2>1, WFMin, NatLessThanWellFounded
  <2>3. k \in Nat /\ k <= Depth /\ ~Solved(k)
    OBVIOUS
  <2>4. k # 0
    BY <1>1, <2>3
  <2>5. k - 1 \in Nat /\ k - 1 < Depth /\ (k - 1) + 1 = k
    BY <2>3, <2>4, DepthAssumption
  <2>6. k - 1 \notin T
    <3>1. \A i, j \in Nat : i < j => <<i, j>> \in OpToRel(<, Nat)
      BY Zenon DEF OpToRel
    <3>2. k - 1 < k
      BY <2>3
    <3>. QED
      BY <2>2, <2>3, <2>5, <3>1, <3>2
  <2>7. Solved(k - 1)
    BY <2>5, <2>6, DepthAssumption
  <2>. QED
    BY <1>2, <2>3, <2>5, <2>7
<1>4. \E g : g = [n \in Operations |-> SenderDeclares(p, n, g[n + 1])]
  <2>1. PICK g : /\ g = [n \in Operations |-> g[n]]
                 /\ \A n \in Innermost - Depth .. Innermost : Solves(g, n)
    BY <1>3
  <2>2. \A n \in Operations : n \in Innermost - Depth .. Innermost
    BY DepthAssumption DEF Innermost, Operations
  <2>3. \A n \in Operations : g[n] = SenderDeclares(p, n, g[n + 1])
    BY <2>1, <2>2, InnermostDeclares
  <2>. QED
    BY <2>1, <2>3
<1>5. Declared(p) = CHOOSE g : g = [n \in Operations |-> SenderDeclares(p, n, g[n + 1])]
  BY DEF Declared
<1>. QED
  BY <1>4, <1>5

-----------------------------------------------------------------------------
(* What is declared. *)

(* A completion that a callable does not select is declared still, and     *)
(* what it makes of the one that it selects.                               *)
LEMMA AdaptorFacts ==
    ASSUME NEW tag, NEW mayThrow, NEW declared, NEW c \in declared
    PROVE  /\ Tag(c) # tag => c \in AdaptorDeclares(tag, mayThrow, declared)
           /\ Tag(c) = tag =>
                /\ "value" \in AdaptorDeclares(tag, mayThrow, declared)
                /\ mayThrow =>
                     "exception" \in AdaptorDeclares(tag, mayThrow, declared)
<1>1. \A d \in AdaptorSignature(tag, c) :
        d \in AdaptorDeclares(tag, mayThrow, declared)
  BY DEF AdaptorDeclares, Unique
<1>2. ASSUME Tag(c) = tag, mayThrow
      PROVE  "exception" \in AdaptorDeclares(tag, mayThrow, declared)
  <2>1. Maybe(InvokeThrows(tag, mayThrow, declared), {"exception"})
          = {"exception"}
    BY <1>2 DEF Maybe, InvokeThrows, Gather
  <2>. QED
    BY <2>1 DEF AdaptorDeclares, Unique
<1>. QED
  BY <1>1, <1>2 DEF AdaptorSignature

(* If the sender upstream may send what is selected, everything that the   *)
(* sender in its place declares is declared.                               *)
LEMMA LetFacts ==
    ASSUME NEW tag, NEW mayThrow, NEW declared, NEW child
    PROVE  /\ \A c \in declared :
                Tag(c) # tag => c \in LetDeclares(tag, mayThrow, declared, child)
           /\ Gather(tag, declared) # {} =>
                /\ child \subseteq LetDeclares(tag, mayThrow, declared, child)
                /\ mayThrow =>
                     "exception" \in LetDeclares(tag, mayThrow, declared, child)
<1>1. \A c \in declared : \A d \in LetSignature(tag, c, child) :
        d \in LetDeclares(tag, mayThrow, declared, child)
  BY DEF LetDeclares, Unique
<1>2. ASSUME Gather(tag, declared) # {}, mayThrow
      PROVE  "exception" \in LetDeclares(tag, mayThrow, declared, child)
  <2>1. Maybe(InvokeThrows(tag, mayThrow, declared), {"exception"})
          = {"exception"}
    BY <1>2 DEF Maybe, InvokeThrows
  <2>. QED
    BY <2>1 DEF LetDeclares, Unique
<1>3. ASSUME Gather(tag, declared) # {}
      PROVE  child \subseteq LetDeclares(tag, mayThrow, declared, child)
  <2>1. PICK c \in declared : Tag(c) = tag
    BY <1>3 DEF Gather
  <2>. QED
    BY <1>1, <2>1 DEF LetSignature
<1>. QED
  BY <1>1, <1>2, <1>3 DEF LetSignature

(* into_variant() declares the variant, and every other completion.        *)
LEMMA IntoVariantFacts ==
    ASSUME NEW mayThrow, NEW declared
    PROVE  /\ "value" \in IntoVariantDeclares(mayThrow, declared)
           /\ mayThrow => "exception" \in IntoVariantDeclares(mayThrow, declared)
           /\ \A c \in declared \intersect Completions :
                c \in IntoVariantDeclares(mayThrow, declared)
<1>1. /\ "value" \in IntoVariantDeclares(mayThrow, declared)
      /\ Errors(declared) \subseteq IntoVariantDeclares(mayThrow, declared)
  BY DEF IntoVariantDeclares, Unique
<1>2. ASSUME mayThrow
      PROVE  "exception" \in IntoVariantDeclares(mayThrow, declared)
  BY <1>2 DEF IntoVariantDeclares, Unique, Maybe
<1>3. ASSUME "stopped" \in declared
      PROVE  "stopped" \in IntoVariantDeclares(mayThrow, declared)
  <2>1. SendsStopped(declared)
    BY <1>3 DEF SendsStopped, Gather, Tag
  <2>. QED
    BY <2>1 DEF IntoVariantDeclares, Unique, Maybe
<1>4. declared \intersect {"error", "exception"} \subseteq Errors(declared)
  BY DEF Errors, Gather, Tag
<1>. QED
  BY <1>1, <1>2, <1>3, <1>4 DEF Completions

(* starts_on() declares what its sender does, and what goes wrong before.  *)
LEMMA StartsOnFacts ==
    ASSUME NEW scheduled, NEW declared
    PROVE  /\ declared \subseteq StartsOnDeclares(scheduled, declared)
           /\ "exception" \in StartsOnDeclares(scheduled, declared)
           /\ \A c \in scheduled \intersect Completions :
                c # "value" => c \in StartsOnDeclares(scheduled, declared)
<1>1. /\ declared \subseteq StartsOnDeclares(scheduled, declared)
      /\ "exception" \in StartsOnDeclares(scheduled, declared)
      /\ Errors(scheduled) \subseteq StartsOnDeclares(scheduled, declared)
  BY DEF StartsOnDeclares, Unique
<1>2. ASSUME "stopped" \in scheduled
      PROVE  "stopped" \in StartsOnDeclares(scheduled, declared)
  <2>1. SendsStopped(scheduled)
    BY <1>2 DEF SendsStopped, Gather, Tag
  <2>. QED
    BY <2>1 DEF StartsOnDeclares, Unique, Maybe
<1>3. scheduled \intersect {"error", "exception"} \subseteq Errors(scheduled)
  BY DEF Errors, Gather, Tag
<1>. QED
  BY <1>1, <1>2, <1>3 DEF Completions

(* on() declares what starts_on() does, and what scheduling back may send. *)
LEMMA OnFacts ==
    ASSUME NEW declared
    PROVE  /\ declared \subseteq OnDeclares(declared)
           /\ "exception" \in OnDeclares(declared)
           /\ "stopped" \in OnDeclares(declared)
  BY DEF OnDeclares, Unique

(* What the sender of operation n declares, by its kind. *)
LEMMA DeclaredByKind ==
    ASSUME program \in Programs, NEW n \in Operations
    PROVE  LET mine == Declared(program)[n]
               child == Declared(program)[n + 1]
               tag == SelectedTag(kind[n])
           IN  /\ n = Innermost => mine = JustDeclares(kind[n])
               /\ n \in Adaptors =>
                    /\ kind[n] = "task" => mine = TaskDeclares
                    /\ kind[n] = "starts_on" =>
                         mine = StartsOnDeclares(program.pool, child)
                    /\ kind[n] = "on" => mine = OnDeclares(child)
                    /\ kind[n] = "into_variant" =>
                         mine = IntoVariantDeclares(throws[n], child)
                    /\ IsLet(n) =>
                         mine = LetDeclares(tag, throws[n], program.upstream,
                                            child)
                    /\ kind[n] \in {"then", "upon_error", "upon_stopped"} =>
                         mine = AdaptorDeclares(tag, throws[n], child)
<1>1. Declared(program)[n]
        = SenderDeclares(program, n, Declared(program)[n + 1])
  BY DeclaredEquation
<1>2. n = Innermost => Declared(program)[n] = JustDeclares(kind[n])
  BY <1>1, InnermostDeclares DEF kind
<1>. QED
  BY <1>1, <1>2
  DEF SenderDeclares, kind, throws, IsLet, LetKinds, Leaves

-----------------------------------------------------------------------------
(* The invariant behind Declares. *)

(* What operation n may send: what it declares, or what comes of an        *)
(* exception that a let_value() inside it hides.                           *)
Allowed(n, completion) ==
    completion \in Declared(program)[n] \/ Undeclared(n, completion)

(* The sender upstream of a let_value() that has started the second        *)
(* operation, or whose second operation has completed, is one that may     *)
(* send what is selected.                                                  *)
Upstream ==
    \A n \in Adaptors :
        IsLet(n) /\ (alive[n + 1] \/ sent[n + 1] # None) =>
            Gather(SelectedTag(kind[n]), program.upstream) # {}

(* A thread calls an operation with what it may be called with. *)
Offered ==
    \A t \in Threads :
        calls[t].at = "first" => calls[t].completion \in Awaited(calls[t].op)

(* The loop gives a value, which is what that in the queue waits for. *)
Queued == \A n \in Operations : queue = <<n>> => "value" \in Awaited(n)

Declaring ==
    /\ WellFormed(program)
    /\ Upstream
    /\ Offered
    /\ Queued
    /\ Declares

(* Declares, operation by operation. *)
LEMMA DeclaresAllowed ==
    Declares <=> /\ \A n \in Operations :
                      sent[n] # None => Allowed(n, sent[n])
                 /\ result # None =>
                      Allowed(1, result) \/ result = "exception"
  BY DEF Declares, Allowed

(* What an operation inside hides, hides from the one around it. *)
LEMMA UndeclaredAround ==
    ASSUME NEW n \in Adaptors, NEW c, Undeclared(n + 1, c)
    PROVE  Undeclared(n, c)
<1>1. PICK m \in n + 1 .. Depth :
        /\ LetHides(m)
        /\ \/ c = "exception"
           \/ c = "value" /\ \E i \in n + 1 .. m - 1 : kind[i] = "upon_error"
  BY DEF Undeclared
<1>2. m \in n .. Depth /\ \A i \in n + 1 .. m - 1 : i \in n .. m - 1
  BY Nesting
<1>. QED
  BY <1>1, <1>2 DEF Undeclared

(* A hidden exception is one of the completions that remain undeclared,    *)
(* and so is the value that upon_error() makes of it.                      *)
LEMMA UndeclaredFacts ==
    ASSUME NEW n \in Adaptors, NEW c, Undeclared(n + 1, c)
    PROVE  /\ Undeclared(n, "exception")
           /\ c = "value" \/ kind[n] = "upon_error" => Undeclared(n, "value")
           /\ c \in {"value", "exception"}
<1>1. PICK m \in n + 1 .. Depth :
        /\ LetHides(m)
        /\ \/ c = "exception"
           \/ c = "value" /\ \E i \in n + 1 .. m - 1 : kind[i] = "upon_error"
  BY DEF Undeclared
<1>2. m \in n .. Depth /\ n \in n .. m - 1
  BY Nesting
<1>. QED
  BY <1>1, <1>2, UndeclaredAround DEF Undeclared

(* A let_value() that hides an exception may send it. *)
LEMMA HiddenAllowed ==
    ASSUME NEW n \in Adaptors, LetHides(n)
    PROVE  Allowed(n, "exception")
<1>1. n \in n .. Depth
  BY Nesting, DepthAssumption DEF Adaptors
<1>. QED
  BY <1>1 DEF Allowed, Undeclared

-----------------------------------------------------------------------------
(* The steps. *)

(* In the beginning nothing has been sent. *)
LEMMA DeclaringInit == Init => Declaring
<1> SUFFICES ASSUME Init PROVE Declaring
  OBVIOUS
<1>1. /\ WellFormed(program) /\ result = None /\ queue = <<>>
      /\ \A n \in Operations : sent[n] = None /\ ~alive[n]
      /\ \A t \in Threads : calls[t].at = "idle"
  BY DEF Init, Idle, Loop!Init
<1>2. \A n : queue # <<n>>
  BY <1>1
<1>3. Declares
  BY <1>1, DeclaresAllowed
<1>4. Upstream
  BY <1>1, Nesting DEF Upstream
<1>5. Offered /\ Queued
  BY <1>1, <1>2 DEF Offered, Queued
<1>. QED
  BY <1>1, <1>3, <1>4, <1>5 DEF Declaring

(* What the program says does not change. *)
LEMMA Constant ==
    ASSUME UNCHANGED program
    PROVE  /\ kind' = kind /\ throws' = throws
           /\ WellFormed(program) => WellFormed(program)'
           /\ \A n : IsLet(n)' = IsLet(n) /\ Awaited(n)' = Awaited(n)
           /\ \A n, c : Undeclared(n, c)' = Undeclared(n, c)
           /\ \A n, c : Allowed(n, c)' = Allowed(n, c)
<1>1. kind' = kind /\ throws' = throws
  BY DEF kind, throws
<1>2. \A n : IsLet(n)' = IsLet(n) /\ Transforms(n)' = Transforms(n)
  BY <1>1 DEF IsLet, Transforms
<1>3. \A n : Together(n)' = Together(n)
  BY <1>2 DEF Together
<1>4. \A n : LetHides(n)' = LetHides(n)
  BY <1>1, <1>2, <1>3 DEF LetHides, NothrowConnect
<1>5. \A n, c : Undeclared(n, c)' = Undeclared(n, c)
  BY <1>1, <1>4 DEF Undeclared
<1>. QED
  BY <1>1, <1>2, <1>5 DEF Allowed, Awaited

(* A step that sends nothing keeps the invariant, if it calls an operation *)
(* with what it may be called with, and starts the second operation of a   *)
(* let_value() only where upstream may send what is selected.              *)
LEMMA Quiet ==
    ASSUME Declaring, UNCHANGED program,
           result' \in {result, "exception"} \/ Allowed(1, result'),
           \A n \in Operations : sent'[n] \in {sent[n], None},
           \A n \in Adaptors :
               IsLet(n) /\ alive'[n + 1] =>
                   \/ alive[n + 1]
                   \/ Gather(SelectedTag(kind[n]), program.upstream) # {},
           \A t \in Threads :
               \/ calls'[t] = calls[t]
               \/ calls'[t].at # "first"
               \/ calls'[t].completion \in Awaited(calls'[t].op),
           \A n \in Operations :
               queue' = <<n>> => queue = <<n>> \/ "value" \in Awaited(n)
    PROVE  Declaring'
<1>1. /\ WellFormed(program)' /\ kind' = kind /\ program' = program
      /\ \A n : IsLet(n)' = IsLet(n) /\ Awaited(n)' = Awaited(n)
      /\ \A n, c : Allowed(n, c)' = Allowed(n, c)
  BY Constant DEF Declaring
<1>2. Upstream'
  BY <1>1, Nesting DEF Declaring, Upstream
<1>3. Offered'
  BY <1>1 DEF Declaring, Offered
<1>4. Queued'
  BY <1>1 DEF Declaring, Queued
<1>5. Declares'
  <2>1. /\ \A n \in Operations : sent[n] # None => Allowed(n, sent[n])
        /\ result # None => Allowed(1, result) \/ result = "exception"
    BY DeclaresAllowed DEF Declaring
  <2>2. /\ \A n \in Operations : sent'[n] # None => Allowed(n, sent[n])'
        /\ result' # None => Allowed(1, result)' \/ result' = "exception"
    BY <1>1, <2>1, DistinctAssumption
  <2>. QED
    BY <2>2 DEF Declares, Allowed
<1>. QED
  BY <1>1, <1>2, <1>3, <1>4, <1>5 DEF Declaring

(* A completion that is allowed is sent. *)
LEMMA AllowedSent ==
    ASSUME Inv, Declaring, NEW t \in Threads, NEW n \in Operations, NEW c,
           Reached(n), Allowed(n, c), Send(t, n, c),
           UNCHANGED <<program, result, alive, queue>>
    PROVE  Declaring'
<1>1. /\ WellFormed(program)' /\ kind' = kind /\ program' = program
      /\ \A m : IsLet(m)' = IsLet(m) /\ Awaited(m)' = Awaited(m)
      /\ \A m, d : Allowed(m, d)' = Allowed(m, d)
  BY Constant DEF Declaring
<1>2. \A m \in Operations : sent'[m] = IF m = n THEN c ELSE sent[m]
  BY DEF Send, Inv, TypeOK
<1>3. \A u \in Threads : calls'[u] = calls[u] \/ calls'[u].at = "receive"
  BY DEF Send, Call, Inv, TypeOK
<1>4. alive[n]
  BY Nesting DEF Reached
<1>5. Upstream'
  BY <1>1, <1>2, <1>4, Nesting DEF Declaring, Upstream
<1>6. Offered'
  BY <1>1, <1>3 DEF Declaring, Offered
<1>7. Queued'
  BY <1>1 DEF Declaring, Queued
<1>8. Declares'
  <2>1. /\ \A m \in Operations : sent[m] # None => Allowed(m, sent[m])
        /\ result # None => Allowed(1, result) \/ result = "exception"
    BY DeclaresAllowed DEF Declaring
  <2>2. \A m \in Operations : sent'[m] # None => Allowed(m, sent[m])'
    BY <1>1, <1>2, <2>1
  <2>3. result' # None => Allowed(1, result)' \/ result' = "exception"
    BY <1>1, <2>1
  <2>. QED
    BY <2>2, <2>3 DEF Declares, Allowed
<1>. QED
  BY <1>1, <1>5, <1>6, <1>7, <1>8 DEF Declaring

(* What a thread is called with, the others being left alone. *)
LEMMA CalledWith ==
    ASSUME Inv, NEW t \in Threads, NEW at, NEW n, NEW c, Call(t, at, n, c)
    PROVE  \A u \in Threads :
               \/ calls'[u] = calls[u]
               \/ /\ calls'[u].at = at /\ calls'[u].op = n
                  /\ calls'[u].completion = c
  BY DEF Call, Inv, TypeOK

(* A thread that returns calls nothing. *)
LEMMA Returned ==
    ASSUME Inv, NEW t \in Threads, Return(t)
    PROVE  \A u \in Threads : calls'[u] = calls[u] \/ calls'[u].at # "first"
  BY DEF Return, Idle, Inv, TypeOK

(* Of what is constructed together only the outermost operation may have a *)
(* let_value() around it.                                                  *)
LEMMA Constructed ==
    ASSUME Inv, NEW n \in Operations,
           alive' = [m \in Operations |-> alive[m] \/ m \in Together(n)]
    PROVE  \A m \in Adaptors :
             IsLet(m) /\ alive'[m + 1] => alive[m + 1] \/ n = m + 1
<1> SUFFICES ASSUME NEW m \in Adaptors, IsLet(m), m + 1 \in Together(n),
                    n # m + 1
             PROVE  FALSE
  BY Nesting
<1>1. m \in n .. (m + 1) - 1
  BY Nesting DEF Together
<1>2. Transforms(m)
  BY <1>1 DEF Together
<1>. QED
  BY <1>2 DEF Transforms, TransformKinds, IsLet, LetKinds

(* A task, starts_on() or on() constructs the operation inside it. *)
LEMMA QuietConstruct ==
    ASSUME Inv, Declaring, NEW t \in Threads, NEW n \in 0 .. Depth,
           n \in Adaptors /\ IsLet(n) =>
               Gather(SelectedTag(kind[n]), program.upstream) # {},
           alive' = [m \in Operations |-> alive[m] \/ m \in Together(n + 1)],
           Call(t, "start", n + 1, None),
           UNCHANGED <<program, result, sent, queue>>
    PROVE  Declaring'
<1>1. n + 1 \in Operations
  BY Nesting DEF Operations
<1>2. \A m \in Adaptors :
        IsLet(m) /\ alive'[m + 1] => alive[m + 1] \/ n = m
  BY <1>1, Constructed, Nesting
<1>. QED
  BY <1>2, CalledWith, Quiet

(* What starts_on(), on() and the second operation of a let_value() pass   *)
(* on.                                                                     *)
LEMMA PassedOn ==
    ASSUME Inv, Declaring, NEW n \in Adaptors, NEW c, Allowed(n + 1, c),
           \/ kind[n] \in {"starts_on", "on"}
           \/ IsLet(n) /\ Gather(SelectedTag(kind[n]), program.upstream) # {}
    PROVE  Allowed(n, c)
<1>1. program \in Programs /\ n \in Operations
  BY Nesting DEF Inv, TypeOK
<1>2. Undeclared(n + 1, c) => Allowed(n, c)
  BY UndeclaredAround DEF Allowed
<1>3. ASSUME c \in Declared(program)[n + 1]
      PROVE  c \in Declared(program)[n]
  BY <1>1, <1>3, DeclaredByKind, StartsOnFacts, OnFacts, LetFacts
<1>. QED
  BY <1>2, <1>3 DEF Allowed

(* What the construction of the operation inside throws. *)
LEMMA ThrownAllowed ==
    ASSUME Inv, Declaring, NEW n \in Adaptors,
           \/ kind[n] \in {"starts_on", "on"}
           \/ /\ IsLet(n) /\ StartThrows(n)
              /\ Gather(SelectedTag(kind[n]), program.upstream) # {}
    PROVE  Allowed(n, "exception")
<1>1. program \in Programs /\ n \in Operations
  BY Nesting DEF Inv, TypeOK
<1>2. CASE kind[n] \in {"starts_on", "on"}
  BY <1>1, <1>2, DeclaredByKind, StartsOnFacts, OnFacts DEF Allowed
<1>3. CASE IsLet(n) /\ throws[n]
           /\ Gather(SelectedTag(kind[n]), program.upstream) # {}
  BY <1>1, <1>3, DeclaredByKind, LetFacts DEF Allowed
<1>4. CASE IsLet(n) /\ ~throws[n] /\ ~NothrowConnect(n + 1)
  BY <1>4, HiddenAllowed DEF LetHides
<1>. QED
  BY <1>2, <1>3, <1>4 DEF StartThrows

(* The operation inside is started, or what that throws is sent. *)
LEMMA StartNextDeclares ==
    ASSUME Inv, Declaring, NEW t \in Threads, NEW n \in Adaptors, Reached(n),
           \/ kind[n] \in {"starts_on", "on"}
           \/ /\ IsLet(n)
              /\ Gather(SelectedTag(kind[n]), program.upstream) # {},
           StartNext(t, n),
           UNCHANGED <<program, result, queue>>
    PROVE  Declaring'
<1>0. kind[n] \in {"starts_on", "on"} => ~IsLet(n)
  BY DEF IsLet, LetKinds
<1>1. CASE Construct(t, n + 1) /\ UNCHANGED sentVars
  BY <1>0, <1>1, QuietConstruct, Nesting DEF Construct, sentVars
<1>2. CASE StartThrows(n) /\ Send(t, n, "exception") /\ UNCHANGED opVars
  BY <1>2, ThrownAllowed, AllowedSent, Nesting DEF opVars
<1>. QED
  BY <1>1, <1>2 DEF StartNext

(* A step that changes none of what Declaring is about but a call. *)
LEMMA QuietCall ==
    ASSUME Inv, Declaring, NEW t \in Threads, NEW at, NEW n, NEW c,
           Call(t, at, n, c), at = "first" => c \in Awaited(n),
           UNCHANGED <<program, result, alive, sent, queue>>
    PROVE  Declaring'
  BY CalledWith, Quiet

(* An operation is left waiting, or is queued, if it may get a value. *)   
LEMMA QuietSchedule ==
    ASSUME Inv, Declaring, NEW t \in Threads, calls[t] # Idle,
           NEW n \in Operations, NEW where, Schedule(t, n, where),
           where = "loop" => "value" \in Awaited(n),
           UNCHANGED <<program, result, alive, sent>>
    PROVE  Declaring'
<1>1. \A u \in Threads : calls'[u] = calls[u] \/ calls'[u].at # "first"
  BY Returned DEF Schedule
<1>2. ASSUME NEW m \in Operations, queue' = <<m>>
      PROVE  queue = <<m>> \/ "value" \in Awaited(m)
  <2>1. CASE where = "loop"
    <3>1. queue' = <<n>>
      BY <2>1, Holds DEF Schedule, Loop!Enqueue
    <3>. QED
      BY <1>2, <2>1, <3>1
  <2>2. CASE where # "loop"
    BY <1>2, <2>2 DEF Schedule, loopVars
  <2>. QED
    BY <2>1, <2>2
<1>. QED
  BY <1>1, <1>2, Quiet

(* What a sender upstream, a scheduler or a callable gives an operation    *)
(* leaves it allowed what it sends.                                        *)

(* A task. *)
LEMMA TaskAllowed ==
    ASSUME Inv, NEW n \in Adaptors, kind[n] = "task",
           NEW c \in {"value", "exception", "stopped"}
    PROVE  Allowed(n, c)
<1>1. program \in Programs /\ n \in Operations
  BY Nesting DEF Inv, TypeOK
<1>. QED
  BY <1>1, DeclaredByKind DEF Allowed, TaskDeclares

(* starts_on() of which the scheduler fails, and a let_value() that does   *)
(* not select what upstream sends.                                         *)
LEMMA FirstAllowed ==
    ASSUME Inv, NEW n \in Adaptors, NEW c \in Awaited(n),
           kind[n] = "starts_on" \/ IsLet(n), ~Continues(n, c)
    PROVE  Allowed(n, c)
<1>1. program \in Programs /\ n \in Operations /\ n # Innermost
  BY Nesting DEF Inv, TypeOK
<1>2. c \in Completions
  BY <1>1, AwaitedFacts
<1>3. CASE kind[n] = "starts_on"
  <2>1. c \in program.pool /\ c # "value"
    BY <1>1, <1>3 DEF Awaited, Continues, IsLet, LetKinds
  <2>. QED
    BY <1>1, <1>2, <1>3, <2>1, DeclaredByKind, StartsOnFacts DEF Allowed
<1>4. CASE IsLet(n)
  <2>1. kind[n] # "starts_on"
    BY <1>4 DEF IsLet, LetKinds
  <2>2. c \in program.upstream /\ Tag(c) # SelectedTag(kind[n])
    BY <1>1, <1>4, <2>1 DEF Awaited, Continues, Selects
  <2>. QED
    BY <1>1, <1>4, <2>2, DeclaredByKind, LetFacts DEF Allowed
<1>. QED
  BY <1>3, <1>4

(* The scheduler that on() delivers on, if it fails: the sender inside     *)
(* declares that already, which is starts_on() of the other scheduler.     *)
LEMMA DeliveryAllowed ==
    ASSUME Inv, Declaring, NEW n \in Adaptors, kind[n] = "on",
           NEW c \in Awaited(n), c # "value"
    PROVE  Allowed(n, c)
<1>1. /\ program \in Programs /\ n \in Operations /\ n # Innermost
      /\ n + 1 \in Operations /\ Depth \in Nat
  BY Nesting DEF Inv, TypeOK
<1>2. c \in Completions
  BY <1>1, AwaitedFacts
<1>3. c \in program.pool
  BY <1>1 DEF Awaited, IsLet, LetKinds
<1>4. n + 1 \in Adaptors /\ kind[n + 1] = "starts_on"
  BY <1>1 DEF Declaring, WellFormed, OnIsConnected, kind, Adaptors
<1>5. c \in Declared(program)[n + 1]
  BY <1>1, <1>2, <1>3, <1>4, DeclaredByKind, StartsOnFacts
<1>. QED
  BY <1>5, PassedOn DEF Allowed

(* What a callable makes of a completion, or does not select. *)
LEMMA ThenAllowed ==
    ASSUME Inv, NEW n \in Adaptors,
           kind[n] \in {"then", "upon_error", "upon_stopped"},
           NEW c \in Completions, Allowed(n + 1, c)
    PROVE  /\ ~Selects(n, c) => Allowed(n, c)
           /\ Selects(n, c) =>
                Allowed(n, "value") /\ (throws[n] => Allowed(n, "exception"))
<1>1. program \in Programs /\ n \in Operations
  BY Nesting DEF Inv, TypeOK
<1>2. CASE c \in Declared(program)[n + 1]
  <2>1. Declared(program)[n]
          = AdaptorDeclares(SelectedTag(kind[n]), throws[n],
                            Declared(program)[n + 1])
    BY <1>1, DeclaredByKind
  <2>. QED
    BY <1>2, <2>1, AdaptorFacts DEF Allowed, Selects
<1>3. CASE Undeclared(n + 1, c)
  <2>1. Undeclared(n, c) /\ Undeclared(n, "exception")
    BY <1>3, UndeclaredAround, UndeclaredFacts
  <2>2. Selects(n, c) => c = "value" \/ kind[n] = "upon_error"
    <3>1. c = "exception" => Tag(c) = "set_error"
      BY DEF Tag
    <3>2. /\ kind[n] = "then" => SelectedTag(kind[n]) = "set_value"
          /\ kind[n] = "upon_stopped" => SelectedTag(kind[n]) = "set_stopped"
      BY DEF SelectedTag
    <3>. QED
      BY <1>3, <3>1, <3>2, UndeclaredFacts DEF Selects
  <2>. QED
    BY <1>3, <2>1, <2>2, UndeclaredFacts DEF Allowed
<1>. QED
  BY <1>2, <1>3 DEF Allowed

(* What the variant is made of, or is passed on. *)
LEMMA IntoVariantAllowed ==
    ASSUME Inv, NEW n \in Adaptors, kind[n] = "into_variant",
           NEW c \in Completions, Allowed(n + 1, c)
    PROVE  /\ Allowed(n, c)
           /\ throws[n] => Allowed(n, "exception")
<1>1. program \in Programs /\ n \in Operations
  BY Nesting DEF Inv, TypeOK
<1>2. Declared(program)[n]
        = IntoVariantDeclares(throws[n], Declared(program)[n + 1])
  BY <1>1, DeclaredByKind
<1>3. throws[n] => Allowed(n, "exception")
  BY <1>2, IntoVariantFacts DEF Allowed
<1>4. CASE c \in Declared(program)[n + 1]
  BY <1>2, <1>3, <1>4, IntoVariantFacts DEF Allowed
<1>5. CASE Undeclared(n + 1, c)
  BY <1>3, <1>5, UndeclaredAround DEF Allowed
<1>. QED
  BY <1>4, <1>5 DEF Allowed

(* What an operation is sent, the one inside it was allowed to send. *)
LEMMA ReceivedAllowed ==
    ASSUME Inv, Declaring, NEW t \in Threads, NEW n \in Adaptors,
           At(t, "receive", n)
    PROVE  /\ calls[t].completion \in Completions
           /\ sent[n + 1] = calls[t].completion /\ sent[n + 1] # None
           /\ Allowed(n + 1, calls[t].completion)
<1>1. /\ n + 1 \in Operations
      /\ calls[t].completion \in Completions
      /\ sent[n + 1] = calls[t].completion /\ sent[n + 1] # None
  BY AtReceive, Nesting, DistinctAssumption
<1>. QED
  BY <1>1, DeclaresAllowed DEF Declaring

(* Every step of a handler keeps it. *)
LEMMA HandleDeclares ==
    ASSUME Inv, Declaring, NEW t \in Threads, NEW n \in Adaptors, Handle(t, n)
    PROVE  Declaring'
<1>0. /\ n \in Operations /\ n + 1 \in Operations /\ n \in 0 .. Depth
      /\ program \in Programs /\ n # Innermost
      /\ IsLet(n) => kind[n] \notin {"starts_on", "on", "task"}
  BY Nesting DEF Inv, TypeOK, IsLet, LetKinds
<1>1. CASE TaskStart(t, n)
  BY <1>1, QuietCall DEF TaskStart, sentVars, opVars, loopVars
<1>2. CASE TaskAwaits(t, n)
  BY <1>0, <1>2, AtBody, QuietConstruct DEF TaskAwaits, sentVars, loopVars
<1>3. CASE TaskEnds(t, n)
  <2>1. PICK c \in {"value", "exception"} : Send(t, n, c)
    BY <1>3 DEF TaskEnds
  <2>2. /\ kind[n] = "task" /\ Reached(n)
        /\ UNCHANGED <<program, result, alive, queue>>
    BY <1>3, AtBody DEF TaskEnds, opVars, loopVars
  <2>. QED
    BY <1>0, <2>1, <2>2, TaskAllowed, AllowedSent
<1>4. CASE TaskReceives(t, n)
  <2>1. /\ kind[n] = "task" /\ Reached(n)
        /\ UNCHANGED <<program, result, queue>>
    BY <1>4, AtReceive DEF TaskReceives, loopVars
  <2>2. CASE calls[t].completion = "stopped"
    <3>1. Send(t, n, "stopped") /\ UNCHANGED alive
      BY <1>4, <2>2 DEF TaskReceives
    <3>. QED
      BY <1>0, <2>1, <3>1, TaskAllowed, AllowedSent
  <2>3. CASE calls[t].completion # "stopped"
    <3>1. /\ Call(t, "body", n, None)
          /\ alive' = [m \in Operations |-> alive[m] /\ m <= n]
          /\ sent' = [m \in Operations |-> IF m <= n THEN sent[m] ELSE None]
      BY <1>4, <2>3 DEF TaskReceives
    <3>2. \A m \in Operations : sent'[m] \in {sent[m], None}
      BY <3>1
    <3>3. \A m \in Adaptors : alive'[m + 1] => alive[m + 1]
      BY <3>1, Nesting
    <3>. QED
      BY <2>1, <3>1, <3>2, <3>3, CalledWith, Quiet
  <2>. QED
    BY <2>2, <2>3
<1>5. CASE StartsOnStart(t, n)
  <2>1. /\ kind[n] = "starts_on" /\ Reached(n) /\ calls[t] # Idle
        /\ UNCHANGED <<program, result, alive>>
    BY <1>5, AtStart DEF StartsOnStart, opVars
  <2>2. CASE Schedule(t, n, "pool") /\ UNCHANGED sentVars
    BY <1>0, <2>1, <2>2, QuietSchedule DEF sentVars
  <2>3. CASE Send(t, n, "exception") /\ UNCHANGED loopVars
    BY <1>0, <2>1, <2>3, ThrownAllowed, AllowedSent DEF loopVars
  <2>. QED
    BY <1>5, <2>2, <2>3 DEF StartsOnStart
<1>6. CASE LetStart(t, n)
  <2>1. /\ IsLet(n) /\ calls[t] # Idle
        /\ UNCHANGED <<program, result, alive, sent>>
    BY <1>6, AtStart DEF LetStart, opVars, sentVars
  <2>2. CASE \E c \in program.upstream :
               Call(t, "first", n, c) /\ UNCHANGED loopVars
    <3>1. Awaited(n) = program.upstream
      BY <1>0, <2>1 DEF Awaited
    <3>. QED
      BY <2>1, <2>2, <3>1, QuietCall DEF loopVars
  <2>3. CASE Schedule(t, n, "anywhere")
    BY <1>0, <2>1, <2>3, QuietSchedule
  <2>. QED
    BY <1>6, <2>2, <2>3 DEF LetStart
<1>7. CASE FirstCompletes(t, n)
  <2> DEFINE c == calls[t].completion
  <2>1. /\ kind[n] = "starts_on" \/ IsLet(n)
        /\ calls[t].at = "first" /\ calls[t].op = n
        /\ Reached(n)
        /\ UNCHANGED <<program, result, queue>>
    BY <1>7, AtFirst DEF FirstCompletes, loopVars, At
  <2>2. c \in Awaited(n)
    BY <2>1 DEF Declaring, Offered
  <2>3. CASE Continues(n, c)
    <3>1. StartNext(t, n)
      BY <1>7, <2>3 DEF FirstCompletes
    <3>2. IsLet(n) => Gather(SelectedTag(kind[n]), program.upstream) # {}
      BY <1>0, <2>2, <2>3 DEF Awaited, Continues, Selects, Gather
    <3>. QED
      BY <2>1, <3>1, <3>2, StartNextDeclares
  <2>4. CASE ~Continues(n, c)
    <3>1. Send(t, n, c) /\ UNCHANGED alive
      BY <1>7, <2>4 DEF FirstCompletes, opVars
    <3>2. Allowed(n, c)
      BY <2>1, <2>2, <2>4, FirstAllowed
    <3>. QED
      BY <1>0, <2>1, <3>1, <3>2, AllowedSent
  <2>. QED
    BY <2>3, <2>4
<1>8. CASE SecondCompletes(t, n)
  <2> DEFINE c == calls[t].completion
  <2>1. /\ At(t, "receive", n)
        /\ kind[n] = "starts_on" \/ IsLet(n)
        /\ Reached(n) /\ Send(t, n, c)
        /\ UNCHANGED <<program, result, alive, queue>>
    BY <1>8, AtReceive DEF SecondCompletes, opVars, loopVars
  <2>2. sent[n + 1] # None /\ Allowed(n + 1, c)
    BY <2>1, ReceivedAllowed
  <2>3. IsLet(n) => Gather(SelectedTag(kind[n]), program.upstream) # {}
    BY <2>2 DEF Declaring, Upstream
  <2>4. Allowed(n, c)
    BY <2>1, <2>2, <2>3, PassedOn
  <2>. QED
    BY <1>0, <2>1, <2>4, AllowedSent
<1>9. CASE OnStart(t, n)
  BY <1>9, AtStart, StartNextDeclares DEF OnStart, loopVars
<1>10. CASE OnStores(t, n)
  <2>1. /\ kind[n] = "on" /\ Reached(n) /\ calls[t] # Idle
        /\ UNCHANGED <<program, result, alive>>
    BY <1>10, AtReceive DEF OnStores
  <2>2. CASE Schedule(t, n, Scheduler(kind, n)) /\ UNCHANGED sentVars
    <3>1. "value" \in Awaited(n)
      BY <1>0, <2>1, ProgramsAssumption DEF Awaited, IsLet, LetKinds
    <3>. QED
      BY <1>0, <2>1, <2>2, <3>1, QuietSchedule DEF sentVars
  <2>3. CASE Send(t, n, "exception") /\ UNCHANGED loopVars
    BY <1>0, <2>1, <2>3, ThrownAllowed, AllowedSent DEF loopVars
  <2>. QED
    BY <1>10, <2>2, <2>3 DEF OnStores
<1>11. CASE OnDelivers(t, n)
  <2> DEFINE c == calls[t].completion
  <2>1. /\ kind[n] = "on" /\ Suspended(n) /\ Reached(n)
        /\ calls[t].at = "first" /\ calls[t].op = n
        /\ Send(t, n, IF c = "value" THEN stored[n] ELSE c)
        /\ UNCHANGED <<program, result, alive, queue>>
    BY <1>11, AtFirst DEF OnDelivers, At, opVars, loopVars
  <2>2. ASSUME c = "value"
        PROVE  Allowed(n, stored[n])
    <3>1. stored[n] = sent[n + 1] /\ sent[n + 1] # None
      BY <2>1 DEF Suspended, IsOn
    <3>2. Allowed(n + 1, stored[n])
      BY <1>0, <3>1, DeclaresAllowed DEF Declaring
    <3>. QED
      BY <2>1, <3>2, PassedOn
  <2>3. ASSUME c # "value"
        PROVE  Allowed(n, c)
    <3>1. c \in Awaited(n)
      BY <2>1 DEF Declaring, Offered
    <3>. QED
      BY <2>1, <2>3, <3>1, DeliveryAllowed
  <2>. QED
    BY <1>0, <2>1, <2>2, <2>3, AllowedSent
<1>12. CASE TransformStart(t, n)
  BY <1>12, QuietCall DEF TransformStart, sentVars, opVars, loopVars
<1>13. CASE ThenReceives(t, n)
  <2> DEFINE c == calls[t].completion
  <2>1. /\ At(t, "receive", n)
        /\ kind[n] \in {"then", "upon_error", "upon_stopped"}
        /\ Reached(n)
        /\ UNCHANGED <<program, result, alive, queue>>
    BY <1>13, AtReceive DEF ThenReceives, opVars, loopVars
  <2>2. c \in Completions /\ Allowed(n + 1, c)
    BY <2>1, ReceivedAllowed
  <2>3. PICK d : Send(t, n, d) /\ Allowed(n, d)
    BY <1>13, <2>1, <2>2, ThenAllowed DEF ThenReceives
  <2>. QED
    BY <1>0, <2>1, <2>3, AllowedSent
<1>14. CASE IntoVariantReceives(t, n)
  <2> DEFINE c == calls[t].completion
  <2>1. /\ At(t, "receive", n) /\ kind[n] = "into_variant"
        /\ Reached(n)
        /\ UNCHANGED <<program, result, alive, queue>>
    BY <1>14, AtReceive DEF IntoVariantReceives, opVars, loopVars
  <2>2. c \in Completions /\ Allowed(n + 1, c)
    BY <2>1, ReceivedAllowed
  <2>3. PICK d : Send(t, n, d) /\ Allowed(n, d)
    BY <1>14, <2>1, <2>2, IntoVariantAllowed DEF IntoVariantReceives
  <2>. QED
    BY <1>0, <2>1, <2>3, AllowedSent
<1>. QED
  BY <1>1, <1>2, <1>3, <1>4, <1>5, <1>6, <1>7, <1>8, <1>9, <1>10, <1>11,
     <1>12, <1>13, <1>14
  DEF Handle

(* So does every step of the innermost operation. *)
LEMMA LeafDeclares ==
    ASSUME Inv, Declaring, NEW t \in Threads,
           JustStart(t) \/ OtherStart(t) \/ OtherCompletes(t)
    PROVE  Declaring'
<1>0. /\ Innermost \in Operations /\ Innermost \notin Adaptors
      /\ program \in Programs
      /\ Awaited(Innermost) = JustDeclares(kind[Innermost])
  BY Nesting DEF Inv, TypeOK, Awaited
<1>1. \A c \in Awaited(Innermost) : Allowed(Innermost, c)
  BY <1>0, DeclaredByKind DEF Allowed
<1>2. CASE JustStart(t)
  <2>1. PICK c : Send(t, Innermost, c) /\ Allowed(Innermost, c)
    BY <1>0, <1>1, <1>2 DEF JustStart
  <2>2. Reached(Innermost) /\ UNCHANGED <<program, result, alive, queue>>
    BY <1>2, AtStart DEF JustStart, opVars, loopVars
  <2>. QED
    BY <1>0, <2>1, <2>2, AllowedSent
<1>3. CASE OtherStart(t)
  <2>1. /\ Reached(Innermost) /\ Awaited(Innermost) = Completions
        /\ calls[t] # Idle /\ UNCHANGED <<program, result, alive>>
    BY <1>0, <1>3, AtStart DEF OtherStart, opVars, JustDeclares
  <2>2. ASSUME NEW c \in Completions, Send(t, Innermost, c),
               UNCHANGED loopVars
        PROVE  Declaring'
    BY <1>0, <1>1, <2>1, <2>2, AllowedSent DEF loopVars
  <2>3. ASSUME NEW where, Schedule(t, Innermost, where), UNCHANGED sentVars
        PROVE  Declaring'
    BY <1>0, <2>1, <2>3, QuietSchedule DEF sentVars, Completions
  <2>. QED
    BY <1>3, <2>2, <2>3 DEF OtherStart
<1>4. CASE OtherCompletes(t)
  <2>1. /\ Send(t, Innermost, calls[t].completion)
        /\ calls[t].at = "first" /\ calls[t].op = Innermost
        /\ Reached(Innermost)
        /\ UNCHANGED <<program, result, alive, queue>>
    BY <1>4, AtFirst DEF OtherCompletes, At, opVars, loopVars
  <2>2. calls[t].completion \in Awaited(Innermost)
    BY <2>1 DEF Declaring, Offered
  <2>. QED
    BY <1>0, <1>1, <2>1, <2>2, AllowedSent
<1>. QED
  BY <1>2, <1>3, <1>4

(* And so do the threads that call operations, and sync_wait(). *)
LEMMA WaitDeclares ==
    ASSUME Inv, Declaring,
           \/ \E t \in Threads :
                \/ \E n \in Operations : Complete(t, n)
                \/ Receive(t) \/ Finish(t)
           \/ Wait
           \/ UNCHANGED vars
    PROVE  Declaring'
<1>1. ASSUME NEW t \in Threads, NEW n \in Operations, Complete(t, n)
      PROVE  Declaring'
  <2>1. PICK c \in Awaited(n) : Call(t, "first", n, c)
    BY <1>1 DEF Complete
  <2>. QED
    BY <1>1, <2>1, QuietCall DEF Complete, sentVars, opVars, loopVars
<1>2. ASSUME NEW t \in Threads, Receive(t)
      PROVE  Declaring'
  <2>1. /\ calls[t].op = 0 /\ sent[1] = calls[t].completion
        /\ calls[t].completion # None
        /\ result' = calls[t].completion \/ result' = "exception"
        /\ Call(t, "finish", 0, None)
        /\ UNCHANGED <<program, sent, alive, queue>>
    BY <1>2, Inside DEF Receive, At, Fits, sentVars, opVars, loopVars
  <2>2. Allowed(1, calls[t].completion)
    BY <2>1, Nesting, DeclaresAllowed DEF Declaring
  <2>. QED
    BY <2>1, <2>2, CalledWith, Quiet
<1>3. ASSUME NEW t \in Threads, Finish(t)
      PROVE  Declaring'
  BY <1>3, Returned, Quiet DEF Finish, Loop!Finish, sentVars, opVars
<1>4. CASE Connect
  <2>1. 0 \in 0 .. Depth /\ 0 \notin Adaptors /\ 0 + 1 = 1 /\ Main \in Threads
    BY Nesting DEF Adaptors, Threads
  <2>. QED
    BY <1>4, <2>1, QuietConstruct DEF Connect, Construct, sentVars, loopVars
<1>5. CASE Run
  BY <1>5, Quiet DEF Run, sentVars, opVars, loopVars
<1>6. CASE LoopExecutes
  <2>1. PICK n \in Operations : queue = <<n>>
    BY <1>6 DEF LoopExecutes, Loop!Execute, Inv, Hand
  <2>2. /\ Call(Main, "first", n, "value") /\ Main \in Threads
        /\ queue' = <<>>
        /\ UNCHANGED <<program, result, alive, sent>>
    BY <1>6, <2>1 DEF LoopExecutes, Loop!Execute, Threads, sentVars, opVars
  <2>3. "value" \in Awaited(n)
    BY <2>1 DEF Declaring, Queued
  <2>4. \A m : queue' # <<m>>
    BY <2>2
  <2>. QED
    BY <2>2, <2>3, <2>4, CalledWith, Quiet
<1>7. CASE LoopReturns
  <2>1. /\ \A n \in Operations : ~alive'[n]
        /\ UNCHANGED <<program, result, calls, sent, queue>>
    BY <1>7 DEF LoopReturns, Loop!Return, sentVars
  <2>. QED
    BY <2>1, Nesting, Quiet
<1>8. CASE UNCHANGED vars
  BY <1>8, Quiet DEF vars, sentVars, opVars, loopVars
<1>. QED
  BY <1>1, <1>2, <1>3, <1>4, <1>5, <1>6, <1>7, <1>8 DEF Wait

(* No step breaks it. *)
LEMMA DeclaringStep == Inv /\ Declaring /\ [Next]_vars => Declaring'
  BY HandleDeclares, LeafDeclares, WaitDeclares DEF Next, Step

(* For any nesting and any program: no operation completes in a way that   *)
(* its sender does not declare, but where let_value() or a sister hides an *)
(* exception, and sync_wait() returns what is declared, or what storing it *)
(* threw.                                                                  *)
THEOREM DeclaresHolds == Spec => []Declares
<1>1. Declaring => Declares
  BY DEF Declaring
<1>. QED
  BY <1>1, Invariance, DeclaringInit, DeclaringStep, PTL DEF Spec

-----------------------------------------------------------------------------
(* Somebody goes on. *)

(* The operations to which a scheduler, or a sender upstream, completes. *)
Expects(n) == n = Innermost \/ IsLet(n) \/ kind[n] \in {"starts_on", "on"}

(* Nothing comes to an operation that has no use for it. *)
Expected ==
    /\ \A t \in Threads : calls[t].at = "first" => Expects(calls[t].op)
    /\ \A n \in Operations :
         waits[n] # "nowhere" \/ queue = <<n>> => Expects(n)

(* The loop is told to finish with a result at hand, and returns then. *)
Concluded ==
    /\ \A t \in Threads : calls[t].at = "finish" => result # None
    /\ finished => result # None
    /\ returned => finished
    /\ returned <=> phase = "returned"

(* A thread is in a call that its operation handles. *)
Handled(t) ==
    LET n == calls[t].op
    IN  \/ calls[t].at = "start" /\ n \in Operations
        \/ calls[t].at = "body" /\ n \in Adaptors /\ kind[n] = "task"
        \/ calls[t].at = "first" /\ n \in Operations /\ Expects(n)
        \/ calls[t].at = "receive" /\ n \in 0 .. Depth
        \/ calls[t].at = "finish" /\ n = 0

(* Until sync_wait() returns, with a result, another party is waited for,  *)
(* a thread is in a call which is handled, and in which the loop may still *)
(* be used, or all are back and run() has something to do.                 *)
NeverStuck ==
    /\ phase \in {"start", "run"} =>
         \/ Waiting # {}
         \/ ~finished /\ \E t \in Threads : Handled(t)
         \/ /\ \A t \in Threads : calls[t] = Idle
            /\ ~returned /\ (queue # <<>> \/ finished)
    /\ phase = "returned" => finished /\ result # None

Going == Expected /\ Concluded

(* What keeps it: whoever is called with a completion, left to wait or     *)
(* enqueued expects it, and the result stays.                              *)
LEMMA GoingKept ==
    ASSUME Inv, Going, UNCHANGED <<program, result, finished, returned>>,
           phase' = phase \/ (phase # "returned" /\ phase' # "returned"),
           \A t \in Threads :
               \/ calls'[t] = calls[t]
               \/ /\ calls'[t].at # "finish"
                  /\ calls'[t].at = "first" => Expects(calls'[t].op),
           \A n \in Operations :
               /\ waits'[n] = waits[n] \/ waits'[n] = "nowhere" \/ Expects(n)
               /\ queue' = <<n>> => queue = <<n>> \/ Expects(n)
    PROVE  Going'
<1>1. \A n : Expects(n)' <=> Expects(n)
  BY DEF Expects, IsLet, kind
<1>2. Expected'
  BY <1>1 DEF Going, Expected
<1>3. Concluded'
  BY DEF Going, Concluded
<1>. QED
  BY <1>2, <1>3 DEF Going

(* A thread goes on to another call. *)
LEMMA GoingCall ==
    ASSUME Inv, Going, NEW t \in Threads, NEW at, NEW n, NEW completion,
           Call(t, at, n, completion), at # "finish",
           at = "first" => Expects(n),
           UNCHANGED <<program, phase, result, queue, finished, returned>>,
           \A m \in Operations : waits'[m] = waits[m] \/ waits'[m] = "nowhere"
    PROVE  Going'
<1>1. \A u \in Threads :
        \/ calls'[u] = calls[u]
        \/ calls'[u].at = at /\ calls'[u].op = n
  BY CalledWith
<1>. QED
  BY <1>1, GoingKept

(* A thread sends a completion, or starts the operation inside. *)
LEMMA GoingSend ==
    ASSUME Inv, Going, NEW t \in Threads, NEW n, NEW completion,
           Send(t, n, completion),
           UNCHANGED <<program, phase, result, waits, loopVars>>
    PROVE  Going'
  BY GoingCall DEF Send, loopVars

LEMMA GoingStart ==
    ASSUME Inv, Going, NEW t \in Threads, NEW n,
           StartNext(t, n),
           UNCHANGED <<program, phase, result, waits, loopVars>>
    PROVE  Going'
  BY GoingCall DEF StartNext, Construct, Send, loopVars

(* A thread leaves an operation to a scheduler. *)
LEMMA GoingSchedule ==
    ASSUME Inv, Going, NEW t \in Threads, calls[t] # Idle,
           NEW n \in Operations, Expects(n), NEW where,
           Schedule(t, n, where), UNCHANGED <<program, phase, result>>
    PROVE  Going'
<1>1. \A u \in Threads : calls'[u] = calls[u] \/ calls'[u] = Idle
  BY DEF Schedule, Return, Inv, TypeOK
<1>2. UNCHANGED <<finished, returned>>
  BY DEF Schedule, Loop!Enqueue, loopVars
<1>3. \A m \in Operations :
        /\ waits'[m] = waits[m] \/ m = n
        /\ queue' = <<m>> => queue = <<m>> \/ m = n
  <2>1. CASE where = "loop"
    <3>1. queue' = <<n>> /\ waits' = waits
      BY <2>1, Holds DEF Schedule, Loop!Enqueue
    <3>2. \A m : queue' = <<m>> => m = n
      BY <3>1
    <3>. QED
      BY <3>1, <3>2
  <2>2. CASE where # "loop"
    BY <2>2 DEF Schedule, loopVars, Inv, TypeOK
  <2>. QED
    BY <2>1, <2>2
<1>4. Idle.at = "idle"
  BY IdleFits
<1>. QED
  BY <1>1, <1>2, <1>3, <1>4, GoingKept

(* No step of an adaptor or a task breaks it. *)
LEMMA HandleGoes ==
    ASSUME Inv, Going, NEW t \in Threads, NEW n \in Adaptors, Handle(t, n)
    PROVE  Going'
<1>0. n \in Operations
  BY Nesting
<1>1. CASE TaskStart(t, n) \/ TaskAwaits(t, n) \/ TransformStart(t, n)
  BY <1>1, GoingCall DEF TaskStart, TaskAwaits, TransformStart, loopVars
<1>2. CASE TaskEnds(t, n) \/ SecondCompletes(t, n) \/ ThenReceives(t, n)
           \/ IntoVariantReceives(t, n) \/ OnDelivers(t, n)
  BY <1>2, GoingSend
  DEF TaskEnds, SecondCompletes, ThenReceives, IntoVariantReceives, OnDelivers
<1>3. CASE TaskReceives(t, n)
  BY <1>3, GoingCall DEF TaskReceives, Send, loopVars
<1>4. CASE StartsOnStart(t, n)
  BY <1>0, <1>4, AtStart, GoingSchedule, GoingSend
  DEF StartsOnStart, Expects
<1>5. CASE LetStart(t, n)
  BY <1>0, <1>5, AtStart, GoingSchedule, GoingCall
  DEF LetStart, Expects, loopVars
<1>6. CASE FirstCompletes(t, n)
  BY <1>6, GoingSend, GoingStart DEF FirstCompletes
<1>7. CASE OnStart(t, n)
  BY <1>7, GoingStart DEF OnStart
<1>8. CASE OnStores(t, n)
  BY <1>0, <1>8, AtReceive, GoingSchedule, GoingSend
  DEF OnStores, Expects
<1>. QED
  BY <1>1, <1>2, <1>3, <1>4, <1>5, <1>6, <1>7, <1>8 DEF Handle

(* No other step does. *)
LEMMA GoingStep == Inv /\ Going /\ [Next]_vars => Going'
<1> SUFFICES ASSUME Inv, Going, [Next]_vars PROVE Going'
  OBVIOUS
<1>1. ASSUME NEW t \in Threads, JustStart(t) \/ OtherCompletes(t)
      PROVE  Going'
  BY <1>1, GoingSend DEF JustStart, OtherCompletes
<1>2. ASSUME NEW t \in Threads, OtherStart(t) PROVE Going'
  BY <1>2, Nesting, AtStart, GoingSend, GoingSchedule DEF OtherStart, Expects
<1>3. ASSUME NEW t \in Threads, Receive(t) PROVE Going'
  <2>1. /\ Call(t, "finish", 0, None) /\ ~finished
        /\ UNCHANGED <<program, phase, waits, queue, finished, returned>>
    BY <1>3, Inside, Holds DEF Receive, At, loopVars
  <2>2. result' # None
    BY <1>3, Inside, DistinctAssumption DEF Receive, At, Fits, Completions
  <2>3. \A u \in Threads : calls'[u] = calls[u] \/ calls'[u].at = "finish"
    BY <2>1, CalledWith
  <2>4. \A n : Expects(n)' <=> Expects(n)
    BY <2>1 DEF Expects, IsLet, kind
  <2>. QED
    BY <2>1, <2>2, <2>3, <2>4 DEF Going, Expected, Concluded
<1>4. ASSUME NEW t \in Threads, Finish(t) PROVE Going'
  <2>1. /\ calls[t].at = "finish" /\ Return(t) /\ finished'
        /\ UNCHANGED <<program, phase, result, waits, queue, returned>>
    BY <1>4 DEF Finish, At, Loop!Finish
  <2>2. \A u \in Threads : calls'[u] = calls[u] \/ calls'[u] = Idle
    BY <2>1 DEF Return, Inv, TypeOK
  <2>3. \A n : Expects(n)' <=> Expects(n)
    BY <2>1 DEF Expects, IsLet, kind
  <2>4. \A u \in Threads :
          calls'[u] = calls[u] \/ calls'[u].at \notin {"first", "finish"}
    BY <2>2, IdleFits
  <2>5. Expected'
    BY <2>1, <2>3, <2>4 DEF Going, Expected
  <2>6. Concluded'
    <3>1. result # None
      BY <1>4, <2>1 DEF Going, Concluded
    <3>. QED
      BY <2>1, <2>4, <3>1 DEF Going, Concluded
  <2>. QED
    BY <2>5, <2>6 DEF Going
<1>5. ASSUME NEW t \in Threads, NEW n \in Operations, Complete(t, n)
      PROVE  Going'
  <2>1. Expects(n)
    BY <1>5 DEF Complete, Going, Expected
  <2>2. \A m \in Operations : waits'[m] = waits[m] \/ waits'[m] = "nowhere"
    BY <1>5 DEF Complete, Inv, TypeOK
  <2>. QED
    BY <1>5, <2>1, <2>2, GoingCall DEF Complete, loopVars
<1>6. CASE Connect
  <2>1. \A u \in Threads : calls'[u] = calls[u] \/ calls'[u].at = "start"
    BY <1>6, CalledWith DEF Connect, Construct, Threads
  <2>. QED
    BY <1>6, <2>1, GoingKept DEF Connect, loopVars
<1>7. CASE Run
  BY <1>7, GoingKept DEF Run, loopVars
<1>8. CASE LoopExecutes
  <2>1. PICK n \in Operations : queue = <<n>>
    BY <1>8 DEF LoopExecutes, Loop!Execute, Inv, Hand
  <2>2. /\ Call(Main, "first", n, "value") /\ Main \in Threads
        /\ queue' = <<>>
        /\ UNCHANGED <<program, phase, result, waits, finished, returned>>
    BY <1>8, <2>1 DEF LoopExecutes, Loop!Execute, Threads
  <2>3. Expects(n)
    BY <2>1 DEF Going, Expected
  <2>4. \A u \in Threads :
          calls'[u] = calls[u] \/ (calls'[u].at = "first" /\ calls'[u].op = n)
    BY <2>2, CalledWith
  <2>5. \A m : queue' # <<m>>
    BY <2>2
  <2>. QED
    BY <2>2, <2>3, <2>4, <2>5, GoingKept
<1>9. CASE LoopReturns
  <2>1. /\ finished /\ returned' = TRUE /\ phase' = "returned"
        /\ UNCHANGED <<program, result, calls, waits, queue, finished>>
    BY <1>9 DEF LoopReturns, Loop!Return
  <2>2. \A n : Expects(n)' <=> Expects(n)
    BY <2>1 DEF Expects, IsLet, kind
  <2>. QED
    BY <2>1, <2>2 DEF Going, Expected, Concluded
<1>10. CASE UNCHANGED vars
  BY <1>10, GoingKept DEF vars, loopVars
<1>. QED
  BY <1>1, <1>2, <1>3, <1>4, <1>5, <1>6, <1>7, <1>8, <1>9, <1>10, HandleGoes
  DEF Next, Step, Wait

(* For any nesting and any program, what Returns rests on: as long as      *)
(* sync_wait() does not wait for another party, a thread is in a call that *)
(* its operation handles, before the loop is told to finish, or run() has  *)
(* something to do; and it returns with a result.                          *)
THEOREM KeepsOn == Spec => []NeverStuck
<1>1. Init => Going
  <2> SUFFICES ASSUME Init PROVE Going
    OBVIOUS
  <2>1. \A n : queue # <<n>>
    BY DEF Init, Loop!Init
  <2>. QED
    BY <2>1 DEF Init, Loop!Init, Idle, Going, Expected, Concluded
<1>2. ASSUME Inv, Going PROVE NeverStuck
  <2>1. phase = "returned" => finished /\ result # None
    BY <1>2 DEF Going, Concluded
  <2>2. ASSUME phase \in {"start", "run"}, ~finished, Waiting = {}
        PROVE  (\E t \in Threads : Handled(t))
               \/ ((\A t \in Threads : calls[t] = Idle) /\ queue # <<>>)
    <3>1. ASSUME NEW t \in Threads, calls[t] # Idle
          PROVE  Handled(t)
      <4>1. /\ calls[t].at \in {"idle", "start", "body", "first", "receive",
                                "finish"}
            /\ calls[t].at # "idle"
            /\ Fits(t, calls[t].at, calls[t].op, calls[t].completion)
        BY <1>2, <3>1 DEF Inv, TypeOK, Called
      <4>. QED
        BY <1>2, <3>1, <4>1 DEF Fits, Handled, Going, Expected
    <3>2. ASSUME NEW n \in Operations, queue = <<n>> PROVE queue # <<>>
      BY <3>2
    <3>. QED
      BY <1>2, <2>2, <3>1, <3>2 DEF Inv, Hand, Waiting
  <2>3. phase \in {"start", "run"} => ~returned
    BY <1>2 DEF Going, Concluded
  <2>4. finished => \A t \in Threads : calls[t] = Idle
    BY <1>2 DEF Inv, Hand
  <2>. QED
    BY <2>1, <2>2, <2>3, <2>4 DEF NeverStuck
<1>. QED
  BY <1>1, <1>2, GoingStep, Invariance, PTL DEF Spec

(* The loop is used as a loop may be: whatever sync_wait() and the         *)
(* operations do to it is a step of its contract, which RunLoop implements.*)
THEOREM LoopIsContract == Spec => Loop!Spec
<1>1. Init => Loop!Init
  BY DEF Init
<1>2. ASSUME Inv, [Next]_vars PROVE [Loop!Next]_(Loop!vars)
  <2>1. ASSUME NEW t \in Threads, NEW n \in Operations, NEW where,
               Schedule(t, n, where)
        PROVE  [Loop!Next]_(Loop!vars)
    BY <2>1 DEF Schedule, loopVars, Loop!Next, Loop!vars
  <2>2. CASE UNCHANGED loopVars
    BY <2>2 DEF loopVars, Loop!vars
  <2>3. ASSUME NEW t \in Threads, NEW n \in Adaptors, Handle(t, n)
        PROVE  [Loop!Next]_(Loop!vars)
    <3>1. \/ UNCHANGED loopVars
          \/ \E where : Schedule(t, n, where)
      BY <2>3
      DEF Handle, TaskStart, TaskAwaits, TaskEnds, TaskReceives,
          StartsOnStart, LetStart, FirstCompletes, SecondCompletes, OnStart,
          OnStores, OnDelivers, TransformStart, ThenReceives,
          IntoVariantReceives
    <3>. QED
      BY <2>1, <2>2, <3>1, Nesting
  <2>4. ASSUME NEW t \in Threads,
               JustStart(t) \/ OtherStart(t) \/ OtherCompletes(t)
               \/ Receive(t) \/ \E n \in Operations : Complete(t, n)
        PROVE  [Loop!Next]_(Loop!vars)
    <3>1. \/ UNCHANGED loopVars
          \/ \E where : Schedule(t, Innermost, where)
      BY <2>4
      DEF JustStart, OtherStart, OtherCompletes, Receive, Complete
    <3>. QED
      BY <2>1, <2>2, <3>1, Nesting
  <2>5. CASE LoopExecutes \/ LoopReturns \/ \E t \in Threads : Finish(t)
    BY <2>5 DEF LoopExecutes, LoopReturns, Finish, Loop!Next
  <2>6. CASE Connect \/ Run \/ UNCHANGED vars
    BY <2>2, <2>6 DEF Connect, Run, vars
  <2>. QED
    BY <1>2, <2>3, <2>4, <2>5, <2>6 DEF Next, Step, Wait
<1>. QED
  BY <1>1, <1>2, Invariance, PTL DEF Spec, Loop!Spec
=============================================================================
