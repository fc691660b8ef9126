------------------------- MODULE BatchEngineProofs -------------------------
(***************************************************************************)
(* Proofs about continuous batching: for any number of prompts, slots and  *)
(* tokens, the scheduler's queues, the engine's slot map and the rows of   *)
(* the slots stay in agreement, and generate_batch keeps the contract of   *)
(* its callers.                                                            *)
(*                                                                         *)
(* None of the four properties is inductive: each speaks of the moments    *)
(* when the loops of the code have come to rest.  BatchInv says what is    *)
(* true in between, part by part: the queues and the states (IQueues), the *)
(* stack and the map (IStack, ISlots), what is left of the current loop    *)
(* (ITodo), how much of the batch still describes the queues (IBatch), the *)
(* token counts (IOutput) and the rows of each slot (IRows).               *)
(*                                                                         *)
(* First come lemmas about queues, with what Keep leaves of one (KeepLoops *)
(* to KeepOthers), then one lemma per action, then the theorems.           *)
(***************************************************************************)
EXTENDS BatchEngine, FiniteSetTheorems, TLAPS

\* A queue names no request twice.
Distinct(queue) == \A i, j \in DOMAIN queue : queue[i] = queue[j] => i = j

\* The requests that have a slot, or are about to be given one.
Served == In("Prefilling") \cup In("Decoding")

\* waiting_ holds the requests that wait, oldest first; running_ those that are
\* served, each once, and no more than there are slots.
IQueues ==
  /\ \A i, j \in DOMAIN waiting : i < j => waiting[i] < waiting[j]
  /\ ToSet(waiting) = In("Waiting")
  /\ Distinct(running)
  /\ ToSet(running) = Served
  /\ Len(running) <= slots

\* Free slots and mapped slots are disjoint, and together they are all slots.
\* A request of the batch is in running_ before it has its slot: while slots are
\* assigned, the stack is larger by as many requests as are left to do.
Unassigned == IF pc = "assign" THEN ToSet(todo) ELSE {}

IStack ==
  /\ Distinct(freeSlots)
  /\ \A a, b \in DOMAIN idSlot : idSlot[a] = idSlot[b] => a = b
  /\ \A s \in Slot : s \in ToSet(freeSlots)
                       <=> \A id \in DOMAIN idSlot : idSlot[id] # s

ISlots ==
  /\ DOMAIN idSlot = Served \ Unassigned
  /\ Len(freeSlots) + Len(running) = slots + IF pc = "assign" THEN Len(todo) ELSE 0

\* The batch is a snapshot of the queues.  A request of it stays as it was until
\* its own iteration comes: first the new ones, then the others.
ITodo ==
  /\ pc \in {"assign", "first", "token"} => todo # <<>> /\ Distinct(todo)
  /\ pc = "assign" => ToSet(todo) \subseteq In("Prefilling")
  /\ pc = "first" => ToSet(todo) = In("Prefilling")
  /\ pc = "token" => ToSet(todo) \subseteq In("Decoding")

IBatch ==
  /\ pc \in {"loop", "decode", "token"} => In("Prefilling") = {}
  /\ pc \in {"assign", "prefill"} =>
       /\ batch.prefill # <<>> /\ Distinct(batch.prefill)
       /\ ToSet(batch.prefill) = In("Prefilling")
       /\ ToSet(batch.decode) = In("Decoding")
  /\ pc \in {"assign", "prefill", "first", "decode"} =>
       /\ Distinct(batch.decode)
       /\ ToSet(batch.decode) \subseteq In("Decoding")

\* A request has no token before its prefill, and one from then on.
IOutput ==
  /\ \A id \in In("Waiting") \cup In("Prefilling") : output[id] = 0
  /\ \A id \in In("Decoding") : output[id] > 0

\* The first n tokens of request id.
Tokens(id, n) == [i \in 1 .. n |-> Token(id, i - 1)]

\* What a slot holds: after the prefill the prompt, then all tokens but the last,
\* and that one too between the decoding and the sample that follows it.
Rows(id) ==
  prompt[id] + output[id] - (IF pc = "token" /\ id \in ToSet(todo) THEN 0 ELSE 1)

IRows ==
  /\ pc = "first" =>
       \A id \in In("Prefilling") : fed[idSlot[id]] = Tokens(id, prompt[id])
  /\ \A id \in In("Decoding") : fed[idSlot[id]] = Tokens(id, Rows(id))

BatchInv ==
  /\ TypeOK /\ IQueues /\ IStack /\ ISlots /\ ITodo /\ IBatch /\ IOutput /\ IRows
  /\ WorkConserving

-----------------------------------------------------------------------------
\* Induction up to a bound, as a property of a set: NatInduction takes an
\* operator, which the provers cannot instantiate, but well-foundedness of the
\* naturals is a fact about sets.
LEMMA InductionUpTo ==
  ASSUME NEW n \in Nat, NEW S, 0 \in S,
         \A i \in 0 .. n - 1 : i \in S => i + 1 \in S
  PROVE  0 .. n \subseteq S
<1> DEFINE R == {ss \in Nat \X Nat : ss[1] < ss[2]}
           T == (0 .. n) \ S
<1>1. IsWellFoundedOn(R, Nat)
  BY NatLessThanWellFounded DEF OpToRel
<1>2. SUFFICES ASSUME T # {}  PROVE FALSE
  OBVIOUS
<1>3. PICK x \in T : \A y \in T : <<y, x>> \notin R
  <2>1. T \subseteq Nat
    OBVIOUS
  <2> HIDE DEF R, T
  <2> QED
    BY <1>1, <1>2, <2>1, WFMin
<1>4. x # 0 /\ x \in 0 .. n
  OBVIOUS
<1>5. x - 1 \in 0 .. n - 1 /\ x - 1 \notin T
  <2>1. x - 1 \in 0 .. n - 1 /\ x \in Nat /\ x - 1 \in Nat
    BY <1>4
  <2>2. <<x - 1, x>> \in R
    BY <2>1
  <2> HIDE DEF R, T
  <2> QED
    BY <1>3, <2>1, <2>2
<1>6. x - 1 \in S
  BY <1>5
<1>7. (x - 1) + 1 \in S
  BY <1>5, <1>6
<1> QED
  BY <1>4, <1>7

\* kept of Keep, up to index n.
Keeps(g, q, S, n) ==
  g = [i \in 0 .. n |->
         IF i = 0 THEN <<>>
         ELSE IF q[i] \in S THEN Append(g[i - 1], q[i]) ELSE g[i - 1]]

LEMMA KeepsValue ==
  ASSUME NEW q, NEW S, NEW n \in Nat, NEW g, Keeps(g, q, S, n)
  PROVE  /\ g[0] = <<>>
         /\ \A i \in 1 .. n :
              g[i] = IF q[i] \in S THEN Append(g[i - 1], q[i]) ELSE g[i - 1]
<1> DEFINE h == [k \in 0 .. n |->
                   IF k = 0 THEN <<>>
                   ELSE IF q[k] \in S THEN Append(g[k - 1], q[k]) ELSE g[k - 1]]
<1>1. h[0] = <<>>
  OBVIOUS
<1>2. \A i \in 1 .. n :
        h[i] = IF q[i] \in S THEN Append(g[i - 1], q[i]) ELSE g[i - 1]
  OBVIOUS
<1>3. g = h
  BY DEF Keeps
<1> HIDE DEF h
<1> QED
  BY <1>1, <1>2, <1>3

LEMMA KeepsExists ==
  ASSUME NEW q, NEW S, Len(q) \in Nat
  PROVE  \E g : Keeps(g, q, S, Len(q))
<1> DEFINE P == {n \in Nat : \E g : Keeps(g, q, S, n)}
<1>1. 0 \in P
  <2>1. Keeps([i \in 0 .. 0 |-> <<>>], q, S, 0)
    BY DEF Keeps
  <2> QED
    BY <2>1
<1>2. \A n \in 0 .. Len(q) - 1 : n \in P => n + 1 \in P
  <2> SUFFICES ASSUME NEW n \in Nat, NEW g, Keeps(g, q, S, n)
               PROVE  \E h : Keeps(h, q, S, n + 1)
    OBVIOUS
  <2> DEFINE h == [i \in 0 .. n + 1 |->
                     IF i <= n THEN g[i]
                     ELSE IF q[i] \in S THEN Append(g[n], q[i]) ELSE g[n]]
  <2>1. \A i \in 0 .. n : h[i] = g[i]
    OBVIOUS
  <2>2. \A i \in 1 .. n + 1 : h[i - 1] = g[i - 1]
    BY <2>1
  <2>3. \A i \in 0 .. n + 1 :
          h[i] = IF i = 0 THEN <<>>
                 ELSE IF q[i] \in S THEN Append(h[i - 1], q[i]) ELSE h[i - 1]
    <3> TAKE i \in 0 .. n + 1
    <3>1. CASE i <= n
      <4>1. i \in 0 .. n /\ (i # 0 => i \in 1 .. n /\ i \in 1 .. n + 1)
        BY <3>1
      <4>2. g[i] = IF i = 0 THEN <<>>
                   ELSE IF q[i] \in S THEN Append(g[i - 1], q[i]) ELSE g[i - 1]
        <5> HIDE DEF h
        <5>1. g[0] = <<>> /\ \A k \in 1 .. n :
                g[k] = IF q[k] \in S THEN Append(g[k - 1], q[k]) ELSE g[k - 1]
          BY KeepsValue
        <5> QED
          BY <4>1, <5>1
      <4>3. h[i] = g[i] /\ (i # 0 => h[i - 1] = g[i - 1])
        BY <4>1, <2>1, <2>2
      <4> HIDE DEF h
      <4> QED
        BY <4>2, <4>3
    <3>2. CASE i = n + 1
      BY <3>2, <2>2
    <3> QED
      BY <3>1, <3>2
  <2>4. Keeps(h, q, S, n + 1)
    <3> HIDE DEF h
    <3>1. h = [i \in 0 .. n + 1 |-> h[i]]
      BY DEF h
    <3> QED
      BY <3>1, <2>3 DEF Keeps
  <2> QED
    BY <2>4
<1>3. 0 .. Len(q) \subseteq P
  BY <1>1, <1>2, InductionUpTo
<1> QED
  BY <1>3

\* One step of the loop that keeps some of a queue.
Loop(g, q, S) ==
  /\ Keep(q, S) = g[Len(q)]
  /\ g[0] = <<>>
  /\ \A i \in 0 .. Len(q) - 1 :
       g[i + 1] = IF q[i + 1] \in S THEN Append(g[i], q[i + 1]) ELSE g[i]

LEMMA KeepLoops ==
  ASSUME NEW q, NEW S, Len(q) \in Nat
  PROVE  \E g : Loop(g, q, S)
<1> DEFINE g == CHOOSE g : Keeps(g, q, S, Len(q))
<1>1. Keep(q, S) = g[Len(q)]
  BY Zenon DEF Keep, Keeps
<1>2. Keeps(g, q, S, Len(q))
  BY KeepsExists
<1> HIDE DEF g
<1>3. /\ g[0] = <<>>
      /\ \A i \in 1 .. Len(q) :
           g[i] = IF q[i] \in S THEN Append(g[i - 1], q[i]) ELSE g[i - 1]
  BY <1>2, KeepsValue, SMTT(20)
<1>4. ASSUME NEW i \in 0 .. Len(q) - 1
      PROVE  g[i + 1] = IF q[i + 1] \in S THEN Append(g[i], q[i + 1]) ELSE g[i]
  <2>1. i + 1 \in 1 .. Len(q) /\ (i + 1) - 1 = i
    OBVIOUS
  <2>2. g[i + 1] = IF q[i + 1] \in S THEN Append(g[(i + 1) - 1], q[i + 1])
                                     ELSE g[(i + 1) - 1]
    BY <1>3, <2>1
  <2> QED
    BY <2>1, <2>2
<1> QED
  BY <1>1, <1>3, <1>4 DEF Loop

\* A loop that keeps everything, nothing, or all but one place.
LEMMA KeepAll ==
  ASSUME NEW A, NEW q \in Seq(A), NEW S, ToSet(q) \subseteq S
  PROVE  Keep(q, S) = q
<1>1. Len(q) \in Nat
  OBVIOUS
<1>2. PICK g : Loop(g, q, S)
  BY <1>1, KeepLoops
<1> DEFINE P == {i \in 0 .. Len(q) : g[i] = SubSeq(q, 1, i)}
<1>3. 0 \in P
  <2>1. 0 \in 0 .. Len(q) /\ SubSeq(q, 1, 0) = <<>>
    OBVIOUS
  <2> QED
    BY <1>2, <2>1 DEF Loop
<1>4. \A i \in 0 .. Len(q) - 1 : i \in P => i + 1 \in P
  <2> SUFFICES ASSUME NEW i \in 0 .. Len(q) - 1, g[i] = SubSeq(q, 1, i)
               PROVE  g[i + 1] = SubSeq(q, 1, i + 1)
    OBVIOUS
  <2>1. q[i + 1] \in S
    BY DEF ToSet
  <2>2. g[i + 1] = Append(SubSeq(q, 1, i), q[i + 1])
    BY <1>2, <2>1 DEF Loop
  <2>3. Append(SubSeq(q, 1, i), q[i + 1]) = SubSeq(q, 1, i + 1)
    OBVIOUS
  <2> QED
    BY <2>2, <2>3
<1>5. 0 .. Len(q) \subseteq P
  <2> HIDE DEF P
  <2> QED
    BY <1>1, <1>3, <1>4, InductionUpTo
<1>6. g[Len(q)] = SubSeq(q, 1, Len(q))
  BY <1>5
<1> QED
  BY <1>2, <1>6 DEF Loop

LEMMA KeepNone ==
  ASSUME NEW A, NEW q \in Seq(A), NEW S, ToSet(q) \cap S = {}
  PROVE  Keep(q, S) = <<>>
<1>1. Len(q) \in Nat
  OBVIOUS
<1>2. PICK g : Loop(g, q, S)
  BY <1>1, KeepLoops
<1> DEFINE P == {i \in 0 .. Len(q) : g[i] = <<>>}
<1>3. 0 \in P
  BY <1>1, <1>2 DEF Loop
<1>4. \A i \in 0 .. Len(q) - 1 : i \in P => i + 1 \in P
  <2> SUFFICES ASSUME NEW i \in 0 .. Len(q) - 1, g[i] = <<>>
               PROVE  g[i + 1] = <<>>
    OBVIOUS
  <2>1. q[i + 1] \notin S
    BY DEF ToSet
  <2> QED
    BY <1>2, <2>1 DEF Loop
<1>5. 0 .. Len(q) \subseteq P
  <2> HIDE DEF P
  <2> QED
    BY <1>1, <1>3, <1>4, InductionUpTo
<1> QED
  BY <1>1, <1>2, <1>5 DEF Loop

\* queue without its k-th place.
Without(queue, k) ==
  [j \in 1 .. Len(queue) - 1 |-> IF j < k THEN queue[j] ELSE queue[j + 1]]

LEMMA KeepOthers ==
  ASSUME NEW A, NEW q \in Seq(A), NEW S, NEW k \in 1 .. Len(q),
         \A i \in 1 .. Len(q) : q[i] \in S <=> i # k
  PROVE  Keep(q, S) = Without(q, k)
<1>1. Len(q) \in Nat /\ k \in Nat \ {0}
  OBVIOUS
<1>2. PICK g : Loop(g, q, S)
  BY <1>1, KeepLoops
<1> DEFINE Cut(i) == [j \in 1 .. i - 1 |-> IF j < k THEN q[j] ELSE q[j + 1]]
           P == {i \in 0 .. Len(q) : g[i] = IF i < k THEN SubSeq(q, 1, i) ELSE Cut(i)}
<1>3. 0 \in P
  <2>1. 0 \in 0 .. Len(q) /\ SubSeq(q, 1, 0) = <<>> /\ 0 < k
    BY <1>1
  <2> QED
    BY <1>2, <2>1 DEF Loop
<1>4. \A i \in 0 .. Len(q) - 1 : i \in P => i + 1 \in P
  <2> SUFFICES ASSUME NEW i \in 0 .. Len(q) - 1,
                      g[i] = IF i < k THEN SubSeq(q, 1, i) ELSE Cut(i)
               PROVE  g[i + 1] = IF i + 1 < k THEN SubSeq(q, 1, i + 1) ELSE Cut(i + 1)
    <3> HIDE DEF Cut
    <3>1. \A i \in 0 .. Len(q) - 1 : i \in 0 .. Len(q) /\ i + 1 \in 0 .. Len(q)
      OBVIOUS
    <3> QED
      BY <3>1
  <2>1. i \in Nat /\ i + 1 \in 1 .. Len(q)
    OBVIOUS
  <2> HIDE DEF Cut
  <2>2. CASE i + 1 < k
    <3>1. g[i + 1] = Append(SubSeq(q, 1, i), q[i + 1])
      <4>1. i < k /\ i + 1 # k
        BY <1>1, <2>1, <2>2
      <4>2. g[i + 1] = IF q[i + 1] \in S THEN Append(g[i], q[i + 1]) ELSE g[i]
        BY <1>2 DEF Loop
      <4> QED
        BY <4>1, <4>2, <2>1
    <3>2. Append(SubSeq(q, 1, i), q[i + 1]) = SubSeq(q, 1, i + 1)
      OBVIOUS
    <3> QED
      BY <3>1, <3>2, <2>2
  <2>3. CASE i + 1 = k
    <3>1. g[i + 1] = SubSeq(q, 1, i)
      <4>1. i < k
        BY <1>1, <2>1, <2>3
      <4>2. g[i + 1] = IF q[i + 1] \in S THEN Append(g[i], q[i + 1]) ELSE g[i]
        BY <1>2 DEF Loop
      <4> QED
        BY <4>1, <4>2, <2>1, <2>3
    <3>2. SubSeq(q, 1, i) = Cut(i + 1)
      BY <2>3 DEF Cut
    <3> QED
      BY <3>1, <3>2, <2>3, <1>1
  <2>4. CASE i + 1 > k
    <3>1. g[i + 1] = Append(Cut(i), q[i + 1])
      <4>1. ~ (i < k) /\ i + 1 # k
        BY <1>1, <2>1, <2>4
      <4>2. g[i + 1] = IF q[i + 1] \in S THEN Append(g[i], q[i + 1]) ELSE g[i]
        BY <1>2 DEF Loop
      <4> QED
        BY <4>1, <4>2, <2>1
    <3>2. Append(Cut(i), q[i + 1]) = Cut(i + 1)
      <4>1. Cut(i) \in Seq(A) /\ Len(Cut(i)) = i - 1
        BY <2>4 DEF Cut
      <4> QED
        BY <4>1, <2>4 DEF Cut
    <3>3. ~ (i + 1 < k)
      BY <1>1, <2>1, <2>4
    <3> QED
      BY <3>1, <3>2, <3>3
  <2> QED
    BY <1>1, <2>1, <2>2, <2>3, <2>4
<1>5. 0 .. Len(q) \subseteq P
  <2> HIDE DEF P
  <2> QED
    BY <1>1, <1>3, <1>4, InductionUpTo
<1>6. g[Len(q)] = Cut(Len(q))
  <2>1. Len(q) \in 0 .. Len(q) /\ ~ (Len(q) < k)
    BY <1>1
  <2> HIDE DEF Cut
  <2> QED
    BY <1>5, <2>1
<1> QED
  BY <1>2, <1>6 DEF Without, Loop

-----------------------------------------------------------------------------
\* The smaller of two integers.
LEMMA MinOfTwo ==
  ASSUME NEW a \in Int, NEW b \in Int
  PROVE  Min({a, b}) = IF a <= b THEN a ELSE b
<1> DEFINE m == IF a <= b THEN a ELSE b
<1>1. m \in {a, b} /\ \A y \in {a, b} : m <= y
  OBVIOUS
<1>2. \A x \in {a, b} : (\A y \in {a, b} : x <= y) => x = m
  OBVIOUS
<1>3. Min({a, b}) \in {a, b} /\ \A y \in {a, b} : Min({a, b}) <= y
  BY <1>1 DEF Min
<1> QED
  BY <1>2, <1>3

\* Numbers from zero, listed from one.
LEMMA Counting ==
  ASSUME NEW n \in Nat
  PROVE  LET q == [i \in 1 .. n |-> i - 1]
         IN  /\ q \in Seq(0 .. n - 1) /\ Len(q) = n
             /\ ToSet(q) = 0 .. n - 1
             /\ Distinct(q)
             /\ \A i, j \in DOMAIN q : i < j => q[i] < q[j]
<1> DEFINE q == [i \in 1 .. n |-> i - 1]
<1>1. q \in Seq(0 .. n - 1) /\ Len(q) = n /\ DOMAIN q = 1 .. n
  OBVIOUS
<1>2. \A x \in 0 .. n - 1 : x + 1 \in 1 .. n /\ q[x + 1] = x
  OBVIOUS
<1>3. \A i \in 1 .. n : q[i] = i - 1 /\ q[i] \in 0 .. n - 1
  OBVIOUS
<1> HIDE DEF q
<1>4. ToSet(q) = 0 .. n - 1
  BY <1>1, <1>2, <1>3 DEF ToSet
<1>5. Distinct(q) /\ \A i, j \in DOMAIN q : i < j => q[i] < q[j]
  BY <1>1, <1>3 DEF Distinct
<1> QED
  BY <1>1, <1>4, <1>5 DEF q

LEMMA InitInvariant == Init => BatchInv
<1> SUFFICES ASSUME Init  PROVE BatchInv
  OBVIOUS
<1>1. Request = {} /\ Slot = {} /\ slots = 0
  BY DEF Init, Request, Slot
<1>2. \A s : In(s) = {}
  BY <1>1 DEF In
<1>3. TypeOK
  <2>2. 0 \in 0 .. MaxRequests /\ prompt \in [0 .. 0 - 1 -> PromptLens]
    BY BatchAssumption DEF Init
  <2> QED
    BY <1>1, <2>2 DEF Init, TypeOK, Idle, NoBatch
<1>4. IQueues /\ IStack /\ ISlots
  BY <1>1, <1>2 DEF Init, IQueues, IStack, ISlots, Distinct, Served, Unassigned, ToSet
<1>5. ITodo /\ IBatch /\ IOutput /\ IRows /\ WorkConserving
  BY <1>1, <1>2 DEF Init, ITodo, IBatch, IOutput, IRows, WorkConserving
<1> QED
  BY <1>3, <1>4, <1>5 DEF BatchInv

LEMMA CallInvariant ==
  ASSUME NEW n \in 1 .. MaxRequests, NEW P \in [0 .. n - 1 -> PromptLens],
         NEW b \in BatchSizes, NEW lim \in Limits, StartCall(n, P, b, lim)
  PROVE  BatchInv'
<1>1. n \in Nat \ {0} /\ b \in Nat \ {0}
  BY BatchAssumption
<1>2. PICK k \in 1 .. n : Min({b, n}) = k
  BY <1>1, MinOfTwo
<1>3. Request' = 0 .. n - 1 /\ Slot' = 0 .. k - 1 /\ slots' = k
  BY <1>2 DEF StartCall, Request, Slot
<1>4. \A r \in 0 .. n - 1 : state'[r] = "Waiting" /\ output'[r] = 0
  BY DEF StartCall
<1>5. /\ In("Waiting")' = 0 .. n - 1
      /\ In("Prefilling")' = {} /\ In("Decoding")' = {} /\ In("Finished")' = {}
  BY <1>3, <1>4 DEF In
<1>6. TypeOK'
  <2>2. n \in 0 .. MaxRequests /\ prompt' \in [0 .. n - 1 -> PromptLens]
    BY <1>1 DEF StartCall
  <2>3. /\ waiting' \in Seq(Request') /\ running' \in Seq(Request')
        /\ todo' \in Seq(Request')
        /\ batch' \in [prefill : Seq(Request'), decode : Seq(Request')]
    BY <1>1, <1>3 DEF StartCall, NoBatch
  <2>4. freeSlots' \in Seq(Slot')
    <3>1. freeSlots' = [i \in 1 .. k |-> i - 1]
      BY <1>2 DEF StartCall, InitialSlots
    <3>2. k \in Nat
      BY <1>1
    <3> QED
      BY <1>3, <3>1, <3>2, Counting
  <2>5. fed' \in [Slot' -> Seq([req : Request', pos : Nat])]
    BY <1>2, <1>3 DEF StartCall
  <2> QED
    BY <1>2, <1>3, <2>2, <2>3, <2>4, <2>5 DEF StartCall, TypeOK
<1>7. IQueues'
  <2>1. /\ ToSet(waiting') = 0 .. n - 1
        /\ \A i, j \in DOMAIN waiting' : i < j => waiting'[i] < waiting'[j]
    BY <1>1, Counting DEF StartCall
  <2>2. running' = <<>>
    BY DEF StartCall
  <2> QED
    BY <1>1, <1>3, <1>5, <2>1, <2>2 DEF IQueues, Distinct, Served, ToSet
<1>8. IStack' /\ ISlots'
  <2>1. ToSet(freeSlots') = 0 .. k - 1 /\ Distinct(freeSlots') /\ Len(freeSlots') = k
    <3>1. freeSlots' = [i \in 1 .. k |-> i - 1]
      BY <1>2 DEF StartCall, InitialSlots
    <3>2. k \in Nat
      BY <1>1
    <3> QED
      BY <3>1, <3>2, Counting
  <2>2. DOMAIN idSlot' = {} /\ pc' = "loop" /\ Len(running') = 0
    BY DEF StartCall
  <2> QED
    BY <1>2, <1>3, <1>5, <2>1, <2>2 DEF IStack, ISlots, Distinct, Served, Unassigned
<1>9. ITodo' /\ IBatch' /\ IOutput' /\ IRows' /\ WorkConserving'
  BY <1>4, <1>5 DEF StartCall, ITodo, IBatch, IOutput, IRows, WorkConserving
<1> QED
  BY <1>6, <1>7, <1>8, <1>9 DEF BatchInv

-----------------------------------------------------------------------------
\* Queues without repetition: what cutting, joining and removing leave of them.
LEMMA InQueue ==
  ASSUME NEW A, NEW q \in Seq(A)
  PROVE  /\ ToSet(q) \subseteq A
         /\ \A i \in 1 .. Len(q) : q[i] \in ToSet(q)
         /\ \A x \in ToSet(q) : \E i \in 1 .. Len(q) : x = q[i]
         /\ q = <<>> <=> ToSet(q) = {}
<1>1. DOMAIN q = 1 .. Len(q) /\ Len(q) \in Nat /\ (q = <<>> <=> Len(q) = 0)
  OBVIOUS
<1>2. /\ \A i \in 1 .. Len(q) : q[i] \in ToSet(q)
      /\ \A x \in ToSet(q) : \E i \in 1 .. Len(q) : x = q[i]
  BY <1>1 DEF ToSet
<1>3. q # <<>> => q[1] \in ToSet(q)
  BY <1>1, <1>2
<1>4. q = <<>> => ToSet(q) = {}
  BY <1>1, <1>2
<1> QED
  BY <1>2, <1>3, <1>4

FirstOf(queue, k) == SubSeq(queue, 1, k)
RestOf(queue, k) == SubSeq(queue, k + 1, Len(queue))

LEMMA CutQueue ==
  ASSUME NEW A, NEW q \in Seq(A), Distinct(q), NEW k \in 0 .. Len(q)
  PROVE  /\ FirstOf(q, k) \in Seq(A) /\ RestOf(q, k) \in Seq(A)
         /\ Len(FirstOf(q, k)) = k /\ Len(RestOf(q, k)) = Len(q) - k
         /\ Distinct(FirstOf(q, k)) /\ Distinct(RestOf(q, k))
         /\ ToSet(FirstOf(q, k)) \cap ToSet(RestOf(q, k)) = {}
         /\ ToSet(FirstOf(q, k)) \cup ToSet(RestOf(q, k)) = ToSet(q)
<1> DEFINE a == SubSeq(q, 1, k)
           b == SubSeq(q, k + 1, Len(q))
<1>1. /\ a \in Seq(A) /\ Len(a) = k /\ DOMAIN a = 1 .. k
      /\ \A i \in 1 .. k : a[i] = q[i] /\ i \in 1 .. Len(q)
  OBVIOUS
<1>2. /\ b \in Seq(A) /\ Len(b) = Len(q) - k /\ DOMAIN b = 1 .. Len(q) - k
      /\ \A i \in 1 .. Len(q) - k : b[i] = q[i + k] /\ i + k \in 1 .. Len(q)
  OBVIOUS
<1> HIDE DEF a, b
<1>3. \A i, j \in 1 .. Len(q) : q[i] = q[j] => i = j
  BY DEF Distinct
<1>4. Distinct(a) /\ Distinct(b)
  <2>1. Distinct(a)
    BY <1>1, <1>3 DEF Distinct
  <2>2. \A i, j \in 1 .. Len(q) - k : i + k = j + k => i = j
    OBVIOUS
  <2>3. Distinct(b)
    BY <1>2, <1>3, <2>2 DEF Distinct
  <2> QED
    BY <2>1, <2>3
<1>5. \A i \in 1 .. k, j \in 1 .. Len(q) - k : a[i] # b[j]
  BY <1>1, <1>2, <1>3
<1>6. \A i \in 1 .. Len(q) : q[i] \in ToSet(a) \cup ToSet(b)
  <2> TAKE i \in 1 .. Len(q)
  <2>1. CASE i <= k
    <3>1. i \in 1 .. k
      BY <2>1
    <3> QED
      BY <3>1, <1>1 DEF ToSet
  <2>2. CASE i > k
    <3>1. i - k \in 1 .. Len(q) - k /\ (i - k) + k = i
      BY <2>2
    <3> QED
      BY <3>1, <1>2 DEF ToSet
  <2> QED
    BY <2>1, <2>2
<1>7. ToSet(a) \cap ToSet(b) = {}
  <2> SUFFICES ASSUME NEW i \in 1 .. k, NEW j \in 1 .. Len(q) - k, a[i] = b[j]
               PROVE  FALSE
    BY <1>1, <1>2, InQueue
  <2> QED
    BY <1>5
<1>8. ToSet(a) \cup ToSet(b) \subseteq ToSet(q)
  <2>1. \A i \in 1 .. k : a[i] \in ToSet(q)
    BY <1>1, InQueue
  <2>2. \A i \in 1 .. Len(q) - k : b[i] \in ToSet(q)
    <3> TAKE i \in 1 .. Len(q) - k
    <3>1. b[i] = q[i + k] /\ i + k \in 1 .. Len(q)
      BY <1>2
    <3> QED
      BY <3>1, InQueue
  <2>3. ToSet(a) \subseteq ToSet(q)
    BY <1>1, <2>1, InQueue
  <2>4. ToSet(b) \subseteq ToSet(q)
    BY <1>2, <2>2, InQueue
  <2> QED
    BY <2>3, <2>4
<1>9. ToSet(q) \subseteq ToSet(a) \cup ToSet(b)
  BY <1>6, InQueue
<1> QED
  BY <1>1, <1>2, <1>4, <1>7, <1>8, <1>9 DEF FirstOf, RestOf, a, b

LEMMA JoinQueues ==
  ASSUME NEW A, NEW a \in Seq(A), NEW b \in Seq(A), Distinct(a), Distinct(b),
         ToSet(a) \cap ToSet(b) = {}
  PROVE  /\ a \o b \in Seq(A) /\ Len(a \o b) = Len(a) + Len(b)
         /\ Distinct(a \o b)
         /\ ToSet(a \o b) = ToSet(a) \cup ToSet(b)
<1> DEFINE c == a \o b
<1>1. /\ c \in Seq(A) /\ Len(c) = Len(a) + Len(b) /\ Len(a) \in Nat /\ Len(b) \in Nat
      /\ \A i \in 1 .. Len(a) : c[i] = a[i]
      /\ \A i \in 1 .. Len(b) : c[i + Len(a)] = b[i]
  OBVIOUS
<1> HIDE DEF c
<1>2. \A i \in 1 .. Len(c) :
        \/ i \in 1 .. Len(a)
        \/ i - Len(a) \in 1 .. Len(b) /\ (i - Len(a)) + Len(a) = i
  BY <1>1
<1>3. \A i \in 1 .. Len(c) :
        \/ i \in 1 .. Len(a) /\ c[i] = a[i] /\ c[i] \in ToSet(a)
        \/ i - Len(a) \in 1 .. Len(b) /\ c[i] = b[i - Len(a)] /\ c[i] \in ToSet(b)
  BY <1>1, <1>2, InQueue
<1>4. Distinct(c)
  <2> SUFFICES ASSUME NEW i \in 1 .. Len(c), NEW j \in 1 .. Len(c), c[i] = c[j]
               PROVE  i = j
    BY <1>1 DEF Distinct
  <2>1. CASE i \in 1 .. Len(a) /\ j \in 1 .. Len(a)
    BY <2>1, <1>1 DEF Distinct
  <2>2. CASE /\ i - Len(a) \in 1 .. Len(b) /\ c[i] = b[i - Len(a)]
             /\ j - Len(a) \in 1 .. Len(b) /\ c[j] = b[j - Len(a)]
    <3>1. i - Len(a) = j - Len(a)
      <4>1. b[i - Len(a)] = b[j - Len(a)]
        BY <2>2
      <4>2. \A m, n \in 1 .. Len(b) : b[m] = b[n] => m = n
        BY DEF Distinct
      <4> QED
        BY <4>1, <4>2, <2>2
    <3> QED
      BY <3>1, <1>1
  <2> QED
    BY <1>3, <2>1, <2>2
<1>5. ToSet(c) \subseteq ToSet(a) \cup ToSet(b)
  BY <1>1, <1>3, InQueue
<1>6. ToSet(a) \subseteq ToSet(c)
  <2>1. \A i \in 1 .. Len(a) : i \in 1 .. Len(c) /\ c[i] = a[i]
    BY <1>1
  <2>2. \A i \in 1 .. Len(a) : a[i] \in ToSet(c)
    BY <1>1, <2>1, InQueue
  <2> QED
    BY <2>2, InQueue
<1>7. ToSet(b) \subseteq ToSet(c)
  <2>1. \A i \in 1 .. Len(b) : i + Len(a) \in 1 .. Len(c) /\ c[i + Len(a)] = b[i]
    BY <1>1
  <2> QED
    BY <1>1, <2>1, InQueue
<1> QED
  BY <1>1, <1>4, <1>5, <1>6, <1>7 DEF c

LEMMA RemoveFromQueue ==
  ASSUME NEW A, NEW q \in Seq(A), Distinct(q), NEW x \in ToSet(q)
  PROVE  \E r \in Seq(A) : /\ r = Keep(q, A \ {x})
                           /\ Len(r) = Len(q) - 1
                           /\ Distinct(r)
                           /\ ToSet(r) = ToSet(q) \ {x}
<1>1. PICK k \in 1 .. Len(q) : x = q[k]
  BY InQueue
<1>2. \A i \in 1 .. Len(q) : q[i] \in A \ {x} <=> i # k
  BY <1>1 DEF Distinct
<1> DEFINE r == Without(q, k)
<1>3. Keep(q, A \ {x}) = r
  BY <1>2, KeepOthers
<1>4. /\ Len(q) \in Nat /\ k \in Nat
      /\ r \in Seq(A) /\ Len(r) = Len(q) - 1 /\ DOMAIN r = 1 .. Len(q) - 1
      /\ \A i \in 1 .. Len(q) - 1 : r[i] = IF i < k THEN q[i] ELSE q[i + 1]
  BY DEF Without
<1> HIDE DEF r
<1>5. \A i \in 1 .. Len(q) - 1 :
        \E j \in 1 .. Len(q) : /\ j = (IF i < k THEN i ELSE i + 1)
                               /\ r[i] = q[j]
  BY <1>4
<1>6. Distinct(r)
  <2> SUFFICES ASSUME NEW i \in 1 .. Len(q) - 1, NEW j \in 1 .. Len(q) - 1, r[i] = r[j]
               PROVE  i = j
    BY <1>4 DEF Distinct
  <2>1. (IF i < k THEN i ELSE i + 1) = (IF j < k THEN j ELSE j + 1)
    BY <1>5 DEF Distinct
  <2> QED
    BY <1>4, <2>1
<1>7. ToSet(r) \subseteq ToSet(q) \ {x}
  <2>0. \A y \in ToSet(r) : \E i \in 1 .. Len(r) : y = r[i]
    BY <1>4, InQueue, Zenon
  <2> SUFFICES ASSUME NEW i \in 1 .. Len(q) - 1  PROVE r[i] \in ToSet(q) \ {x}
    BY <1>4, <2>0
  <2>1. PICK j \in 1 .. Len(q) : j = (IF i < k THEN i ELSE i + 1) /\ r[i] = q[j]
    BY <1>5
  <2>2. j # k
    BY <1>4, <2>1
  <2> QED
    BY <1>1, <2>1, <2>2, InQueue DEF Distinct
<1>8. ToSet(q) \ {x} \subseteq ToSet(r)
  <2> SUFFICES ASSUME NEW j \in 1 .. Len(q), q[j] # x  PROVE q[j] \in ToSet(r)
    BY InQueue
  <2>1. CASE j < k
    BY <2>1, <1>4 DEF ToSet
  <2>2. CASE j > k
    <3>1. j - 1 \in 1 .. Len(q) - 1 /\ ~ (j - 1 < k) /\ (j - 1) + 1 = j
      BY <2>2, <1>4
    <3> QED
      BY <3>1, <1>4 DEF ToSet
  <2> QED
    BY <1>1, <1>4, <2>1, <2>2
<1> QED
  BY <1>3, <1>4, <1>6, <1>7, <1>8

LEMMA TailOfQueue ==
  ASSUME NEW A, NEW q \in Seq(A), Distinct(q), q # <<>>
  PROVE  /\ Head(q) \in ToSet(q)
         /\ Tail(q) \in Seq(A) /\ Len(Tail(q)) = Len(q) - 1
         /\ Distinct(Tail(q))
         /\ ToSet(Tail(q)) = ToSet(q) \ {Head(q)}
<1>1. /\ Head(q) = q[1] /\ 1 \in 1 .. Len(q) /\ Len(q) \in Nat
      /\ Tail(q) = SubSeq(q, 2, Len(q))
  OBVIOUS
<1>2. ToSet(FirstOf(q, 1)) = {Head(q)} /\ RestOf(q, 1) = Tail(q)
  <2>1. /\ Len(FirstOf(q, 1)) = 1 /\ FirstOf(q, 1)[1] = q[1]
        /\ DOMAIN FirstOf(q, 1) = {1}
    BY <1>1 DEF FirstOf
  <2> QED
    BY <1>1, <2>1 DEF ToSet, RestOf
<1>3. /\ Tail(q) \in Seq(A) /\ Len(Tail(q)) = Len(q) - 1 /\ Distinct(Tail(q))
      /\ ToSet(FirstOf(q, 1)) \cap ToSet(Tail(q)) = {}
      /\ ToSet(FirstOf(q, 1)) \cup ToSet(Tail(q)) = ToSet(q)
  <2>1. 1 \in 0 .. Len(q)
    BY <1>1
  <2>2. /\ RestOf(q, 1) \in Seq(A) /\ Len(RestOf(q, 1)) = Len(q) - 1
        /\ Distinct(RestOf(q, 1))
        /\ ToSet(FirstOf(q, 1)) \cap ToSet(RestOf(q, 1)) = {}
        /\ ToSet(FirstOf(q, 1)) \cup ToSet(RestOf(q, 1)) = ToSet(q)
    BY <2>1, CutQueue
  <2> QED
    BY <1>2, <2>2
<1> QED
  BY <1>1, <1>2, <1>3, InQueue

LEMMA FrontOfQueue ==
  ASSUME NEW A, NEW q \in Seq(A), Distinct(q), q # <<>>
  PROVE  /\ Last(q) \in ToSet(q)
         /\ Front(q) \in Seq(A) /\ Len(Front(q)) = Len(q) - 1
         /\ Distinct(Front(q))
         /\ ToSet(Front(q)) = ToSet(q) \ {Last(q)}
<1>1. /\ Last(q) = q[Len(q)] /\ Len(q) \in 1 .. Len(q) /\ Len(q) \in Nat
      /\ Front(q) = FirstOf(q, Len(q) - 1)
  BY DEF Last, Front, FirstOf
<1> DEFINE b == RestOf(q, Len(q) - 1)
<1>2. ToSet(b) = {Last(q)}
  <2>1. Len(b) = 1 /\ b[1] = q[Len(q)] /\ DOMAIN b = {1}
    BY <1>1 DEF RestOf
  <2> HIDE DEF b
  <2> QED
    BY <1>1, <2>1 DEF ToSet
<1>3. /\ Front(q) \in Seq(A) /\ Len(Front(q)) = Len(q) - 1 /\ Distinct(Front(q))
      /\ ToSet(Front(q)) \cap ToSet(b) = {}
      /\ ToSet(Front(q)) \cup ToSet(b) = ToSet(q)
  <2>1. Len(q) - 1 \in 0 .. Len(q)
    BY <1>1
  <2> DEFINE n == Len(q) - 1
  <2>2. n \in 0 .. Len(q)
    BY <2>1
  <2> HIDE DEF n
  <2>3. /\ FirstOf(q, n) \in Seq(A) /\ Len(FirstOf(q, n)) = n
        /\ Distinct(FirstOf(q, n))
        /\ ToSet(FirstOf(q, n)) \cap ToSet(RestOf(q, n)) = {}
        /\ ToSet(FirstOf(q, n)) \cup ToSet(RestOf(q, n)) = ToSet(q)
    BY <2>2, CutQueue
  <2> QED
    BY <1>1, <2>3 DEF n
<1> HIDE DEF b
<1> QED
  BY <1>1, <1>2, <1>3, InQueue

LEMMA AppendToQueue ==
  ASSUME NEW A, NEW q \in Seq(A), Distinct(q), NEW x \in A, x \notin ToSet(q)
  PROVE  /\ Append(q, x) \in Seq(A) /\ Len(Append(q, x)) = Len(q) + 1
         /\ Distinct(Append(q, x))
         /\ ToSet(Append(q, x)) = ToSet(q) \cup {x}
<1> DEFINE b == <<x>>
<1>1. b \in Seq(A) /\ Len(b) = 1 /\ b[1] = x /\ DOMAIN b = {1} /\ Append(q, x) = q \o b
  OBVIOUS
<1> HIDE DEF b
<1>2. ToSet(b) = {x} /\ Distinct(b)
  BY <1>1 DEF ToSet, Distinct
<1> QED
  BY <1>1, <1>2, JoinQueues

-----------------------------------------------------------------------------
\* What build_batch does when it is called: all running requests decode, and
\* the k oldest waiting ones are admitted.
LEMMA BatchBuilt ==
  ASSUME BatchInv, BuildBatch
  PROVE  \E k \in 0 .. Len(waiting) :
           /\ Len(running) + k <= slots
           /\ k = Len(waiting) \/ Len(running) + k = slots
           /\ Admitted = FirstOf(waiting, k)
           /\ Len(Admitted) = k
           /\ waiting' = RestOf(waiting, k)
           /\ running' = running \o Admitted
           /\ batch' = [prefill |-> Admitted, decode |-> running]
           /\ todo' = Admitted
           /\ pc' = IF Admitted # <<>> THEN "assign" ELSE "decode"
<1> USE DEF BatchInv
<1>1. /\ running \in Seq(Request) /\ waiting \in Seq(Request) /\ slots \in Nat
      /\ Len(running) \in Nat /\ Len(waiting) \in Nat /\ Len(running) <= slots
  BY DEF TypeOK, IQueues
<1>2. In("Prefilling") = {} /\ ToSet(running) = In("Decoding")
  BY DEF BuildBatch, IBatch, IQueues, Served
<1>3. Unfinished(running) = running
  <2>1. ToSet(running) \subseteq Request \ In("Finished")
    BY <1>2 DEF In
  <2> QED
    BY <1>1, <2>1, KeepAll DEF Unfinished
<1>4. Continued = running
  <2>1. Min({Len(running), slots}) = Len(running)
    BY <1>1, MinOfTwo
  <2>2. SubSeq(running, 1, Len(running)) = running
    BY <1>1
  <2> QED
    BY <1>3, <2>1, <2>2 DEF Continued
<1>5. Keep(Continued, In("Prefilling")) = <<>>
  BY <1>1, <1>2, <1>4, KeepNone
<1>6. Keep(Continued, In("Decoding")) = running
  BY <1>1, <1>2, <1>4, KeepAll
<1> DEFINE k == Min({Len(waiting), slots - Len(running)})
<1>7. /\ k \in 0 .. Len(waiting) /\ Len(running) + k <= slots
      /\ k = Len(waiting) \/ Len(running) + k = slots
  <2>1. slots - Len(running) \in Nat
    BY <1>1
  <2>2. k = IF Len(waiting) <= slots - Len(running) THEN Len(waiting) ELSE slots - Len(running)
    BY <1>1, <2>1, MinOfTwo
  <2> HIDE DEF k
  <2> QED
    BY <1>1, <2>1, <2>2
<1>8. Admitted = FirstOf(waiting, k)
  BY <1>4 DEF Admitted, FirstOf
<1> HIDE DEF k
<1>9. Len(Admitted) = k /\ Admitted \in Seq(Request)
  BY <1>1, <1>7, <1>8 DEF FirstOf
<1>10. Keep(Continued, In("Prefilling")) \o Admitted = Admitted
  BY <1>5, <1>9
<1>11. /\ batch' = [prefill |-> Admitted, decode |-> running]
       /\ todo' = Admitted
       /\ pc' = IF Admitted # <<>> THEN "assign" ELSE "decode"
  BY <1>6, <1>10 DEF BuildBatch
<1>12. waiting' = RestOf(waiting, k)
  BY <1>9 DEF BuildBatch, RestOf
<1>13. running' = running \o Admitted
  BY <1>3 DEF BuildBatch
<1> QED
  BY <1>7, <1>8, <1>9, <1>11, <1>12, <1>13

LEMMA BuildInvariant ==
  ASSUME BatchInv, BuildBatch
  PROVE  BatchInv'
<1> USE DEF BatchInv
<1>1. PICK k \in 0 .. Len(waiting) :
           /\ Len(running) + k <= slots
           /\ k = Len(waiting) \/ Len(running) + k = slots
           /\ Admitted = FirstOf(waiting, k)
           /\ Len(Admitted) = k
           /\ waiting' = RestOf(waiting, k)
           /\ running' = running \o Admitted
           /\ batch' = [prefill |-> Admitted, decode |-> running]
           /\ todo' = Admitted
           /\ pc' = IF Admitted # <<>> THEN "assign" ELSE "decode"
  BY BatchBuilt
<1>2. /\ running \in Seq(Request) /\ waiting \in Seq(Request)
      /\ slots \in Nat /\ Len(running) \in Nat /\ Len(waiting) \in Nat
      /\ state \in [Request -> {"Waiting", "Prefilling", "Decoding", "Finished"}]
  BY DEF TypeOK
<1>3. /\ prompt' = prompt /\ slots' = slots /\ output' = output /\ fed' = fed
      /\ idSlot' = idSlot /\ freeSlots' = freeSlots
      /\ Request' = Request /\ Slot' = Slot
      /\ pc = "loop"
      /\ state' = [id \in Request |->
                     IF id \in ToSet(Admitted) THEN "Prefilling" ELSE state[id]]
  BY DEF BuildBatch, callVars, slotVars, Request, Slot
<1>4. In("Prefilling") = {} /\ Served = In("Decoding") /\ ToSet(running) = In("Decoding")
  BY <1>3 DEF IBatch, IQueues, Served
<1>5. Distinct(waiting)
  <2> SUFFICES ASSUME NEW i \in 1 .. Len(waiting), NEW j \in 1 .. Len(waiting),
                      waiting[i] = waiting[j]
               PROVE  i = j
    BY <1>2 DEF Distinct
  <2>0. waiting \in Seq(Request)
    BY <1>2 DEF TypeOK
  <2>1. waiting[i] \in Request
    BY <2>0
  <2>2. waiting[i] \in Int
    BY <2>1 DEF Request
  <2>3. ~ (i < j) /\ ~ (j < i)
    BY <1>2, <2>2 DEF IQueues
  <2> QED
    BY <2>3
<1>6. /\ Admitted \in Seq(Request) /\ waiting' \in Seq(Request)
      /\ Distinct(Admitted)
      /\ ToSet(Admitted) \cap ToSet(waiting') = {}
      /\ ToSet(Admitted) \cup ToSet(waiting') = In("Waiting")
  <2>1. ToSet(waiting) = In("Waiting")
    BY DEF IQueues
  <2> QED
    BY <1>1, <1>2, <1>5, <2>1, CutQueue
<1>7. /\ In("Waiting")' = ToSet(waiting')
      /\ In("Prefilling")' = ToSet(Admitted)
      /\ In("Decoding")' = In("Decoding")
  BY <1>2, <1>3, <1>4, <1>6 DEF In
<1>8. /\ running' \in Seq(Request) /\ Len(running') = Len(running) + k
      /\ Distinct(running')
      /\ ToSet(running') = In("Decoding") \cup ToSet(Admitted)
  <2>1. Distinct(running) /\ ToSet(running) \cap ToSet(Admitted) = {}
    BY <1>4, <1>6 DEF IQueues, In
  <2>2. /\ running \o Admitted \in Seq(Request)
        /\ Len(running \o Admitted) = Len(running) + Len(Admitted)
        /\ Distinct(running \o Admitted)
        /\ ToSet(running \o Admitted) = ToSet(running) \cup ToSet(Admitted)
    BY <1>2, <1>6, <2>1, JoinQueues
  <2> QED
    BY <1>1, <1>4, <2>2
<1>9. TypeOK'
  <2>1. state' \in [Request -> {"Waiting", "Prefilling", "Decoding", "Finished"}]
    BY <1>2, <1>3
  <2>2. batch' \in [prefill : Seq(Request), decode : Seq(Request)] /\ todo' \in Seq(Request)
    BY <1>1, <1>2, <1>6
  <2> QED
    BY <1>1, <1>3, <1>6, <1>8, <2>1, <2>2 DEF TypeOK
<1>10. IQueues'
  <2>1. \A i, j \in DOMAIN waiting' : i < j => waiting'[i] < waiting'[j]
    <3>1. /\ DOMAIN waiting' = 1 .. Len(waiting) - k
          /\ \A i \in 1 .. Len(waiting) - k :
               i + k \in 1 .. Len(waiting) /\ waiting'[i] = waiting[i + k]
      BY <1>1, <1>2 DEF RestOf
    <3>2. \A i, j \in 1 .. Len(waiting) : i < j => waiting[i] < waiting[j]
      BY <1>2 DEF IQueues
    <3>3. \A i, j \in 1 .. Len(waiting) - k : i < j => i + k < j + k
      OBVIOUS
    <3> QED
      BY <3>1, <3>2, <3>3
  <2> QED
    BY <1>1, <1>2, <1>3, <1>7, <1>8, <2>1 DEF IQueues, Served
<1>11. IStack'
  BY <1>3 DEF IStack
<1>12. ISlots'
  <2>1. DOMAIN idSlot = In("Decoding") /\ Len(freeSlots) + Len(running) = slots
    <3>1. Unassigned = {} /\ pc # "assign" /\ Len(freeSlots) \in Nat
      BY <1>3 DEF Unassigned, TypeOK
    <3> QED
      BY <1>2, <1>4, <3>1 DEF ISlots
  <2>2. In("Decoding") \cap ToSet(Admitted) = {}
    BY <1>6 DEF In
  <2>3. Unassigned' = ToSet(Admitted)
    BY <1>1, <1>6, InQueue DEF Unassigned
  <2>4. (IF pc' = "assign" THEN Len(todo') ELSE 0) = k
    BY <1>1, <1>6
  <2>5. Len(freeSlots) \in Nat
    BY DEF TypeOK
  <2>6. DOMAIN idSlot' = Served' \ Unassigned'
    BY <1>3, <1>7, <2>1, <2>2, <2>3 DEF Served
  <2>7. Len(freeSlots') + Len(running') = slots' + k
    <3>1. freeSlots' = freeSlots /\ slots' = slots /\ Len(running') = Len(running) + k
      BY <1>3, <1>8
    <3>2. Len(running) \in Nat /\ slots \in Nat /\ k \in Nat
      BY <1>2
    <3>3. (Len(freeSlots) + Len(running)) + k = Len(freeSlots) + (Len(running) + k)
      BY <2>5, <3>2
    <3> QED
      BY <2>1, <3>1, <3>3
  <2> QED
    BY <2>4, <2>6, <2>7 DEF ISlots
<1>13. ITodo'
  BY <1>1, <1>6, <1>7 DEF ITodo
<1>14. IBatch'
  <2>1. Distinct(running) /\ batch'.prefill = Admitted /\ batch'.decode = running
    BY <1>1 DEF IQueues
  <2>2. Admitted = <<>> => ToSet(Admitted) = {}
    BY <1>6, InQueue
  <2> QED
    BY <1>1, <1>4, <1>6, <1>7, <2>1, <2>2 DEF IBatch
<1>15. IOutput' /\ IRows'
  <2>1. pc' # "first" /\ pc' # "token" /\ pc # "token"
    BY <1>1, <1>3
  <2>2. IOutput'
    BY <1>3, <1>6, <1>7 DEF IOutput
  <2>3. \A id \in In("Decoding") : Rows(id)' = Rows(id)
    BY <1>3, <2>1 DEF Rows
  <2>4. \A id, n : Tokens(id, n)' = Tokens(id, n)
    BY DEF Tokens, Token
  <2> QED
    BY <1>3, <1>7, <2>1, <2>2, <2>3 DEF IRows, Rows, Tokens, Token
<1>16. WorkConserving'
  <2>1. k = Len(waiting) => waiting' = <<>>
    BY <1>1, <1>2 DEF RestOf
  <2>2. Len(batch'.prefill) + Len(batch'.decode) = Len(running) + k
    <3>1. batch'.prefill = Admitted /\ batch'.decode = running
      BY <1>1
    <3>2. Len(running) \in Nat /\ k \in Nat /\ Len(Admitted) = k
      BY <1>1, <1>2
    <3>3. k + Len(running) = Len(running) + k
      BY <3>2
    <3> QED
      BY <3>1, <3>2, <3>3
  <2> QED
    BY <1>1, <1>3, <2>1, <2>2 DEF WorkConserving
<1> QED
  BY <1>9, <1>10, <1>11, <1>12, <1>13, <1>14, <1>15, <1>16

LEMMA TokensType ==
  ASSUME NEW id \in Request, NEW n \in Nat
  PROVE  /\ Tokens(id, n) \in Seq([req : Request, pos : Nat])
         /\ Append(Tokens(id, n), Token(id, n)) = Tokens(id, n + 1)
<1>1. \A i \in Nat : Token(id, i) \in [req : Request, pos : Nat]
  BY DEF Token
<1>2. \A i \in 1 .. n : i - 1 \in Nat
  OBVIOUS
<1>3. Tokens(id, n) \in Seq([req : Request, pos : Nat])
  BY <1>1, <1>2 DEF Tokens
<1>4. /\ Tokens(id, n) = [i \in 1 .. n |-> Token(id, i - 1)]
      /\ Tokens(id, n + 1) = [i \in 1 .. n + 1 |-> Token(id, i - 1)]
  BY DEF Tokens
<1>5. Append([i \in 1 .. n |-> Token(id, i - 1)], Token(id, n))
        = [i \in 1 .. n + 1 |-> Token(id, i - 1)]
  OBVIOUS
<1> QED
  BY <1>3, <1>4, <1>5

\* A free slot goes to the next request of the batch.
LEMMA AssignInvariant ==
  ASSUME BatchInv, AssignSlot
  PROVE  BatchInv'
<1> USE DEF BatchInv
<1> DEFINE id == Head(todo)
           s == Last(freeSlots)
<1>1. /\ pc = "assign" /\ freeSlots # <<>> /\ todo # <<>>
      /\ freeSlots' = Front(freeSlots) /\ todo' = Tail(todo)
      /\ idSlot' = [r \in DOMAIN idSlot \cup {id} |-> IF r = id THEN s ELSE idSlot[r]]
      /\ pc' = IF todo' = <<>> THEN "prefill" ELSE "assign"
  BY DEF AssignSlot, ITodo
<1>2. /\ prompt' = prompt /\ slots' = slots /\ limit' = limit
      /\ waiting' = waiting /\ running' = running /\ state' = state
      /\ output' = output /\ batch' = batch /\ fed' = fed
      /\ Request' = Request /\ Slot' = Slot
  BY DEF AssignSlot, callVars, schedVars, Request, Slot
<1>3. \A x : In(x)' = In(x)
  BY <1>2 DEF In
<1>4. /\ todo \in Seq(Request) /\ freeSlots \in Seq(Slot)
      /\ Distinct(todo) /\ Distinct(freeSlots)
      /\ Len(running) \in Nat /\ slots \in Nat
  BY <1>1 DEF TypeOK, ITodo, IStack
<1>5. /\ id \in ToSet(todo) /\ id \in Request
      /\ todo' \in Seq(Request) /\ Len(todo') = Len(todo) - 1 /\ Distinct(todo')
      /\ ToSet(todo') = ToSet(todo) \ {id}
  BY <1>1, <1>4, TailOfQueue, InQueue
<1>6. /\ s \in ToSet(freeSlots) /\ s \in Slot
      /\ freeSlots' \in Seq(Slot) /\ Len(freeSlots') = Len(freeSlots) - 1
      /\ Distinct(freeSlots')
      /\ ToSet(freeSlots') = ToSet(freeSlots) \ {s}
  BY <1>1, <1>4, FrontOfQueue, InQueue
<1>7. /\ ToSet(todo) \subseteq In("Prefilling")
      /\ DOMAIN idSlot = Served \ ToSet(todo)
  BY <1>1 DEF ITodo, ISlots, Unassigned
<1>8. /\ id \notin DOMAIN idSlot
      /\ DOMAIN idSlot' = DOMAIN idSlot \cup {id}
      /\ idSlot'[id] = s
      /\ \A r \in DOMAIN idSlot : idSlot'[r] = idSlot[r] /\ idSlot[r] # s
  <2>1. id \notin DOMAIN idSlot
    BY <1>5, <1>7
  <2>2. \A r \in DOMAIN idSlot : idSlot[r] # s
    BY <1>6 DEF IStack
  <2> HIDE DEF id, s
  <2> QED
    BY <1>1, <2>1, <2>2
<1> HIDE DEF id, s
<1>9. Unassigned' = ToSet(todo')
  BY <1>1, <1>5, InQueue DEF Unassigned
<1>10. TypeOK'
  <2>1. DOMAIN idSlot' \subseteq Request /\ \A r \in DOMAIN idSlot' : idSlot'[r] \in Slot
    BY <1>5, <1>6, <1>8 DEF TypeOK
  <2> QED
    BY <1>1, <1>2, <1>5, <1>6, <2>1 DEF TypeOK
<1>11. IQueues'
  BY <1>2, <1>3 DEF IQueues, Served
<1>12. IStack'
  <2>1. \A a, b \in DOMAIN idSlot' : idSlot'[a] = idSlot'[b] => a = b
    BY <1>8 DEF IStack
  <2>2. \A x \in Slot : x \in ToSet(freeSlots')
                          <=> \A r \in DOMAIN idSlot' : idSlot'[r] # x
    BY <1>6, <1>8 DEF IStack
  <2> QED
    BY <1>2, <1>6, <2>1, <2>2 DEF IStack
<1>13. ISlots'
  <2>1. DOMAIN idSlot' = Served' \ Unassigned'
    BY <1>3, <1>5, <1>7, <1>8, <1>9 DEF Served
  <2>2. Len(freeSlots) + Len(running) = slots + Len(todo)
    BY <1>1 DEF ISlots
  <2>3. Len(freeSlots) \in Nat /\ Len(todo) \in Nat
    BY <1>4
  <2>4. Len(freeSlots') + Len(running') = slots' + Len(todo')
    BY <1>2, <1>4, <1>5, <1>6, <2>2, <2>3
  <2>5. Len(todo') = IF pc' = "assign" THEN Len(todo') ELSE 0
    BY <1>1, <1>5
  <2> QED
    BY <2>1, <2>4, <2>5 DEF ISlots
<1>14. ITodo'
  BY <1>1, <1>3, <1>5, <1>7 DEF ITodo
<1>15. IBatch'
  BY <1>1, <1>2, <1>3 DEF IBatch
<1>16. IOutput'
  BY <1>2, <1>3 DEF IOutput
<1>17. IRows'
  <2>1. \A r \in In("Decoding") : r \in DOMAIN idSlot /\ idSlot'[r] = idSlot[r]
    BY <1>7, <1>8 DEF Served, In
  <2>2. pc' # "first" /\ pc' # "token" /\ pc # "token"
    BY <1>1
  <2> QED
    BY <1>2, <1>3, <2>1, <2>2 DEF IRows, Rows, Tokens, Token
<1>18. WorkConserving'
  BY <1>1, <1>2 DEF WorkConserving
<1> QED
  BY <1>10, <1>11, <1>12, <1>13, <1>14, <1>15, <1>16, <1>17, <1>18

\* The prefill writes the slots of the batch from their first row.
LEMMA PrefillInvariant ==
  ASSUME BatchInv, BatchPrefill
  PROVE  BatchInv'
<1> USE DEF BatchInv
<1>1. /\ pc = "prefill" /\ pc' = "first" /\ todo' = batch.prefill
  BY DEF BatchPrefill
<1>2. /\ prompt' = prompt /\ slots' = slots /\ limit' = limit
      /\ waiting' = waiting /\ running' = running /\ state' = state
      /\ output' = output /\ batch' = batch
      /\ idSlot' = idSlot /\ freeSlots' = freeSlots
      /\ Request' = Request /\ Slot' = Slot
  BY DEF BatchPrefill, callVars, schedVars, slotVars, Request, Slot
<1>3. \A x : In(x)' = In(x)
  BY <1>2 DEF In
<1>4. /\ batch.prefill \in Seq(Request) /\ batch.prefill # <<>>
      /\ Distinct(batch.prefill)
      /\ ToSet(batch.prefill) = In("Prefilling")
  BY <1>1 DEF TypeOK, IBatch
<1>5. /\ DOMAIN idSlot = Served
      /\ \A a, b \in DOMAIN idSlot : idSlot[a] = idSlot[b] => a = b
      /\ \A r \in DOMAIN idSlot : idSlot[r] \in Slot
  BY <1>1 DEF ISlots, IStack, Unassigned, TypeOK
<1>6. \A r \in In("Prefilling") : fed'[idSlot[r]] = Tokens(r, prompt[r])
  <2> TAKE r \in In("Prefilling")
  <2>1. /\ idSlot[r] \in Slot
        /\ \A q \in In("Prefilling") : idSlot[q] = idSlot[r] => q = r
    BY <1>5 DEF Served
  <2>2. (CHOOSE q \in ToSet(batch.prefill) : idSlot[q] = idSlot[r]) = r
    BY <1>4, <2>1
  <2> QED
    BY <1>4, <2>1, <2>2 DEF BatchPrefill, Tokens
<1>7. \A r \in In("Decoding") : fed'[idSlot[r]] = fed[idSlot[r]]
  <2> TAKE r \in In("Decoding")
  <2>1. /\ idSlot[r] \in Slot
        /\ \A q \in ToSet(batch.prefill) : idSlot[q] # idSlot[r]
    BY <1>4, <1>5 DEF Served, In
  <2> QED
    BY <2>1 DEF BatchPrefill
<1>8. TypeOK'
  <2>1. fed' \in [Slot -> Seq([req : Request, pos : Nat])]
    <3> SUFFICES ASSUME NEW s \in Slot
                 PROVE  fed'[s] \in Seq([req : Request, pos : Nat])
      BY DEF BatchPrefill
    <3>1. CASE \E r \in ToSet(batch.prefill) : idSlot[r] = s
      <4>1. PICK r \in In("Prefilling") : idSlot[r] = s
        BY <1>4, <3>1
      <4>2. r \in Request /\ prompt[r] \in Nat
        BY BatchAssumption DEF In, TypeOK, Request
      <4>3. Tokens(r, prompt[r]) \in Seq([req : Request, pos : Nat])
        BY <4>2, TokensType
      <4> QED
        BY <1>6, <4>1, <4>3
    <3>2. CASE ~ \E r \in ToSet(batch.prefill) : idSlot[r] = s
      BY <3>2 DEF BatchPrefill, TypeOK
    <3> QED
      BY <3>1, <3>2
  <2> QED
    BY <1>1, <1>2, <1>4, <2>1 DEF TypeOK
<1>9. IQueues' /\ IStack'
  BY <1>2, <1>3 DEF IQueues, IStack, Served
<1>10. ISlots'
  BY <1>1, <1>2, <1>3, <1>5 DEF ISlots, Served, Unassigned
<1>11. ITodo' /\ IBatch'
  BY <1>1, <1>2, <1>3, <1>4 DEF ITodo, IBatch
<1>12. IOutput'
  BY <1>2, <1>3 DEF IOutput
<1>13. IRows'
  BY <1>1, <1>2, <1>3, <1>6, <1>7 DEF IRows, Rows, Tokens, Token
<1>14. WorkConserving'
  BY <1>1, <1>2 DEF WorkConserving
<1> QED
  BY <1>8, <1>9, <1>10, <1>11, <1>12, <1>13, <1>14

\* The exception of an empty prompt leaves everything as it is, and so does the
\* end of the loop.
LEMMA EndInvariant ==
  ASSUME BatchInv, PrefillRejected \/ Return
  PROVE  BatchInv'
<1> USE DEF BatchInv
<1>1. pc \in {"prefill", "loop"} /\ pc' \in {"thrown", "returned"}
  BY DEF PrefillRejected, Return
<1>2. /\ prompt' = prompt /\ slots' = slots /\ limit' = limit
      /\ waiting' = waiting /\ running' = running /\ state' = state
      /\ output' = output /\ batch' = batch /\ fed' = fed /\ todo' = todo
      /\ idSlot' = idSlot /\ freeSlots' = freeSlots
      /\ Request' = Request /\ Slot' = Slot
  BY DEF PrefillRejected, Return, callVars, schedVars, slotVars, Request, Slot
<1>3. \A x : In(x)' = In(x)
  BY <1>2 DEF In
<1>4. TypeOK'
  BY <1>1, <1>2 DEF TypeOK, Idle
<1>5. IQueues' /\ IStack' /\ ISlots'
  BY <1>1, <1>2, <1>3 DEF IQueues, IStack, ISlots, Served, Unassigned
<1>6. ITodo' /\ IBatch' /\ IOutput' /\ WorkConserving'
  BY <1>1, <1>2, <1>3 DEF ITodo, IBatch, IOutput, WorkConserving
<1>7. IRows'
  BY <1>1, <1>2, <1>3 DEF IRows, Rows, Tokens, Token
<1> QED
  BY <1>4, <1>5, <1>6, <1>7

\* What follows a sample.  A request that stops leaves running_ and gives its
\* slot back; one that goes on has one token more.
LEMMA Emitted ==
  ASSUME BatchInv, pc \in {"first", "token"}, pc' # "assign",
         NEW id \in Served, NEW eos \in BOOLEAN, Emit(id, eos, "Decoding"),
         todo' \in Seq(Request),
         pc' \in {"loop", "decode", "first", "token"}
  PROVE  /\ TypeOK' /\ IQueues' /\ IStack' /\ ISlots'
         /\ \/ /\ state' = [state EXCEPT ![id] = "Finished"]
               /\ \A r \in Request \ {id} : output'[r] = output[r]
            \/ /\ state' = [state EXCEPT ![id] = "Decoding"]
               /\ output' = [output EXCEPT ![id] = @ + 1]
         /\ \A r \in Served \ {id} : idSlot'[r] = idSlot[r]
         /\ id \in Served' => idSlot'[id] = idSlot[id]
         /\ \A r \in Request : output[r] \in Nat
<1> USE DEF BatchInv
<1>1. /\ prompt' = prompt /\ slots' = slots /\ limit' = limit
      /\ waiting' = waiting /\ batch' = batch /\ fed' = fed
      /\ Request' = Request /\ Slot' = Slot
  BY DEF Emit, callVars, Request, Slot
<1>2. /\ running \in Seq(Request) /\ Distinct(running) /\ ToSet(running) = Served
      /\ freeSlots \in Seq(Slot) /\ Distinct(freeSlots)
      /\ state \in [Request -> {"Waiting", "Prefilling", "Decoding", "Finished"}]
      /\ output \in [Request -> Nat]
      /\ Len(running) \in Nat /\ slots \in Nat /\ Len(freeSlots) \in Nat
      /\ id \in Request
  BY DEF TypeOK, IQueues, IStack, Served, In
<1>3. /\ DOMAIN idSlot = Served
      /\ Len(freeSlots) + Len(running) = slots
      /\ \A r \in DOMAIN idSlot : idSlot[r] \in Slot
      /\ \A a, b \in DOMAIN idSlot : idSlot[a] = idSlot[b] => a = b
      /\ \A s \in Slot : s \in ToSet(freeSlots)
                           <=> \A r \in DOMAIN idSlot : idSlot[r] # s
  BY DEF ISlots, IStack, Unassigned, TypeOK
<1>4. output' \in [Request -> Nat] /\ \A r \in Request \ {id} : output'[r] = output[r]
  BY <1>2 DEF Emit
<1>5. CASE eos \/ ReachesLimit(output[id] + 1)
  <2>1. /\ state' = [state EXCEPT ![id] = "Finished"]
        /\ running' = Keep(running, Request \ {id})
        /\ freeSlots' = Append(freeSlots, idSlot[id])
        /\ idSlot' = [r \in DOMAIN idSlot \ {id} |-> idSlot[r]]
    BY <1>3, <1>5 DEF Emit, FinishRequest, Release
  <2>2. /\ running' \in Seq(Request) /\ Len(running') = Len(running) - 1
        /\ Distinct(running') /\ ToSet(running') = Served \ {id}
    <3>1. id \in ToSet(running)
      BY <1>2
    <3>2. running \in Seq(Request) /\ Distinct(running)
      BY <1>2
    <3>3. PICK r \in Seq(Request) : /\ r = Keep(running, Request \ {id})
                                    /\ Len(r) = Len(running) - 1
                                    /\ Distinct(r)
                                    /\ ToSet(r) = ToSet(running) \ {id}
      BY <3>1, <3>2, RemoveFromQueue
    <3> QED
      BY <1>2, <2>1, <3>3
  <2>3. idSlot[id] \in Slot /\ idSlot[id] \notin ToSet(freeSlots)
    BY <1>3
  <2>4. /\ freeSlots' \in Seq(Slot) /\ Len(freeSlots') = Len(freeSlots) + 1
        /\ Distinct(freeSlots')
        /\ ToSet(freeSlots') = ToSet(freeSlots) \cup {idSlot[id]}
    BY <1>2, <2>1, <2>3, AppendToQueue
  <2>5. /\ state' \in [Request -> {"Waiting", "Prefilling", "Decoding", "Finished"}]
        /\ In("Waiting")' = In("Waiting") /\ Served' = Served \ {id}
    BY <1>1, <1>2, <2>1 DEF In, Served
  <2>6. /\ DOMAIN idSlot' = Served \ {id}
        /\ \A r \in Served \ {id} : idSlot'[r] = idSlot[r]
    BY <1>3, <2>1
  <2>7. TypeOK'
    <3>1. DOMAIN idSlot' \subseteq Request /\ \A r \in DOMAIN idSlot' : idSlot'[r] \in Slot
      BY <1>3, <2>6 DEF Served, In
    <3> QED
      BY <1>1, <1>2, <1>4, <2>2, <2>4, <2>5, <3>1 DEF TypeOK
  <2>8. IQueues'
    BY <1>1, <1>2, <2>2, <2>5 DEF IQueues
  <2>9. IStack'
    <3>1. \A a, b \in DOMAIN idSlot' : idSlot'[a] = idSlot'[b] => a = b
      BY <1>3, <2>6
    <3>2. \A s \in Slot : s \in ToSet(freeSlots')
                            <=> \A r \in DOMAIN idSlot' : idSlot'[r] # s
      BY <1>3, <2>4, <2>6
    <3> QED
      BY <1>1, <2>4, <3>1, <3>2 DEF IStack
  <2>10. ISlots'
    <3>1. Len(freeSlots') + Len(running') = slots
      <4>1. (Len(freeSlots) + 1) + (Len(running) - 1) = Len(freeSlots) + Len(running)
        BY <1>2
      <4> QED
        BY <1>3, <2>2, <2>4, <4>1
    <3> QED
      BY <1>1, <1>2, <2>5, <2>6, <3>1 DEF ISlots, Unassigned
  <2> QED
    BY <1>2, <1>4, <2>1, <2>5, <2>6, <2>7, <2>8, <2>9, <2>10
<1>6. CASE ~ (eos \/ ReachesLimit(output[id] + 1))
  <2>1. /\ state' = [state EXCEPT ![id] = "Decoding"]
        /\ output' = [output EXCEPT ![id] = @ + 1]
        /\ running' = running /\ freeSlots' = freeSlots /\ idSlot' = idSlot
    BY <1>6 DEF Emit, slotVars
  <2>2. /\ state' \in [Request -> {"Waiting", "Prefilling", "Decoding", "Finished"}]
        /\ In("Waiting")' = In("Waiting") /\ Served' = Served
    BY <1>1, <1>2, <2>1 DEF In, Served
  <2>3. TypeOK'
    BY <1>1, <1>4, <2>1, <2>2 DEF TypeOK
  <2>4. IQueues' /\ IStack'
    BY <1>1, <2>1, <2>2 DEF IQueues, IStack
  <2>5. ISlots'
    BY <1>1, <1>2, <1>3, <2>1, <2>2 DEF ISlots, Unassigned
  <2> QED
    BY <1>2, <2>1, <2>3, <2>4, <2>5
<1> QED
  BY <1>5, <1>6

LEMMA FirstInvariant ==
  ASSUME BatchInv, FirstToken
  PROVE  BatchInv'
<1> USE DEF BatchInv
<1> DEFINE id == Head(todo)
<1>1. PICK eos \in BOOLEAN : Emit(id, eos, "Decoding")
  BY DEF FirstToken
<1>2. /\ pc = "first" /\ todo' = Tail(todo)
      /\ pc' = IF todo' = <<>> THEN "decode" ELSE "first"
  BY DEF FirstToken
<1>3. /\ prompt' = prompt /\ slots' = slots /\ waiting' = waiting /\ batch' = batch
      /\ fed' = fed /\ Request' = Request
  BY <1>1 DEF Emit, callVars, Request
<1>4. /\ todo \in Seq(Request) /\ todo # <<>> /\ Distinct(todo)
      /\ ToSet(todo) = In("Prefilling")
      /\ state \in [Request -> {"Waiting", "Prefilling", "Decoding", "Finished"}]
      /\ \A r \in Request : prompt[r] \in Nat
  BY <1>2, BatchAssumption DEF TypeOK, ITodo, Request
<1>5. /\ id \in In("Prefilling") /\ id \in Request /\ id \in Served
      /\ todo' \in Seq(Request) /\ Distinct(todo')
      /\ ToSet(todo') = In("Prefilling") \ {id}
  BY <1>2, <1>4, TailOfQueue DEF In, Served
<1>6. pc' # "assign" /\ pc' \in {"loop", "decode", "first", "token"}
  BY <1>2
<1> HIDE DEF id
<1>7. /\ TypeOK' /\ IQueues' /\ IStack' /\ ISlots'
      /\ \/ /\ state' = [state EXCEPT ![id] = "Finished"]
            /\ \A r \in Request \ {id} : output'[r] = output[r]
         \/ /\ state' = [state EXCEPT ![id] = "Decoding"]
            /\ output' = [output EXCEPT ![id] = @ + 1]
      /\ \A r \in Served \ {id} : idSlot'[r] = idSlot[r]
      /\ id \in Served' => idSlot'[id] = idSlot[id]
      /\ \A r \in Request : output[r] \in Nat
  BY <1>1, <1>2, <1>5, <1>6, Emitted
<1>8. \A r \in Request \ {id} : output'[r] = output[r] /\ state'[r] = state[r]
  BY <1>4, <1>7 DEF TypeOK
<1>9. /\ In("Waiting")' = In("Waiting")
      /\ In("Prefilling")' = In("Prefilling") \ {id}
      /\ In("Decoding")' \subseteq In("Decoding") \cup {id}
      /\ In("Decoding") \subseteq In("Decoding")'
  BY <1>3, <1>4, <1>5, <1>7 DEF In
<1>10. id \in In("Decoding")' => output'[id] = 1
  BY <1>3, <1>4, <1>5, <1>7 DEF In, IOutput, TypeOK
<1>11. ITodo'
  BY <1>2, <1>5, <1>9 DEF ITodo
<1>12. IBatch'
  <2>1. todo' = <<>> => In("Prefilling")' = {}
    BY <1>5, <1>9, InQueue
  <2> QED
    BY <1>2, <1>3, <1>9, <2>1 DEF IBatch
<1>13. IOutput'
  <2>1. \A r \in In("Waiting")' \cup In("Prefilling")' : r # id /\ output'[r] = 0
    BY <1>5, <1>8, <1>9 DEF IOutput, In
  <2>2. \A r \in In("Decoding")' : output'[r] > 0
    BY <1>8, <1>9, <1>10 DEF IOutput, In
  <2> QED
    BY <2>1, <2>2 DEF IOutput
<1>14. IRows'
  <2>1. ASSUME NEW r \in In("Prefilling")'
        PROVE  fed'[idSlot'[r]] = Tokens(r, prompt[r])
    <3>1. r \in In("Prefilling") /\ r \in Served \ {id}
      BY <1>9 DEF Served
    <3> QED
      BY <1>2, <1>3, <1>7, <3>1 DEF IRows
  <2>2. ASSUME NEW r \in In("Decoding")'
        PROVE  fed'[idSlot'[r]] = Tokens(r, prompt[r] + output'[r] - 1)
    <3>1. CASE r = id
      <4>1. idSlot'[id] = idSlot[id] /\ fed[idSlot[id]] = Tokens(id, prompt[id])
        BY <1>2, <1>5, <1>7, <3>1 DEF Served, IRows
      <4>2. prompt[id] + output'[id] - 1 = prompt[id]
        BY <1>4, <1>5, <1>10, <3>1
      <4> QED
        BY <1>3, <3>1, <4>1, <4>2
    <3>2. CASE r # id
      <4>1. r \in In("Decoding") /\ r \in Served \ {id} /\ r \in Request
        BY <1>9, <3>2 DEF Served, In
      <4>2. fed[idSlot[r]] = Tokens(r, prompt[r] + output[r] - 1)
        BY <1>2, <4>1 DEF IRows, Rows
      <4> QED
        BY <1>3, <1>7, <1>8, <3>2, <4>1, <4>2
    <3> QED
      BY <3>1, <3>2
  <2> QED
    BY <1>2, <1>3, <2>1, <2>2 DEF IRows, Rows, Tokens, Token
<1>15. WorkConserving'
  BY <1>2, <1>3 DEF WorkConserving
<1> QED
  BY <1>7, <1>11, <1>12, <1>13, <1>14, <1>15

\* Every request of the batch still has its slot and a token, so that all of them
\* decode; each slot gets the one row that was missing.
LEMMA DecodeInvariant ==
  ASSUME BatchInv, BatchDecode
  PROVE  BatchInv'
<1> USE DEF BatchInv
<1>1. /\ pc = "decode" /\ todo' = DecodeIds
      /\ pc' = IF DecodeIds = <<>> THEN "loop" ELSE "token"
  BY DEF BatchDecode
<1>2. /\ prompt' = prompt /\ slots' = slots /\ limit' = limit
      /\ waiting' = waiting /\ running' = running /\ state' = state
      /\ output' = output /\ batch' = batch
      /\ idSlot' = idSlot /\ freeSlots' = freeSlots
      /\ Request' = Request /\ Slot' = Slot
  BY DEF BatchDecode, callVars, schedVars, slotVars, Request, Slot
<1>3. \A x : In(x)' = In(x)
  BY <1>2 DEF In
<1>4. /\ DOMAIN idSlot = Served
      /\ \A a, b \in DOMAIN idSlot : idSlot[a] = idSlot[b] => a = b
      /\ \A r \in DOMAIN idSlot : idSlot[r] \in Slot
  BY <1>1 DEF ISlots, IStack, Unassigned, TypeOK
<1>5. DecodeIds = batch.decode
  <2>1. ToSet(batch.decode) \subseteq {id \in DOMAIN idSlot : output[id] > 0}
    BY <1>1, <1>4 DEF IBatch, IOutput, Served
  <2>2. batch.decode \in Seq(Request)
    BY DEF TypeOK
  <2> QED
    BY <2>1, <2>2, KeepAll DEF DecodeIds
<1>6. /\ todo' \in Seq(Request) /\ Distinct(todo')
      /\ ToSet(todo') \subseteq In("Decoding")
  BY <1>1, <1>5 DEF TypeOK, IBatch
<1>7. \A r \in In("Decoding") : /\ r \in Request /\ prompt[r] \in Nat
                                /\ output[r] \in Nat /\ output[r] > 0
                                /\ idSlot[r] \in Slot
  BY <1>4, BatchAssumption DEF TypeOK, In, IOutput, Request, Served
<1>8. ASSUME NEW r \in In("Decoding")
      PROVE  fed[idSlot[r]] = Tokens(r, prompt[r] + output[r] - 1)
  BY <1>1 DEF IRows, Rows
<1>9. ASSUME NEW r \in ToSet(todo')
      PROVE  fed'[idSlot[r]] = Tokens(r, prompt[r] + output[r])
  <2>1. /\ r \in In("Decoding") /\ idSlot[r] \in Slot
        /\ \A q \in ToSet(todo') : idSlot[q] = idSlot[r] => q = r
    BY <1>4, <1>6, <1>7 DEF Served
  <2>2. (CHOOSE q \in ToSet(DecodeIds) : idSlot[q] = idSlot[r]) = r
    BY <1>1, <2>1
  <2>3. fed'[idSlot[r]] = Append(fed[idSlot[r]], Token(r, DecodePos(r)))
    BY <1>1, <2>1, <2>2 DEF BatchDecode
  <2> DEFINE n == prompt[r] + output[r] - 1
  <2>4. n \in Nat /\ n + 1 = prompt[r] + output[r] /\ DecodePos(r) = n
    BY <1>7, <2>1 DEF DecodePos
  <2>5. fed[idSlot[r]] = Tokens(r, n) /\ r \in Request
    BY <1>7, <1>8, <2>1
  <2> HIDE DEF n
  <2> QED
    BY <2>3, <2>4, <2>5, TokensType
<1>10. ASSUME NEW r \in In("Decoding"), r \notin ToSet(todo')
       PROVE  fed'[idSlot[r]] = Tokens(r, prompt[r] + output[r] - 1)
  <2>1. idSlot[r] \in Slot /\ \A q \in ToSet(DecodeIds) : idSlot[q] # idSlot[r]
    BY <1>1, <1>4, <1>6, <1>7, <1>10 DEF Served
  <2> QED
    BY <1>8, <2>1 DEF BatchDecode
<1>11. TypeOK'
  <2>1. fed' \in [Slot -> Seq([req : Request, pos : Nat])]
    <3> SUFFICES ASSUME NEW s \in Slot
                 PROVE  fed'[s] \in Seq([req : Request, pos : Nat])
      BY DEF BatchDecode
    <3>1. CASE \E r \in ToSet(todo') : idSlot[r] = s
      <4>1. PICK r \in ToSet(todo') : idSlot[r] = s
        BY <3>1
      <4>2. r \in Request /\ prompt[r] + output[r] \in Nat
        BY <1>6, <1>7, <4>1
      <4> QED
        BY <1>9, <4>1, <4>2, TokensType
    <3>2. CASE ~ \E r \in ToSet(todo') : idSlot[r] = s
      BY <1>1, <3>2 DEF BatchDecode, TypeOK
    <3> QED
      BY <3>1, <3>2
  <2> QED
    BY <1>1, <1>2, <1>6, <2>1 DEF TypeOK
<1>12. IQueues' /\ IStack'
  BY <1>2, <1>3 DEF IQueues, IStack, Served
<1>13. ISlots'
  BY <1>1, <1>2, <1>3, <1>4 DEF ISlots, Served, Unassigned
<1>14. ITodo'
  BY <1>1, <1>3, <1>6 DEF ITodo
<1>15. IBatch' /\ IOutput'
  BY <1>1, <1>2, <1>3 DEF IBatch, IOutput
<1>16. IRows'
  <2>1. ASSUME NEW r \in In("Decoding")
        PROVE  fed'[idSlot[r]] = Tokens(r, Rows(r)')
    <3>1. CASE r \in ToSet(todo')
      <4>1. pc' = "token"
        BY <1>1, <1>6, <3>1, InQueue
      <4>2. Rows(r)' = prompt[r] + output[r]
        BY <1>2, <1>7, <3>1, <4>1 DEF Rows
      <4> QED
        BY <1>9, <3>1, <4>2
    <3>2. CASE r \notin ToSet(todo')
      <4>1. Rows(r)' = prompt[r] + output[r] - 1
        BY <1>2, <3>2 DEF Rows
      <4> QED
        BY <1>10, <3>2, <4>1
    <3> QED
      BY <3>1, <3>2
  <2>2. pc' # "first"
    BY <1>1
  <2> QED
    BY <1>2, <1>3, <2>1, <2>2 DEF IRows, Tokens, Token
<1>17. WorkConserving'
  BY <1>1 DEF WorkConserving
<1> QED
  BY <1>11, <1>12, <1>13, <1>14, <1>15, <1>16, <1>17

LEMMA TokenInvariant ==
  ASSUME BatchInv, DecodedToken
  PROVE  BatchInv'
<1> USE DEF BatchInv
<1> DEFINE id == Head(todo)
<1>1. /\ pc = "token" /\ todo' = Tail(todo)
      /\ pc' = IF todo' = <<>> THEN "loop" ELSE "token"
  BY DEF DecodedToken
<1>2. /\ todo \in Seq(Request) /\ todo # <<>> /\ Distinct(todo)
      /\ ToSet(todo) \subseteq In("Decoding")
      /\ state \in [Request -> {"Waiting", "Prefilling", "Decoding", "Finished"}]
      /\ \A r \in Request : prompt[r] \in Nat
  BY <1>1, BatchAssumption DEF TypeOK, ITodo, Request
<1>3. /\ id \in ToSet(todo) /\ id \in In("Decoding") /\ id \in Request /\ id \in Served
      /\ todo' \in Seq(Request) /\ Distinct(todo')
      /\ ToSet(todo') = ToSet(todo) \ {id}
  BY <1>1, <1>2, TailOfQueue DEF In, Served
<1>4. PICK eos \in BOOLEAN : Emit(id, eos, "Decoding")
  BY <1>3 DEF DecodedToken, In
<1>5. /\ prompt' = prompt /\ slots' = slots /\ waiting' = waiting /\ batch' = batch
      /\ fed' = fed /\ Request' = Request
  BY <1>4 DEF Emit, callVars, Request
<1>6. pc' # "assign" /\ pc' \in {"loop", "decode", "first", "token"}
  BY <1>1
<1> HIDE DEF id
<1>7. /\ TypeOK' /\ IQueues' /\ IStack' /\ ISlots'
      /\ \/ /\ state' = [state EXCEPT ![id] = "Finished"]
            /\ \A r \in Request \ {id} : output'[r] = output[r]
         \/ /\ state' = [state EXCEPT ![id] = "Decoding"]
            /\ output' = [output EXCEPT ![id] = @ + 1]
      /\ \A r \in Served \ {id} : idSlot'[r] = idSlot[r]
      /\ id \in Served' => idSlot'[id] = idSlot[id]
      /\ \A r \in Request : output[r] \in Nat
  BY <1>1, <1>3, <1>4, <1>6, Emitted
<1>8. \A r \in Request \ {id} : output'[r] = output[r] /\ state'[r] = state[r]
  BY <1>2, <1>7 DEF TypeOK
<1>9. /\ In("Waiting")' = In("Waiting")
      /\ In("Prefilling") = {} /\ In("Prefilling")' = {}
      /\ In("Decoding")' \subseteq In("Decoding")
      /\ In("Decoding") \ {id} \subseteq In("Decoding")'
  BY <1>1, <1>2, <1>3, <1>5, <1>7 DEF In, IBatch
<1>10. id \in In("Decoding")' => output'[id] = output[id] + 1
  BY <1>2, <1>3, <1>5, <1>7 DEF In, TypeOK
<1>11. ITodo'
  BY <1>1, <1>2, <1>3, <1>9 DEF ITodo
<1>12. IBatch'
  BY <1>1, <1>9 DEF IBatch
<1>13. IOutput'
  <2>1. \A r \in In("Waiting")' \cup In("Prefilling")' : r # id /\ output'[r] = 0
    BY <1>3, <1>8, <1>9 DEF IOutput, In
  <2>2. \A r \in In("Decoding")' : output'[r] > 0
    BY <1>3, <1>7, <1>8, <1>9, <1>10 DEF IOutput, In
  <2> QED
    BY <2>1, <2>2 DEF IOutput
<1>14. IRows'
  <2>1. ASSUME NEW r \in In("Decoding")'
        PROVE  fed'[idSlot'[r]] = Tokens(r, Rows(r)')
    <3>1. r \in In("Decoding") /\ r \in Request /\ fed[idSlot[r]] = Tokens(r, Rows(r))
      BY <1>9 DEF IRows, In
    <3>2. CASE r = id
      <4>1. r \in ToSet(todo) /\ r \notin ToSet(todo')
        BY <1>3, <3>2
      <4>2. Rows(r) = prompt[r] + output[r] /\ Rows(r)' = prompt[r] + (output[r] + 1) - 1
        BY <1>1, <1>2, <1>5, <1>7, <1>10, <3>1, <3>2, <4>1 DEF Rows
      <4>3. Rows(r)' = Rows(r)
        BY <1>2, <1>7, <3>1, <4>2
      <4> QED
        BY <1>5, <1>7, <3>1, <3>2, <4>3 DEF Served
    <3>3. CASE r # id
      <4>1. r \in ToSet(todo) <=> r \in ToSet(todo')
        BY <1>3, <3>3
      <4>2. r \in ToSet(todo') => pc' = "token"
        BY <1>1, <1>3, InQueue
      <4>3. Rows(r)' = Rows(r)
        BY <1>1, <1>5, <1>8, <3>1, <3>3, <4>1, <4>2 DEF Rows
      <4>4. idSlot'[r] = idSlot[r]
        BY <1>7, <3>1, <3>3 DEF Served
      <4> QED
        BY <1>5, <3>1, <4>3, <4>4
    <3> QED
      BY <3>2, <3>3
  <2>2. pc' # "first"
    BY <1>1
  <2> QED
    BY <1>5, <2>1, <2>2 DEF IRows, Tokens, Token
<1>15. WorkConserving'
  BY <1>1 DEF WorkConserving
<1> QED
  BY <1>7, <1>11, <1>12, <1>13, <1>14, <1>15

LEMMA StutterInvariant ==
  ASSUME BatchInv, UNCHANGED vars
  PROVE  BatchInv'
<1> USE DEF BatchInv
<1>1. /\ prompt' = prompt /\ slots' = slots /\ limit' = limit /\ pc' = pc
      /\ waiting' = waiting /\ running' = running /\ state' = state
      /\ output' = output /\ batch' = batch /\ fed' = fed /\ todo' = todo
      /\ idSlot' = idSlot /\ freeSlots' = freeSlots
      /\ Request' = Request /\ Slot' = Slot
  BY DEF vars, Request, Slot
<1>2. \A x : In(x)' = In(x)
  BY <1>1 DEF In
<1>3. TypeOK'
  BY <1>1 DEF TypeOK
<1>4. IQueues' /\ IStack' /\ ISlots'
  BY <1>1, <1>2 DEF IQueues, IStack, ISlots, Served, Unassigned
<1>5. ITodo' /\ IBatch' /\ IOutput' /\ WorkConserving'
  BY <1>1, <1>2 DEF ITodo, IBatch, IOutput, WorkConserving
<1>6. IRows'
  BY <1>1, <1>2 DEF IRows, Rows, Tokens, Token
<1> QED
  BY <1>3, <1>4, <1>5, <1>6

-----------------------------------------------------------------------------
\* The inductive invariant holds throughout.
THEOREM BatchInvariant == Spec => []BatchInv
<1>1. BatchInv /\ [Next]_vars => BatchInv'
  <2> SUFFICES ASSUME BatchInv, [Next]_vars  PROVE BatchInv'
    OBVIOUS
  <2>1. CASE BuildBatch
    BY <2>1, BuildInvariant
  <2>2. CASE AssignSlot
    BY <2>2, AssignInvariant
  <2>3. CASE BatchPrefill
    BY <2>3, PrefillInvariant
  <2>4. CASE PrefillRejected \/ Return
    BY <2>4, EndInvariant
  <2>5. CASE FirstToken
    BY <2>5, FirstInvariant
  <2>6. CASE BatchDecode
    BY <2>6, DecodeInvariant
  <2>7. CASE DecodedToken
    BY <2>7, TokenInvariant
  <2>8. CASE \E n \in 1 .. MaxRequests : \E P \in [0 .. n - 1 -> PromptLens] :
               \E b \in BatchSizes, lim \in Limits : StartCall(n, P, b, lim)
    BY <2>8, CallInvariant
  <2>9. CASE UNCHANGED vars
    BY <2>9, StutterInvariant
  <2> QED
    BY <2>1, <2>2, <2>3, <2>4, <2>5, <2>6, <2>7, <2>8, <2>9 DEF Next, Step
<1> QED
  BY <1>1, InitInvariant, PTL DEF Spec

\* For any number of prompts, of any lengths, and of slots: a slot is free or
\* held by one request, and UOCR_CHECK(!free_slots.empty()) never throws.
THEOREM SlotsStayPartitioned == Spec => []SlotsPartition
<1>1. BatchInv => SlotsPartition
  <2> SUFFICES ASSUME BatchInv  PROVE SlotsPartition
    OBVIOUS
  <2> USE DEF BatchInv
  <2>1. pc = "assign" => Len(freeSlots) >= Len(todo)
    <3>1. Len(freeSlots) \in Nat /\ Len(todo) \in Nat /\ Len(running) \in Nat /\ slots \in Nat
      BY DEF TypeOK
    <3>2. Len(running) <= slots
      BY DEF IQueues
    <3>3. pc = "assign" => Len(freeSlots) + Len(running) = slots + Len(todo)
      BY DEF ISlots
    <3> QED
      BY <3>1, <3>2, <3>3
  <2> QED
    BY <2>1 DEF SlotsPartition, IStack, Distinct
<1> QED
  BY <1>1, BatchInvariant, PTL

\* The queues of the scheduler, the slot map of the engine and the request
\* states agree whenever a batch is built.
THEOREM QueuesStayInAgreement == Spec => []QueuesAgree
<1>1. BatchInv => QueuesAgree
  <2> SUFFICES ASSUME BatchInv  PROVE QueuesAgree
    OBVIOUS
  <2> USE DEF BatchInv
  <2>1. pc = "loop" => In("Prefilling") = {} /\ Unassigned = {}
    BY DEF IBatch, Unassigned
  <2> QED
    BY <2>1 DEF QueuesAgree, IQueues, ISlots, Served
<1> QED
  BY <1>1, BatchInvariant, PTL

\* A request that decodes finds its own tokens, all of them and in order.
THEOREM SlotsHoldOwnTokens == Spec => []OwnTokens
<1>1. BatchInv => OwnTokens
  <2> SUFFICES ASSUME BatchInv, pc \in {"loop", "decode"},
                      NEW id \in DOMAIN idSlot, state[id] = "Decoding"
               PROVE  fed[idSlot[id]] = [i \in 1 .. prompt[id] + output[id] - 1 |->
                                           Token(id, i - 1)]
    BY DEF OwnTokens
  <2>1. id \in In("Decoding")
    BY DEF BatchInv, TypeOK, In
  <2> QED
    BY <2>1 DEF BatchInv, IRows, Rows, Tokens
<1> QED
  BY <1>1, BatchInvariant, PTL

\* No slot idles while a request waits.
THEOREM NoSlotIdles == Spec => []WorkConserving
<1>1. BatchInv => WorkConserving
  BY DEF BatchInv
<1> QED
  BY <1>1, BatchInvariant, PTL

-----------------------------------------------------------------------------
\* The refinement.  The ids of a call are numbers from zero on.
LEMMA AskedFor ==
  ASSUME TypeOK
  PROVE  \E n \in 0 .. MaxRequests :
           Request = 0 .. n - 1 /\ Cardinality(Request) = n /\ Contract!Request = Request
<1>1. PICK n \in 0 .. MaxRequests : prompt \in [0 .. n - 1 -> PromptLens]
  BY DEF TypeOK
<1>2. Request = 0 .. n - 1 /\ n \in Nat
  BY <1>1, BatchAssumption DEF Request
<1>3. Cardinality(Request) = n
  BY <1>2, FS_Interval
<1> QED
  BY <1>2, <1>3 DEF Contract!Request

\* A queue holds no more requests than it is long.
LEMMA QueueBound ==
  ASSUME NEW A, NEW q \in Seq(A), NEW n \in Nat, Len(q) <= n
  PROVE  Cardinality(ToSet(q)) <= n
<1>1. q \in Surjection(1 .. Len(q), ToSet(q)) /\ Len(q) \in Nat
  BY DEF Surjection, ToSet
<1>2. ExistsSurjection(1 .. Len(q), ToSet(q))
  BY <1>1 DEF ExistsSurjection
<1>3. /\ IsFiniteSet(ToSet(q)) /\ Cardinality(ToSet(q)) <= Len(q)
  BY <1>1, <1>2, FS_SurjCardinalityBound, FS_NatSurjection
<1>4. Cardinality(ToSet(q)) \in Nat
  BY <1>3, FS_CardinalityType
<1> QED
  BY <1>1, <1>3, <1>4

LEMMA ContractInit == Init => Contract!Init
<1> SUFFICES ASSUME Init  PROVE Contract!Init
  OBVIOUS
<1>1. Request = {}
  BY DEF Init, Request
<1>2. Cardinality(Request) = 0
  BY <1>1, FS_EmptySet
<1>3. [id \in Request |-> Phase(state[id])] = [r \in {} |-> "queued"]
  BY <1>1
<1> QED
  BY <1>2, <1>3 DEF Init, Contract!Init

\* Phase by phase.
LEMMA PhaseOf ==
  ASSUME TypeOK
  PROVE  /\ \A id \in Request : /\ Phase(state[id]) \in {"queued", "served", "done"}
                                /\ Phase(state[id]) = "queued" <=> id \in In("Waiting")
                                /\ Phase(state[id]) = "served" <=> id \in Served
         /\ Contract!In("queued") = In("Waiting")
         /\ Contract!In("served") = Served
<1>1. \A id \in Request : state[id] \in {"Waiting", "Prefilling", "Decoding", "Finished"}
  BY DEF TypeOK
<1>2. \A id \in Request : /\ Phase(state[id]) \in {"queued", "served", "done"}
                          /\ Phase(state[id]) = "queued" <=> id \in In("Waiting")
                          /\ Phase(state[id]) = "served" <=> id \in Served
  BY <1>1 DEF Phase, In, Served
<1>3. Contract!Request = Request
  BY AskedFor
<1> QED
  BY <1>2, <1>3 DEF Contract!In, In, Served

LEMMA CallRefines ==
  ASSUME NEW n \in 1 .. MaxRequests, NEW P \in [0 .. n - 1 -> PromptLens],
         NEW b \in BatchSizes, NEW lim \in Limits, StartCall(n, P, b, lim)
  PROVE  Contract!Call
<1>1. n \in Nat \ {0} /\ b \in Nat \ {0}
  BY BatchAssumption
<1>2. Request' = 0 .. n - 1
  BY DEF StartCall, Request
<1>3. Cardinality(Request') = n
  BY <1>1, <1>2, FS_Interval
<1>4. slots' \in 1 .. n
  <2>1. Min({b, n}) = IF b <= n THEN b ELSE n
    BY <1>1, MinOfTwo
  <2> QED
    BY <1>1, <2>1 DEF StartCall
<1>5. [id \in Request' |-> Phase(state'[id])] = [r \in 0 .. n - 1 |-> "queued"]
  BY <1>2 DEF StartCall, Phase
<1>6. output' = [r \in 0 .. n - 1 |-> 0] /\ limit' = lim
  BY DEF StartCall
<1> QED
  BY <1>3, <1>4, <1>5, <1>6 DEF Contract!Call

\* Assigning slots, the two passes through the decoder and the end of the call
\* are not seen by the caller.
LEMMA SilentSteps ==
  ASSUME AssignSlot \/ BatchPrefill \/ PrefillRejected \/ BatchDecode \/ Return
           \/ UNCHANGED vars
  PROVE  UNCHANGED Contract!vars
<1>1. /\ prompt' = prompt /\ slots' = slots /\ limit' = limit
      /\ state' = state /\ output' = output
  BY DEF AssignSlot, BatchPrefill, PrefillRejected, BatchDecode, Return, vars,
         callVars, schedVars
<1>2. Request' = Request
  BY <1>1 DEF Request
<1> QED
  BY <1>1, <1>2 DEF Contract!vars

\* The operator of FiniteSets is the same on both sides.
LEMMA SameCardinality == \A S : Contract!Cardinality(S) = Cardinality(S)
  BY DEF Contract!Cardinality, Cardinality

\* A batch that admits requests takes the oldest of those that wait.
LEMMA BuildRefines ==
  ASSUME BatchInv, BuildBatch
  PROVE  (\E R \in SUBSET Contract!Request : Contract!Admit(R)) \/ UNCHANGED Contract!vars
<1> USE DEF BatchInv
<1>1. /\ prompt' = prompt /\ slots' = slots /\ limit' = limit /\ output' = output
      /\ state' = [id \in Request |->
                     IF id \in ToSet(Admitted) THEN "Prefilling" ELSE state[id]]
      /\ Request' = Request /\ Slot' = Slot
  BY DEF BuildBatch, callVars, Request, Slot
<1>2. PICK k \in 0 .. Len(waiting) :
           /\ Len(running) + k <= slots
           /\ Admitted = FirstOf(waiting, k)
           /\ Len(Admitted) = k
           /\ running' = running \o Admitted
  BY BatchBuilt
<1>3. /\ waiting \in Seq(Request) /\ ToSet(waiting) = In("Waiting") /\ Len(waiting) \in Nat
      /\ \A i, j \in DOMAIN waiting : i < j => waiting[i] < waiting[j]
      /\ running \in Seq(Request) /\ ToSet(running) = Served /\ slots \in Nat
  BY DEF TypeOK, IQueues
<1>4. /\ Admitted \in Seq(Request) /\ DOMAIN waiting = 1 .. Len(waiting)
      /\ \A i \in 1 .. k : Admitted[i] = waiting[i] /\ i \in 1 .. Len(waiting)
  BY <1>2, <1>3 DEF FirstOf
<1> DEFINE R == ToSet(Admitted)
<1>5. R \subseteq In("Waiting")
  <2>1. \A r \in R : \E i \in 1 .. k : r = Admitted[i]
    BY <1>2, <1>4, InQueue
  <2>2. \A i \in 1 .. Len(waiting) : waiting[i] \in ToSet(waiting)
    BY <1>3, InQueue
  <2> HIDE DEF R
  <2> QED
    BY <1>3, <1>4, <2>1, <2>2
<1>6. CASE Admitted = <<>>
  <2>1. ToSet(Admitted) = {}
    BY <1>4, <1>6, InQueue
  <2>2. state' = state
    BY <1>1, <2>1 DEF TypeOK
  <2> QED
    BY <1>1, <2>2 DEF Contract!vars
<1>7. CASE Admitted # <<>>
  <2>1. R # {}
    BY <1>4, <1>7, InQueue
  <2>2. \A r \in R, q \in In("Waiting") \ R : r < q
    <3> SUFFICES ASSUME NEW r \in R, NEW q \in In("Waiting") \ R  PROVE r < q
      OBVIOUS
    <3>1. PICK i \in 1 .. k : r = waiting[i] /\ i \in 1 .. Len(waiting)
      BY <1>2, <1>4, InQueue
    <3>2. PICK j \in 1 .. Len(waiting) : q = waiting[j]
      BY <1>3, InQueue
    <3>3. \A m \in 1 .. k : waiting[m] \in R
      BY <1>2, <1>4, InQueue
    <3>4. j \notin 1 .. k
      BY <3>2, <3>3
    <3>5. i < j
      BY <1>3, <3>1, <3>2, <3>4
    <3> QED
      BY <1>3, <1>4, <3>1, <3>2, <3>5
  <2>3. Cardinality(Served \cup R) <= slots
    <3>1. running' \in Seq(Request) /\ Len(running') = Len(running) + k
      BY <1>2, <1>3, <1>4
    <3>2. ToSet(running') = Served \cup R
      <4>1. Served' = Served \cup R
        BY <1>1, <1>5 DEF Served, In
      <4>2. ToSet(running') = Served'
        BY BuildInvariant DEF IQueues
      <4> QED
        BY <4>1, <4>2
    <3>3. Cardinality(ToSet(running')) <= slots
      BY <1>2, <1>3, <3>1, QueueBound
    <3> QED
      BY <3>2, <3>3
  <2>4. [id \in Request |-> Phase(state'[id])]
          = [r \in Request |-> IF r \in R THEN "served" ELSE Phase(state[r])]
    BY <1>1 DEF Phase
  <2>5. Contract!Request = Request
    BY AskedFor
  <2>6. R \subseteq Request
    BY <1>5 DEF In
  <2>7. Contract!In("queued") = In("Waiting") /\ Contract!In("served") = Served
    BY PhaseOf
  <2>8. [id \in Request' |-> Phase(state'[id])]
          = [r \in Contract!Request |->
               IF r \in R THEN "served" ELSE [id \in Request |-> Phase(state[id])][r]]
    BY <1>1, <2>4, <2>5
  <2> HIDE DEF R
  <2>9. Contract!Admit(R)
    <3>1. R \subseteq Contract!In("queued") /\ R # {}
      BY <1>5, <2>1, <2>7
    <3>2. \A r \in R, q \in Contract!In("queued") \ R : r < q
      BY <2>2, <2>7
    <3>3. Contract!Cardinality(Contract!In("served") \cup R) <= slots
      BY <2>3, <2>7, SameCardinality
    <3>4. /\ Cardinality(Request') = Cardinality(Request)
          /\ slots' = slots /\ limit' = limit /\ output' = output
      BY <1>1
    <3> QED
      BY <2>8, <3>1, <3>2, <3>3, <3>4 DEF Contract!Admit
  <2> QED
    BY <2>5, <2>6, <2>9
<1> QED
  BY <1>6, <1>7

\* A sample is one token more, or the end of the request.
LEMMA EmitRefines ==
  ASSUME TypeOK, NEW id \in Served, NEW eos \in BOOLEAN, Emit(id, eos, "Decoding")
  PROVE  Contract!Give(id) \/ Contract!Stop(id)
<1> DEFINE phase == [r \in Request |-> Phase(state[r])]
<1>1. /\ prompt' = prompt /\ slots' = slots /\ limit' = limit /\ Request' = Request
  BY DEF Emit, callVars, Request
<1>2. /\ state \in [Request -> {"Waiting", "Prefilling", "Decoding", "Finished"}]
      /\ output \in [Request -> Nat] /\ id \in Request
  BY DEF TypeOK, Served, In
<1>3. id \in Contract!In("served") /\ phase[id] = "served"
  BY <1>2, PhaseOf
<1>4. CASE eos \/ ReachesLimit(output[id] + 1)
  <2>1. state' = [state EXCEPT ![id] = "Finished"]
    BY <1>4 DEF Emit, FinishRequest
  <2>2. [r \in Request' |-> Phase(state'[r])] = [phase EXCEPT ![id] = "done"]
    BY <1>1, <1>2, <2>1 DEF Phase
  <2>3. CASE eos
    <3>1. output' = output
      BY <2>3 DEF Emit
    <3> QED
      BY <1>1, <1>3, <2>2, <3>1 DEF Contract!Stop
  <2>4. CASE ~ eos
    <3>1. output' = [output EXCEPT ![id] = @ + 1] /\ output[id] + 1 >= limit
      BY <1>4, <2>4 DEF Emit, ReachesLimit
    <3> QED
      BY <1>1, <1>3, <2>2, <3>1 DEF Contract!Give
  <2> QED
    BY <2>3, <2>4
<1>5. CASE ~ (eos \/ ReachesLimit(output[id] + 1))
  <2>1. /\ state' = [state EXCEPT ![id] = "Decoding"]
        /\ output' = [output EXCEPT ![id] = @ + 1] /\ ~ (output[id] + 1 >= limit)
    BY <1>5 DEF Emit, ReachesLimit
  <2>2. [r \in Request' |-> Phase(state'[r])] = [phase EXCEPT ![id] = @]
    BY <1>1, <1>2, <1>3, <2>1 DEF Phase
  <2> QED
    BY <1>1, <1>3, <2>1, <2>2 DEF Contract!Give
<1> QED
  BY <1>4, <1>5

LEMMA TokenRefines ==
  ASSUME BatchInv, FirstToken \/ DecodedToken
  PROVE  \E r \in Contract!Request : Contract!Give(r) \/ Contract!Stop(r)
<1> USE DEF BatchInv
<1> DEFINE id == Head(todo)
<1>1. /\ todo \in Seq(Request) /\ todo # <<>> /\ Distinct(todo)
      /\ pc = "first" => ToSet(todo) = In("Prefilling")
      /\ pc = "token" => ToSet(todo) \subseteq In("Decoding")
      /\ pc \in {"first", "token"}
  BY DEF TypeOK, ITodo, FirstToken, DecodedToken
<1>2. id \in ToSet(todo)
  BY <1>1, TailOfQueue
<1>3. id \in Served /\ id \in Request /\ (pc = "token" => state[id] = "Decoding")
  BY <1>1, <1>2 DEF Served, In
<1>4. PICK eos \in BOOLEAN : Emit(id, eos, "Decoding")
  BY <1>3 DEF FirstToken, DecodedToken
<1> HIDE DEF id
<1>5. Contract!Give(id) \/ Contract!Stop(id)
  BY <1>3, <1>4, EmitRefines
<1> QED
  BY <1>3, <1>5, AskedFor

\* generate_batch keeps the contract of its callers: requests are taken up in
\* the order they were passed, never more than there are slots, and given tokens
\* one by one until their limit or the end-of-sequence token.
THEOREM KeepsContract == Spec => ImplementsContract
<1>1. BatchInv /\ [Next]_vars => [Contract!Next]_(Contract!vars)
  <2> SUFFICES ASSUME BatchInv, [Next]_vars
               PROVE  Contract!Next \/ UNCHANGED Contract!vars
    OBVIOUS
  <2>1. CASE BuildBatch
    BY <2>1, BuildRefines DEF Contract!Next
  <2>2. CASE FirstToken \/ DecodedToken
    BY <2>2, TokenRefines DEF Contract!Next
  <2>3. CASE AssignSlot \/ BatchPrefill \/ PrefillRejected \/ BatchDecode \/ Return
               \/ UNCHANGED vars
    BY <2>3, SilentSteps
  <2>4. CASE \E n \in 1 .. MaxRequests : \E P \in [0 .. n - 1 -> PromptLens] :
               \E b \in BatchSizes, lim \in Limits : StartCall(n, P, b, lim)
    BY <2>4, CallRefines DEF Contract!Next
  <2> QED
    BY <2>1, <2>2, <2>3, <2>4 DEF Next, Step
<1> QED
  BY <1>1, ContractInit, BatchInvariant, PTL DEF Spec, ImplementsContract, Contract!Spec
=============================================================================
