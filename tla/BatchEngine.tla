---------------------------- MODULE BatchEngine ----------------------------
(***************************************************************************)
(* Continuous batching on the device: Engine::generate_batch               *)
(* (src/src/engine/engine.cpp), the ContinuousBatchScheduler it drives     *)
(* (src/src/scheduler/continuous_batch.cpp), and the slots of the batched  *)
(* K/V cache that GpuDecoder::batch_prefill_embeds and batch_decode        *)
(* (src/src/engine/gpu_decoder.cu) fill.                                   *)
(*                                                                         *)
(* Everything runs in the caller's thread.  What makes it hard is that the *)
(* state of one request is spread over the scheduler's queues, the         *)
(* engine's slot map and stack, and the rows of a slot, and that a batch   *)
(* is a snapshot of the queues which the steps after it make stale.  Each  *)
(* for-loop of the code is one action per iteration, `todo` being the      *)
(* iterations left.  Sampling is a choice between the end-of-sequence      *)
(* token and any other.                                                    *)
(***************************************************************************)
EXTENDS Integers, SequencesExt

CONSTANTS
  MaxRequests,  \* bound on the number of prompts in a call
  PromptLens,   \* prompt lengths the model enumerates
  BatchSizes,   \* values of EngineConfig::max_batch_size
  Limits        \* values of the token limit

ASSUME BatchAssumption ==
  /\ MaxRequests \in Nat \ {0}
  /\ PromptLens \subseteq Nat
  /\ BatchSizes \subseteq Nat \ {0}
  /\ Limits \subseteq Int

VARIABLES
  pc,         \* where generate_batch is
  prompt,     \* prompt[id]: length of the prompt of request id
  limit,      \* max_new_tokens of every request
  slots,      \* max_batch_size_ of the scheduler, slots of the cache
  waiting,    \* waiting_
  running,    \* running_
  state,      \* state[id]: ReqState
  output,     \* output[id]: size of output_tokens
  batch,      \* the Batch of this iteration
  todo,       \* ids the current for-loop has not handled yet
  idSlot,     \* id_slot
  freeSlots,  \* free_slots, a stack
  fed         \* fed[s]: the tokens slot s of the cache was given, in order

schedVars == <<waiting, running, state, output>>
slotVars == <<idSlot, freeSlots>>
callVars == <<prompt, limit, slots>>
vars == <<pc, prompt, limit, slots, waiting, running, state, output, batch,
          todo, idSlot, freeSlots, fed>>

Idle == {"idle", "returned", "thrown"}
Request == DOMAIN prompt
Slot == 0 .. slots - 1
NoBatch == [prefill |-> <<>>, decode |-> <<>>]

TypeOK ==
  /\ pc \in Idle \cup {"loop", "assign", "prefill", "first", "decode", "token"}
  /\ \E n \in 0 .. MaxRequests : prompt \in [0 .. n - 1 -> PromptLens]
  /\ slots \in Nat
  /\ waiting \in Seq(Request) /\ running \in Seq(Request)
  /\ state \in [Request -> {"Waiting", "Prefilling", "Decoding", "Finished"}]
  /\ output \in [Request -> Nat]
  /\ batch \in [prefill : Seq(Request), decode : Seq(Request)]
  /\ todo \in Seq(Request)
  /\ DOMAIN idSlot \subseteq Request
  /\ \A id \in DOMAIN idSlot : idSlot[id] \in Slot
  /\ freeSlots \in Seq(Slot)
  /\ fed \in [Slot -> Seq([req : Request, pos : Nat])]

Init ==
  /\ pc = "idle"
  /\ prompt = [r \in {} |-> 0]
  /\ limit = 0
  /\ slots = 0
  /\ waiting = <<>> /\ running = <<>>
  /\ state = [r \in {} |-> "Waiting"]
  /\ output = [r \in {} |-> 0]
  /\ batch = NoBatch
  /\ todo = <<>>
  /\ idSlot = [r \in {} |-> 0]
  /\ freeSlots = <<>>
  /\ fed = [s \in {} |-> <<>>]

-----------------------------------------------------------------------------
\* free_slots at the start of a call.
InitialSlots(k) == [i \in 1 .. k |-> i - 1]

\* The call: batch_configure clears every slot, add_request queues every
\* prompt of a new scheduler, and free_slots holds 0 .. slots - 1.
StartCall(n, P, b, lim) ==
  /\ pc \in Idle
  /\ prompt' = P
  /\ limit' = lim
  /\ slots' = Min({b, n})
  /\ waiting' = [i \in 1 .. n |-> i - 1]
  /\ running' = <<>>
  /\ state' = [r \in 0 .. n - 1 |-> "Waiting"]
  /\ output' = [r \in 0 .. n - 1 |-> 0]
  /\ batch' = NoBatch
  /\ todo' = <<>>
  /\ idSlot' = [r \in {} |-> 0]
  /\ freeSlots' = InitialSlots(Min({b, n}))
  /\ fed' = [s \in 0 .. Min({b, n}) - 1 |-> <<>>]
  /\ pc' = "loop"

HasWork == waiting # <<>> \/ running # <<>>

\* What std::remove and a loop with `continue` leave of a queue: the ids of S,
\* in order.  (SelectSeq says the same, but no prover can expand it.)
Keep(queue, S) ==
  LET kept[i \in 0 .. Len(queue)] ==
        IF i = 0 THEN <<>>
        ELSE IF queue[i] \in S THEN Append(kept[i - 1], queue[i]) ELSE kept[i - 1]
  IN  kept[Len(queue)]

In(s) == {id \in Request : state[id] = s}

\* Running requests come first, in order, while there is room ...
Unfinished(queue) == Keep(queue, Request \ In("Finished"))
Continued ==
  SubSeq(Unfinished(running), 1, Min({Len(Unfinished(running)), slots}))

\* ... then waiting ones.
MutAdmitNewest ==
  LET n == Min({Len(waiting), slots - Len(Continued)})
  IN  SubSeq(waiting, Len(waiting) - n + 1, Len(waiting))
MutAdmitOneFewer ==
  SubSeq(waiting, 1, Min({Len(waiting), slots - 1 - Len(Continued)}))
Admitted == SubSeq(waiting, 1, Min({Len(waiting), slots - Len(Continued)}))

BuildBatch ==
  /\ pc = "loop" /\ HasWork
  /\ LET prefill == Keep(Continued, In("Prefilling")) \o Admitted
     IN  /\ batch' = [prefill |-> prefill, decode |-> Keep(Continued, In("Decoding"))]
         /\ todo' = prefill
         /\ pc' = IF prefill # <<>> THEN "assign" ELSE "decode"
  /\ waiting' = SubSeq(waiting, Len(Admitted) + 1, Len(waiting))
  /\ state' = [id \in Request |->
                 IF id \in ToSet(Admitted) THEN "Prefilling" ELSE state[id]]
  /\ running' = Unfinished(running) \o Admitted
  /\ UNCHANGED <<callVars, output, slotVars, fed>>

-----------------------------------------------------------------------------
\* Each request to prefill takes the slot on top of the stack.
AssignSlot ==
  /\ pc = "assign"
  /\ freeSlots # <<>>    \* else UOCR_CHECK throws, see SlotsPartition
  /\ idSlot' = [id \in DOMAIN idSlot \cup {Head(todo)} |->
                  IF id = Head(todo) THEN Last(freeSlots) ELSE idSlot[id]]
  /\ freeSlots' = Front(freeSlots)
  /\ todo' = Tail(todo)
  /\ pc' = IF Tail(todo) = <<>> THEN "prefill" ELSE "assign"
  /\ UNCHANGED <<callVars, schedVars, batch, fed>>

Token(id, p) == [req |-> id, pos |-> p]

\* One ragged pass writes every prompt from row 0 of its slot.
BatchPrefill ==
  /\ pc = "prefill"
  /\ \A id \in ToSet(batch.prefill) : prompt[id] > 0
  /\ fed' = [s \in Slot |->
               IF \E id \in ToSet(batch.prefill) : idSlot[id] = s
                 THEN LET id == CHOOSE id \in ToSet(batch.prefill) : idSlot[id] = s
                      IN  [i \in 1 .. prompt[id] |-> Token(id, i - 1)]
                 ELSE fed[s]]
  /\ todo' = batch.prefill
  /\ pc' = "first"
  /\ UNCHANGED <<callVars, schedVars, batch, slotVars>>

\* UOCR_CHECK(lengths[r] > 0): the exception ends the call for every request.
PrefillRejected ==
  /\ pc = "prefill"
  /\ \E id \in ToSet(batch.prefill) : prompt[id] = 0
  /\ pc' = "thrown"
  /\ UNCHANGED <<callVars, schedVars, batch, todo, slotVars, fed>>

-----------------------------------------------------------------------------
\* The lambda release.
MutReleaseTwice(id) ==
  /\ freeSlots' = freeSlots \o <<idSlot[id], idSlot[id]>>
  /\ idSlot' = [r \in DOMAIN idSlot \ {id} |-> idSlot[r]]
MutReleaseKeepsMapping(id) ==
  /\ freeSlots' = Append(freeSlots, idSlot[id])
  /\ UNCHANGED idSlot
Release(id) ==
  IF id \in DOMAIN idSlot
    THEN /\ freeSlots' = Append(freeSlots, idSlot[id])
         /\ idSlot' = [r \in DOMAIN idSlot \ {id} |-> idSlot[r]]
    ELSE UNCHANGED slotVars

\* add_token's test, for the token that makes n of them.
ReachesLimit(n) == n >= limit

\* finish().
FinishRequest(id) ==
  /\ state' = [state EXCEPT ![id] = "Finished"]
  /\ running' = Keep(running, Request \ {id})

\* What follows a sample for request id: the end-of-sequence token finishes it
\* without being kept, another is pushed by add_token, which may finish it.  s is
\* its state otherwise.
Emit(id, eos, s) ==
  /\ output' = IF eos THEN output ELSE [output EXCEPT ![id] = @ + 1]
  /\ IF eos \/ ReachesLimit(output[id] + 1)
       THEN FinishRequest(id) /\ Release(id)
       ELSE /\ state' = [state EXCEPT ![id] = s]
            /\ UNCHANGED <<running, slotVars>>
  /\ UNCHANGED <<callVars, waiting, batch, fed>>

\* After the prefill: mark_prefilled, then the first token of each request.
FirstToken ==
  /\ pc = "first"
  /\ \E eos \in BOOLEAN : Emit(Head(todo), eos, "Decoding")
  /\ todo' = Tail(todo)
  /\ pc' = IF Tail(todo) = <<>> THEN "decode" ELSE "first"

\* The requests to decode are those of the batch that still have a slot.
DecodeIds ==
  Keep(batch.decode, {id \in DOMAIN idSlot : output[id] > 0})

\* The position of the token that request id decodes next.
MutPosAfterLast(id) == prompt[id] + output[id]
DecodePos(id) == prompt[id] + output[id] - 1

\* batch_decode appends the last token of each request to its slot.
BatchDecode ==
  /\ pc = "decode"
  /\ fed' = [s \in Slot |->
               IF \E id \in ToSet(DecodeIds) : idSlot[id] = s
                 THEN LET id == CHOOSE id \in ToSet(DecodeIds) : idSlot[id] = s
                      IN  Append(fed[s], Token(id, DecodePos(id)))
                 ELSE fed[s]]
  /\ todo' = DecodeIds
  /\ pc' = IF DecodeIds = <<>> THEN "loop" ELSE "token"
  /\ UNCHANGED <<callVars, schedVars, batch, slotVars>>

DecodedToken ==
  /\ pc = "token"
  /\ \E eos \in BOOLEAN : Emit(Head(todo), eos, state[Head(todo)])
  /\ todo' = Tail(todo)
  /\ pc' = IF Tail(todo) = <<>> THEN "loop" ELSE "token"

Return ==
  /\ pc = "loop" /\ ~ HasWork
  /\ pc' = "returned"
  /\ UNCHANGED <<callVars, schedVars, batch, todo, slotVars, fed>>

Step ==
  \/ BuildBatch
  \/ AssignSlot
  \/ BatchPrefill
  \/ PrefillRejected
  \/ FirstToken
  \/ BatchDecode
  \/ DecodedToken
  \/ Return

Next ==
  \/ Step
  \/ \E n \in 1 .. MaxRequests : \E P \in [0 .. n - 1 -> PromptLens] :
       \E b \in BatchSizes, lim \in Limits : StartCall(n, P, b, lim)

\* The caller's thread keeps running until the call returns.
Spec == Init /\ [][Next]_vars /\ WF_vars(Step)

-----------------------------------------------------------------------------
\* Every slot is either on the stack, once, or held by one request; and the
\* scheduler admits no more requests than there are slots to give them, so
\* UOCR_CHECK(!free_slots.empty()) of the prefill loop never throws.
SlotsPartition ==
  /\ \A i, j \in DOMAIN freeSlots : freeSlots[i] = freeSlots[j] => i = j
  /\ \A a, b \in DOMAIN idSlot : idSlot[a] = idSlot[b] => a = b
  /\ \A s \in Slot : s \in ToSet(freeSlots)
                       <=> \A id \in DOMAIN idSlot : idSlot[id] # s
  /\ pc = "assign" => Len(freeSlots) >= Len(todo)

\* Between two iterations the slot map, the running list and the request states
\* agree: finish, release and the erasure from running_ never come apart.  At
\* all times all of them are of their types.
QueuesAgree ==
  /\ TypeOK
  /\ pc = "loop" =>
       /\ ToSet(running) = In("Decoding")
       /\ ToSet(waiting) = In("Waiting")
       /\ DOMAIN idSlot = ToSet(running)
       /\ Len(running) <= slots

\* A request that decodes finds in its slot its own tokens, all of them and in
\* order, and nothing of a request that held the slot before.
OwnTokens ==
  pc \in {"loop", "decode"} =>
    \A id \in DOMAIN idSlot : state[id] = "Decoding" =>
      fed[idSlot[id]] = [i \in 1 .. prompt[id] + output[id] - 1 |-> Token(id, i - 1)]

\* No slot idles while a request waits: the batch is full or the queue is empty.
WorkConserving ==
  pc \in {"assign", "prefill", "first"} =>
    waiting = <<>> \/ Len(batch.prefill) + Len(batch.decode) = slots

\* Every call ends, by returning or by the exception of an empty prompt: neither
\* the scheduler nor the slots can make the loop run forever.
CallEnds == pc = "loop" ~> pc \in Idle

\* generate_batch keeps the contract of its callers.
Phase(s) ==
  CASE s = "Waiting" -> "queued"
    [] s = "Finished" -> "done"
    [] OTHER -> "served"

Contract == INSTANCE BatchContract WITH
  asked <- Cardinality(Request),
  phase <- [id \in Request |-> Phase(state[id])],
  given <- output

ImplementsContract == Contract!Spec
=============================================================================
