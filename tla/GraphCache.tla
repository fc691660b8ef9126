----------------------------- MODULE GraphCache -----------------------------
(***************************************************************************)
(* The captured CUDA graphs of GpuDecoder and the device buffers they bake *)
(* (src/src/engine/gpu_decoder.cu).  A graph replays kernels on the        *)
(* addresses of its capture, so it must be discarded when one of those     *)
(* buffers is reallocated.  Buffers grow on demand inside whichever call   *)
(* needs more rows, and Engine::generate and Engine::generate_batch share  *)
(* one GpuDecoder, so a call of one moves buffers under the graphs of the  *)
(* other.                                                                  *)
(*                                                                         *)
(* A captured graph is modelled by the set of buffers it bakes that were   *)
(* freed since the capture.                                                *)
(***************************************************************************)
EXTENDS Integers

CONSTANTS
  Seqs,        \* prompt lengths of generate
  Totals,      \* rows of one ragged prefill
  MaxSlots,    \* bound on the slots of batch_configure
  Capacities,  \* rows per slot of batch_configure
  Window       \* window of the R-SWA cache

ASSUME GraphAssumption ==
  /\ Seqs \subseteq Nat \ {0} /\ Totals \subseteq Nat \ {0}
  /\ MaxSlots \in Nat \ {0}
  /\ Capacities \subseteq Nat \ {0}
  /\ Window \in Nat \ {0}

VARIABLES
  scope,      \* graph_scope_: "full" or "attnDense", set with the engine
  prefillMoE, \* prefill_dev_moe_, set with the engine
  mode,       \* the call the engine is in: "none", "generate" or "batch"
  cap,        \* cap[b]: rows allocated for buffer b, 0 for none
  prefillLen, \* cache_.prefill_len()
  slotShape,  \* <<batch_slots_, batch_cap_>>
  single,     \* the graph of decode_token, if graph_ready_
  batch,      \* batch[n]: the graph of n rows, if captured
  replay      \* the graph launched last and its freed buffers

settings == <<scope, prefillMoE>>
vars == <<scope, prefillMoE, mode, cap, prefillLen, slotShape, single, batch, replay>>

\* d_token_ids_; what ensure_scratch and ensure_router_scratch allocate; the K/V
\* of cache_; the K/V and the tables of the batch slots.
Buffer == {"tokens", "scratch", "router", "cache", "slots"}

NoGraphs == [n \in {} |-> {}]
NotReady == [ready |-> FALSE, prefill |-> -1, freed |-> {}]
NoReplay == [graph |-> "none", rows |-> 0, freed |-> {}]

TypeOK ==
  /\ scope \in {"full", "attnDense"} /\ prefillMoE \in BOOLEAN
  /\ mode \in {"none", "generate", "batch"}
  /\ cap \in [Buffer -> Nat]
  /\ prefillLen \in Nat
  /\ single \in [ready : BOOLEAN, prefill : Int, freed : SUBSET Buffer]
  /\ slotShape \in (0 .. MaxSlots) \X Nat
  /\ DOMAIN batch \subseteq 1 .. slotShape[1]
  /\ \A n \in DOMAIN batch : batch[n] \subseteq Buffer
  /\ replay \in [graph : {"none", "single", "batch"}, rows : Nat, freed : SUBSET Buffer]

Init ==
  /\ scope \in {"full", "attnDense"} /\ prefillMoE \in BOOLEAN
  /\ mode = "none"
  /\ cap = [b \in Buffer |-> 0]
  /\ prefillLen = 0
  /\ slotShape = <<0, 0>>
  /\ single = NotReady
  /\ batch = NoGraphs
  /\ replay = NoReplay

-----------------------------------------------------------------------------
\* The device state that a call changes step by step.
Device == [cap |-> cap, single |-> single, batch |-> batch]

SetDevice(d) == cap' = d.cap /\ single' = d.single /\ batch' = d.batch

\* The buffers whose addresses a capture bakes.  With kAttnDense the embedding
\* gather and the MoE are launched outside the graph.
SingleBakes ==
  IF scope = "full" THEN {"tokens", "scratch", "router", "cache"}
                    ELSE {"scratch", "cache"}
BatchBakes == {"scratch", "router", "slots"}

InvalidateGraph(d) == [d EXCEPT !.single = NotReady]
InvalidateBatchGraphs(d) == [d EXCEPT !.batch = NoGraphs]

\* Reallocating buffer b for n rows: the graphs still there keep its old address.
Reallocate(d, b, n) ==
  [cap |-> [d.cap EXCEPT ![b] = n],
   single |-> IF d.single.ready /\ b \in SingleBakes
                THEN [d.single EXCEPT !.freed = @ \cup {b}] ELSE d.single,
   batch |-> IF b \in BatchBakes
               THEN [k \in DOMAIN d.batch |-> d.batch[k] \cup {b}] ELSE d.batch]

EnsureTokenIds(d, n) ==
  IF n <= d.cap["tokens"] THEN d
  ELSE Reallocate(InvalidateBatchGraphs(InvalidateGraph(d)), "tokens", n)

MutEnsureScratchKeepsGraphs(d, n) ==
  IF n <= d.cap["scratch"] THEN d ELSE Reallocate(d, "scratch", n)
EnsureScratch(d, n) ==
  IF n <= d.cap["scratch"] THEN d
  ELSE Reallocate(InvalidateBatchGraphs(d), "scratch", n)

EnsureRouter(d, n) ==
  IF n <= d.cap["router"] THEN d
  ELSE Reallocate(InvalidateBatchGraphs(d), "router", n)

\* GpuRSWACache::reset().
ResetCache(d, seq) ==
  IF seq + Window <= d.cap["cache"] THEN d ELSE Reallocate(d, "cache", seq + Window)

-----------------------------------------------------------------------------
\* prefill_embeds, the start of Engine::generate: a graph captured for another
\* prompt length is discarded.
MutKeepsGraph(seq) == FALSE
OtherPrefill(seq) == single.ready /\ single.prefill # seq

Prefill(seq) ==
  /\ LET d1 == IF OtherPrefill(seq) THEN InvalidateGraph(Device) ELSE Device
         d2 == EnsureScratch(ResetCache(d1, seq), seq)
     IN  SetDevice(IF prefillMoE THEN EnsureRouter(d2, seq) ELSE d2)
  /\ mode' = "generate"
  /\ prefillLen' = seq
  /\ replay' = NoReplay
  /\ UNCHANGED <<settings, slotShape>>

\* decode_token with use_graph_: capture once, then replay.
Captured(d) == [ready |-> TRUE, prefill |-> prefillLen, freed |-> {}]

DecodeToken ==
  /\ mode = "generate"
  /\ LET d1 == EnsureTokenIds(Device, 1)
         d2 == EnsureRouter(EnsureScratch(d1, 1), 1)
         d3 == IF d1.single.ready THEN d1 ELSE [d2 EXCEPT !.single = Captured(d2)]
     IN  /\ SetDevice(d3)
         /\ replay' = [graph |-> "single", rows |-> 1, freed |-> d3.single.freed]
  /\ UNCHANGED <<settings, mode, prefillLen, slotShape>>

-----------------------------------------------------------------------------
\* batch_configure, the start of Engine::generate_batch: the slots are kept if
\* their shape is.
SameShape(s, c) == slotShape = <<s, c>>

NewSlots(d, s, c) == Reallocate(InvalidateBatchGraphs(d), "slots", s * c)

BatchConfigure(s, c) ==
  /\ LET d == EnsureTokenIds(Device, s)
     IN  SetDevice(IF SameShape(s, c) THEN d ELSE NewSlots(d, s, c))
  /\ slotShape' = IF SameShape(s, c) THEN slotShape ELSE <<s, c>>
  /\ mode' = "batch"
  /\ replay' = NoReplay
  /\ UNCHANGED <<settings, prefillLen>>

\* batch_prefill_embeds of prompts of `total` tokens together; no graph runs.
BatchPrefill(total) ==
  /\ mode = "batch"
  /\ SetDevice(EnsureRouter(EnsureScratch(Device, total), total))
  /\ replay' = NoReplay
  /\ UNCHANGED <<settings, mode, prefillLen, slotShape>>

\* batch_decode of n rows: with kFull the graph of that size is captured once
\* and replayed, otherwise the kernels are launched one by one.
BatchDecode(n) ==
  /\ mode = "batch" /\ n <= slotShape[1]
  /\ LET d == EnsureTokenIds(EnsureRouter(EnsureScratch(Device, n), n), n)
         graphs == IF n \in DOMAIN d.batch THEN d.batch
                   ELSE [k \in DOMAIN d.batch \cup {n} |->
                           IF k = n THEN {} ELSE d.batch[k]]
     IN  IF scope = "full"
           THEN /\ SetDevice([d EXCEPT !.batch = graphs])
                /\ replay' = [graph |-> "batch", rows |-> n, freed |-> graphs[n]]
           ELSE SetDevice(d) /\ replay' = NoReplay
  /\ UNCHANGED <<settings, mode, prefillLen, slotShape>>

Next ==
  \/ \E seq \in Seqs : Prefill(seq)
  \/ DecodeToken
  \/ \E s \in 1 .. MaxSlots, c \in Capacities : BatchConfigure(s, c)
  \/ \E total \in Totals : BatchPrefill(total)
  \/ \E n \in 1 .. MaxSlots : BatchDecode(n)

Spec == Init /\ [][Next]_vars

-----------------------------------------------------------------------------
\* A batched graph never runs on a buffer that was freed, whatever generate and
\* generate_batch calls grew the buffers in between (gpu_decoder.cu:395-396).
BatchReplaySafe == replay.graph = "batch" => replay.freed = {}

\* The graph of generate never runs on freed token ids or on the K/V rows of a
\* cache that a longer prompt replaced, and only for the prompt length that its
\* kernels bake.
SingleReplayKeepsCache ==
  replay.graph = "single" =>
    /\ replay.freed \cap {"tokens", "cache"} = {}
    /\ single.prefill = prefillLen

\* The claim of gpu_decoder.cu:383-384: captured graphs follow one rule, that a
\* reallocation invalidates them, in ensure_token_ids as in ensure_scratch.
NoStaleReplay == replay.freed = {}
=============================================================================
