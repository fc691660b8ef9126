----------------------------- MODULE RSWACache -----------------------------
(***************************************************************************)
(* The R-SWA key/value cache and the forward passes that drive it:         *)
(* RSWACache (src/src/scheduler/kv_cache.cpp) on the host, GpuRSWACache    *)
(* (src/src/kernels/cuda/gpu_cache.cu, the cursors kept on the host) on    *)
(* the device, MoEDecoder::prefill_embeds and MoEDecoder::decode           *)
(* (src/src/engine/moe_decoder.cpp) above them.                            *)
(*                                                                         *)
(* A slot holds one row of keys and one of values, always written          *)
(* together; the model stores the position of the token it belongs to, and *)
(* Zeroed for a row that reset() cleared.  A forward pass visits the       *)
(* layers in order and writes each layer's cache before that layer's       *)
(* attention reads it, so between two steps some layers have seen the      *)
(* token and the others have not.                                          *)
(***************************************************************************)
EXTENDS Integers

CONSTANTS
  NumLayers,   \* num_layers_
  Windows,     \* the values of window_ that configure() may be given
  MaxPrefill,  \* bound on the prompts the model enumerates
  MaxPos       \* bound on the positions the model decodes

ASSUME CacheAssumption ==
  /\ NumLayers \in Nat \ {0}
  /\ Windows \subseteq Nat \ {0}
  /\ MaxPrefill \in Nat
  /\ MaxPos \in Nat

VARIABLES
  onDevice,     \* GpuRSWACache rather than RSWACache
  window,       \* window_
  prefillLen,   \* prefill_len_
  capacity,     \* capacity_: rows allocated per layer
  len,          \* len_[layer]
  ringPos,      \* ring_pos_[layer]
  ringStarted,  \* the layers whose ring_started_ is set
  slot,         \* k_/v_: slot[layer][row] is the position of the token stored there
  call,         \* the forward pass in progress: "none", "prefill" or "decode"
  layer,        \* the layer it visits next
  pos           \* the engine's pos: position of the next token to decode

cacheVars == <<prefillLen, capacity, len, ringPos, ringStarted, slot>>
vars == <<onDevice, window, prefillLen, capacity, len, ringPos, ringStarted,
          slot, call, layer, pos>>

Layer == 0 .. NumLayers - 1
Zeroed == -1

TypeOK ==
  /\ onDevice \in BOOLEAN
  /\ window \in Windows
  /\ prefillLen \in Nat
  /\ capacity \in Nat
  /\ len \in [Layer -> 0 .. capacity]
  /\ ringPos \in [Layer -> 0 .. window - 1]
  /\ ringStarted \subseteq Layer
  /\ slot \in [Layer -> [0 .. capacity - 1 -> Nat \cup {Zeroed}]]
  /\ call \in {"none", "prefill", "decode"}
  /\ layer \in Layer
  /\ pos \in Nat

-----------------------------------------------------------------------------
\* The constructor and configure().
Init ==
  /\ onDevice \in BOOLEAN
  /\ window \in Windows
  /\ prefillLen = 0
  /\ capacity = 0
  /\ len = [l \in Layer |-> 0]
  /\ ringPos = [l \in Layer |-> 0]
  /\ ringStarted = {}
  /\ slot = [l \in Layer |-> [i \in {} |-> Zeroed]]
  /\ call = "none"
  /\ layer = 0
  /\ pos = 0

\* What reset(p) leaves in a cache of c rows per layer.
Cleared(p, c) ==
  /\ prefillLen' = p
  /\ capacity' = c
  /\ slot' = [l \in Layer |-> [i \in 0 .. c - 1 |-> Zeroed]]
  /\ len' = [l \in Layer |-> p]
  /\ ringPos' = [l \in Layer |-> 0]
  /\ ringStarted' = {}

Reset(p) == Cleared(p, p + window)

\* The device cache keeps a larger allocation of an earlier request.
MutGpuNeverGrow(p) == Cleared(p, IF capacity = 0 THEN p + window ELSE capacity)
GpuReset(p) == Cleared(p, IF p + window > capacity THEN p + window ELSE capacity)

\* prefill_embeds: reset the cache for a prompt of p tokens, then run forward.
StartPrefill(p) ==
  /\ call = "none"
  /\ IF onDevice THEN GpuReset(p) ELSE Reset(p)
  /\ call' = "prefill"
  /\ layer' = 0
  /\ pos' = p
  /\ UNCHANGED <<onDevice, window>>

\* decode: one token at position pos, after a prefill.
StartDecode ==
  /\ call = "none"
  /\ pos > 0
  /\ pos < MaxPos
  /\ call' = "decode"
  /\ layer' = 0
  /\ UNCHANGED <<onDevice, window, cacheVars, pos>>

\* forward() moves to the next layer, or returns to the engine.
NextLayer ==
  IF layer + 1 < NumLayers
    THEN layer' = layer + 1 /\ UNCHANGED <<call, pos>>
    ELSE /\ layer' = 0
         /\ call' = "none"
         /\ pos' = IF call = "decode" THEN pos + 1 ELSE pos

\* write_prefill(layer, k, v, seq), with seq = pos rows.  The host checks that
\* seq <= capacity_, the device copies unchecked: no guard here, and WritesInBounds
\* shows that the rows fit.
MutPrefillLen == capacity
LenAfterPrefill == pos

WritePrefill ==
  /\ call = "prefill"
  /\ slot' = [slot EXCEPT ![layer] =
                [i \in 0 .. capacity - 1 |-> IF i < pos THEN i ELSE slot[layer][i]]]
  /\ len' = [len EXCEPT ![layer] = LenAfterPrefill]
  /\ prefillLen' = pos
  /\ NextLayer
  /\ UNCHANGED <<onDevice, window, capacity, ringPos, ringStarted>>

-----------------------------------------------------------------------------
\* append_decode(layer, k, v) for the token at position pos.
WarmingUp(l) == len[l] < prefillLen + window

RingCursor(l) == IF l \in ringStarted THEN ringPos[l] ELSE 0

MutRingSlotFromZero(l) == RingCursor(l)
MutRingSlotNewest(l) == prefillLen + ((RingCursor(l) + window - 1) % window)
RingSlot(l) == prefillLen + RingCursor(l)

\* The row append_decode writes.
WriteRow(l) == IF WarmingUp(l) THEN len[l] ELSE RingSlot(l)

\* Linear append until the ring region is full.
AppendWarmup ==
  /\ call = "decode"
  /\ WarmingUp(layer)
  /\ slot' = [slot EXCEPT ![layer] = [@ EXCEPT ![WriteRow(layer)] = pos]]
  /\ len' = [len EXCEPT ![layer] = len[layer] + 1]
  /\ IF len[layer] + 1 >= prefillLen + window
       THEN /\ ringStarted' = ringStarted \cup {layer}
            /\ ringPos' = [ringPos EXCEPT ![layer] = 0]
       ELSE UNCHANGED <<ringStarted, ringPos>>
  /\ NextLayer
  /\ UNCHANGED <<onDevice, window, prefillLen, capacity>>

\* Circular overwrite afterwards.
RingAdvance(l) == (RingCursor(l) + 1) % window

AppendRing ==
  /\ call = "decode"
  /\ ~ WarmingUp(layer)
  /\ slot' = [slot EXCEPT ![layer] = [@ EXCEPT ![WriteRow(layer)] = pos]]
  /\ ringStarted' = ringStarted \cup {layer}
  /\ ringPos' = [ringPos EXCEPT ![layer] = RingAdvance(layer)]
  /\ NextLayer
  /\ UNCHANGED <<onDevice, window, prefillLen, capacity, len>>

Next ==
  \/ \E p \in 1 .. MaxPrefill : StartPrefill(p)
  \/ StartDecode
  \/ WritePrefill
  \/ AppendWarmup
  \/ AppendRing

Spec == Init /\ [][Next]_vars

-----------------------------------------------------------------------------
\* Layer l's cache holds the tokens of the current request (its prefill ran).
Filled(l) ==
  \/ call = "prefill" /\ l < layer
  \/ call = "decode"
  \/ call = "none" /\ pos > 0

\* The position of the next token that layer l will see.
NextPos(l) ==
  IF ~ Filled(l) THEN 0
  ELSE IF call = "decode" /\ l < layer THEN pos + 1 ELSE pos

\* What attention(l) runs over: the rows below len_, a causal prefill query at
\* position q being limited to the first q+1 of them.
Attended(l) == {slot[l][i] : i \in 0 .. len[l] - 1}

\* The reference region is never overwritten: row i of a filled layer holds
\* reference token i until the next reset, however long the request decodes
\* (kv_cache.h:8-9).
ReferenceIntact ==
  \A l \in Layer : Filled(l) =>
    \A i \in 0 .. prefillLen - 1 : slot[l][i] = i

\* Every row attention reads holds a token of this request, and no token is
\* read twice: the softmax of attention() gives each token one weight.
VisibleRowsDistinct ==
  \A l \in Layer : Filled(l) =>
    /\ \A i \in 0 .. len[l] - 1 : slot[l][i] \in 0 .. NextPos(l) - 1
    /\ \A i, j \in 0 .. len[l] - 1 : slot[l][i] = slot[l][j] => i = j

\* Neither write_prefill nor append_decode writes past the allocation, also when
\* the device cache still has the allocation of another prompt length, and
\* append_decode stays out of the reference region.
WritesInBounds ==
  /\ call = "prefill" => pos <= capacity
  /\ call = "decode" => WriteRow(layer) \in prefillLen .. capacity - 1

\* Between reset and the next prefill the cache implements the sliding window
\* of SlidingWindow: every layer attends to the reference and to the last
\* window_ tokens, no more and no fewer (kv_cache.h:11-14).
SW == INSTANCE SlidingWindow WITH
  refLen <- prefillLen,
  next <- [l \in Layer |-> NextPos(l)],
  context <- [l \in Layer |-> IF Filled(l) THEN Attended(l) ELSE {}]

ImplementsSlidingWindow == SW!Spec
=============================================================================
