---------------------------- MODULE AppendKernel ----------------------------
(***************************************************************************)
(* The device side of append_decode: rswa_append_kernel and, for one slot  *)
(* of a batch, rswa_append_batch_kernel                                    *)
(* (src/src/kernels/cuda/rswa_attention.cu).  A block of several warps     *)
(* runs the kernel once per decoded token.  Every thread reads the length  *)
(* and the ring cursor from memory and every thread writes them back, with *)
(* no barrier between, so a warp may read before or after the write of     *)
(* another.  The threads of a warp are taken to run together; each warp    *)
(* copies its share of the row to the slot it found.                       *)
(***************************************************************************)
EXTENDS Integers

CONSTANTS
  Warp,        \* the warps of the block
  PrefillLen,  \* prefill_len of the request
  Window       \* window

ASSUME KernelAssumption == PrefillLen \in Nat \ {0} /\ Window \in Nat \ {0}

VARIABLES
  dLen,      \* *d_len
  dRingPos,  \* *d_ring_pos
  pc,        \* pc[w]: where warp w is
  len,       \* len[w]: the length it read
  row        \* row[w]: the slot it writes its share of K and V to

vars == <<dLen, dRingPos, pc, len, row>>

TypeOK ==
  /\ dLen \in PrefillLen .. PrefillLen + Window
  /\ dRingPos \in 0 .. Window - 1
  /\ pc \in [Warp -> {"off", "read", "grow", "wrap", "slot", "advance", "done"}]
  /\ len \in [Warp -> 0 .. PrefillLen + Window]
  /\ row \in [Warp -> Nat]

\* reset_device_state(), before the first launch.
Init ==
  /\ dLen = PrefillLen
  /\ dRingPos = 0
  /\ pc = [w \in Warp |-> "off"]
  /\ len = [w \in Warp |-> 0]
  /\ row = [w \in Warp |-> 0]

\* The launch for the next token; the stream ends one launch before the next.
Launch ==
  /\ \A w \in Warp : pc[w] \in {"off", "done"}
  /\ pc' = [w \in Warp |-> "read"]
  /\ UNCHANGED <<dLen, dRingPos, len, row>>

Goto(w, l) == pc' = [pc EXCEPT ![w] = l]

MutHasRoom(n) == n <= PrefillLen + Window
HasRoom(n) == n < PrefillLen + Window

ReadLen(w) ==
  /\ pc[w] = "read"
  /\ len' = [len EXCEPT ![w] = dLen]
  /\ IF HasRoom(dLen)
       THEN row' = [row EXCEPT ![w] = dLen] /\ Goto(w, "grow")
       ELSE UNCHANGED row /\ Goto(w, "slot")
  /\ UNCHANGED <<dLen, dRingPos>>

\* The linear branch writes the length ...
GrowLen(w) ==
  /\ pc[w] = "grow"
  /\ dLen' = len[w] + 1
  /\ Goto(w, IF len[w] + 1 >= PrefillLen + Window THEN "wrap" ELSE "done")
  /\ UNCHANGED <<dRingPos, len, row>>

\* ... and, when that fills the ring region, the cursor.
ResetRing(w) ==
  /\ pc[w] = "wrap"
  /\ dRingPos' = 0
  /\ Goto(w, "done")
  /\ UNCHANGED <<dLen, len, row>>

\* The circular branch reads the cursor for the slot ...
RingSlot == PrefillLen + dRingPos

ReadSlot(w) ==
  /\ pc[w] = "slot"
  /\ row' = [row EXCEPT ![w] = RingSlot]
  /\ Goto(w, "advance")
  /\ UNCHANGED <<dLen, dRingPos, len>>

\* ... and increments it; the compiler may reuse the value read before.
Advanced(r) == (r + 1) % Window

AdvanceRing(w) ==
  /\ pc[w] = "advance"
  /\ \E r \in {dRingPos, row[w] - PrefillLen} : dRingPos' = Advanced(r)
  /\ Goto(w, "done")
  /\ UNCHANGED <<dLen, len, row>>

Next ==
  \/ Launch
  \/ \E w \in Warp : \/ ReadLen(w) \/ GrowLen(w) \/ ResetRing(w)
                     \/ ReadSlot(w) \/ AdvanceRing(w)

Spec == Init /\ [][Next]_vars

-----------------------------------------------------------------------------
Ended == \A w \in Warp : pc[w] = "done"

\* However the warps interleave, no share of a row is written to the reference
\* region or past the slot's rows: the race cannot corrupt the prompt or
\* another slot, even when some warps still see the ring region growing and
\* others already see it full.
StaysInRing ==
  \A w \in Warp : pc[w] \notin {"off", "read", "slot"} =>
    row[w] \in PrefillLen .. PrefillLen + Window - 1

\* The claim of rswa_attention.cu:457, "Single block writes one row of K/V": when
\* a launch ends, all its warps wrote their share to the same row.
WritesOneRow == Ended => \A v, w \in Warp : row[v] = row[w]
=============================================================================
