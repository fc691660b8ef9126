---------------------------- MODULE MemoryPool ----------------------------
(***************************************************************************)
(* The arena allocator src/src/scheduler/memory_pool.cpp: first fit over a *)
(* free list sorted by offset, aligned offsets, coalescing on free.  The   *)
(* list never holds two blocks of one offset, so the model keeps it as a   *)
(* set; "first" is the least offset and the neighbours that free()         *)
(* coalesces are the blocks that touch the one inserted.                   *)
(*                                                                         *)
(* `live` is not in the code: it is what callers hold, the offset that     *)
(* allocate() returned together with the size to pass to free().           *)
(***************************************************************************)
EXTENDS Integers, FiniteSets, Functions

CONSTANTS
  Totals,      \* arena sizes given to the constructor or reserve()
  Sizes,       \* sizes callers allocate
  Alignments,  \* alignments callers pass, 0 for the pool's own
  Alignment,   \* alignment_
  MaxUsed      \* bound on used_, which the code lets drift upwards

\* What the code relies on; whoever instantiates the pool assumes it.
PoolAssumption ==
  /\ Totals \subseteq Nat
  /\ Sizes \subseteq Nat \ {0}
  /\ Alignments \subseteq Nat
  /\ Alignment \in Nat
  /\ MaxUsed \in Nat

VARIABLES
  total,     \* total_
  used,      \* used_
  peak,      \* peak_
  freeList,  \* free_list_
  live       \* the allocations callers hold

vars == <<total, used, peak, freeList, live>>

Block == [offset : Nat, size : Nat]
Held == [offset : Nat, size : Nat, pad : Nat]

TypeOK ==
  /\ total \in Nat /\ used \in Nat /\ peak \in Nat
  /\ used <= peak
  /\ freeList \subseteq Block
  /\ live \subseteq Held

\* The constructor; an empty pool has no free block at all.
Init ==
  /\ total \in Totals
  /\ used = 0 /\ peak = 0
  /\ freeList = IF total > 0 THEN {[offset |-> 0, size |-> total]} ELSE {}
  /\ live = {}

-----------------------------------------------------------------------------
\* reserve() and reset() drop every allocation.
Empty(n) ==
  /\ total' = n
  /\ used' = 0 /\ peak' = 0
  /\ freeList' = {[offset |-> 0, size |-> n]}
  /\ live' = {}

Reserve(n) == Empty(n)
Reset == Empty(total)

-----------------------------------------------------------------------------
\* The alignment allocate() works with.
Effective(alignment) ==
  IF alignment # 0 THEN alignment ELSE IF Alignment # 0 THEN Alignment ELSE 1

\* Bytes to skip so that the block starts aligned.
Pad(start, align) == (align - (start % align)) % align

MutFits(b, bytes, align) == b.size >= bytes
Fits(b, bytes, align) == b.size >= Pad(b.offset, align) + bytes

FirstFit(bytes, align) ==
  {b \in freeList : /\ Fits(b, bytes, align)
                    /\ \A c \in freeList : Fits(c, bytes, align) => b.offset <= c.offset}

NonEmpty(blocks) == {b \in blocks : b.size > 0}

\* What is left of block b when bytes are taken out of it after pad.
Remainders(b, pad, bytes) ==
  NonEmpty({[offset |-> b.offset, size |-> pad],
            [offset |-> b.offset + pad + bytes, size |-> b.size - pad - bytes]})

MutChargeLess(pad, bytes) == bytes - pad
Charge(pad, bytes) == pad + bytes

\* peak_ once used_ is u.
PeakAfter(u) == IF u > peak THEN u ELSE peak

\* allocate(bytes, alignment); when nothing fits it returns -1 and changes nothing.
Allocate(bytes, alignment) ==
  \E b \in FirstFit(bytes, Effective(alignment)) :
    LET pad == Pad(b.offset, Effective(alignment))
    IN  /\ used + Charge(pad, bytes) <= MaxUsed
        /\ freeList' = (freeList \ {b}) \cup Remainders(b, pad, bytes)
        /\ used' = used + Charge(pad, bytes)
        /\ peak' = PeakAfter(used')
        /\ live' = live \cup {[offset |-> b.offset + pad, size |-> bytes, pad |-> pad]}
        /\ total' = total

-----------------------------------------------------------------------------
\* The free block that ends where h starts and the one that starts where h ends.
Before(h) == {b \in freeList : b.offset + b.size = h.offset}
After(h) == {b \in freeList : b.offset = h.offset + h.size}

\* Where the block that free() makes of h, After(h) and Before(h) starts and ends.
Start(h) == IF Before(h) = {} THEN h.offset ELSE (CHOOSE b \in Before(h) : TRUE).offset
End(h) ==
  IF After(h) = {} THEN h.offset + h.size
  ELSE LET b == CHOOSE b \in After(h) : TRUE IN b.offset + b.size

MutNoCoalesceBefore(h) ==
  (freeList \ After(h)) \cup {[offset |-> h.offset, size |-> End(h) - h.offset]}
Coalesced(h) ==
  (freeList \ (Before(h) \cup After(h)))
    \cup {[offset |-> Start(h), size |-> End(h) - Start(h)]}

\* free(offset, bytes) of an allocation a caller holds.
Free(h) ==
  /\ h \in live
  /\ freeList' = Coalesced(h)
  /\ used' = IF used >= h.size THEN used - h.size ELSE used
  /\ live' = live \ {h}
  /\ total' = total /\ peak' = peak

Next ==
  \/ \E n \in Totals : Reserve(n)
  \/ Reset
  \/ \E bytes \in Sizes, alignment \in Alignments : Allocate(bytes, alignment)
  \/ \E h \in live : Free(h)

Spec == Init /\ [][Next]_vars

-----------------------------------------------------------------------------
Bytes(b) == b.offset .. b.offset + b.size - 1

\* Every byte of the arena is free or held, and belongs to one block: nothing
\* is handed out twice and nothing is lost, however blocks are split and joined
\* (allocate and free).
Partition ==
  /\ \A x \in 0 .. total - 1 :
       \/ /\ \E b \in freeList : x \in Bytes(b)
          /\ \A h \in live : x \notin Bytes(h)
       \/ /\ \E h \in live : x \in Bytes(h)
          /\ \A b \in freeList : x \notin Bytes(b)
  /\ \A b, c \in freeList : b # c => Bytes(b) \cap Bytes(c) = {}
  /\ \A g, h \in live : g # h => Bytes(g) \cap Bytes(h) = {}
  /\ \A b \in freeList \cup live : b.offset + b.size <= total

\* used_ never falls below what callers hold with its alignment padding, so the
\* guard of free() that keeps it from wrapping below zero is never needed.  It
\* is no more than a bound: free() gives the bytes back but not the padding
\* (memory_pool.cpp:60), so used_ and peak_ drift upwards.
HeldBytes == SumFunction([h \in live |-> h.size + h.pad])
UsedCoversHeld == used >= HeldBytes

\* Two free blocks never touch, so free space that could serve one allocation
\* is never split in two.
FullyCoalesced ==
  \A b, c \in freeList : b.size > 0 => b.offset + b.size # c.offset
=============================================================================
