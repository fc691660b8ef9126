--------------------------- MODULE BlockManager ---------------------------
(***************************************************************************)
(* src/src/scheduler/block_manager.cpp: reference-counted prefixes in one  *)
(* MemoryPool and rings in another.  Requests share the prefix of a        *)
(* document by its key; the last one to release it frees the block.        *)
(*                                                                         *)
(* `holds` is not in the code: holds[c] are the keys request c acquired    *)
(* and has not released.  A request releases what it acquired, as          *)
(* Engine::generate and generate_from_image do, at most once per key.      *)
(***************************************************************************)
EXTENDS Integers, FiniteSets, Functions

CONSTANTS
  Client,       \* requests that share the manager
  Key,          \* document keys
  PrefixSizes,  \* bytes acquire_prefix may be asked for
  RingSizes,    \* bytes allocate_ring may be asked for
  PrefixTotal,  \* size of the prefix pool
  RingTotal,    \* size of the ring pool
  BlockAlignment,  \* alignment_ of both pools
  MaxPoolUsed      \* bound on used_ of both pools

VARIABLES
  prefixes,    \* prefixes_: [bytes, refcount, offset] for every key present
  shared,      \* shared_bytes_
  peakShared,  \* peak_shared_bytes_
  prefixUsed, prefixPeak, prefixFree, prefixLive,  \* prefix_pool_
  ringUsed, ringPeak, ringFree, ringLive,          \* ring_pool_
  holds

mgrVars == <<prefixes, shared, peakShared>>
prefixVars == <<prefixUsed, prefixPeak, prefixFree, prefixLive>>
ringVars == <<ringUsed, ringPeak, ringFree, ringLive>>
managerVars == <<prefixes, shared, peakShared, prefixVars, ringVars, holds>>

Prefix == INSTANCE MemoryPool WITH
  Totals <- {PrefixTotal}, Sizes <- PrefixSizes \ {0}, Alignments <- {0},
  Alignment <- BlockAlignment, MaxUsed <- MaxPoolUsed,
  total <- PrefixTotal, used <- prefixUsed, peak <- prefixPeak,
  freeList <- prefixFree, live <- prefixLive

Ring == INSTANCE MemoryPool WITH
  Totals <- {RingTotal}, Sizes <- RingSizes, Alignments <- {0},
  Alignment <- BlockAlignment, MaxUsed <- MaxPoolUsed,
  total <- RingTotal, used <- ringUsed, peak <- ringPeak,
  freeList <- ringFree, live <- ringLive

ASSUME ManagerAssumption ==
  /\ IsFiniteSet(Client)
  /\ PrefixSizes \subseteq Nat
  /\ Prefix!PoolAssumption /\ Ring!PoolAssumption

Entry == [bytes : PrefixSizes, refcount : Nat, offset : Nat]

ManagerTypeOK ==
  /\ DOMAIN prefixes \subseteq Key
  /\ \A k \in DOMAIN prefixes : prefixes[k] \in Entry
  /\ shared \in Nat /\ peakShared \in Nat /\ shared <= peakShared
  /\ holds \in [Client -> SUBSET Key]
  /\ Prefix!TypeOK /\ Ring!TypeOK

ManagerInit ==
  /\ prefixes = [k \in {} |-> 0]
  /\ shared = 0 /\ peakShared = 0
  /\ holds = [c \in Client |-> {}]
  /\ Prefix!Init /\ Ring!Init

-----------------------------------------------------------------------------
\* recompute_shared(), on the entries p of the next state.
SharedKeys(p) == {k \in DOMAIN p : p[k].refcount >= 2}
BytesOf(p, keys) == SumFunctionOnSet([k \in DOMAIN p |-> p[k].bytes], keys)

\* peak_shared_bytes_ once shared_bytes_ is s.
SharedPeakAfter(s) == IF s > peakShared THEN s ELSE peakShared

RecomputeShared ==
  /\ shared' = BytesOf(prefixes', SharedKeys(prefixes'))
  /\ peakShared' = SharedPeakAfter(shared')

\* acquire_prefix of a key that is present: the size asked for is not looked at.
Acquired(k) == prefixes[k].refcount + 1

Share(c, k) ==
  /\ k \in DOMAIN prefixes
  /\ prefixes' = [prefixes EXCEPT ![k].refcount = Acquired(k)]
  /\ holds' = [holds EXCEPT ![c] = @ \cup {k}]
  /\ RecomputeShared
  /\ UNCHANGED <<prefixVars, ringVars>>

WithEntry(k, bytes, offset) ==
  [j \in DOMAIN prefixes \cup {k} |->
     IF j = k THEN [bytes |-> bytes, refcount |-> 1, offset |-> offset]
              ELSE prefixes[j]]

\* acquire_prefix of a new key; UOCR_CHECK(off >= 0) throws, before anything
\* changes, when the pool has no room.
Create(c, k, bytes) ==
  /\ k \notin DOMAIN prefixes
  /\ IF bytes = 0
       THEN prefixes' = WithEntry(k, 0, 0) /\ UNCHANGED prefixVars
       ELSE /\ Prefix!Allocate(bytes, 0)
            /\ \E h \in prefixLive' \ prefixLive :
                 prefixes' = WithEntry(k, bytes, h.offset)
  /\ holds' = [holds EXCEPT ![c] = @ \cup {k}]
  /\ RecomputeShared
  /\ UNCHANGED ringVars

\* release_prefix: the block goes back to the pool with the last reference.
MutReleaseEarly(k) == prefixes[k].refcount <= 2
LastReference(k) == prefixes[k].refcount <= 1

MutFreeNothing(k) == UNCHANGED prefixVars
FreeBlock(k) ==
  IF prefixes[k].bytes = 0 THEN UNCHANGED prefixVars
  ELSE \E h \in prefixLive : /\ h.offset = prefixes[k].offset
                             /\ h.size = prefixes[k].bytes
                             /\ Prefix!Free(h)

Release(c, k) ==
  /\ k \in holds[c] /\ k \in DOMAIN prefixes
  /\ IF LastReference(k)
       THEN /\ FreeBlock(k)
            /\ prefixes' = [j \in DOMAIN prefixes \ {k} |-> prefixes[j]]
       ELSE /\ prefixes' = [prefixes EXCEPT ![k].refcount = @ - 1]
            /\ UNCHANGED prefixVars
  /\ holds' = [holds EXCEPT ![c] = @ \ {k}]
  /\ RecomputeShared
  /\ UNCHANGED ringVars

\* allocate_ring and free_ring.
AllocateRing(bytes) ==
  Ring!Allocate(bytes, 0) /\ UNCHANGED <<mgrVars, prefixVars, holds>>
FreeRing(h) ==
  Ring!Free(h) /\ UNCHANGED <<mgrVars, prefixVars, holds>>

ManagerNext ==
  \/ \E c \in Client : \E k \in Key \ holds[c] :
       Share(c, k) \/ \E bytes \in PrefixSizes : Create(c, k, bytes)
  \/ \E c \in Client : \E k \in holds[c] : Release(c, k)
  \/ \E bytes \in RingSizes : AllocateRing(bytes)
  \/ \E h \in ringLive : FreeRing(h)

ManagerSpec == ManagerInit /\ [][ManagerNext]_managerVars

-----------------------------------------------------------------------------
Holders(k) == {c \in Client : k \in holds[c]}

\* A prefix is present exactly while some request holds it, whatever order the
\* requests acquire and release in, and its count is the number of them
\* (acquire_prefix and release_prefix).
CountsHolders ==
  \A k \in Key :
    /\ k \in DOMAIN prefixes <=> Holders(k) # {}
    /\ k \in DOMAIN prefixes => prefixes[k].refcount = Cardinality(Holders(k))

\* shared_bytes_ is what sharing saves a second copy of, the bytes of the
\* prefixes that two requests or more hold (recompute_shared).
SharedBytesExact ==
  shared = BytesOf(prefixes, {k \in DOMAIN prefixes : Cardinality(Holders(k)) >= 2})

\* The counters of bytes, whatever is allocated, shared and freed: used_ of both
\* pools (memory_pool.cpp free) and shared_bytes_ (recompute_shared); with the
\* peaks not below them, as the types say.
BytesAccounted ==
  ManagerTypeOK /\ Prefix!UsedCoversHeld /\ Ring!UsedCoversHeld /\ SharedBytesExact

\* The blocks out of the prefix pool are those of the entries, one each: no
\* block leaks when its entry goes, and none is freed under an entry.
EntriesOwnBlocks ==
  /\ \A k \in DOMAIN prefixes : prefixes[k].bytes > 0 =>
       \E h \in prefixLive : h.offset = prefixes[k].offset /\ h.size = prefixes[k].bytes
  /\ \A h \in prefixLive : Cardinality({k \in DOMAIN prefixes :
       prefixes[k].bytes > 0 /\ prefixes[k].offset = h.offset}) = 1
=============================================================================
