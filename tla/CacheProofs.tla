----------------------------- MODULE CacheProofs -----------------------------
(***************************************************************************)
(* Proofs about what keeps the keys and values: BlockManager, which counts *)
(* their blocks, and RSWACache, which holds their rows.                    *)
(*                                                                         *)
(* BlockManager.  However many requests share however many documents, a    *)
(* prefix is there exactly while somebody holds it, its reference count is *)
(* the number of its holders, the blocks out of the prefix pool are those  *)
(* of the entries, one each, and the byte counters are right.  What it     *)
(* needs of the two pools is MemoryPoolProofs, by INSTANCE.                *)
(*                                                                         *)
(* RSWACache.  For every number of layers, every window and every prompt   *)
(* length: its invariants, and that it implements SlidingWindow.  The      *)
(* inductive invariant says where each token of the window lies: with n    *)
(* tokens decoded and n >= window, ring row i below the cursor holds the   *)
(* token written in this turn of the ring, and a row at or above it the    *)
(* one written a turn earlier.                                             *)
(***************************************************************************)
EXTENDS BlockManager, RSWACache, FiniteSetTheorems, TLAPS

-----------------------------------------------------------------------------
(* The block manager. *)

\* What Share and Release rely on of the table and of the holders.
Shaped ==
  /\ holds \in [Client -> SUBSET Key]
  /\ DOMAIN prefixes \subseteq Key
  /\ \A k \in DOMAIN prefixes : "refcount" \in DOMAIN prefixes[k]

\* The inductive invariant of the counts.
CountInv == Shaped /\ CountsHolders

-----------------------------------------------------------------------------
LEMMA HoldersFinite ==
  ASSUME NEW k
  PROVE  IsFiniteSet(Holders(k)) /\ Cardinality(Holders(k)) \in Nat
<1>1. IsFiniteSet(Client) /\ Holders(k) \subseteq Client
  BY ManagerAssumption DEF ManagerAssumption, Holders
<1> QED
  BY <1>1, FS_Subset, FS_CardinalityType

\* One more holder.
LEMMA HoldersAdd ==
  ASSUME NEW c \in Client, NEW k \in Key \ holds[c], Shaped,
         holds' = [holds EXCEPT ![c] = @ \cup {k}]
  PROVE  /\ Holders(k)' = Holders(k) \cup {c} /\ c \notin Holders(k)
         /\ Cardinality(Holders(k)') = Cardinality(Holders(k)) + 1
         /\ \A j \in Key : j # k => Holders(j)' = Holders(j)
         /\ holds' \in [Client -> SUBSET Key]
<1>1. Holders(k)' = Holders(k) \cup {c} /\ c \notin Holders(k)
  BY DEF Shaped, Holders
<1>2. Cardinality(Holders(k) \cup {c}) = Cardinality(Holders(k)) + 1
  BY <1>1, HoldersFinite, FS_AddElement
<1>3. \A j \in Key : j # k => Holders(j)' = Holders(j)
  BY DEF Shaped, Holders
<1>4. holds' \in [Client -> SUBSET Key]
  BY DEF Shaped
<1> QED
  BY <1>1, <1>2, <1>3, <1>4

\* One holder less.
LEMMA HoldersRemove ==
  ASSUME NEW c \in Client, NEW k \in holds[c], Shaped,
         holds' = [holds EXCEPT ![c] = @ \ {k}]
  PROVE  /\ Holders(k)' = Holders(k) \ {c} /\ c \in Holders(k) /\ k \in Key
         /\ Cardinality(Holders(k)') = Cardinality(Holders(k)) - 1
         /\ \A j \in Key : j # k => Holders(j)' = Holders(j)
         /\ holds' \in [Client -> SUBSET Key]
<1>1. Holders(k)' = Holders(k) \ {c} /\ c \in Holders(k) /\ k \in Key
  BY DEF Shaped, Holders
<1>2. Cardinality(Holders(k) \ {c}) = Cardinality(Holders(k)) - 1
  BY <1>1, HoldersFinite, FS_RemoveElement
<1>3. \A j \in Key : j # k => Holders(j)' = Holders(j)
  BY DEF Shaped, Holders
<1>4. holds' \in [Client -> SUBSET Key]
  BY DEF Shaped
<1> QED
  BY <1>1, <1>2, <1>3, <1>4

\* A new count changes nothing else.
LEMMA Recounted ==
  ASSUME NEW k \in DOMAIN prefixes, Shaped, NEW n,
         prefixes' = [prefixes EXCEPT ![k].refcount = n]
  PROVE  /\ DOMAIN prefixes' = DOMAIN prefixes /\ prefixes'[k].refcount = n
         /\ \A j \in DOMAIN prefixes : j # k => prefixes'[j] = prefixes[j]
         /\ \A j \in DOMAIN prefixes' : "refcount" \in DOMAIN prefixes'[j]
BY DEF Shaped

-----------------------------------------------------------------------------
LEMMA CountInitially ==
  ASSUME ManagerInit
  PROVE  CountInv
<1>1. DOMAIN prefixes = {} /\ holds = [c \in Client |-> {}]
  BY DEF ManagerInit
<1>2. \A k \in Key : Holders(k) = {}
  BY <1>1 DEF Holders
<1> QED
  BY <1>1, <1>2 DEF CountInv, Shaped, CountsHolders

LEMMA ShareKeepsInv ==
  ASSUME CountInv, NEW c \in Client, NEW k \in Key \ holds[c], Share(c, k)
  PROVE  CountInv'
<1>1. /\ k \in DOMAIN prefixes /\ Shaped /\ CountsHolders
      /\ prefixes' = [prefixes EXCEPT ![k].refcount = prefixes[k].refcount + 1]
      /\ holds' = [holds EXCEPT ![c] = @ \cup {k}]
  BY DEF Share, Acquired, CountInv
<1>2. /\ DOMAIN prefixes' = DOMAIN prefixes
      /\ prefixes'[k].refcount = prefixes[k].refcount + 1
      /\ \A j \in DOMAIN prefixes : j # k => prefixes'[j] = prefixes[j]
      /\ \A j \in DOMAIN prefixes' : "refcount" \in DOMAIN prefixes'[j]
  BY <1>1, Recounted
<1>3. /\ Holders(k)' = Holders(k) \cup {c}
      /\ Cardinality(Holders(k)') = Cardinality(Holders(k)) + 1
      /\ \A j \in Key : j # k => Holders(j)' = Holders(j)
      /\ holds' \in [Client -> SUBSET Key]
  BY <1>1, HoldersAdd
<1>4. Shaped'
  BY <1>1, <1>2, <1>3 DEF Shaped
<1>5. ASSUME NEW j \in Key
      PROVE  /\ j \in DOMAIN prefixes' <=> Holders(j)' # {}
             /\ j \in DOMAIN prefixes' => prefixes'[j].refcount = Cardinality(Holders(j)')
  <2>1. CASE j = k
    BY <2>1, <1>1, <1>2, <1>3 DEF CountsHolders
  <2>2. CASE j # k
    BY <2>2, <1>1, <1>2, <1>3 DEF CountsHolders
  <2> QED
    BY <2>1, <2>2
<1>6. CountsHolders'
  BY <1>5 DEF CountsHolders
<1> QED
  BY <1>4, <1>6 DEF CountInv

LEMMA CreateKeepsInv ==
  ASSUME CountInv, NEW c \in Client, NEW k \in Key \ holds[c],
         NEW bytes \in PrefixSizes, Create(c, k, bytes)
  PROVE  CountInv'
<1>1. /\ k \notin DOMAIN prefixes /\ Shaped /\ CountsHolders
      /\ holds' = [holds EXCEPT ![c] = @ \cup {k}]
  BY DEF Create, CountInv
<1>2. PICK offset : prefixes' = WithEntry(k, bytes, offset)
  <2>1. CASE bytes = 0
    BY <2>1 DEF Create
  <2>2. CASE bytes # 0
    BY <2>2 DEF Create
  <2> QED
    BY <2>1, <2>2
<1>3. /\ DOMAIN prefixes' = DOMAIN prefixes \cup {k}
      /\ prefixes'[k] = [bytes |-> bytes, refcount |-> 1, offset |-> offset]
      /\ \A j \in DOMAIN prefixes : j # k => prefixes'[j] = prefixes[j]
  BY <1>2 DEF WithEntry
<1>4. "refcount" \in DOMAIN prefixes'[k] /\ prefixes'[k].refcount = 1
  BY <1>3
<1>5. /\ Holders(k)' = Holders(k) \cup {c}
      /\ Cardinality(Holders(k)') = Cardinality(Holders(k)) + 1
      /\ \A j \in Key : j # k => Holders(j)' = Holders(j)
      /\ holds' \in [Client -> SUBSET Key]
  BY <1>1, HoldersAdd
<1>6. Cardinality(Holders(k)) = 0
  <2>1. Holders(k) = {}
    BY <1>1 DEF CountsHolders
  <2> QED
    BY <2>1, FS_EmptySet
<1>7. Shaped'
  BY <1>1, <1>3, <1>4, <1>5 DEF Shaped
<1>8. ASSUME NEW j \in Key
      PROVE  /\ j \in DOMAIN prefixes' <=> Holders(j)' # {}
             /\ j \in DOMAIN prefixes' => prefixes'[j].refcount = Cardinality(Holders(j)')
  <2>1. CASE j = k
    BY <2>1, <1>3, <1>4, <1>5, <1>6
  <2>2. CASE j # k
    BY <2>2, <1>1, <1>3, <1>5 DEF CountsHolders
  <2> QED
    BY <2>1, <2>2
<1>9. CountsHolders'
  BY <1>8 DEF CountsHolders
<1> QED
  BY <1>7, <1>9 DEF CountInv

LEMMA ReleaseKeepsInv ==
  ASSUME CountInv, NEW c \in Client, NEW k \in holds[c], Release(c, k)
  PROVE  CountInv'
<1>1. /\ k \in DOMAIN prefixes /\ Shaped /\ CountsHolders
      /\ holds' = [holds EXCEPT ![c] = @ \ {k}]
  BY DEF Release, CountInv
<1>2. /\ Holders(k)' = Holders(k) \ {c} /\ c \in Holders(k) /\ k \in Key
      /\ Cardinality(Holders(k)') = Cardinality(Holders(k)) - 1
      /\ \A j \in Key : j # k => Holders(j)' = Holders(j)
      /\ holds' \in [Client -> SUBSET Key]
  BY <1>1, HoldersRemove
<1>3. prefixes[k].refcount = Cardinality(Holders(k)) /\ Cardinality(Holders(k)) \in Nat
  BY <1>1, <1>2, HoldersFinite DEF CountsHolders
<1>4. /\ Holders(k)' = {} <=> Cardinality(Holders(k)) = 1
      /\ Cardinality(Holders(k)) >= 1
  <2>1. IsFiniteSet(Holders(k)')
    BY <1>2, HoldersFinite, FS_RemoveElement
  <2>2. Holders(k)' = {} <=> Cardinality(Holders(k)') = 0
    BY <2>1, FS_EmptySet
  <2>3. Cardinality(Holders(k)') \in Nat
    BY <2>1, FS_CardinalityType
  <2> QED
    BY <2>2, <2>3, <1>2, <1>3
<1>5. CASE LastReference(k)
  <2>1. prefixes' = [j \in DOMAIN prefixes \ {k} |-> prefixes[j]]
    BY <1>5 DEF Release
  <2>2. Holders(k)' = {}
    BY <1>3, <1>4, <1>5 DEF LastReference
  <2>3. Shaped'
    BY <1>1, <1>2, <2>1 DEF Shaped
  <2>4. CountsHolders'
    BY <1>1, <1>2, <2>1, <2>2 DEF CountsHolders
  <2> QED
    BY <2>3, <2>4 DEF CountInv
<1>6. CASE ~ LastReference(k)
  <2>1. prefixes' = [prefixes EXCEPT ![k].refcount = prefixes[k].refcount - 1]
    BY <1>6 DEF Release
  <2>2. /\ DOMAIN prefixes' = DOMAIN prefixes
        /\ prefixes'[k].refcount = prefixes[k].refcount - 1
        /\ \A j \in DOMAIN prefixes : j # k => prefixes'[j] = prefixes[j]
        /\ \A j \in DOMAIN prefixes' : "refcount" \in DOMAIN prefixes'[j]
    BY <1>1, <2>1, Recounted
  <2>3. Holders(k)' # {}
    BY <1>3, <1>4, <1>6 DEF LastReference
  <2>4. Shaped'
    BY <1>1, <1>2, <2>2 DEF Shaped
  <2>5. ASSUME NEW j \in Key
        PROVE  /\ j \in DOMAIN prefixes' <=> Holders(j)' # {}
               /\ j \in DOMAIN prefixes' =>
                    prefixes'[j].refcount = Cardinality(Holders(j)')
    BY <1>1, <1>2, <1>3, <2>2, <2>3 DEF CountsHolders
  <2>6. CountsHolders'
    BY <2>5 DEF CountsHolders
  <2> QED
    BY <2>4, <2>6 DEF CountInv
<1> QED
  BY <1>5, <1>6

\* What leaves the table and the holders alone.
LEMMA OtherKeepsInv ==
  ASSUME CountInv, UNCHANGED <<prefixes, holds>>
  PROVE  CountInv'
BY DEF CountInv, Shaped, CountsHolders, Holders

LEMMA NextKeepsInv ==
  ASSUME CountInv, [ManagerNext]_managerVars
  PROVE  CountInv'
<1>1. ASSUME NEW c \in Client, NEW k \in Key \ holds[c], Share(c, k)
      PROVE  CountInv'
  BY <1>1, ShareKeepsInv
<1>2. ASSUME NEW c \in Client, NEW k \in Key \ holds[c], NEW bytes \in PrefixSizes,
             Create(c, k, bytes)
      PROVE  CountInv'
  BY <1>2, CreateKeepsInv
<1>3. ASSUME NEW c \in Client, NEW k \in holds[c], Release(c, k)
      PROVE  CountInv'
  BY <1>3, ReleaseKeepsInv
<1>4. ASSUME NEW bytes \in RingSizes, AllocateRing(bytes)
      PROVE  CountInv'
  BY <1>4, OtherKeepsInv DEF AllocateRing, mgrVars
<1>5. ASSUME NEW h \in ringLive, FreeRing(h)
      PROVE  CountInv'
  BY <1>5, OtherKeepsInv DEF FreeRing, mgrVars
<1>6. CASE UNCHANGED managerVars
  BY <1>6, OtherKeepsInv DEF managerVars
<1> QED
  BY <1>1, <1>2, <1>3, <1>4, <1>5, <1>6 DEF ManagerNext

\* For any number of requests and documents, a prefix is present exactly while
\* a request holds it, and its reference count is the number of its holders
\* (acquire_prefix and release_prefix).
THEOREM CountsAreHolders == ManagerSpec => []CountsHolders
<1>1. ManagerInit => CountInv
  BY CountInitially
<1>2. CountInv /\ [ManagerNext]_managerVars => CountInv'
  BY NextKeepsInv
<1>3. CountInv => CountsHolders
  BY DEF CountInv
<1> QED
  BY <1>1, <1>2, <1>3, PTL DEF ManagerSpec
-----------------------------------------------------------------------------
(* The two pools, with what MemoryPoolProofs shows of a pool.  Its instance   *)
(* and BlockManager's have the same definitions under two names.              *)
InPrefix == INSTANCE MemoryPoolProofs WITH
  Totals <- {PrefixTotal}, Sizes <- PrefixSizes \ {0}, Alignments <- {0},
  Alignment <- BlockAlignment, MaxUsed <- MaxPoolUsed,
  total <- PrefixTotal, used <- prefixUsed, peak <- prefixPeak,
  freeList <- prefixFree, live <- prefixLive

InRing == INSTANCE MemoryPoolProofs WITH
  Totals <- {RingTotal}, Sizes <- RingSizes, Alignments <- {0},
  Alignment <- BlockAlignment, MaxUsed <- MaxPoolUsed,
  total <- RingTotal, used <- ringUsed, peak <- ringPeak,
  freeList <- ringFree, live <- ringLive

PrefixInv == InPrefix!PoolInv /\ InPrefix!UsedInv
RingInv == InRing!PoolInv /\ InRing!UsedInv

LEMMA PoolsAssumed == InPrefix!PoolAssumption /\ InRing!PoolAssumption
<1>1. Prefix!PoolAssumption /\ Ring!PoolAssumption
  BY ManagerAssumption DEF ManagerAssumption
<1>2. InPrefix!PoolAssumption
  BY <1>1 DEF InPrefix!PoolAssumption, Prefix!PoolAssumption
<1>3. InRing!PoolAssumption
  BY <1>1 DEF InRing!PoolAssumption, Ring!PoolAssumption
<1> QED
  BY <1>2, <1>3

LEMMA PoolsInitially ==
  ASSUME ManagerInit
  PROVE  PrefixInv /\ RingInv /\ prefixLive = {}
<1>1. InPrefix!Init /\ prefixLive = {}
  BY DEF ManagerInit, Prefix!Init, InPrefix!Init
<1>2. InRing!Init
  BY DEF ManagerInit, Ring!Init, InRing!Init
<1> QED
  BY <1>1, <1>2, PoolsAssumed, InPrefix!PoolInitially, InPrefix!UsedInitially,
     InRing!PoolInitially, InRing!UsedInitially DEF PrefixInv, RingInv

LEMMA PrefixUnchanged ==
  ASSUME PrefixInv, UNCHANGED prefixVars
  PROVE  PrefixInv'
<1>1. [InPrefix!Next]_(InPrefix!vars)
  BY DEF prefixVars, InPrefix!vars
<1> QED
  BY <1>1, PoolsAssumed, InPrefix!NextKeepsInv, InPrefix!UsedStep DEF PrefixInv

LEMMA RingUnchanged ==
  ASSUME RingInv, UNCHANGED ringVars
  PROVE  RingInv'
<1>1. [InRing!Next]_(InRing!vars)
  BY DEF ringVars, InRing!vars
<1> QED
  BY <1>1, PoolsAssumed, InRing!NextKeepsInv, InRing!UsedStep DEF RingInv

LEMMA PrefixAllocates ==
  ASSUME PrefixInv, NEW bytes \in PrefixSizes \ {0}, Prefix!Allocate(bytes, 0)
  PROVE  /\ PrefixInv'
         /\ \E h : /\ prefixLive' = prefixLive \cup {h} /\ h \notin prefixLive
                   /\ h.size = bytes /\ h.offset \in Nat
                   /\ \A g \in prefixLive : g.offset # h.offset
<1>1. InPrefix!Allocate(bytes, 0)
  BY DEF Prefix!Allocate, InPrefix!Allocate, Prefix!FirstFit, InPrefix!FirstFit,
     Prefix!Fits, InPrefix!Fits, Prefix!Effective, InPrefix!Effective, Prefix!Pad, InPrefix!Pad,
     Prefix!Charge, InPrefix!Charge, Prefix!Remainders, InPrefix!Remainders,
     Prefix!NonEmpty, InPrefix!NonEmpty, Prefix!PeakAfter, InPrefix!PeakAfter
<1>2. InPrefix!Next
  BY <1>1 DEF InPrefix!Next
<1>3. PrefixInv'
  BY <1>2, PoolsAssumed, InPrefix!NextKeepsInv, InPrefix!UsedStep DEF PrefixInv
<1>4. PICK h \in InPrefix!Held : /\ prefixLive' = prefixLive \cup {h} /\ h \notin prefixLive
                                 /\ h.size = bytes
                                 /\ \A g \in prefixLive : g.offset # h.offset
  BY <1>1, PoolsAssumed, InPrefix!AllocateReturns DEF PrefixInv
<1>5. h.offset \in Nat
  BY DEF InPrefix!Held
<1> QED
  BY <1>3, <1>4, <1>5

LEMMA PrefixFrees ==
  ASSUME PrefixInv, NEW h \in prefixLive, Prefix!Free(h)
  PROVE  PrefixInv' /\ prefixLive' = prefixLive \ {h}
<1>1. InPrefix!Free(h)
  BY DEF Prefix!Free, InPrefix!Free, Prefix!Coalesced, InPrefix!Coalesced,
     Prefix!Before, InPrefix!Before, Prefix!After, InPrefix!After,
     Prefix!Start, InPrefix!Start, Prefix!End, InPrefix!End
<1>2. InPrefix!Next
  BY <1>1 DEF InPrefix!Next
<1>3. PrefixInv'
  BY <1>2, PoolsAssumed, InPrefix!NextKeepsInv, InPrefix!UsedStep DEF PrefixInv
<1> QED
  BY <1>1, <1>3 DEF InPrefix!Free

LEMMA RingSteps ==
  ASSUME RingInv,
         \/ \E bytes \in RingSizes : Ring!Allocate(bytes, 0)
         \/ \E h \in ringLive : Ring!Free(h)
  PROVE  RingInv'
<1>1. ASSUME NEW bytes \in RingSizes, Ring!Allocate(bytes, 0)
      PROVE  InRing!Next
  <2>1. InRing!Allocate(bytes, 0)
    BY <1>1 DEF Ring!Allocate, InRing!Allocate, Ring!FirstFit, InRing!FirstFit,
       Ring!Fits, InRing!Fits, Ring!Effective, InRing!Effective, Ring!Pad, InRing!Pad,
       Ring!Charge, InRing!Charge, Ring!Remainders, InRing!Remainders,
       Ring!NonEmpty, InRing!NonEmpty, Ring!PeakAfter, InRing!PeakAfter
  <2> QED
    BY <2>1 DEF InRing!Next
<1>2. ASSUME NEW h \in ringLive, Ring!Free(h)
      PROVE  InRing!Next
  <2>1. InRing!Free(h)
    BY <1>2 DEF Ring!Free, InRing!Free, Ring!Coalesced, InRing!Coalesced,
       Ring!Before, InRing!Before, Ring!After, InRing!After,
       Ring!Start, InRing!Start, Ring!End, InRing!End
  <2> QED
    BY <2>1 DEF InRing!Next
<1>3. InRing!Next
  BY <1>1, <1>2
<1> QED
  BY <1>3, PoolsAssumed, InRing!NextKeepsInv, InRing!UsedStep DEF RingInv

LEMMA PrefixOffsets ==
  ASSUME PrefixInv
  PROVE  \A g, h \in prefixLive : g # h => g.offset # h.offset
BY InPrefix!OffsetsDiffer DEF PrefixInv

\* The pools' part of the type invariant, and that their used_ covers what is held.
LEMMA PoolsAccounted ==
  ASSUME PrefixInv, RingInv
  PROVE  Prefix!TypeOK /\ Ring!TypeOK /\ Prefix!UsedCoversHeld /\ Ring!UsedCoversHeld
<1>1. InPrefix!TypeOK /\ InPrefix!UsedCoversHeld
  BY DEF PrefixInv, InPrefix!PoolInv, InPrefix!UsedInv
<1>2. InRing!TypeOK /\ InRing!UsedCoversHeld
  BY DEF RingInv, InRing!PoolInv, InRing!UsedInv
<1>3. Prefix!TypeOK
  BY <1>1 DEF Prefix!TypeOK, InPrefix!TypeOK, Prefix!Block, InPrefix!Block, Prefix!Held, InPrefix!Held
<1>4. Ring!TypeOK
  BY <1>2 DEF Ring!TypeOK, InRing!TypeOK, Ring!Block, InRing!Block, Ring!Held, InRing!Held
<1>5. Prefix!UsedCoversHeld
  BY <1>1 DEF Prefix!UsedCoversHeld, InPrefix!UsedCoversHeld, Prefix!HeldBytes, InPrefix!HeldBytes,
     Prefix!SumFunction, InPrefix!SumFunction, Prefix!SumFunctionOnSet, InPrefix!SumFunctionOnSet,
     Prefix!FoldFunctionOnSet, InPrefix!FoldFunctionOnSet, Prefix!MapThenFoldSet, InPrefix!MapThenFoldSet
<1>6. Ring!UsedCoversHeld
  BY <1>2 DEF Ring!UsedCoversHeld, InRing!UsedCoversHeld, Ring!HeldBytes, InRing!HeldBytes,
     Ring!SumFunction, InRing!SumFunction, Ring!SumFunctionOnSet, InRing!SumFunctionOnSet,
     Ring!FoldFunctionOnSet, InRing!FoldFunctionOnSet, Ring!MapThenFoldSet, InRing!MapThenFoldSet
<1> QED
  BY <1>3, <1>4, <1>5, <1>6

-----------------------------------------------------------------------------
(* Entries and blocks. *)
Owns(k, h) ==
  prefixes[k].bytes > 0 /\ prefixes[k].offset = h.offset /\ prefixes[k].bytes = h.size

\* Entries with bytes and the blocks out of the pool are one to one.
Matched ==
  /\ \A k \in DOMAIN prefixes : prefixes[k].bytes > 0 => \E h \in prefixLive : Owns(k, h)
  /\ \A h \in prefixLive : \E k \in DOMAIN prefixes : Owns(k, h)
  /\ \A j, k \in DOMAIN prefixes :
       prefixes[j].bytes > 0 /\ prefixes[k].bytes > 0 /\ prefixes[j].offset = prefixes[k].offset
         => j = k

Tabled == IsFiniteSet(DOMAIN prefixes) /\ \A k \in DOMAIN prefixes : prefixes[k] \in Entry

Counted ==
  /\ shared \in Nat /\ peakShared \in Nat /\ shared <= peakShared
  /\ shared = BytesOf(prefixes, SharedKeys(prefixes))

\* The inductive invariant.
ManagerInv == CountInv /\ PrefixInv /\ RingInv /\ Tabled /\ Matched /\ Counted

LEMMA SizesNatural == PrefixSizes \subseteq Nat
BY ManagerAssumption DEF ManagerAssumption

\* recompute_shared() on a table of finitely many entries.
LEMMA RecomputeCounts ==
  ASSUME RecomputeShared, Tabled', peakShared \in Nat
  PROVE  Counted'
<1> DEFINE f == [k \in DOMAIN prefixes' |-> prefixes'[k].bytes]
<1>1. IsFiniteSet(DOMAIN prefixes') /\ \A k \in DOMAIN prefixes' : f[k] \in Nat
  BY SizesNatural DEF Tabled, Entry
<1>2. SharedKeys(prefixes') \subseteq DOMAIN prefixes'
  BY DEF SharedKeys
<1>3. BytesOf(prefixes', SharedKeys(prefixes')) = SumFunctionOnSet(f, SharedKeys(prefixes'))
  BY DEF BytesOf
<1>4. SumFunctionOnSet(f, SharedKeys(prefixes'))
        = InPrefix!SumFunctionOnSet(f, SharedKeys(prefixes'))
  BY DEF SumFunctionOnSet, InPrefix!SumFunctionOnSet, FoldFunctionOnSet,
     InPrefix!FoldFunctionOnSet, MapThenFoldSet, InPrefix!MapThenFoldSet
<1> HIDE DEF f
<1>5. InPrefix!SumFunctionOnSet(f, SharedKeys(prefixes')) \in Nat
  <2>1. InPrefix!IsFiniteSet(DOMAIN prefixes')
    BY <1>1 DEF IsFiniteSet, InPrefix!IsFiniteSet
  <2>2. \A U \in SUBSET (DOMAIN prefixes') : InPrefix!SumFunctionOnSet(f, U) \in Nat
    BY <1>1, <2>1, InPrefix!SumIsNatural
  <2> QED
    BY <1>2, <2>2
<1>6. shared' \in Nat /\ shared' = BytesOf(prefixes', SharedKeys(prefixes'))
  BY <1>3, <1>4, <1>5 DEF RecomputeShared
<1>7. peakShared' \in Nat /\ shared' <= peakShared'
  BY <1>6 DEF RecomputeShared, SharedPeakAfter
<1>8. SharedKeys(prefixes') = SharedKeys(prefixes)'
  BY DEF SharedKeys
<1> QED
  BY <1>6, <1>7 DEF Counted, BytesOf, SharedKeys

\* A new count keeps what else an entry has.
LEMMA RecountedEntries ==
  ASSUME Tabled, Matched, NEW k \in DOMAIN prefixes, NEW n \in Nat,
         prefixes' = [prefixes EXCEPT ![k].refcount = n], UNCHANGED prefixLive
  PROVE  Tabled' /\ Matched'
<1>1. prefixes' = [prefixes EXCEPT ![k] = [prefixes[k] EXCEPT !.refcount = n]]
  OBVIOUS
<1>2. DOMAIN prefixes' = DOMAIN prefixes
  BY <1>1
<1>3. ASSUME NEW j \in DOMAIN prefixes
      PROVE  /\ prefixes'[j] \in Entry /\ prefixes'[j].bytes = prefixes[j].bytes
             /\ prefixes'[j].offset = prefixes[j].offset
  <2>1. prefixes[j] \in Entry
    BY DEF Tabled
  <2>2. CASE j = k
    <3>1. prefixes'[j] = [prefixes[k] EXCEPT !.refcount = n]
      BY <1>1, <2>2
    <3> QED
      BY <3>1, <2>1, <2>2 DEF Entry
  <2>3. CASE j # k
    BY <1>1, <2>1, <2>3
  <2> QED
    BY <2>2, <2>3
<1>4. Tabled'
  BY <1>2, <1>3 DEF Tabled
<1>5. Matched'
  BY <1>2, <1>3 DEF Matched, Owns
<1> QED
  BY <1>4, <1>5

LEMMA ShareKeepsAll ==
  ASSUME ManagerInv, NEW c \in Client, NEW k \in Key \ holds[c], Share(c, k)
  PROVE  ManagerInv'
<1>1. /\ k \in DOMAIN prefixes /\ UNCHANGED <<prefixVars, ringVars>> /\ RecomputeShared
      /\ prefixes' = [prefixes EXCEPT ![k].refcount = prefixes[k].refcount + 1]
  BY DEF Share, Acquired
<1>2. CountInv'
  BY ShareKeepsInv DEF ManagerInv
<1>3. PrefixInv' /\ RingInv'
  BY <1>1, PrefixUnchanged, RingUnchanged DEF ManagerInv
<1>4. Tabled' /\ Matched'
  <2>1. prefixes[k].refcount + 1 \in Nat
    BY <1>1 DEF ManagerInv, Tabled, Entry
  <2>2. UNCHANGED prefixLive
    BY <1>1 DEF prefixVars
  <2> QED
    BY <1>1, <2>1, <2>2, RecountedEntries DEF ManagerInv
<1>5. Counted'
  BY <1>1, <1>4, RecomputeCounts DEF ManagerInv, Counted
<1> QED
  BY <1>2, <1>3, <1>4, <1>5 DEF ManagerInv

LEMMA CreateKeepsAll ==
  ASSUME ManagerInv, NEW c \in Client, NEW k \in Key \ holds[c],
         NEW bytes \in PrefixSizes, Create(c, k, bytes)
  PROVE  ManagerInv'
<1>1. /\ k \notin DOMAIN prefixes /\ UNCHANGED ringVars /\ RecomputeShared
      /\ Tabled /\ Matched /\ PrefixInv /\ bytes \in Nat
  BY SizesNatural DEF Create, ManagerInv
<1>2. CountInv'
  BY CreateKeepsInv DEF ManagerInv
<1>3. RingInv'
  BY <1>1, RingUnchanged DEF ManagerInv
<1>4. ASSUME NEW offset \in Nat, prefixes' = WithEntry(k, bytes, offset)
      PROVE  /\ Tabled' /\ DOMAIN prefixes' = DOMAIN prefixes \cup {k}
             /\ prefixes'[k].bytes = bytes /\ prefixes'[k].offset = offset
             /\ \A j \in DOMAIN prefixes : prefixes'[j] = prefixes[j]
  <2>1. /\ DOMAIN prefixes' = DOMAIN prefixes \cup {k}
        /\ prefixes'[k] = [bytes |-> bytes, refcount |-> 1, offset |-> offset]
        /\ \A j \in DOMAIN prefixes : prefixes'[j] = prefixes[j]
    BY <1>1, <1>4 DEF WithEntry
  <2>2. prefixes'[k] \in Entry
    BY <2>1 DEF Entry
  <2>3. IsFiniteSet(DOMAIN prefixes')
    BY <1>1, <2>1, FS_AddElement DEF Tabled
  <2>4. Tabled'
    BY <1>1, <2>1, <2>2, <2>3 DEF Tabled
  <2> QED
    BY <2>1, <2>4
<1>5. Tabled' /\ Matched' /\ PrefixInv'
  <2>1. CASE bytes = 0
    <3>1. prefixes' = WithEntry(k, bytes, 0) /\ UNCHANGED prefixVars
      BY <2>1 DEF Create
    <3>2. /\ Tabled' /\ DOMAIN prefixes' = DOMAIN prefixes \cup {k}
          /\ prefixes'[k].bytes = 0
          /\ \A j \in DOMAIN prefixes : prefixes'[j] = prefixes[j]
      BY <1>4, <2>1, <3>1
    <3>3. Matched'
      BY <1>1, <3>1, <3>2 DEF Matched, Owns, prefixVars
    <3> QED
      BY <1>1, <3>1, <3>2, <3>3, PrefixUnchanged
  <2>2. CASE bytes # 0
    <3>1. /\ Prefix!Allocate(bytes, 0)
          /\ \E h \in prefixLive' \ prefixLive : prefixes' = WithEntry(k, bytes, h.offset)
      BY <2>2 DEF Create
    <3>2. /\ PrefixInv'
          /\ \E h : /\ prefixLive' = prefixLive \cup {h} /\ h \notin prefixLive
                    /\ h.size = bytes /\ h.offset \in Nat
                    /\ \A g \in prefixLive : g.offset # h.offset
      BY <1>1, <2>2, <3>1, PrefixAllocates
    <3>3. PICK h : /\ prefixLive' = prefixLive \cup {h} /\ h \notin prefixLive
                   /\ h.size = bytes /\ h.offset \in Nat
                   /\ \A g \in prefixLive : g.offset # h.offset
      BY <3>2
    <3>4. prefixes' = WithEntry(k, bytes, h.offset)
      BY <3>1, <3>3
    <3>5. /\ Tabled' /\ DOMAIN prefixes' = DOMAIN prefixes \cup {k}
          /\ prefixes'[k].bytes = bytes /\ prefixes'[k].offset = h.offset
          /\ \A j \in DOMAIN prefixes : prefixes'[j] = prefixes[j]
      BY <1>4, <3>3, <3>4
    <3>6. \A g \in prefixLive : g.offset # h.offset
      BY <3>3
    <3>7. /\ \A j \in DOMAIN prefixes' : prefixes'[j].bytes > 0 =>
               \E g \in prefixLive' : Owns(j, g)'
          /\ \A g \in prefixLive' : \E j \in DOMAIN prefixes' : Owns(j, g)'
      <4>1. Owns(k, h)'
        BY <1>1, <2>2, <3>3, <3>5 DEF Owns
      <4>2. \A j \in DOMAIN prefixes, g \in prefixLive : Owns(j, g) => Owns(j, g)'
        BY <3>5 DEF Owns
      <4>3. \A j \in DOMAIN prefixes : prefixes'[j].bytes > 0 =>
              \E g \in prefixLive : Owns(j, g)
        BY <1>1, <3>5 DEF Matched
      <4>4. \A g \in prefixLive : \E j \in DOMAIN prefixes : Owns(j, g)
        BY <1>1 DEF Matched
      <4> QED
        BY <3>3, <3>5, <4>1, <4>2, <4>3, <4>4
    <3>8. ASSUME NEW i \in DOMAIN prefixes', NEW j \in DOMAIN prefixes',
                 prefixes'[i].bytes > 0, prefixes'[j].bytes > 0,
                 prefixes'[i].offset = prefixes'[j].offset
          PROVE  i = j
      <4>1. \A m \in DOMAIN prefixes : prefixes[m].bytes > 0 => prefixes[m].offset # h.offset
        BY <1>1, <3>6 DEF Matched, Owns
      <4> QED
        BY <1>1, <3>5, <3>8, <4>1 DEF Matched
    <3> QED
      BY <3>2, <3>5, <3>7, <3>8 DEF Matched
  <2> QED
    BY <2>1, <2>2
<1>6. Counted'
  BY <1>1, <1>5, RecomputeCounts DEF ManagerInv, Counted
<1> QED
  BY <1>2, <1>3, <1>5, <1>6 DEF ManagerInv

LEMMA ReleaseKeepsAll ==
  ASSUME ManagerInv, NEW c \in Client, NEW k \in holds[c], Release(c, k)
  PROVE  ManagerInv'
<1>1. /\ k \in DOMAIN prefixes /\ UNCHANGED ringVars /\ RecomputeShared
      /\ Tabled /\ Matched /\ PrefixInv /\ prefixes[k].refcount \in Nat
      /\ prefixes[k].bytes \in Nat
  BY SizesNatural DEF Release, ManagerInv, Tabled, Entry
<1>2. CountInv'
  BY ReleaseKeepsInv DEF ManagerInv
<1>3. RingInv'
  BY <1>1, RingUnchanged DEF ManagerInv
<1>4. Tabled' /\ Matched' /\ PrefixInv'
  <2>1. CASE LastReference(k)
    <3>1. /\ FreeBlock(k)
          /\ prefixes' = [j \in DOMAIN prefixes \ {k} |-> prefixes[j]]
      BY <2>1 DEF Release
    <3>2. /\ DOMAIN prefixes' = DOMAIN prefixes \ {k}
          /\ \A j \in DOMAIN prefixes \ {k} : prefixes'[j] = prefixes[j]
      BY <3>1
    <3>3. Tabled'
      <4>1. IsFiniteSet(DOMAIN prefixes')
        BY <1>1, <3>2, FS_Subset DEF Tabled
      <4> QED
        BY <1>1, <3>2, <4>1 DEF Tabled
    <3>4. CASE prefixes[k].bytes = 0
      <4>1. UNCHANGED prefixVars
        BY <3>1, <3>4 DEF FreeBlock
      <4>2. prefixLive' = prefixLive
        BY <4>1 DEF prefixVars
      <4>3. Matched'
        BY <1>1, <3>2, <3>4, <4>2 DEF Matched, Owns
      <4> QED
        BY <1>1, <3>3, <4>1, <4>3, PrefixUnchanged
    <3>5. CASE prefixes[k].bytes # 0
      <4>1. PICK h \in prefixLive : /\ h.offset = prefixes[k].offset
                                    /\ h.size = prefixes[k].bytes
                                    /\ Prefix!Free(h)
        BY <3>1, <3>5 DEF FreeBlock
      <4>2. PrefixInv' /\ prefixLive' = prefixLive \ {h}
        BY <1>1, <4>1, PrefixFrees
      <4>3. \A j \in DOMAIN prefixes \ {k} : ~ Owns(j, h)
        BY <1>1, <3>5, <4>1 DEF Matched, Owns
      <4>4. \A g \in prefixLive \ {h} : ~ Owns(k, g)
        BY <1>1, <4>1, PrefixOffsets DEF Owns
      <4>5. \A j \in DOMAIN prefixes \ {k} : \A g \in prefixLive : Owns(j, g) <=> Owns(j, g)'
        BY <3>2 DEF Owns
      <4>6. \A j \in DOMAIN prefixes' : prefixes'[j].bytes > 0 =>
              \E g \in prefixLive' : Owns(j, g)'
        <5> SUFFICES ASSUME NEW j \in DOMAIN prefixes \ {k}, prefixes[j].bytes > 0
                     PROVE  \E g \in prefixLive \ {h} : Owns(j, g)'
          BY <3>2, <4>2
        <5>1. PICK g \in prefixLive : Owns(j, g)
          BY <1>1 DEF Matched
        <5> QED
          BY <5>1, <4>3, <4>5
      <4>7. \A g \in prefixLive' : \E j \in DOMAIN prefixes' : Owns(j, g)'
        <5> SUFFICES ASSUME NEW g \in prefixLive \ {h}
                     PROVE  \E j \in DOMAIN prefixes \ {k} : Owns(j, g)'
          BY <3>2, <4>2
        <5>1. PICK j \in DOMAIN prefixes : Owns(j, g)
          BY <1>1 DEF Matched
        <5> QED
          BY <5>1, <4>4, <4>5
      <4>8. Matched'
        BY <1>1, <3>2, <4>6, <4>7 DEF Matched
      <4> QED
        BY <3>3, <4>2, <4>8
    <3> QED
      BY <3>4, <3>5
  <2>2. CASE ~ LastReference(k)
    <3>1. prefixes' = [prefixes EXCEPT ![k].refcount = prefixes[k].refcount - 1]
          /\ UNCHANGED prefixVars
      BY <2>2 DEF Release
    <3>2. prefixes[k].refcount - 1 \in Nat
      BY <1>1, <2>2 DEF LastReference
    <3>3. UNCHANGED prefixLive
      BY <3>1 DEF prefixVars
    <3>4. Tabled' /\ Matched'
      BY <1>1, <3>1, <3>2, <3>3, RecountedEntries
    <3> QED
      BY <1>1, <3>1, <3>4, PrefixUnchanged
  <2> QED
    BY <2>1, <2>2
<1>5. Counted'
  BY <1>1, <1>4, RecomputeCounts DEF ManagerInv, Counted
<1> QED
  BY <1>2, <1>3, <1>4, <1>5 DEF ManagerInv

\* What the rings do leaves the prefixes alone.
LEMMA RingKeepsAll ==
  ASSUME ManagerInv, RingInv', UNCHANGED <<mgrVars, prefixVars, holds>>
  PROVE  ManagerInv'
<1>1. UNCHANGED <<prefixes, shared, peakShared, holds, prefixLive>>
  BY DEF mgrVars, prefixVars
<1>2. CountInv'
  BY <1>1, OtherKeepsInv DEF ManagerInv
<1>3. PrefixInv'
  BY PrefixUnchanged DEF ManagerInv
<1>4. Tabled' /\ Matched' /\ Counted'
  BY <1>1 DEF ManagerInv, Tabled, Matched, Owns, Counted, BytesOf, SharedKeys
<1> QED
  BY <1>2, <1>3, <1>4 DEF ManagerInv

LEMMA NextKeepsAll ==
  ASSUME ManagerInv, [ManagerNext]_managerVars
  PROVE  ManagerInv'
<1>1. ASSUME NEW c \in Client, NEW k \in Key \ holds[c], Share(c, k)
      PROVE  ManagerInv'
  BY <1>1, ShareKeepsAll
<1>2. ASSUME NEW c \in Client, NEW k \in Key \ holds[c], NEW bytes \in PrefixSizes,
             Create(c, k, bytes)
      PROVE  ManagerInv'
  BY <1>2, CreateKeepsAll
<1>3. ASSUME NEW c \in Client, NEW k \in holds[c], Release(c, k)
      PROVE  ManagerInv'
  BY <1>3, ReleaseKeepsAll
<1>4. ASSUME NEW bytes \in RingSizes, AllocateRing(bytes)
      PROVE  ManagerInv'
  BY <1>4, RingSteps, RingKeepsAll DEF AllocateRing, ManagerInv
<1>5. ASSUME NEW h \in ringLive, FreeRing(h)
      PROVE  ManagerInv'
  BY <1>5, RingSteps, RingKeepsAll DEF FreeRing, ManagerInv
<1>6. CASE UNCHANGED managerVars
  BY <1>6, RingUnchanged, RingKeepsAll DEF managerVars, mgrVars, ManagerInv
<1> QED
  BY <1>1, <1>2, <1>3, <1>4, <1>5, <1>6 DEF ManagerNext

LEMMA AllInitially ==
  ASSUME ManagerInit
  PROVE  ManagerInv
<1>1. DOMAIN prefixes = {} /\ shared = 0 /\ peakShared = 0
  BY DEF ManagerInit
<1>2. Tabled
  BY <1>1, FS_EmptySet DEF Tabled
<1>3. Matched
  BY <1>1, PoolsInitially DEF Matched
<1>4. BytesOf(prefixes, {}) = 0
  <2>1. \A f : SumFunctionOnSet(f, {}) = InPrefix!SumFunctionOnSet(f, {})
    BY DEF SumFunctionOnSet, InPrefix!SumFunctionOnSet, FoldFunctionOnSet,
       InPrefix!FoldFunctionOnSet, MapThenFoldSet, InPrefix!MapThenFoldSet
  <2> QED
    BY <2>1, InPrefix!SumOfNone DEF BytesOf
<1>5. SharedKeys(prefixes) = {}
  BY <1>1 DEF SharedKeys
<1>6. Counted
  BY <1>1, <1>4, <1>5 DEF Counted
<1> QED
  BY <1>2, <1>3, <1>6, CountInitially, PoolsInitially DEF ManagerInv

LEMMA ManagerAlways == ManagerSpec => []ManagerInv
<1>1. ManagerInit => ManagerInv
  BY AllInitially
<1>2. ManagerInv /\ [ManagerNext]_managerVars => ManagerInv'
  BY NextKeepsAll
<1> QED
  BY <1>1, <1>2, PTL DEF ManagerSpec

\* The counters of bytes are right whatever is allocated, shared and freed, for
\* every size of the pools: used_ of both covers what is held, and shared_bytes_
\* is the bytes of the prefixes that two requests or more hold (recompute_shared).
THEOREM BytesStayAccounted == ManagerSpec => []BytesAccounted
<1>1. ASSUME ManagerInv  PROVE BytesAccounted
  <2>1. ManagerTypeOK /\ Prefix!UsedCoversHeld /\ Ring!UsedCoversHeld
    BY <1>1, PoolsAccounted
       DEF ManagerInv, ManagerTypeOK, CountInv, Shaped, Tabled, Counted
  <2>2. \A k \in DOMAIN prefixes : prefixes[k].refcount = Cardinality(Holders(k))
    BY <1>1 DEF ManagerInv, CountInv, CountsHolders, Shaped
  <2>3. SharedKeys(prefixes) = {k \in DOMAIN prefixes : Cardinality(Holders(k)) >= 2}
    BY <2>2 DEF SharedKeys
  <2>4. SharedBytesExact
    BY <1>1, <2>3 DEF SharedBytesExact, ManagerInv, Counted
  <2> QED
    BY <2>1, <2>4 DEF BytesAccounted
<1> QED
  BY <1>1, ManagerAlways, PTL

\* Every entry with bytes has a block of its own out of the prefix pool, and
\* every block out of the pool is an entry's: acquire_prefix and release_prefix
\* leak no block and free none under an entry.
THEOREM BlocksHaveOwners == ManagerSpec => []EntriesOwnBlocks
<1>1. ASSUME ManagerInv  PROVE EntriesOwnBlocks
  <2>1. \A k \in DOMAIN prefixes : prefixes[k].bytes > 0 =>
          \E h \in prefixLive : h.offset = prefixes[k].offset /\ h.size = prefixes[k].bytes
    BY <1>1 DEF ManagerInv, Matched, Owns
  <2>2. ASSUME NEW h \in prefixLive
        PROVE  Cardinality({k \in DOMAIN prefixes :
                 prefixes[k].bytes > 0 /\ prefixes[k].offset = h.offset}) = 1
    <3>1. PICK j \in DOMAIN prefixes : Owns(j, h)
      BY <1>1 DEF ManagerInv, Matched
    <3>2. {k \in DOMAIN prefixes : prefixes[k].bytes > 0 /\ prefixes[k].offset = h.offset} = {j}
      BY <1>1, <3>1 DEF ManagerInv, Matched, Owns
    <3> QED
      BY <3>2, FS_Singleton
  <2> QED
    BY <2>1, <2>2 DEF EntriesOwnBlocks
<1> QED
  BY <1>1, ManagerAlways, PTL

-----------------------------------------------------------------------------
(* The ring of the window. *)

USE CacheAssumption DEF Layer

\* What a row may hold.
Row == Nat \cup {Zeroed}

\* The types of the scalars.
IScalar ==
  /\ window \in Nat \ {0}
  /\ window \in Windows
  /\ onDevice \in BOOLEAN
  /\ prefillLen \in Nat
  /\ capacity \in Nat
  /\ call \in {"none", "prefill", "decode"}
  /\ layer \in Layer
  /\ pos \in Nat

\* The types of what is kept per layer.
IType ==
  /\ len \in [Layer -> Nat]
  /\ ringPos \in [Layer -> Nat]
  /\ ringStarted \subseteq Layer
  /\ slot \in [Layer -> [0 .. capacity - 1 -> Row]]

\* A request is present from its reset on.
IRequest ==
  /\ call # "none" => pos > 0
  /\ pos > 0 => 0 < prefillLen /\ prefillLen <= pos /\ prefillLen + window <= capacity
  /\ call = "prefill" => prefillLen = pos
  /\ pos = 0 => prefillLen = 0 /\ capacity = 0

\* A layer that reset() cleared and the prefill has not reached.
ICleared(l) ==
  /\ l \notin ringStarted
  /\ ringPos[l] = 0
  /\ len[l] = prefillLen

\* n tokens decoded, the ring region not yet full.
IWarm(l, n) ==
  /\ len[l] = prefillLen + n
  /\ l \notin ringStarted
  /\ ringPos[l] = 0
  /\ \A i \in 0 .. n - 1 : slot[l][prefillLen + i] = prefillLen + i

\* n tokens decoded, the ring region full.
IRing(l, n) ==
  /\ len[l] = prefillLen + window
  /\ l \in ringStarted
  /\ ringPos[l] < window
  /\ \A i \in 0 .. window - 1 :
       slot[l][prefillLen + i] =
         IF i < ringPos[l] THEN prefillLen + n - ringPos[l] + i
                           ELSE prefillLen + n - ringPos[l] + i - window

ILayer(l) ==
  IF Filled(l)
    THEN /\ \A i \in 0 .. prefillLen - 1 : slot[l][i] = i
         /\ IF NextPos(l) - prefillLen < window
              THEN IWarm(l, NextPos(l) - prefillLen)
              ELSE IRing(l, NextPos(l) - prefillLen)
    ELSE ICleared(l)

IInv == IScalar /\ IType /\ IRequest /\ \A l \in Layer : ILayer(l)

-----------------------------------------------------------------------------
\* The cursor advances by one and wraps at the window.
LEMMA RingStep ==
  ASSUME NEW w \in Nat \ {0}, NEW r \in 0 .. w - 1
  PROVE  (r + 1) % w = IF r + 1 = w THEN 0 ELSE r + 1
<1>1. CASE r + 1 = w
  BY <1>1, w % w = 0
<1>2. CASE r + 1 < w
  BY <1>2, SMT
<1> QED
  BY <1>1, <1>2

LEMMA InitInv == Init => IInv
  BY DEF Init, IInv, IScalar, IType, IRequest, ILayer, ICleared, Filled

-----------------------------------------------------------------------------
\* reset() on either side leaves every layer cleared, with room for the prompt
\* and the window.
LEMMA StartPrefillInv ==
  ASSUME IInv, NEW p \in 1 .. MaxPrefill, StartPrefill(p)
  PROVE  IInv'
<1>1. PICK c \in Nat : p + window <= c /\ Cleared(p, c)
  BY DEF StartPrefill, Reset, GpuReset, IInv, IScalar
<1>2. IScalar'
  BY <1>1 DEF StartPrefill, Cleared, IInv, IScalar
<1>3. IType'
  BY <1>1 DEF Cleared, IType, Row
<1>4. IRequest'
  BY <1>1 DEF StartPrefill, Cleared, IRequest, IInv, IScalar
<1>5. ASSUME NEW l \in Layer PROVE ILayer(l)'
  <2>1. ~ Filled(l)'
    BY DEF StartPrefill, Filled
  <2> QED
    BY <1>1, <2>1 DEF Cleared, ILayer, ICleared
<1> QED
  BY <1>2, <1>3, <1>4, <1>5 DEF IInv

\* Starting a decode changes no cache.
LEMMA StartDecodeInv ==
  ASSUME IInv, StartDecode
  PROVE  IInv'
<1> USE DEF StartDecode, cacheVars
<1>1. IScalar' /\ IType' /\ IRequest'
  BY DEF IInv, IScalar, IType, IRequest
<1>2. ASSUME NEW l \in Layer PROVE ILayer(l)'
  <2>1. Filled(l) /\ Filled(l)' /\ NextPos(l)' = NextPos(l)
    BY DEF Filled, NextPos
  <2> QED
    BY <2>1 DEF IInv, ILayer, IWarm, IRing
<1> QED
  BY <1>1, <1>2 DEF IInv

-----------------------------------------------------------------------------
\* What NextLayer does: the types survive, and only the layer just visited
\* becomes filled (prefill) or moves on by one token (decode).
LEMMA NextLayerScalars ==
  ASSUME IScalar, NextLayer
  PROVE  /\ call' \in {"none", call}
         /\ layer' \in Layer
         /\ pos' \in {pos, pos + 1}
         /\ call = "prefill" => pos' = pos
  BY DEF IScalar, NextLayer

LEMMA NextLayerPrefill ==
  ASSUME IScalar, pos > 0, NextLayer, call = "prefill", NEW l \in Layer
  PROVE  /\ Filled(l)' <=> (Filled(l) \/ l = layer)
         /\ Filled(l)' => NextPos(l)' = pos
         /\ Filled(l) => NextPos(l) = pos
         /\ ~ Filled(layer)
  BY DEF IScalar, NextLayer, Filled, NextPos

LEMMA NextLayerDecode ==
  ASSUME IScalar, pos > 0, NextLayer, call = "decode", NEW l \in Layer
  PROVE  /\ Filled(l) /\ Filled(l)'
         /\ NextPos(layer) = pos
         /\ l = layer => NextPos(l)' = pos + 1
         /\ l # layer => NextPos(l)' = NextPos(l)
  BY DEF IScalar, NextLayer, Filled, NextPos

\* write_prefill fills the reference rows of the layer it visits.
LEMMA WritePrefillInv ==
  ASSUME IInv, WritePrefill
  PROVE  IInv'
<1>1. IScalar /\ IType /\ IRequest /\ call = "prefill" /\ NextLayer
      /\ pos > 0 /\ prefillLen = pos /\ prefillLen' = pos /\ pos' = pos
  BY NextLayerScalars DEF IInv, IRequest, WritePrefill
<1>2. IScalar'
  BY <1>1, NextLayerScalars DEF WritePrefill, IScalar
<1>3. IType'
  BY <1>1 DEF WritePrefill, IType, IScalar, LenAfterPrefill, Row
<1>4. IRequest'
  BY <1>1, NextLayerScalars DEF WritePrefill, IRequest
<1>5. ASSUME NEW l \in Layer PROVE ILayer(l)'
  <2>1. CASE l = layer
    <3>1. Filled(l)' /\ NextPos(l)' = pos /\ ~ Filled(l)
      BY <1>1, <2>1, NextLayerPrefill
    <3>2. len'[l] = pos /\ l \notin ringStarted' /\ ringPos'[l] = 0
      BY <2>1, <3>1 DEF WritePrefill, IInv, IType, ILayer, ICleared, LenAfterPrefill
    <3>3. \A i \in 0 .. pos - 1 : slot'[l][i] = i
      <4>1. pos <= capacity
        BY <1>1 DEF IRequest, IScalar
      <4> QED
        BY <1>1, <2>1, <4>1 DEF WritePrefill, IScalar, IType
    <3>4. pos - pos < window' /\ pos \in Nat
      BY DEF WritePrefill, IInv, IScalar
    <3> QED
      BY <1>1, <3>1, <3>2, <3>3, <3>4 DEF ILayer, IWarm
  <2>2. CASE l # layer
    <3>1. (Filled(l)' <=> Filled(l)) /\ (Filled(l) => NextPos(l)' = NextPos(l))
      BY <1>1, <2>2, NextLayerPrefill
    <3>2. len'[l] = len[l] /\ slot'[l] = slot[l] /\ ringPos'[l] = ringPos[l]
          /\ (l \in ringStarted' <=> l \in ringStarted) /\ window' = window
      BY <2>2 DEF WritePrefill, IInv, IType
    <3> QED
      BY <1>1, <3>1, <3>2 DEF IInv, ILayer, ICleared, IWarm, IRing
  <2> QED
    BY <2>1, <2>2
<1> QED
  BY <1>2, <1>3, <1>4, <1>5 DEF IInv
-----------------------------------------------------------------------------
\* A layer that append_decode does not visit keeps its invariant.
LEMMA OtherLayer ==
  ASSUME IInv, NextLayer, call = "decode", NEW l \in Layer, l # layer,
         prefillLen' = prefillLen, window' = window,
         len'[l] = len[l], slot'[l] = slot[l],
         ringPos'[l] = ringPos[l], (l \in ringStarted' <=> l \in ringStarted)
  PROVE  ILayer(l)'
<1>1. Filled(l) /\ Filled(l)' /\ NextPos(l)' = NextPos(l)
  BY NextLayerDecode DEF IInv, IRequest
<1> QED
  BY <1>1 DEF IInv, ILayer, IWarm, IRing

\* While decoding, the row written is free: the next one of the warm-up, or
\* the ring row that holds the oldest token.
LEMMA DecodeFacts ==
  ASSUME IInv, call = "decode"
  PROVE  /\ pos > 0 /\ 0 < prefillLen /\ prefillLen <= pos
         /\ prefillLen + window <= capacity
         /\ \A i \in 0 .. prefillLen - 1 : slot[layer][i] = i
         /\ WarmingUp(layer) => /\ pos - prefillLen < window
                                /\ IWarm(layer, pos - prefillLen)
                                /\ WriteRow(layer) = pos
         /\ ~ WarmingUp(layer) => /\ pos - prefillLen >= window
                                  /\ IRing(layer, pos - prefillLen)
                                  /\ RingCursor(layer) = ringPos[layer]
                                  /\ WriteRow(layer) = prefillLen + ringPos[layer]
<1>1. IScalar /\ IType /\ IRequest
  BY DEF IInv
<1>2. Filled(layer) /\ NextPos(layer) = pos /\ layer \in Layer /\ pos \in Nat
      /\ prefillLen \in Nat /\ window \in Nat \ {0}
  BY <1>1 DEF IScalar, IRequest, Filled, NextPos
<1>3. pos > 0 /\ 0 < prefillLen /\ prefillLen <= pos
      /\ prefillLen + window <= capacity
  BY <1>1 DEF IRequest
<1>4. ILayer(layer)
  BY <1>2 DEF IInv
<1>5. \A i \in 0 .. prefillLen - 1 : slot[layer][i] = i
  BY <1>2, <1>4 DEF ILayer
<1>6. CASE pos - prefillLen < window
  <2>1. IWarm(layer, pos - prefillLen)
    BY <1>2, <1>4, <1>6 DEF ILayer
  <2>2. len[layer] = pos /\ WarmingUp(layer)
    BY <1>2, <1>6, <2>1 DEF IWarm, WarmingUp
  <2> QED
    BY <1>3, <1>5, <1>6, <2>1, <2>2 DEF WriteRow
<1>7. CASE ~ (pos - prefillLen < window)
  <2>1. IRing(layer, pos - prefillLen)
    BY <1>2, <1>4, <1>7 DEF ILayer
  <2>2. ~ WarmingUp(layer) /\ RingCursor(layer) = ringPos[layer]
    BY <1>2, <2>1 DEF IRing, WarmingUp, RingCursor
  <2>3. pos - prefillLen >= window
    BY <1>2, <1>7
  <2> QED
    BY <1>3, <1>5, <2>1, <2>2, <2>3 DEF WriteRow, RingSlot
<1> QED
  BY <1>6, <1>7

\* Storing a number in the entry of one layer.
LEMMA UpdateLayer ==
  ASSUME NEW f \in [Layer -> Nat], NEW x \in Layer, NEW v \in Nat
  PROVE  [f EXCEPT ![x] = v] \in [Layer -> Nat]
  OBVIOUS

\* Overwriting one row of a layer.
LEMMA OverwriteRow ==
  ASSUME NEW c \in Nat, NEW f \in [Layer -> [0 .. c - 1 -> Row]],
         NEW x \in Layer, NEW r \in 0 .. c - 1, NEW v \in Row,
         NEW g, g = [f EXCEPT ![x] = [@ EXCEPT ![r] = v]]
  PROVE  /\ g \in [Layer -> [0 .. c - 1 -> Row]]
         /\ \A l \in Layer : l # x => g[l] = f[l]
         /\ g[x][r] = v
         /\ \A i \in 0 .. c - 1 : i # r => g[x][i] = f[x][i]
<1>1. f[x] \in [0 .. c - 1 -> Row]
  OBVIOUS
<1>2. PICK h \in [0 .. c - 1 -> Row] : h = [f[x] EXCEPT ![r] = v]
  BY <1>1
<1>3. g = [f EXCEPT ![x] = h]
  BY <1>2
<1>4. g \in [Layer -> [0 .. c - 1 -> Row]] /\ g[x] = h
      /\ \A l \in Layer : l # x => g[l] = f[l]
  BY <1>2, <1>3
<1>5. h[r] = v /\ \A i \in 0 .. c - 1 : i # r => h[i] = f[x][i]
  BY <1>1, <1>2
<1> QED
  BY <1>4, <1>5

LEMMA AppendWarmupInv ==
  ASSUME IInv, AppendWarmup
  PROVE  IInv'
<1>1. /\ call = "decode" /\ NextLayer /\ WarmingUp(layer)
      /\ prefillLen' = prefillLen /\ window' = window /\ capacity' = capacity
      /\ onDevice' = onDevice
      /\ len' = [len EXCEPT ![layer] = len[layer] + 1]
      /\ IF len[layer] + 1 >= prefillLen + window
           THEN /\ ringStarted' = ringStarted \cup {layer}
                /\ ringPos' = [ringPos EXCEPT ![layer] = 0]
           ELSE ringStarted' = ringStarted /\ ringPos' = ringPos
  BY DEF AppendWarmup
<1>2. IScalar /\ IType /\ IRequest
  BY DEF IInv
<1>3. PICK n \in Nat : pos = prefillLen + n /\ n < window /\ n = pos - prefillLen
  BY <1>1, <1>2, DecodeFacts DEF IScalar
<1>4. IWarm(layer, n) /\ WriteRow(layer) = prefillLen + n
      /\ \A i \in 0 .. prefillLen - 1 : slot[layer][i] = i
  BY <1>1, <1>3, DecodeFacts
<1>5. prefillLen \in Nat /\ window \in Nat /\ capacity \in Nat /\ layer \in Layer
      /\ prefillLen + window <= capacity /\ pos > 0
      /\ WriteRow(layer) \in 0 .. capacity - 1
  BY <1>1, <1>2, <1>3, <1>4, DecodeFacts DEF IScalar
<1>6. /\ slot' \in [Layer -> [0 .. capacity - 1 -> Row]]
      /\ \A l \in Layer : l # layer => slot'[l] = slot[l]
      /\ slot'[layer][prefillLen + n] = prefillLen + n
      /\ \A i \in 0 .. capacity - 1 :
           i # prefillLen + n => slot'[layer][i] = slot[layer][i]
  <2>1. slot' = [slot EXCEPT ![layer] = [@ EXCEPT ![prefillLen + n] = prefillLen + n]]
    BY <1>3, <1>4 DEF AppendWarmup
  <2>2. slot \in [Layer -> [0 .. capacity - 1 -> Row]]
    BY <1>2 DEF IType
  <2>3. prefillLen + n \in 0 .. capacity - 1 /\ prefillLen + n \in Row
    BY <1>4, <1>5 DEF Row
  <2> QED
    BY <1>5, <2>1, <2>2, <2>3, OverwriteRow
<1>7. IScalar'
  BY <1>1, <1>2, NextLayerScalars DEF IScalar
<1>8. IType'
  <2>1. len \in [Layer -> Nat] /\ ringPos \in [Layer -> Nat] /\ ringStarted \subseteq Layer
    BY <1>2 DEF IType
  <2>5. len[layer] + 1 \in Nat
    <3>1. len[layer] \in Nat
      BY <1>5, <2>1
    <3> QED
      BY <3>1
  <2>2. len' \in [Layer -> Nat]
    BY <1>1, <1>5, <2>1, <2>5, UpdateLayer
  <2>3. ringPos' \in [Layer -> Nat]
    <3>1. ringPos' = ringPos \/ ringPos' = [ringPos EXCEPT ![layer] = 0]
      BY <1>1
    <3> QED
      BY <1>5, <2>1, <3>1, UpdateLayer
  <2>4. ringStarted' \subseteq Layer
    BY <1>1, <1>5, <2>1
  <2> QED
    BY <1>1, <1>6, <2>2, <2>3, <2>4 DEF IType
<1>9. IRequest'
  BY <1>1, <1>2, <1>5, NextLayerScalars DEF IScalar, IRequest
<1>10. ASSUME NEW l \in Layer PROVE ILayer(l)'
  <2>1. CASE l # layer
    BY <1>1, <1>2, <1>6, <2>1, OtherLayer DEF IType
  <2>2. CASE l = layer
    <3>1. Filled(l)' /\ NextPos(l)' = pos + 1
      BY <1>1, <1>2, <1>5, <2>2, NextLayerDecode
    <3>2. len'[l] = prefillLen + n + 1
      BY <1>1, <1>2, <1>4, <1>5, <2>2 DEF IType, IWarm
    <3>3. \A i \in 0 .. prefillLen - 1 : slot'[l][i] = i
      <4>1. TAKE i \in 0 .. prefillLen - 1
      <4>2. i \in 0 .. capacity - 1 /\ i # prefillLen + n
        BY <1>5
      <4> QED
        BY <1>4, <1>6, <2>2, <4>2
    <3>4. \A i \in 0 .. n : slot'[l][prefillLen + i] = prefillLen + i
      <4>1. TAKE i \in 0 .. n
      <4>2. CASE i = n
        BY <1>6, <2>2, <4>2
      <4>3. CASE i # n
        <5>1. prefillLen + i \in 0 .. capacity - 1 /\ prefillLen + i # prefillLen + n
              /\ i \in 0 .. n - 1
          BY <1>3, <1>5, <4>3
        <5> QED
          BY <1>4, <1>6, <2>2, <5>1 DEF IWarm
      <4> QED
        BY <4>2, <4>3
    <3>5. len[l] = prefillLen + n /\ l \notin ringStarted /\ ringPos[l] = 0
      BY <1>4, <2>2 DEF IWarm
    <3>6. CASE n + 1 < window
      <4>1. l \notin ringStarted' /\ ringPos'[l] = 0
        BY <1>1, <1>3, <1>5, <2>2, <3>5, <3>6
      <4>2. IWarm(l, n + 1)'
        <5>1. 0 .. (n + 1) - 1 = 0 .. n /\ prefillLen + n + 1 = prefillLen + (n + 1)
          BY <1>3, <1>5
        <5> QED
          BY <1>1, <3>2, <3>4, <4>1, <5>1 DEF IWarm
      <4>3. NextPos(l)' - prefillLen' = n + 1
        BY <1>1, <1>3, <1>5, <3>1
      <4> QED
        BY <1>1, <3>1, <3>3, <3>6, <4>2, <4>3 DEF ILayer
    <3>7. CASE n + 1 = window
      <4>1. l \in ringStarted' /\ ringPos'[l] = 0
        BY <1>1, <1>2, <1>3, <1>5, <2>2, <3>5, <3>7 DEF IType
      <4>2. IRing(l, n + 1)'
        BY <1>1, <1>3, <1>5, <3>2, <3>4, <3>7, <4>1 DEF IRing
      <4>3. NextPos(l)' - prefillLen' = n + 1
        BY <1>1, <1>3, <1>5, <3>1
      <4> QED
        BY <1>1, <1>5, <3>1, <3>3, <3>7, <4>2, <4>3 DEF ILayer
    <3> QED
      BY <1>3, <1>5, <3>6, <3>7
  <2> QED
    BY <2>1, <2>2
<1> QED
  BY <1>7, <1>8, <1>9, <1>10 DEF IInv

LEMMA AppendRingInv ==
  ASSUME IInv, AppendRing
  PROVE  IInv'
<1>1. /\ call = "decode" /\ NextLayer /\ ~ WarmingUp(layer)
      /\ prefillLen' = prefillLen /\ window' = window /\ capacity' = capacity
      /\ onDevice' = onDevice /\ len' = len
      /\ ringStarted' = ringStarted \cup {layer}
      /\ ringPos' = [ringPos EXCEPT ![layer] = RingAdvance(layer)]
  BY DEF AppendRing
<1>2. IScalar /\ IType /\ IRequest
  BY DEF IInv
<1>3. PICK n \in Nat : pos = prefillLen + n /\ n >= window /\ n = pos - prefillLen
  BY <1>1, <1>2, DecodeFacts DEF IScalar
<1>4. IRing(layer, n) /\ \A i \in 0 .. prefillLen - 1 : slot[layer][i] = i
  BY <1>1, <1>3, DecodeFacts
<1>5. PICK rp \in 0 .. window - 1 : rp = ringPos[layer]
  BY <1>2, <1>4 DEF IScalar, IType, IRing
<1>6. WriteRow(layer) = prefillLen + rp /\ RingCursor(layer) = rp
  BY <1>1, <1>5, DecodeFacts
<1>7. prefillLen \in Nat /\ window \in Nat \ {0} /\ capacity \in Nat /\ layer \in Layer
      /\ prefillLen + window <= capacity /\ pos > 0
      /\ WriteRow(layer) \in 0 .. capacity - 1
  BY <1>1, <1>2, <1>5, <1>6, DecodeFacts DEF IScalar
<1>8. RingAdvance(layer) = IF rp + 1 = window THEN 0 ELSE rp + 1
  BY <1>5, <1>6, <1>7, RingStep DEF RingAdvance
<1>9. /\ slot' \in [Layer -> [0 .. capacity - 1 -> Row]]
      /\ \A l \in Layer : l # layer => slot'[l] = slot[l]
      /\ slot'[layer][prefillLen + rp] = prefillLen + n
      /\ \A i \in 0 .. capacity - 1 :
           i # prefillLen + rp => slot'[layer][i] = slot[layer][i]
  <2>1. slot' = [slot EXCEPT ![layer] = [@ EXCEPT ![prefillLen + rp] = prefillLen + n]]
    BY <1>3, <1>6 DEF AppendRing
  <2>2. slot \in [Layer -> [0 .. capacity - 1 -> Row]]
    BY <1>2 DEF IType
  <2>3. prefillLen + rp \in 0 .. capacity - 1 /\ prefillLen + n \in Row
    BY <1>6, <1>7 DEF Row
  <2> QED
    BY <1>7, <2>1, <2>2, <2>3, OverwriteRow
<1>10. IScalar'
  BY <1>1, <1>2, NextLayerScalars DEF IScalar
<1>11. RingAdvance(layer) \in Nat
  BY <1>5, <1>7, <1>8
<1>12. IType'
  BY <1>1, <1>2, <1>7, <1>9, <1>11 DEF IType
<1>13. IRequest'
  BY <1>1, <1>2, <1>7, NextLayerScalars DEF IScalar, IRequest
<1>14. ASSUME NEW l \in Layer PROVE ILayer(l)'
  <2>1. CASE l # layer
    BY <1>1, <1>2, <1>9, <2>1, OtherLayer DEF IType
  <2>2. CASE l = layer
    <3>1. Filled(l)' /\ NextPos(l)' = pos + 1
      BY <1>1, <1>2, <1>7, <2>2, NextLayerDecode
    <3>2. len'[l] = prefillLen + window /\ l \in ringStarted'
          /\ ringPos'[l] = IF rp + 1 = window THEN 0 ELSE rp + 1
      BY <1>1, <1>2, <1>4, <1>8, <2>2 DEF IType, IRing
    <3>3. \A i \in 0 .. prefillLen - 1 : slot'[l][i] = i
      <4>1. TAKE i \in 0 .. prefillLen - 1
      <4>2. i \in 0 .. capacity - 1 /\ i # prefillLen + rp
        BY <1>7
      <4> QED
        BY <1>4, <1>9, <2>2, <4>2
    <3>4. \A i \in 0 .. window - 1 :
            slot'[l][prefillLen + i] =
              IF i <= rp THEN prefillLen + n - rp + i
                         ELSE prefillLen + n - rp + i - window
      <4>1. TAKE i \in 0 .. window - 1
      <4>2. CASE i = rp
        BY <1>3, <1>5, <1>7, <1>9, <2>2, <4>2
      <4>3. CASE i # rp
        <5>1. prefillLen + i \in 0 .. capacity - 1 /\ prefillLen + i # prefillLen + rp
          BY <1>7, <4>3
        <5>2. slot'[l][prefillLen + i] = slot[l][prefillLen + i]
          BY <1>9, <2>2, <5>1
        <5> QED
          BY <1>4, <1>5, <1>7, <2>2, <4>3, <5>2 DEF IRing
      <4> QED
        BY <4>2, <4>3
    <3>5. IRing(l, n + 1)'
      BY <1>1, <1>5, <1>7, <3>2, <3>4 DEF IRing
    <3>6. NextPos(l)' - prefillLen' = n + 1 /\ ~ (n + 1 < window')
      BY <1>1, <1>3, <1>7, <3>1
    <3> QED
      BY <1>1, <3>1, <3>3, <3>5, <3>6 DEF ILayer
  <2> QED
    BY <2>1, <2>2
<1> QED
  BY <1>10, <1>12, <1>13, <1>14 DEF IInv

LEMMA StutterInv == IInv /\ UNCHANGED vars => IInv'
  BY DEF IInv, IScalar, IType, IRequest, ILayer, ICleared, IWarm, IRing,
     Filled, NextPos, vars

\* The inductive invariant: in every reachable state of the two caches each
\* layer's rows hold the tokens that IWarm and IRing say.
THEOREM CacheInvariant == Spec => []IInv
<1>1. IInv /\ [Next]_vars => IInv'
  BY StartPrefillInv, StartDecodeInv, WritePrefillInv, AppendWarmupInv,
     AppendRingInv, StutterInv DEF Next
<1> QED
  BY InitInv, <1>1, PTL DEF Spec


-----------------------------------------------------------------------------
\* The layer's rows, as attention sees them.
LEMMA FilledLayer ==
  ASSUME IInv, NEW l \in Layer, Filled(l)
  PROVE  /\ prefillLen \in Nat /\ window \in Nat \ {0}
         /\ prefillLen + window <= capacity
         /\ NextPos(l) \in Nat /\ prefillLen <= NextPos(l)
         /\ ILayer(l)
<1>1. IScalar /\ IRequest
  BY DEF IInv
<1>2. pos > 0 /\ NextPos(l) \in {pos, pos + 1}
  BY <1>1 DEF IScalar, IRequest, Filled, NextPos
<1> QED
  BY <1>1, <1>2 DEF IInv, IScalar, IRequest

\* The types of all variables, for every configuration.
THEOREM TypeCorrect == Spec => []TypeOK
<1>1. ASSUME IInv, NEW l \in Layer
      PROVE  len[l] \in 0 .. capacity /\ ringPos[l] \in 0 .. window - 1
  <2>1. IScalar /\ IType /\ IRequest /\ ILayer(l)
    BY <1>1 DEF IInv
  <2>2. CASE Filled(l)
    <3>1. CASE NextPos(l) - prefillLen < window
      BY <1>1, <2>1, <2>2, <3>1, FilledLayer DEF ILayer, IWarm, IScalar, IType
    <3>2. CASE ~ (NextPos(l) - prefillLen < window)
      BY <1>1, <2>1, <2>2, <3>2, FilledLayer DEF ILayer, IRing, IScalar, IType
    <3> QED
      BY <3>1, <3>2
  <2>3. CASE ~ Filled(l)
    BY <2>1, <2>3 DEF ILayer, ICleared, IScalar, IRequest
  <2> QED
    BY <2>2, <2>3
<1>2. IInv => TypeOK
  BY <1>1 DEF IInv, IScalar, IType, Row, TypeOK
<1> QED
  BY <1>2, CacheInvariant, PTL

\* The reference region survives any number of decodes.
THEOREM ReferenceNeverOverwritten == Spec => []ReferenceIntact
<1>1. IInv => ReferenceIntact
  BY DEF IInv, ILayer, ReferenceIntact
<1> QED
  BY <1>1, CacheInvariant, PTL

\* write_prefill and append_decode stay inside the allocation.
THEOREM NoWriteOutOfBounds == Spec => []WritesInBounds
<1>1. ASSUME IInv, call = "decode" PROVE WriteRow(layer) \in prefillLen .. capacity - 1
  <2>1. IScalar /\ IType
    BY <1>1 DEF IInv
  <2>2. CASE WarmingUp(layer)
    BY <1>1, <2>1, <2>2, DecodeFacts DEF IScalar
  <2>3. CASE ~ WarmingUp(layer)
    BY <1>1, <2>1, <2>3, DecodeFacts DEF IScalar, IType, IRing
  <2> QED
    BY <2>2, <2>3
<1>2. ASSUME IInv, call = "prefill" PROVE pos <= capacity
  BY <1>2 DEF IInv, IRequest, IScalar
<1>3. IInv => WritesInBounds
  BY <1>1, <1>2 DEF WritesInBounds
<1> QED
  BY <1>3, CacheInvariant, PTL

\* The rows of a filled layer hold exactly the reference and the window.
LEMMA RowsHold ==
  ASSUME IInv, NEW l \in Layer, Filled(l)
  PROVE  /\ \A i \in 0 .. prefillLen - 1 : slot[l][i] = i
         /\ \A i \in prefillLen .. len[l] - 1 :
              /\ slot[l][i] \in prefillLen .. NextPos(l) - 1
              /\ slot[l][i] + window > NextPos(l) - 1
         /\ \A i, j \in prefillLen .. len[l] - 1 : slot[l][i] = slot[l][j] => i = j
         /\ \A q \in prefillLen .. NextPos(l) - 1 :
              q + window > NextPos(l) - 1 =>
                \E i \in prefillLen .. len[l] - 1 : slot[l][i] = q
         /\ len[l] \in Nat /\ prefillLen <= len[l]
<1>1. PICK n \in Nat : NextPos(l) = prefillLen + n /\ n = NextPos(l) - prefillLen
  BY FilledLayer
<1>2. prefillLen \in Nat /\ window \in Nat \ {0} /\ ILayer(l)
  BY FilledLayer
<1>3. \A i \in 0 .. prefillLen - 1 : slot[l][i] = i
  BY <1>2 DEF ILayer
<1>4. CASE n < window
  <2>1. IWarm(l, n)
    BY <1>1, <1>2, <1>4 DEF ILayer
  <2>2. len[l] = prefillLen + n
        /\ \A i \in 0 .. n - 1 : slot[l][prefillLen + i] = prefillLen + i
    BY <2>1 DEF IWarm
  <2>3. \A i \in prefillLen .. len[l] - 1 : slot[l][i] = i
    <3>1. TAKE i \in prefillLen .. len[l] - 1
    <3>2. i - prefillLen \in 0 .. n - 1 /\ prefillLen + (i - prefillLen) = i
      BY <1>2, <2>2
    <3> QED
      BY <2>2, <3>2
  <2> QED
    BY <1>1, <1>2, <1>3, <1>4, <2>2, <2>3
<1>5. CASE ~ (n < window)
  <2>1. IRing(l, n)
    BY <1>1, <1>2, <1>5 DEF ILayer
  <2>2. PICK rp \in 0 .. window - 1 : rp = ringPos[l]
    BY <1>2, <2>1 DEF IInv, IType, IRing
  <2>3. len[l] = prefillLen + window
        /\ \A i \in 0 .. window - 1 : slot[l][prefillLen + i] =
             IF i < rp THEN prefillLen + n - rp + i
                       ELSE prefillLen + n - rp + i - window
    BY <2>1, <2>2 DEF IRing
  <2>4. \A i \in prefillLen .. len[l] - 1 : slot[l][i] =
          IF i - prefillLen < rp THEN n - rp + i ELSE n - rp + i - window
    <3>1. TAKE i \in prefillLen .. len[l] - 1
    <3>2. i - prefillLen \in 0 .. window - 1 /\ prefillLen + (i - prefillLen) = i
      BY <1>2, <2>3
    <3> QED
      BY <1>2, <2>2, <2>3, <3>2
  <2>5. \A q \in prefillLen .. NextPos(l) - 1 :
          q + window > NextPos(l) - 1 =>
            \E i \in prefillLen .. len[l] - 1 : slot[l][i] = q
    <3>1. SUFFICES ASSUME NEW q \in prefillLen .. NextPos(l) - 1,
                          q + window > NextPos(l) - 1
                   PROVE  \E i \in prefillLen .. len[l] - 1 : slot[l][i] = q
      OBVIOUS
    <3>2. CASE q >= prefillLen + n - rp
      <4>1. q - n + rp \in prefillLen .. len[l] - 1 /\ slot[l][q - n + rp] = q
        BY <1>1, <1>2, <1>5, <2>2, <2>3, <2>4, <3>2
      <4> QED
        BY <4>1
    <3>3. CASE q < prefillLen + n - rp
      <4>1. q - n + rp + window \in prefillLen .. len[l] - 1
            /\ slot[l][q - n + rp + window] = q
        BY <1>1, <1>2, <1>5, <2>2, <2>3, <2>4, <3>1, <3>3
      <4> QED
        BY <4>1
    <3> QED
      BY <1>1, <1>2, <2>2, <3>2, <3>3
  <2>6. /\ \A i \in prefillLen .. len[l] - 1 :
              /\ slot[l][i] \in prefillLen .. NextPos(l) - 1
              /\ slot[l][i] + window > NextPos(l) - 1
        /\ \A i, j \in prefillLen .. len[l] - 1 : slot[l][i] = slot[l][j] => i = j
    BY <1>1, <1>2, <1>5, <2>2, <2>3, <2>4
  <2> QED
    BY <1>2, <1>3, <2>3, <2>5, <2>6
<1> QED
  BY <1>1, <1>2, <1>4, <1>5

\* Attention weights every token of the request's context exactly once.
THEOREM EveryRowCountsOnce == Spec => []VisibleRowsDistinct
<1>1. ASSUME IInv, NEW l \in Layer, Filled(l)
      PROVE  /\ \A i \in 0 .. len[l] - 1 : slot[l][i] \in 0 .. NextPos(l) - 1
             /\ \A i, j \in 0 .. len[l] - 1 : slot[l][i] = slot[l][j] => i = j
  <2>1. prefillLen \in Nat /\ NextPos(l) \in Nat /\ prefillLen <= NextPos(l)
        /\ len[l] \in Nat
    BY <1>1, FilledLayer, RowsHold
  <2> QED
    BY <1>1, <2>1, RowsHold
<1>2. IInv => VisibleRowsDistinct
  BY <1>1 DEF VisibleRowsDistinct
<1> QED
  BY <1>2, CacheInvariant, PTL

-----------------------------------------------------------------------------
\* The set a filled layer attends to is the one SlidingWindow promises.
LEMMA AttendedWindow ==
  ASSUME IInv, NEW l \in Layer, Filled(l)
  PROVE  Attended(l) = (0 .. prefillLen - 1)
                        \cup {q \in prefillLen .. NextPos(l) - 1 :
                                q + window > NextPos(l) - 1}
<1>1. prefillLen \in Nat /\ NextPos(l) \in Nat /\ prefillLen <= NextPos(l)
      /\ len[l] \in Nat /\ prefillLen <= len[l]
  BY FilledLayer, RowsHold
<1>2. \A i \in 0 .. len[l] - 1 : i \in 0 .. prefillLen - 1
                                 \/ i \in prefillLen .. len[l] - 1
  BY <1>1
<1>5. ASSUME NEW i \in 0 .. len[l] - 1
      PROVE  slot[l][i] \in (0 .. prefillLen - 1)
                             \cup {q \in prefillLen .. NextPos(l) - 1 :
                                     q + window > NextPos(l) - 1}
  BY <1>1, <1>2, RowsHold
<1>6. ASSUME NEW q \in 0 .. prefillLen - 1
      PROVE  \E i \in 0 .. len[l] - 1 : slot[l][i] = q
  BY <1>1, RowsHold
<1>7. ASSUME NEW q \in prefillLen .. NextPos(l) - 1, q + window > NextPos(l) - 1
      PROVE  \E i \in 0 .. len[l] - 1 : slot[l][i] = q
  <2>1. PICK i \in prefillLen .. len[l] - 1 : slot[l][i] = q
    BY <1>7, RowsHold
  <2> QED
    BY <1>1, <2>1
<1> QED
  BY <1>5, <1>6, <1>7 DEF Attended

\* The same, of every filled layer: what IInv gives in the next state too.
IAttended ==
  \A l \in Layer : Filled(l) =>
    Attended(l) = (0 .. prefillLen - 1)
                   \cup {q \in prefillLen .. NextPos(l) - 1 :
                           q + window > NextPos(l) - 1}

LEMMA AttendedInv == IInv => IAttended
  BY AttendedWindow DEF IAttended

\* The values SlidingWindow's variables take.
SWNext == [l \in Layer |-> NextPos(l)]
SWContext == [l \in Layer |-> IF Filled(l) THEN Attended(l) ELSE {}]

LEMMA InitRefines == Init => SW!Init
  BY DEF Init, SW!Init, Filled, NextPos

LEMMA StartPrefillRefines ==
  ASSUME IInv, NEW p \in 1 .. MaxPrefill, StartPrefill(p)
  PROVE  SW!NewRequest
<1>1. prefillLen' = p /\ window' = window
  BY DEF StartPrefill, Reset, GpuReset, Cleared
<1>2. p \in Nat \ {0}
  OBVIOUS
<1>3. \A l \in Layer : ~ Filled(l)' /\ NextPos(l)' = 0
  BY DEF StartPrefill, Filled, NextPos
<1> QED
  BY <1>1, <1>2, <1>3 DEF SW!NewRequest

LEMMA StartDecodeStutters ==
  ASSUME IInv, StartDecode
  PROVE  UNCHANGED SW!vars
<1>1. ASSUME NEW l \in Layer
      PROVE  (Filled(l)' <=> Filled(l)) /\ NextPos(l)' = NextPos(l)
             /\ Attended(l)' = Attended(l)
  BY DEF StartDecode, cacheVars, IInv, IScalar, Filled, NextPos, Attended
<1>2. SWNext' = SWNext /\ SWContext' = SWContext
  BY <1>1 DEF SWNext, SWContext
<1>3. window' = window /\ prefillLen' = prefillLen
  BY DEF StartDecode, cacheVars
<1> QED
  BY <1>2, <1>3 DEF SW!vars, SWNext, SWContext

LEMMA WritePrefillRefines ==
  ASSUME IInv, IAttended', WritePrefill
  PROVE  SW!Prefill(layer)
<1>1. IScalar /\ IRequest /\ call = "prefill" /\ NextLayer /\ pos > 0
      /\ prefillLen = pos /\ prefillLen' = pos /\ window' = window
      /\ layer \in Layer /\ pos \in Nat
  BY DEF IInv, IRequest, IScalar, WritePrefill
<1>2. ~ Filled(layer) /\ NextPos(layer) = 0
  BY <1>1, NextLayerPrefill DEF NextPos
<1>3. ASSUME NEW l \in Layer
      PROVE  /\ NextPos(l)' = IF l = layer THEN pos ELSE NextPos(l)
             /\ Filled(l)' <=> (Filled(l) \/ l = layer)
  <2>1. CASE Filled(l) \/ l = layer
    BY <1>1, <2>1, NextLayerPrefill
  <2>2. CASE ~ (Filled(l) \/ l = layer)
    <3>1. ~ Filled(l)' /\ ~ Filled(l) /\ l # layer
      BY <1>1, <2>2, NextLayerPrefill
    <3>2. NextPos(l)' = 0 /\ NextPos(l) = 0
      BY <3>1 DEF NextPos
    <3> QED
      BY <3>1, <3>2
  <2> QED
    BY <2>1, <2>2
<1>4. ASSUME NEW l \in Layer, l = layer
      PROVE  Attended(l)' = 0 .. pos - 1
  <2>1. Filled(l)' /\ NextPos(l)' = pos
    BY <1>1, <1>3, <1>4
  <2>2. Attended(l)' = (0 .. pos - 1)
                        \cup {q \in pos .. pos - 1 : q + window' > pos - 1}
    BY <1>1, <2>1 DEF IAttended
  <2>3. pos .. pos - 1 = {}
    BY <1>1
  <2> QED
    BY <2>2, <2>3
<1>5. ASSUME NEW l \in Layer, l # layer
      PROVE  Attended(l)' = Attended(l)
  BY <1>1, <1>5 DEF WritePrefill, IInv, IType, Attended
<1>6. SWNext' = [SWNext EXCEPT ![layer] = prefillLen] /\ SWNext[layer] = 0
  BY <1>1, <1>2, <1>3 DEF SWNext
<1>7. SWContext' = [SWContext EXCEPT ![layer] = 0 .. prefillLen - 1]
  BY <1>1, <1>3, <1>4, <1>5 DEF SWContext
<1> QED
  BY <1>1, <1>6, <1>7 DEF SW!Prefill, SWNext, SWContext

\* Both ways of appending a row are one step of the window.
LEMMA AppendRefines ==
  ASSUME IInv, IAttended', AppendWarmup \/ AppendRing
  PROVE  SW!Decode(layer)
<1>1. IScalar /\ IRequest /\ call = "decode" /\ NextLayer /\ pos > 0
      /\ prefillLen' = prefillLen /\ window' = window /\ layer \in Layer
      /\ pos \in Nat /\ prefillLen \in Nat /\ prefillLen <= pos
  BY DEF IInv, IRequest, IScalar, AppendWarmup, AppendRing
<1>2. ASSUME NEW l \in Layer
      PROVE  /\ Filled(l) /\ Filled(l)'
             /\ NextPos(layer) = pos
             /\ NextPos(l)' = IF l = layer THEN pos + 1 ELSE NextPos(l)
  BY <1>1, NextLayerDecode
<1>3. ASSUME NEW l \in Layer, l = layer
      PROVE  Attended(l)' = (0 .. prefillLen - 1) \cup SW!WindowAt(pos)
  <2>1. Filled(l)' /\ NextPos(l)' = pos + 1
    BY <1>2, <1>3
  <2>2. Attended(l)' = (0 .. prefillLen - 1)
                        \cup {q \in prefillLen .. (pos + 1) - 1 :
                                q + window > (pos + 1) - 1}
    BY <1>1, <2>1 DEF IAttended
  <2>3. (pos + 1) - 1 = pos
    BY <1>1
  <2> QED
    BY <2>2, <2>3 DEF SW!WindowAt
<1>4. ASSUME NEW l \in Layer, l # layer
      PROVE  Attended(l)' = Attended(l)
  <2>1. slot'[l] = slot[l] /\ len'[l] = len[l]
    <3>1. slot \in [Layer -> [0 .. capacity - 1 -> Row]] /\ len \in [Layer -> Nat]
      BY DEF IInv, IType
    <3>2. PICK f \in [0 .. capacity - 1 -> Row] :
            slot' = [slot EXCEPT ![layer] = [f EXCEPT ![WriteRow(layer)] = pos]]
      BY <1>1, <3>1 DEF AppendWarmup, AppendRing
    <3>3. slot'[l] = slot[l]
      BY <1>4, <3>1, <3>2
    <3>4. len' = len \/ len' = [len EXCEPT ![layer] = len[layer] + 1]
      BY DEF AppendWarmup, AppendRing
    <3> QED
      BY <1>4, <3>1, <3>3, <3>4
  <2> QED
    BY <2>1 DEF Attended
<1>5. SWNext' = [SWNext EXCEPT ![layer] = SWNext[layer] + 1]
      /\ SWNext[layer] = pos
  BY <1>1, <1>2 DEF SWNext
<1>6. SWContext' = [SWContext EXCEPT ![layer] =
                      (0 .. prefillLen - 1) \cup SW!WindowAt(pos)]
  BY <1>1, <1>2, <1>3, <1>4 DEF SWContext
<1> QED
  BY <1>1, <1>5, <1>6 DEF SW!Decode, SW!WindowAt, SWNext, SWContext

\* The cache is a sliding window: for every window, prompt length and number
\* of layers, on the host and on the device.
THEOREM CacheIsSlidingWindow == Spec => ImplementsSlidingWindow
<1>1. IInv /\ IAttended' /\ [Next]_vars => [SW!Next]_(SW!vars)
  <2> SUFFICES ASSUME IInv, IAttended', [Next]_vars
               PROVE  [SW!Next]_(SW!vars)
    OBVIOUS
  <2>1. ASSUME NEW p \in 1 .. MaxPrefill, StartPrefill(p) PROVE SW!Next
    BY <2>1, StartPrefillRefines DEF SW!Next
  <2>2. CASE StartDecode
    BY <2>2, StartDecodeStutters
  <2>3. CASE WritePrefill
    BY <2>3, WritePrefillRefines DEF SW!Next, IInv, IScalar
  <2>4. CASE AppendWarmup \/ AppendRing
    BY <2>4, AppendRefines DEF SW!Next, IInv, IScalar
  <2>5. CASE UNCHANGED vars
    BY <2>5 DEF vars, SW!vars, Filled, NextPos, Attended
  <2> QED
    BY <2>1, <2>2, <2>3, <2>4, <2>5 DEF Next
<1> QED
  BY <1>1, InitRefines, AttendedInv, CacheInvariant, PTL DEF Spec, ImplementsSlidingWindow, SW!Spec
=============================================================================
