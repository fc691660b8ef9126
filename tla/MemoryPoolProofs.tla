-------------------------- MODULE MemoryPoolProofs --------------------------
(***************************************************************************)
(* Proofs about MemoryPool: for every size of the arena, every size and    *)
(* alignment asked for and every order of calls, its free list and the     *)
(* blocks held partition the arena, no two free blocks touch, and used_ is *)
(* never less than what is held.                                           *)
(*                                                                         *)
(* The argument is about intervals.  Partition speaks of bytes; the        *)
(* invariant speaks of where blocks start and end, which is what allocate  *)
(* and free compute.  The last is about a sum over the blocks held: that a *)
(* sum has one more term when its set has one more element is proved here  *)
(* from the definition of SumFunctionOnSet, by induction over the subsets  *)
(* of a finite set.                                                        *)
(***************************************************************************)
EXTENDS MemoryPool, FiniteSetTheorems, TLAPS

Ends(b) == b.offset + b.size
Apart(b, c) == Ends(b) <= c.offset \/ Ends(c) <= b.offset
Covers(b, x) == b.offset <= x /\ x < Ends(b)

\* Blocks have bytes, but for the one free block of an arena of none.
Sized ==
  /\ \A h \in live : h.size > 0
  /\ \A b \in freeList : b.size > 0 \/ total = 0

InArena == \A b \in freeList \cup live : Ends(b) <= total

Disjoint ==
  /\ \A b, c \in freeList : b # c => Apart(b, c)
  /\ \A g, h \in live : g # h => Apart(g, h)
  /\ \A b \in freeList, h \in live : Apart(b, h)

Covered == \A x \in Nat : x < total => \E b \in freeList \cup live : Covers(b, x)

\* The inductive invariant.
PoolInv == TypeOK /\ Sized /\ InArena /\ Disjoint /\ Covered /\ FullyCoalesced

-----------------------------------------------------------------------------
LEMMA ModRange ==
  ASSUME NEW a \in Int, NEW d \in Nat \ {0}
  PROVE  (a % d) \in Nat /\ a % d < d
OBVIOUS

LEMMA EffectivePositive ==
  ASSUME PoolAssumption, NEW alignment \in Alignments
  PROVE  Effective(alignment) \in Nat \ {0}
BY DEF Effective, PoolAssumption

\* allocate pads by no more than it needs to reach an aligned offset.
LEMMA PadIsNatural ==
  ASSUME NEW start \in Nat, NEW align \in Nat \ {0}
  PROVE  Pad(start, align) \in Nat
<1>1. (start % align) \in Nat
  BY ModRange
<1>2. align - (start % align) \in Int
  BY <1>1
<1> QED
  BY <1>2, ModRange DEF Pad

-----------------------------------------------------------------------------
LEMMA PoolInitially ==
  ASSUME PoolAssumption, Init
  PROVE  PoolInv
<1>1. total \in Nat
  BY DEF Init, PoolAssumption
<1>2. CASE total > 0
  <2>1. freeList = {[offset |-> 0, size |-> total]} /\ live = {}
    BY <1>2 DEF Init
  <2>2. TypeOK
    BY <1>1, <2>1 DEF Init, TypeOK, Block, Held
  <2>3. Sized /\ InArena /\ Disjoint
    BY <1>1, <1>2, <2>1 DEF Sized, InArena, Disjoint, Ends, Apart
  <2>4. Covered
    BY <1>1, <2>1 DEF Covered, Covers, Ends
  <2>5. FullyCoalesced
    BY <1>1, <1>2, <2>1 DEF FullyCoalesced
  <2> QED
    BY <2>2, <2>3, <2>4, <2>5 DEF PoolInv
<1>3. CASE total = 0
  <2>1. freeList = {} /\ live = {}
    BY <1>3 DEF Init
  <2> QED
    BY <1>1, <1>3, <2>1 DEF Init, PoolInv, TypeOK, Block, Held, Sized, InArena, Disjoint,
       Covered, Covers, FullyCoalesced, Ends, Apart
<1> QED
  BY <1>1, <1>2, <1>3

LEMMA EmptyKeepsInv ==
  ASSUME NEW n \in Nat, Empty(n)
  PROVE  PoolInv'
<1>1. freeList' = {[offset |-> 0, size |-> n]} /\ live' = {} /\ total' = n
  BY DEF Empty
<1>2. used' = 0 /\ peak' = 0
  BY DEF Empty
<1> QED
  BY <1>1, <1>2 DEF PoolInv, TypeOK, Block, Held, Sized, InArena, Disjoint,
     Covered, Covers, FullyCoalesced, Ends, Apart

-----------------------------------------------------------------------------
\* allocate takes the block b and leaves what is before and after the new one.
LEMMA AllocateKeepsInv ==
  ASSUME PoolAssumption, PoolInv, NEW bytes \in Sizes, NEW alignment \in Alignments,
         Allocate(bytes, alignment)
  PROVE  PoolInv'
<1> DEFINE align == Effective(alignment)
<1>1. PICK b \in FirstFit(bytes, align) :
        LET pad == Pad(b.offset, align)
        IN  /\ used + Charge(pad, bytes) <= MaxUsed
            /\ freeList' = (freeList \ {b}) \cup Remainders(b, pad, bytes)
            /\ used' = used + Charge(pad, bytes)
            /\ peak' = PeakAfter(used')
            /\ live' = live \cup {[offset |-> b.offset + pad, size |-> bytes, pad |-> pad]}
            /\ total' = total
  BY DEF Allocate
<1> DEFINE pad == Pad(b.offset, align)
           h == [offset |-> b.offset + pad, size |-> bytes, pad |-> pad]
           l == [offset |-> b.offset, size |-> pad]
           r == [offset |-> b.offset + pad + bytes, size |-> b.size - pad - bytes]
<1>2. b \in freeList /\ b.offset \in Nat /\ b.size \in Nat /\ b.size >= pad + bytes
  BY DEF FirstFit, Fits, PoolInv, TypeOK, Block
<1>3. pad \in Nat /\ bytes \in Nat /\ bytes > 0
  <2>1. align \in Nat \ {0}
    BY EffectivePositive
  <2>2. pad \in Nat
    BY <2>1, <1>2, PadIsNatural
  <2> QED
    BY <2>2 DEF PoolAssumption
<1>4. freeList' = (freeList \ {b}) \cup {c \in {l, r} : c.size > 0}
  BY <1>1 DEF Remainders, NonEmpty
<1>5. live' = live \cup {h} /\ total' = total
  BY <1>1
<1>6. l \in Block /\ r \in Block /\ h \in Held
  BY <1>2, <1>3 DEF Block, Held
<1>7. Ends(b) <= total /\ Ends(b) = b.offset + b.size /\ total \in Nat
  BY <1>2 DEF PoolInv, InArena, Ends, TypeOK
<1>8. total > 0 /\ \A c \in freeList : c.size > 0
  BY <1>2, <1>3, <1>7 DEF PoolInv, Sized, TypeOK
\* The pieces lie in b, in this order.
<1>9. /\ l.offset = b.offset /\ Ends(l) = h.offset
      /\ h.offset = b.offset + pad /\ Ends(h) = r.offset /\ h.size = bytes
      /\ r.offset = b.offset + pad + bytes /\ Ends(r) = Ends(b)
  BY <1>2, <1>3 DEF Ends
<1>10. /\ \A c \in freeList : c \in Block
       /\ \A g \in live : g \in Held
  BY DEF PoolInv, TypeOK
<1>11. /\ \A c \in freeList \ {b} : Apart(b, c)
       /\ \A g \in live : Apart(b, g)
  BY <1>2 DEF PoolInv, Disjoint
\* What is apart from b is apart from the pieces.
<1>12. ASSUME NEW c, c.offset \in Nat, c.size \in Nat, Apart(b, c)
       PROVE  Apart(l, c) /\ Apart(h, c) /\ Apart(r, c) /\ Apart(c, h)
  BY <1>2, <1>3, <1>9, <1>12 DEF Apart, Ends
<1> HIDE DEF pad, h, l, r, align
<1>13. TypeOK'
  <2>1. Charge(pad, bytes) \in Nat
    BY <1>3 DEF Charge
  <2>2. used' \in Nat /\ used' = used + Charge(pad, bytes)
    BY <1>1, <2>1 DEF PoolInv, TypeOK, pad
  <2>3. peak' \in Nat /\ used' <= peak'
    BY <1>1, <2>2 DEF PoolInv, TypeOK, PeakAfter
  <2>4. freeList' \subseteq Block /\ live' \subseteq Held
    BY <1>4, <1>5, <1>6, <1>10
  <2> QED
    BY <1>5, <1>7, <2>2, <2>3, <2>4 DEF TypeOK
<1>14. Sized'
  <2>1. \A g \in live' : g.size > 0
    BY <1>3, <1>5, <1>9 DEF PoolInv, Sized
  <2>2. \A c \in freeList' : c.size > 0
    BY <1>4, <1>8
  <2> QED
    BY <2>1, <2>2 DEF Sized
<1>15. InArena'
  <2>1. Ends(h) <= total /\ Ends(l) <= total /\ Ends(r) <= total
    BY <1>2, <1>3, <1>7, <1>9
  <2> QED
    BY <1>4, <1>5, <2>1 DEF PoolInv, InArena, Ends
<1>16. Disjoint'
  <2>1. ASSUME NEW c \in freeList', NEW d \in freeList', c # d
        PROVE  Apart(c, d)
    <3>1. CASE c \in freeList \ {b} /\ d \in freeList \ {b}
      BY <3>1, <2>1 DEF PoolInv, Disjoint
    <3>2. CASE c \in freeList \ {b} /\ d \in {l, r}
      <4>1. Apart(l, c) /\ Apart(r, c)
        BY <3>2, <1>10, <1>11, <1>12 DEF Block
      <4> QED
        BY <4>1, <3>2 DEF Apart
    <3>3. CASE c \in {l, r} /\ d \in freeList \ {b}
      BY <3>3, <1>10, <1>11, <1>12 DEF Block
    <3>4. CASE c \in {l, r} /\ d \in {l, r}
      <4>1. Ends(l) <= r.offset
        BY <1>2, <1>3, <1>9
      <4> QED
        BY <4>1, <3>4, <2>1 DEF Apart
    <3> QED
      BY <3>1, <3>2, <3>3, <3>4, <1>4
  <2>2. ASSUME NEW g \in live', NEW k \in live', g # k
        PROVE  Apart(g, k)
    <3>1. CASE g \in live /\ k \in live
      BY <3>1, <2>2 DEF PoolInv, Disjoint
    <3>2. CASE g = h /\ k \in live
      BY <3>2, <1>10, <1>11, <1>12 DEF Held
    <3>3. CASE g \in live /\ k = h
      BY <3>3, <1>10, <1>11, <1>12 DEF Held
    <3> QED
      BY <3>1, <3>2, <3>3, <2>2, <1>5
  <2>3. ASSUME NEW c \in freeList', NEW k \in live'
        PROVE  Apart(c, k)
    <3>1. CASE c \in freeList \ {b} /\ k \in live
      BY <3>1 DEF PoolInv, Disjoint
    <3>2. CASE c \in freeList \ {b} /\ k = h
      BY <3>2, <1>10, <1>11, <1>12 DEF Block
    <3>3. CASE c \in {l, r} /\ k \in live
      BY <3>3, <1>10, <1>11, <1>12 DEF Held
    <3>4. CASE c \in {l, r} /\ k = h
      BY <3>4, <1>2, <1>3, <1>9 DEF Apart
    <3> QED
      BY <3>1, <3>2, <3>3, <3>4, <1>4, <1>5
  <2> QED
    BY <2>1, <2>2, <2>3 DEF Disjoint, Apart, Ends
<1>17. Covered'
  <2> SUFFICES ASSUME NEW x \in Nat, x < total
               PROVE  \E c \in freeList' \cup live' : Covers(c, x)
    BY <1>5 DEF Covered, Covers, Ends
  <2>1. PICK c \in freeList \cup live : Covers(c, x)
    BY DEF PoolInv, Covered
  <2>2. CASE c # b
    BY <2>1, <2>2, <1>4, <1>5
  <2>3. CASE c = b
    <3>1. b.offset <= x /\ x < Ends(b)
      BY <2>1, <2>3 DEF Covers
    <3>2. CASE x < h.offset
      <4>1. Covers(l, x) /\ l.size > 0
        BY <3>1, <3>2, <1>2, <1>3, <1>6, <1>9 DEF Covers, Ends, Block
      <4> QED
        BY <4>1, <1>4
    <3>3. CASE h.offset <= x /\ x < r.offset
      <4>1. Covers(h, x)
        BY <3>3, <1>9 DEF Covers
      <4> QED
        BY <4>1, <1>5
    <3>4. CASE r.offset <= x
      <4>1. Covers(r, x) /\ r.size > 0
        BY <3>1, <3>4, <1>2, <1>3, <1>6, <1>9 DEF Covers, Ends, Block
      <4> QED
        BY <4>1, <1>4
    <3> QED
      BY <3>2, <3>3, <3>4, <1>2, <1>3, <1>9
  <2> QED
    BY <2>2, <2>3
<1>18. FullyCoalesced'
  <2> SUFFICES ASSUME NEW c \in freeList', NEW d \in freeList'
               PROVE  Ends(c) # d.offset
    BY DEF FullyCoalesced, Ends
  <2>1. /\ c.offset \in Nat /\ c.size \in Nat /\ c.size > 0
        /\ d.offset \in Nat /\ d.size \in Nat /\ d.size > 0
    BY <1>4, <1>6, <1>8, <1>10 DEF Block
  <2>2. \A e, f \in freeList : Ends(e) # f.offset
    BY <1>8 DEF PoolInv, FullyCoalesced, Ends
  <2>3. CASE c \in freeList \ {b} /\ d \in freeList \ {b}
    BY <2>2, <2>3
  <2>4. CASE c \in freeList \ {b} /\ d \in {l, r}
    <3>1. Ends(c) # b.offset /\ Apart(b, c)
      BY <2>2, <2>4, <1>2, <1>11
    <3> QED
      BY <3>1, <2>1, <2>4, <1>2, <1>3, <1>7, <1>9 DEF Apart, Ends
  <2>5. CASE c \in {l, r} /\ d \in freeList \ {b}
    <3>1. Ends(b) # d.offset /\ Apart(b, d)
      BY <2>2, <2>5, <1>2, <1>11
    <3> QED
      BY <3>1, <2>1, <2>5, <1>2, <1>3, <1>7, <1>9 DEF Apart, Ends
  <2>6. CASE c \in {l, r} /\ d \in {l, r}
    BY <2>1, <2>6, <1>2, <1>3, <1>7, <1>9 DEF Ends
  <2> QED
    BY <2>3, <2>4, <2>5, <2>6, <1>4
<1> QED
  BY <1>13, <1>14, <1>15, <1>16, <1>17, <1>18 DEF PoolInv

-----------------------------------------------------------------------------
\* At most one free block ends where h starts.
LEMMA BeforeCases ==
  ASSUME PoolInv, NEW h \in live
  PROVE  \/ Before(h) = {} /\ Start(h) = h.offset
         \/ \E p \in freeList : /\ Before(h) = {p} /\ Ends(p) = h.offset
                                /\ Start(h) = p.offset
<1>1. CASE Before(h) = {}
  BY <1>1 DEF Start
<1>2. CASE Before(h) # {}
  <2>1. PICK p \in freeList : p \in Before(h) /\ Ends(p) = h.offset
    BY <1>2 DEF Before, Ends
  <2>2. ASSUME NEW c \in Before(h)
        PROVE  c = p
    <3>1. c \in freeList /\ Ends(c) = h.offset
      BY DEF Before, Ends
    <3>2. /\ c \in Block /\ p \in Block /\ h \in Held
          /\ h.size > 0 /\ Ends(h) <= total /\ total \in Nat
      BY <2>1, <3>1 DEF PoolInv, TypeOK, Sized, InArena
    <3>3. c.size > 0 /\ p.size > 0
      BY <2>1, <3>1, <3>2 DEF PoolInv, Sized, Ends, Held
    <3>4. ~ Apart(c, p)
      BY <2>1, <3>1, <3>2, <3>3 DEF Apart, Ends, Block
    <3> QED
      BY <2>1, <3>1, <3>4 DEF PoolInv, Disjoint
  <2>3. Before(h) = {p}
    BY <2>1, <2>2
  <2>4. (CHOOSE c \in Before(h) : TRUE) = p
    BY <2>3
  <2>5. Start(h) = p.offset
    BY <1>2, <2>4 DEF Start
  <2> QED
    BY <2>1, <2>3, <2>5
<1> QED
  BY <1>1, <1>2

\* At most one free block starts where h ends.
LEMMA AfterCases ==
  ASSUME PoolInv, NEW h \in live
  PROVE  \/ After(h) = {} /\ End(h) = Ends(h)
         \/ \E n \in freeList : /\ After(h) = {n} /\ n.offset = Ends(h)
                                /\ End(h) = Ends(n)
<1>1. CASE After(h) = {}
  BY <1>1 DEF End, Ends
<1>2. CASE After(h) # {}
  <2>1. PICK n \in freeList : n \in After(h) /\ n.offset = Ends(h)
    BY <1>2 DEF After, Ends
  <2>2. ASSUME NEW c \in After(h)
        PROVE  c = n
    <3>1. c \in freeList /\ c.offset = Ends(h)
      BY DEF After, Ends
    <3>2. /\ c \in Block /\ n \in Block /\ h \in Held
          /\ h.size > 0 /\ Ends(h) <= total /\ total \in Nat
      BY <2>1, <3>1 DEF PoolInv, TypeOK, Sized, InArena
    <3>3. c.size > 0 /\ n.size > 0
      BY <2>1, <3>1, <3>2 DEF PoolInv, Sized, Ends, Held
    <3>4. ~ Apart(c, n)
      BY <2>1, <3>1, <3>2, <3>3 DEF Apart, Ends, Block
    <3> QED
      BY <2>1, <3>1, <3>4 DEF PoolInv, Disjoint
  <2>3. After(h) = {n}
    BY <2>1, <2>2
  <2>4. (CHOOSE c \in After(h) : TRUE) = n
    BY <2>3
  <2>5. End(h) = Ends(n)
    BY <1>2, <2>4 DEF End, Ends
  <2> QED
    BY <2>1, <2>3, <2>5
<1> QED
  BY <1>1, <1>2

-----------------------------------------------------------------------------
\* free puts one block in the place of h and of the free blocks that touch it.
LEMMA FreeKeepsInv ==
  ASSUME PoolInv, NEW h \in live, Free(h)
  PROVE  PoolInv'
<1> DEFINE s == Start(h)
           e == End(h)
           m == [offset |-> s, size |-> e - s]
           kept == freeList \ (Before(h) \cup After(h))
<1>1. /\ freeList' = kept \cup {m}
      /\ live' = live \ {h} /\ total' = total /\ peak' = peak
      /\ used' = IF used >= h.size THEN used - h.size ELSE used
  BY DEF Free, Coalesced
<1>2. /\ h.offset \in Nat /\ h.size \in Nat /\ h.size > 0
      /\ Ends(h) = h.offset + h.size /\ Ends(h) <= total /\ total \in Nat
  BY DEF PoolInv, TypeOK, Held, Sized, InArena, Ends
<1>3. \A c \in freeList : /\ c \in Block /\ c.offset \in Nat /\ c.size \in Nat /\ c.size > 0
                          /\ Ends(c) = c.offset + c.size /\ Ends(c) <= total
  BY <1>2 DEF PoolInv, TypeOK, Block, Sized, InArena, Ends
<1>4. \A g \in live : /\ g \in Held /\ g.offset \in Nat /\ g.size \in Nat /\ g.size > 0
                      /\ Ends(g) = g.offset + g.size /\ Ends(g) <= total
  BY <1>2 DEF PoolInv, TypeOK, Held, Sized, InArena, Ends
<1>5. s \in Nat /\ s <= h.offset /\ e \in Nat /\ Ends(h) <= e /\ e <= total
  <2>1. s \in Nat /\ s <= h.offset
    BY BeforeCases, <1>2, <1>3
  <2>2. e \in Nat /\ Ends(h) <= e /\ e <= total
    BY AfterCases, <1>2, <1>3
  <2> QED
    BY <2>1, <2>2
<1>6. /\ m \in Block /\ m.offset = s /\ m.size = e - s /\ Ends(m) = e
      /\ m.size > 0
  BY <1>2, <1>5 DEF Block, Ends
\* What is apart from h and from its neighbours is apart from m.
<1>7. ASSUME NEW c, c.offset \in Nat, c.size \in Nat, c.size > 0, Apart(h, c),
             \A b \in Before(h) \cup After(h) : Apart(b, c)
      PROVE  Apart(m, c) /\ Apart(c, m)
  <2>1. Ends(c) = c.offset + c.size
    BY DEF Ends
  <2>2. s = h.offset \/ Ends(c) <= s \/ h.offset <= c.offset
    BY BeforeCases, <1>7 DEF Apart
  <2>3. e = Ends(h) \/ Ends(c) <= Ends(h) \/ e <= c.offset
    BY AfterCases, <1>7 DEF Apart
  <2>4. Ends(h) <= c.offset \/ Ends(c) <= h.offset
    BY <1>7 DEF Apart
  <2>5. e <= c.offset \/ Ends(c) <= s
    BY <1>2, <1>5, <1>7, <2>1, <2>2, <2>3, <2>4
  <2> QED
    BY <2>5, <1>6 DEF Apart
<1>8. \A c \in kept : c \in freeList /\ Apart(m, c) /\ Apart(c, m)
  <2> SUFFICES ASSUME NEW c \in kept
               PROVE  c \in freeList /\ Apart(m, c) /\ Apart(c, m)
    OBVIOUS
  <2>1. c \in freeList /\ Before(h) \subseteq freeList /\ After(h) \subseteq freeList
    BY DEF Before, After
  <2>2. Apart(h, c)
    BY <2>1 DEF PoolInv, Disjoint, Apart
  <2>3. \A b \in Before(h) \cup After(h) : Apart(b, c)
    BY <2>1 DEF PoolInv, Disjoint
  <2> HIDE DEF kept, m
  <2> QED
    BY <2>1, <2>2, <2>3, <1>3, <1>7
<1>9. \A g \in live \ {h} : Apart(m, g) /\ Apart(g, m)
  <2> SUFFICES ASSUME NEW g \in live \ {h}
               PROVE  Apart(m, g) /\ Apart(g, m)
    OBVIOUS
  <2>1. Before(h) \subseteq freeList /\ After(h) \subseteq freeList
    BY DEF Before, After
  <2>2. Apart(h, g)
    BY DEF PoolInv, Disjoint
  <2>3. \A b \in Before(h) \cup After(h) : Apart(b, g)
    BY <2>1 DEF PoolInv, Disjoint
  <2> HIDE DEF m
  <2> QED
    BY <2>2, <2>3, <1>4, <1>7
<1>10. kept \subseteq freeList
  OBVIOUS
\* No free block that is kept touches m.
<1>11. ASSUME NEW c \in kept
       PROVE  Ends(c) # s /\ e # c.offset
  <2>0. \A a, b \in freeList : Ends(a) # b.offset
    BY <1>3 DEF PoolInv, FullyCoalesced, Ends
  <2>1. Ends(c) # h.offset /\ Ends(h) # c.offset
    BY DEF Before, After, Ends
  <2>2. Ends(c) # s
    BY <2>0, <2>1, BeforeCases
  <2>3. e # c.offset
    BY <2>0, <2>1, AfterCases
  <2> QED
    BY <2>2, <2>3
<1>12. ASSUME NEW x \in Nat, NEW c \in Before(h) \cup After(h) \cup {h}, Covers(c, x)
       PROVE  Covers(m, x)
  <2>1. CASE c = h
    BY <2>1, <1>2, <1>5, <1>6, <1>12 DEF Covers
  <2>2. CASE c \in Before(h)
    <3>1. c.offset = s /\ Ends(c) = h.offset
      BY <2>2, BeforeCases
    <3> QED
      BY <3>1, <1>2, <1>5, <1>6, <1>12 DEF Covers
  <2>3. CASE c \in After(h)
    <3>1. c.offset = Ends(h) /\ Ends(c) = e
      BY <2>3, AfterCases
    <3> QED
      BY <3>1, <1>2, <1>5, <1>6, <1>12 DEF Covers
  <2> QED
    BY <2>1, <2>2, <2>3
<1>13. kept \cup Before(h) \cup After(h) = freeList
  BY DEF Before, After
<1> HIDE DEF s, e, m, kept
<1>14. TypeOK'
  <2>1. used' \in Nat /\ peak' \in Nat /\ used' <= peak'
    BY <1>1, <1>2 DEF PoolInv, TypeOK
  <2> QED
    BY <2>1, <1>1, <1>2, <1>3, <1>4, <1>6, <1>10 DEF TypeOK
<1>15. Sized'
  BY <1>1, <1>3, <1>4, <1>6, <1>10 DEF Sized
<1>16. InArena'
  BY <1>1, <1>3, <1>4, <1>5, <1>6, <1>10 DEF InArena, Ends
<1>17. Disjoint'
  <2>1. ASSUME NEW c \in freeList', NEW d \in freeList', c # d
        PROVE  Apart(c, d)
    BY <2>1, <1>1, <1>8 DEF PoolInv, Disjoint
  <2>2. ASSUME NEW g \in live', NEW k \in live', g # k
        PROVE  Apart(g, k)
    BY <2>2, <1>1 DEF PoolInv, Disjoint
  <2>3. ASSUME NEW c \in freeList', NEW k \in live'
        PROVE  Apart(c, k)
    BY <1>1, <1>8, <1>9 DEF PoolInv, Disjoint
  <2> QED
    BY <2>1, <2>2, <2>3 DEF Disjoint, Apart, Ends
<1>18. Covered'
  <2> SUFFICES ASSUME NEW x \in Nat, x < total
               PROVE  \E c \in freeList' \cup live' : Covers(c, x)
    BY <1>1 DEF Covered, Covers, Ends
  <2>1. PICK c \in freeList \cup live : Covers(c, x)
    BY DEF PoolInv, Covered
  <2>2. CASE c \in Before(h) \cup After(h) \cup {h}
    BY <2>1, <2>2, <1>1, <1>12
  <2>3. CASE c \notin Before(h) \cup After(h) \cup {h}
    BY <2>1, <2>3, <1>1, <1>13
  <2> QED
    BY <2>2, <2>3
<1>19. FullyCoalesced'
  <2> SUFFICES ASSUME NEW c \in freeList', NEW d \in freeList'
               PROVE  Ends(c) # d.offset
    BY DEF FullyCoalesced, Ends
  <2>1. CASE c \in kept /\ d \in kept
    BY <2>1, <1>3, <1>10 DEF PoolInv, FullyCoalesced, Ends
  <2>2. CASE c \in kept /\ d = m
    BY <2>2, <1>6, <1>11
  <2>3. CASE c = m /\ d \in kept
    BY <2>3, <1>6, <1>11
  <2>4. CASE c = m /\ d = m
    BY <2>4, <1>2, <1>5, <1>6
  <2> QED
    BY <2>1, <2>2, <2>3, <2>4, <1>1
<1> QED
  BY <1>14, <1>15, <1>16, <1>17, <1>18, <1>19 DEF PoolInv

-----------------------------------------------------------------------------
LEMMA StutterKeepsInv ==
  ASSUME PoolInv, UNCHANGED vars
  PROVE  PoolInv'
BY DEF PoolInv, vars, TypeOK, Sized, InArena, Disjoint, Covered, FullyCoalesced,
   Apart, Covers, Ends

LEMMA NextKeepsInv ==
  ASSUME PoolAssumption, PoolInv, [Next]_vars
  PROVE  PoolInv'
<1>1. ASSUME NEW n \in Totals, Reserve(n)
      PROVE  PoolInv'
  BY <1>1, EmptyKeepsInv DEF Reserve, PoolAssumption
<1>2. CASE Reset
  <2>1. total \in Nat /\ Empty(total)
    BY <1>2 DEF Reset, PoolInv, TypeOK
  <2> QED
    BY <2>1, EmptyKeepsInv
<1>3. ASSUME NEW bytes \in Sizes, NEW alignment \in Alignments, Allocate(bytes, alignment)
      PROVE  PoolInv'
  BY <1>3, AllocateKeepsInv
<1>4. ASSUME NEW h \in live, Free(h)
      PROVE  PoolInv'
  BY <1>4, FreeKeepsInv
<1>5. CASE UNCHANGED vars
  BY <1>5, StutterKeepsInv
<1> QED
  BY <1>1, <1>2, <1>3, <1>4, <1>5 DEF Next

\* The free list and the blocks held are apart, cover the arena and stay in it
\* after any calls of reserve, reset, allocate and free.
THEOREM PoolInvariant ==
  ASSUME PoolAssumption
  PROVE  Spec => []PoolInv
<1>1. Init => PoolInv
  BY PoolInitially
<1>2. PoolInv /\ [Next]_vars => PoolInv'
  BY NextKeepsInv
<1> QED
  BY <1>1, <1>2, PTL DEF Spec

\* Offsets, sizes and the byte counts of the pool are natural numbers, and the
\* peak is never below what is in use.
THEOREM TypeCorrect ==
  ASSUME PoolAssumption
  PROVE  Spec => []TypeOK
<1>1. PoolInv => TypeOK
  BY DEF PoolInv
<1> QED
  BY <1>1, PoolInvariant, PTL

\* Blocks that are apart share no byte, and a byte is one of a block's exactly
\* when the block covers it.
LEMMA InvGivesPartition ==
  ASSUME PoolInv
  PROVE  Partition
<1>1. \A b \in freeList \cup live :
        b.offset \in Nat /\ b.size \in Nat /\ Ends(b) = b.offset + b.size
  BY DEF PoolInv, TypeOK, Block, Held, Ends
<1>2. \A b \in freeList \cup live : \A x \in Int : x \in Bytes(b) <=> Covers(b, x)
  BY <1>1 DEF Bytes, Covers, Ends
<1>3. \A b \in freeList \cup live : Bytes(b) \subseteq Int
  BY <1>1 DEF Bytes
<1>4. ASSUME NEW b \in freeList \cup live, NEW c \in freeList \cup live, Apart(b, c),
             NEW x \in Int, Covers(b, x), Covers(c, x)
      PROVE  FALSE
  BY <1>1, <1>4 DEF Apart, Covers
<1>5. ASSUME NEW x \in 0 .. total - 1
      PROVE  \/ /\ \E b \in freeList : x \in Bytes(b)
                /\ \A h \in live : x \notin Bytes(h)
             \/ /\ \E h \in live : x \in Bytes(h)
                /\ \A b \in freeList : x \notin Bytes(b)
  <2>1. x \in Nat /\ x \in Int /\ x < total
    BY DEF PoolInv, TypeOK
  <2>2. PICK c \in freeList \cup live : Covers(c, x)
    BY <2>1 DEF PoolInv, Covered
  <2>3. CASE c \in freeList
    <3>1. \A h \in live : x \notin Bytes(h)
      BY <2>1, <2>2, <2>3, <1>2, <1>4 DEF PoolInv, Disjoint
    <3> QED
      BY <3>1, <2>1, <2>2, <2>3, <1>2
  <2>4. CASE c \in live
    <3>1. \A b \in freeList : x \notin Bytes(b)
      BY <2>1, <2>2, <2>4, <1>2, <1>4 DEF PoolInv, Disjoint
    <3> QED
      BY <3>1, <2>1, <2>2, <2>4, <1>2
  <2> QED
    BY <2>3, <2>4
<1>6. \A b, c \in freeList : b # c => Bytes(b) \cap Bytes(c) = {}
  <2> SUFFICES ASSUME NEW b \in freeList, NEW c \in freeList, b # c,
                      NEW x \in Bytes(b), x \in Bytes(c)
               PROVE  FALSE
    OBVIOUS
  <2> QED
    BY <1>2, <1>3, <1>4 DEF PoolInv, Disjoint
<1>7. \A g, h \in live : g # h => Bytes(g) \cap Bytes(h) = {}
  <2> SUFFICES ASSUME NEW g \in live, NEW h \in live, g # h,
                      NEW x \in Bytes(g), x \in Bytes(h)
               PROVE  FALSE
    OBVIOUS
  <2> QED
    BY <1>2, <1>3, <1>4 DEF PoolInv, Disjoint
<1>8. \A b \in freeList \cup live : b.offset + b.size <= total
  BY DEF PoolInv, InArena, Ends
<1> QED
  BY <1>5, <1>6, <1>7, <1>8 DEF Partition

\* However the arena is split and joined, every byte of it is free or held and
\* belongs to one block: no two allocations overlap and none is lost.
THEOREM PoolPartition ==
  ASSUME PoolAssumption
  PROVE  Spec => []Partition
<1>1. PoolInv => Partition
  BY InvGivesPartition
<1> QED
  BY <1>1, PoolInvariant, PTL

\* free() leaves no two free blocks that touch, so a request never fails for a
\* boundary between two of them.
THEOREM NeverFragmented ==
  ASSUME PoolAssumption
  PROVE  Spec => []FullyCoalesced
<1>1. PoolInv => FullyCoalesced
  BY DEF PoolInv
<1> QED
  BY <1>1, PoolInvariant, PTL
-----------------------------------------------------------------------------
(* Sums.  SumFunctionOnSet takes the elements of a set in an order CHOOSE gives;
   the sum does not depend on it.  That takes induction over finite sets, here
   as a fact about a set of sets. *)

LEMMA InductionOverSubsets ==
  ASSUME NEW S, IsFiniteSet(S), NEW P,
         \A U \in SUBSET S : (\A x \in U : U \ {x} \in P) => U \in P
  PROVE  SUBSET S \subseteq P
<1> DEFINE T == (SUBSET S) \ P
<1>1. SUFFICES ASSUME T # {}  PROVE FALSE
  OBVIOUS
<1>2. IsWellFoundedOn(StrictSubsetOrdering(S), SUBSET S)
  BY FS_StrictSubsetOrderingWellFounded, FS_FiniteSubsetsOfFinite
<1>3. PICK U \in T : \A V \in T : <<V, U>> \notin StrictSubsetOrdering(S)
  <2>1. T \subseteq SUBSET S
    OBVIOUS
  <2> HIDE DEF T
  <2> QED
    BY <1>1, <1>2, <2>1, WFMin
<1>4. \A x \in U : U \ {x} \in P
  <2> SUFFICES ASSUME NEW x \in U  PROVE U \ {x} \in P
    OBVIOUS
  <2>1. U \ {x} \in SUBSET S /\ U \ {x} \subseteq U /\ U \ {x} # U
    OBVIOUS
  <2>2. <<U \ {x}, U>> \in StrictSubsetOrdering(S)
    BY <2>1 DEF StrictSubsetOrdering
  <2> QED
    BY <1>3, <2>1, <2>2
<1> QED
  BY <1>4

\* The element taken first, and the function that SumFunctionOnSet computes.
First(s) == CHOOSE x \in s : TRUE
Sums(g, f, S) ==
  g = [s \in SUBSET S |-> IF s = {} THEN 0 ELSE f[First(s)] + g[s \ {First(s)}]]

LEMMA FirstIn == \A s : s # {} => First(s) \in s
BY DEF First

LEMMA SumChosen ==
  ASSUME NEW f, NEW S
  PROVE  SumFunctionOnSet(f, S) = (CHOOSE g : Sums(g, f, S))[S]
BY DEF SumFunctionOnSet, FoldFunctionOnSet, MapThenFoldSet, Sums, First

LEMMA SumsAgree ==
  ASSUME NEW f, NEW S, NEW T, NEW g, NEW h, Sums(g, f, S), Sums(h, f, T),
         NEW W, W \subseteq S, W \subseteq T, IsFiniteSet(W)
  PROVE  g[W] = h[W]
<1> DEFINE P == {U \in SUBSET W : g[U] = h[U]}
<1>1. ASSUME NEW U \in SUBSET W, \A x \in U : U \ {x} \in P
      PROVE  U \in P
  <2>1. CASE U = {}
    <3>1. g[U] = 0 /\ h[U] = 0
      BY <2>1 DEF Sums
    <3> QED
      BY <3>1
  <2>2. CASE U # {}
    <3>1. g[U] = f[First(U)] + g[U \ {First(U)}]
      BY <2>2 DEF Sums
    <3>2. h[U] = f[First(U)] + h[U \ {First(U)}]
      BY <2>2 DEF Sums
    <3>3. g[U \ {First(U)}] = h[U \ {First(U)}]
      BY <1>1, <2>2, FirstIn
    <3> QED
      BY <3>1, <3>2, <3>3
  <2> QED
    BY <2>1, <2>2
<1>2. SUBSET W \subseteq P
  <2> HIDE DEF P
  <2> QED
    BY <1>1, InductionOverSubsets
<1> QED
  BY <1>2

LEMMA SumsExist ==
  ASSUME NEW f, NEW S, IsFiniteSet(S)
  PROVE  \A U \in SUBSET S : \E g : Sums(g, f, U)
<1> DEFINE P == {U \in SUBSET S : \A V \in SUBSET U : \E g : Sums(g, f, V)}
           Sum(s) == SumFunctionOnSet(f, s)
<1>1. ASSUME NEW U \in SUBSET S, \A x \in U : U \ {x} \in P
      PROVE  U \in P
  <2>1. \A V \in SUBSET U : V # U => \E g : Sums(g, f, V)
    <3> SUFFICES ASSUME NEW V \in SUBSET U, V # U  PROVE \E g : Sums(g, f, V)
      OBVIOUS
    <3>1. PICK x \in U : x \notin V
      OBVIOUS
    <3>2. V \in SUBSET (U \ {x}) /\ U \ {x} \in P
      BY <1>1, <3>1
    <3> QED
      BY <3>2
  <2>2. \A V \in SUBSET U : V # U => Sums(CHOOSE g : Sums(g, f, V), f, V)
    BY <2>1
  <2>3. ASSUME NEW V \in SUBSET U, V # U
        PROVE  Sum(V) = IF V = {} THEN 0 ELSE f[First(V)] + Sum(V \ {First(V)})
    <3> DEFINE g == CHOOSE g : Sums(g, f, V)
               R == V \ {First(V)}
               h == CHOOSE h : Sums(h, f, R)
    <3>1. Sum(V) = g[V] /\ Sum(R) = h[R]
      BY SumChosen
    <3>2. Sums(g, f, V)
      BY <2>2, <2>3
    <3>3. V # {} => R \in SUBSET U /\ R # U /\ R \subseteq V /\ IsFiniteSet(R)
      BY <2>3, FirstIn, FS_Subset
    <3>4. V # {} => Sums(h, f, R)
      BY <2>2, <3>3
    <3> HIDE DEF g, h, R, Sum
    <3>5. V # {} => g[R] = h[R]
      BY <3>2, <3>3, <3>4, SumsAgree
    <3>6. g[V] = IF V = {} THEN 0 ELSE f[First(V)] + g[V \ {First(V)}]
      BY <3>2 DEF Sums
    <3> QED
      BY <3>1, <3>5, <3>6 DEF R
  <2> HIDE DEF Sum
  <2> DEFINE k == [s \in SUBSET U |->
                     IF s = {} THEN 0 ELSE f[First(s)] + Sum(s \ {First(s)})]
  <2>4. \A s \in SUBSET U : s # U => k[s] = Sum(s)
    BY <2>3
  <2>5. \A s \in SUBSET U : s # {} => s \ {First(s)} \in SUBSET U /\ s \ {First(s)} # U
    BY FirstIn
  <2>6. Sums(k, f, U)
    BY <2>4, <2>5 DEF Sums
  <2> HIDE DEF k
  <2> QED
    BY <2>1, <2>6
<1>2. SUBSET S \subseteq P
  <2> HIDE DEF P
  <2> QED
    BY <1>1, InductionOverSubsets
<1> QED
  BY <1>2

\* The sum of nothing, and of one element more.
LEMMA SumOfNone == \A f : SumFunctionOnSet(f, {}) = 0
<1> SUFFICES ASSUME NEW f  PROVE SumFunctionOnSet(f, {}) = 0
  OBVIOUS
<1> DEFINE g == CHOOSE g : Sums(g, f, {})
<1>1. IsFiniteSet({})
  BY FS_EmptySet
<1>2. Sums(g, f, {})
  BY <1>1, SumsExist
<1>3. SumFunctionOnSet(f, {}) = g[{}]
  BY SumChosen
<1> HIDE DEF g
<1> QED
  BY <1>2, <1>3 DEF Sums

LEMMA SumFirst ==
  ASSUME NEW f, NEW S, IsFiniteSet(S), S # {}
  PROVE  SumFunctionOnSet(f, S) = f[First(S)] + SumFunctionOnSet(f, S \ {First(S)})
<1> DEFINE R == S \ {First(S)}
           g == CHOOSE g : Sums(g, f, S)
           h == CHOOSE h : Sums(h, f, R)
<1>1. IsFiniteSet(R) /\ R \subseteq S
  BY FS_Subset
<1>2. Sums(g, f, S) /\ Sums(h, f, R)
  BY <1>1, SumsExist
<1>3. SumFunctionOnSet(f, S) = g[S] /\ SumFunctionOnSet(f, R) = h[R]
  BY SumChosen
<1> HIDE DEF g, h
<1>4. g[R] = h[R]
  <2> HIDE DEF R
  <2> QED
    BY <1>1, <1>2, SumsAgree
<1>5. g[S] = f[First(S)] + g[R]
  BY <1>2 DEF Sums
<1> QED
  BY <1>3, <1>4, <1>5

LEMMA SumIsNatural ==
  ASSUME NEW f, NEW S, IsFiniteSet(S), \A x \in S : f[x] \in Nat
  PROVE  \A U \in SUBSET S : SumFunctionOnSet(f, U) \in Nat
<1> DEFINE P == {U \in SUBSET S : SumFunctionOnSet(f, U) \in Nat}
<1>1. ASSUME NEW U \in SUBSET S, \A x \in U : U \ {x} \in P
      PROVE  U \in P
  <2>1. CASE U = {}
    BY <2>1, SumOfNone
  <2>2. CASE U # {}
    <3>1. First(U) \in U /\ IsFiniteSet(U)
      BY <2>2, FirstIn, FS_Subset
    <3>2. SumFunctionOnSet(f, U) = f[First(U)] + SumFunctionOnSet(f, U \ {First(U)})
      BY <2>2, <3>1, SumFirst
    <3>3. f[First(U)] \in Nat /\ SumFunctionOnSet(f, U \ {First(U)}) \in Nat
      BY <1>1, <3>1
    <3> QED
      BY <3>2, <3>3
  <2> QED
    BY <2>1, <2>2
<1>2. SUBSET S \subseteq P
  <2> HIDE DEF P
  <2> QED
    BY <1>1, InductionOverSubsets
<1> QED
  BY <1>2

\* Any element may be taken first.
LEMMA SumOfOneMore ==
  ASSUME NEW f, NEW S, IsFiniteSet(S), \A x \in S : f[x] \in Nat
  PROVE  /\ SumFunctionOnSet(f, S) \in Nat
         /\ \A x \in S : SumFunctionOnSet(f, S) = f[x] + SumFunctionOnSet(f, S \ {x})
<1> DEFINE Sum(s) == SumFunctionOnSet(f, s)
           P == {U \in SUBSET S : \A x \in U : Sum(U) = f[x] + Sum(U \ {x})}
<1>0. \A U \in SUBSET S : Sum(U) \in Nat
  BY SumIsNatural
<1>1. ASSUME NEW U \in SUBSET S, \A x \in U : U \ {x} \in P
      PROVE  U \in P
  <2>1. CASE U = {}
    BY <2>1
  <2>2. CASE U # {}
    <3> DEFINE y == First(U)
    <3>1. y \in U /\ IsFiniteSet(U)
      BY <2>2, FirstIn, FS_Subset
    <3>2. Sum(U) = f[y] + Sum(U \ {y})
      BY <2>2, <3>1, SumFirst
    <3> HIDE DEF y, Sum
    <3>4. ASSUME NEW x \in U  PROVE Sum(U) = f[x] + Sum(U \ {x})
      <4>1. CASE x = y
        BY <3>2, <4>1
      <4>2. CASE x # y
        <5> DEFINE V == (U \ {y}) \ {x}
        <5>1. V = (U \ {x}) \ {y}
          OBVIOUS
        <5>2. Sum(U \ {y}) = f[x] + Sum(V)
          BY <1>1, <3>1, <4>2
        <5>3. Sum(U \ {x}) = f[y] + Sum(V)
          BY <1>1, <3>1, <4>2, <5>1
        <5>4. Sum(V) \in Nat
          BY <1>0
        <5> HIDE DEF V
        <5>5. f[x] \in Nat /\ f[y] \in Nat
          BY <3>1
        <5> QED
          BY <3>2, <5>2, <5>3, <5>4, <5>5
      <4> QED
        BY <4>1, <4>2
    <3> QED
      BY <3>4
  <2> QED
    BY <2>1, <2>2
<1>2. SUBSET S \subseteq P
  <2> HIDE DEF P
  <2> QED
    BY <1>1, InductionOverSubsets
<1> QED
  BY <1>0, <1>2

\* Only the values on the set count.
LEMMA SumSame ==
  ASSUME NEW f, NEW g, NEW S, IsFiniteSet(S), \A x \in S : f[x] = g[x]
  PROVE  SumFunctionOnSet(f, S) = SumFunctionOnSet(g, S)
<1> DEFINE P == {U \in SUBSET S : SumFunctionOnSet(f, U) = SumFunctionOnSet(g, U)}
<1>1. ASSUME NEW U \in SUBSET S, \A x \in U : U \ {x} \in P
      PROVE  U \in P
  <2>1. CASE U = {}
    BY <2>1, SumOfNone
  <2>2. CASE U # {}
    <3>1. First(U) \in U /\ IsFiniteSet(U)
      BY <2>2, FirstIn, FS_Subset
    <3>2. /\ SumFunctionOnSet(f, U) = f[First(U)] + SumFunctionOnSet(f, U \ {First(U)})
          /\ SumFunctionOnSet(g, U) = g[First(U)] + SumFunctionOnSet(g, U \ {First(U)})
      BY <2>2, <3>1, SumFirst
    <3>3. SumFunctionOnSet(f, U \ {First(U)}) = SumFunctionOnSet(g, U \ {First(U)})
      BY <1>1, <3>1
    <3> QED
      BY <3>1, <3>2, <3>3
  <2> QED
    BY <2>1, <2>2
<1>2. SUBSET S \subseteq P
  <2> HIDE DEF P
  <2> QED
    BY <1>1, InductionOverSubsets
<1> QED
  BY <1>2

-----------------------------------------------------------------------------
(* What callers hold in bytes. *)

\* HeldBytes, of the blocks L.
Weight(L) == SumFunction([h \in L |-> h.size + h.pad])

LEMMA WeightOfOneMore ==
  ASSUME NEW L, IsFiniteSet(L), L \subseteq Held
  PROVE  /\ Weight(L) \in Nat
         /\ \A h \in L : /\ Weight(L) = h.size + h.pad + Weight(L \ {h})
                         /\ Weight(L \ {h}) \in Nat
<1> DEFINE f == [h \in L |-> h.size + h.pad]
<1>1. \A h \in L : f[h] = h.size + h.pad /\ f[h] \in Nat /\ h.size \in Nat /\ h.pad \in Nat
  BY DEF Held
<1>2. Weight(L) = SumFunctionOnSet(f, L)
  BY DEF Weight, SumFunction
<1>3. ASSUME NEW h \in L
      PROVE  Weight(L \ {h}) = SumFunctionOnSet(f, L \ {h})
  <2> DEFINE g == [i \in L \ {h} |-> i.size + i.pad]
  <2>1. Weight(L \ {h}) = SumFunctionOnSet(g, L \ {h})
    BY DEF Weight, SumFunction
  <2>2. \A i \in L \ {h} : f[i] = g[i]
    OBVIOUS
  <2>3. IsFiniteSet(L \ {h})
    BY FS_Subset
  <2> HIDE DEF f, g
  <2> QED
    BY <2>1, <2>2, <2>3, SumSame
<1> HIDE DEF f
<1>4. \A h \in L : SumFunctionOnSet(f, L) = f[h] + SumFunctionOnSet(f, L \ {h})
  BY <1>1, SumOfOneMore
<1>5. \A U \in SUBSET L : SumFunctionOnSet(f, U) \in Nat
  BY <1>1, SumIsNatural
<1> QED
  BY <1>1, <1>2, <1>3, <1>4, <1>5

\* The block that allocate hands out starts where none handed out before does.
LEMMA AllocateReturns ==
  ASSUME PoolAssumption, PoolInv, NEW bytes \in Sizes, NEW alignment \in Alignments,
         Allocate(bytes, alignment)
  PROVE  \E h \in Held : /\ live' = live \cup {h} /\ h \notin live
                         /\ \A g \in live : g.offset # h.offset
                         /\ h.size = bytes
                         /\ used' = used + h.size + h.pad
<1> DEFINE align == Effective(alignment)
<1>1. PICK b \in FirstFit(bytes, align) :
        LET pad == Pad(b.offset, align)
        IN  /\ used' = used + Charge(pad, bytes)
            /\ live' = live \cup {[offset |-> b.offset + pad, size |-> bytes, pad |-> pad]}
  BY DEF Allocate
<1> DEFINE pad == Pad(b.offset, align)
           h == [offset |-> b.offset + pad, size |-> bytes, pad |-> pad]
<1>2. b \in freeList /\ b.offset \in Nat /\ b.size \in Nat /\ b.size >= pad + bytes
  BY DEF FirstFit, Fits, PoolInv, TypeOK, Block
<1>3. pad \in Nat /\ bytes \in Nat /\ bytes > 0
  <2>1. align \in Nat \ {0}
    BY EffectivePositive
  <2>2. pad \in Nat
    BY <1>2, <2>1, PadIsNatural
  <2> QED
    BY <2>2 DEF PoolAssumption
<1>4. used' = used + Charge(pad, bytes) /\ live' = live \cup {h}
  BY <1>1
<1> HIDE DEF pad
<1>5. h \in Held /\ h.size = bytes /\ h.pad = pad /\ h.offset = b.offset + pad
  BY <1>2, <1>3 DEF Held
<1>6. used' = used + bytes + pad
  BY <1>3, <1>4 DEF Charge, PoolInv, TypeOK
<1> HIDE DEF h
<1>7. \A g \in live : g.offset # h.offset
  <2> SUFFICES ASSUME NEW g \in live, g.offset = h.offset
               PROVE  FALSE
    OBVIOUS
  <2>1. Apart(b, g) /\ g.size \in Nat /\ g.size > 0
    BY <1>2 DEF PoolInv, Disjoint, Sized, TypeOK, Held
  <2> QED
    BY <2>1, <1>2, <1>3, <1>5 DEF Apart, Ends
<1> QED
  BY <1>4, <1>5, <1>6, <1>7

\* An offset is that of one block held.
LEMMA OffsetsDiffer ==
  ASSUME PoolInv, NEW g \in live, NEW h \in live, g # h
  PROVE  g.offset # h.offset
<1>1. Apart(g, h) /\ g \in Held /\ h \in Held /\ g.size > 0 /\ h.size > 0
  BY DEF PoolInv, Disjoint, TypeOK, Sized
<1> QED
  BY <1>1 DEF Apart, Ends, Held

UsedInv == IsFiniteSet(live) /\ UsedCoversHeld

LEMMA UsedStep ==
  ASSUME PoolAssumption, PoolInv, UsedInv, [Next]_vars
  PROVE  UsedInv'
<1>1. /\ live \subseteq Held /\ used \in Nat /\ IsFiniteSet(live) /\ used >= Weight(live)
  BY DEF PoolInv, TypeOK, UsedInv, UsedCoversHeld, HeldBytes, Weight
<1>2. HeldBytes' = Weight(live')
  BY DEF HeldBytes, Weight
<1>3. ASSUME live' = {}, used' = 0  PROVE UsedInv'
  <2>1. Weight({}) = 0 /\ IsFiniteSet({})
    BY SumOfNone, FS_EmptySet DEF Weight, SumFunction
  <2> QED
    BY <1>2, <1>3, <2>1 DEF UsedInv, UsedCoversHeld
<1>4. ASSUME NEW bytes \in Sizes, NEW alignment \in Alignments, Allocate(bytes, alignment)
      PROVE  UsedInv'
  <2>1. PICK h \in Held : /\ live' = live \cup {h} /\ h \notin live
                          /\ used' = used + h.size + h.pad
    BY <1>4, AllocateReturns
  <2>2. h.size \in Nat /\ h.pad \in Nat
    BY DEF Held
  <2>3. IsFiniteSet(live') /\ live' \subseteq Held
    BY <1>1, <2>1, FS_AddElement
  <2>4. live' \ {h} = live /\ h \in live'
    BY <2>1
  <2>5. Weight(live') = h.size + h.pad + Weight(live) /\ Weight(live) \in Nat
    BY <2>3, <2>4, WeightOfOneMore
  <2> QED
    BY <1>1, <1>2, <2>1, <2>2, <2>3, <2>5 DEF UsedInv, UsedCoversHeld
<1>5. ASSUME NEW h \in live, Free(h)  PROVE UsedInv'
  <2>1. /\ live' = live \ {h}
        /\ used' = IF used >= h.size THEN used - h.size ELSE used
    BY <1>5 DEF Free
  <2>2. h.size \in Nat /\ h.pad \in Nat
    BY <1>1 DEF Held
  <2>3. Weight(live) = h.size + h.pad + Weight(live') /\ Weight(live') \in Nat
    BY <1>1, <2>1, WeightOfOneMore
  <2>4. IsFiniteSet(live')
    BY <1>1, <2>1, FS_Subset
  <2> QED
    BY <1>1, <1>2, <2>1, <2>2, <2>3, <2>4 DEF UsedInv, UsedCoversHeld
<1>6. CASE UNCHANGED vars
  BY <1>6 DEF UsedInv, UsedCoversHeld, HeldBytes, vars
<1> QED
  BY <1>3, <1>4, <1>5, <1>6 DEF Next, Reserve, Reset, Empty

LEMMA UsedInitially ==
  ASSUME Init
  PROVE  UsedInv
<1>1. SumFunctionOnSet([h \in {} |-> h.size + h.pad], {}) = 0 /\ IsFiniteSet({})
  BY SumOfNone, FS_EmptySet
<1>2. live = {} /\ used = 0
  BY DEF Init
<1> QED
  BY <1>1, <1>2 DEF UsedInv, UsedCoversHeld, HeldBytes, SumFunction

\* used_ never falls below what callers hold, however it drifts: the guard of
\* free() that keeps it from wrapping is never needed (memory_pool.cpp:60).
THEOREM UsedStaysAboveHeld ==
  ASSUME PoolAssumption
  PROVE  Spec => []UsedCoversHeld
<1>1. Init => PoolInv /\ UsedInv
  BY PoolInitially, UsedInitially
<1>2. PoolInv /\ UsedInv /\ [Next]_vars => (PoolInv /\ UsedInv)'
  BY NextKeepsInv, UsedStep
<1>3. UsedInv => UsedCoversHeld
  BY DEF UsedInv
<1> QED
  BY <1>1, <1>2, <1>3, PTL DEF Spec
=============================================================================
