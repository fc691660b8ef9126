-------------------------- MODULE TokenizerProofs --------------------------
(***************************************************************************)
(* Proofs about Tokenizer, for every text, every table of characters,      *)
(* every list of merges and every set of added tokens: the pieces of the   *)
(* pre-tokenizer are the text, the merges keep the bytes of a piece, and   *)
(* so decode gives back the bytes that were encoded.                       *)
(*                                                                         *)
(* What a recursive function is comes first: one that satisfies its        *)
(* equation exists, so the one chosen does, and what its equation keeps    *)
(* from one link to the next it keeps altogether.  Bytes and Decode both   *)
(* are Spread: something read of each element, one after another.  It      *)
(* passes through a concatenation, and what is read of the pieces is what  *)
(* is read of the whole.                                                   *)
(***************************************************************************)
EXTENDS Tokenizer, SequenceTheorems, WellFoundedInduction, TLAPS

\* Induction up to a bound, as a property of a set.
LEMMA InductionUpTo ==
  ASSUME NEW n \in Nat, NEW S, 0 \in S,
         \A x \in 0 .. n - 1 : x \in S => x + 1 \in S
  PROVE  0 .. n \subseteq S
<1> DEFINE R == {ss \in Nat \X Nat : ss[1] < ss[2]}
           T == (0 .. n) \ S
<1>1. IsWellFoundedOn(R, Nat)
  BY NatLessThanWellFounded DEF OpToRel
<1>2. SUFFICES ASSUME T # {}  PROVE FALSE
  OBVIOUS
<1>3. PICK x \in T : \A y \in T : <<y, x>> \notin R
  <2>1. T \subseteq Nat
    OBVIOUS
  <2> HIDE DEF R, T
  <2> QED
    BY <1>1, <1>2, <2>1, WFMin
<1>4. x # 0 /\ x \in 0 .. n
  OBVIOUS
<1>5. x - 1 \in 0 .. n - 1 /\ x - 1 \notin T
  <2>1. x - 1 \in 0 .. n - 1 /\ x \in Nat /\ x - 1 \in Nat
    BY <1>4
  <2>2. <<x - 1, x>> \in R
    BY <2>1
  <2> HIDE DEF R, T
  <2> QED
    BY <1>3, <2>1, <2>2
<1>6. x - 1 \in S
  BY <1>5
<1>7. (x - 1) + 1 \in S
  BY <1>5, <1>6
<1> QED
  BY <1>4, <1>7

\* The least and the greatest of finitely many integers.
LEMMA LeastOf ==
  ASSUME NEW S \in SUBSET Nat, S # {}
  PROVE  Min(S) \in S /\ \A x \in S : Min(S) <= x
<1> DEFINE R == {ss \in Nat \X Nat : ss[1] < ss[2]}
<1>1. IsWellFoundedOn(R, Nat)
  BY NatLessThanWellFounded DEF OpToRel
<1>2. PICK x \in S : \A y \in S : <<y, x>> \notin R
  <2> HIDE DEF R
  <2> QED
    BY <1>1, WFMin
<1>3. ASSUME NEW y \in S PROVE x <= y
  <2>1. x \in Nat /\ y \in Nat
    OBVIOUS
  <2>2. y < x => <<y, x>> \in R
    BY <2>1
  <2> HIDE DEF R
  <2> QED
    BY <1>2, <2>1, <2>2
<1> QED
  BY <1>3 DEF Min

LEMMA GreatestOf ==
  ASSUME NEW S \in SUBSET Nat, S # {}, NEW n \in Nat, \A x \in S : x <= n
  PROVE  Max(S) \in S /\ \A x \in S : x <= Max(S)
<1> DEFINE T == {n - x : x \in S}
<1>1. T \in SUBSET Nat /\ T # {}
  <2>1. \A x \in S : n - x \in Nat
    OBVIOUS
  <2> QED
    BY <2>1
<1>2. Min(T) \in T /\ \A y \in T : Min(T) <= y
  <2> HIDE DEF T
  <2> QED
    BY <1>1, LeastOf
<1>3. PICK x \in S : Min(T) = n - x
  BY <1>2
<1>4. \A y \in S : n - x <= n - y
  BY <1>2, <1>3
<1>5. \A y \in S : y <= x
  BY <1>4
<1> QED
  BY <1>5 DEF Max

\* Induction over sequences: from a sequence to the one with an element more.
LEMMA InductionOverSeq ==
  ASSUME NEW S, NEW P, <<>> \in P,
         \A s \in Seq(S), x \in S : s \in P => Append(s, x) \in P
  PROVE  Seq(S) \subseteq P
<1> SUFFICES ASSUME NEW t \in Seq(S) PROVE t \in P
  OBVIOUS
<1> DEFINE Q == {n \in Nat : \A s \in Seq(S) : Len(s) = n => s \in P}
<1>1. 0 \in Q
  <2>1. ASSUME NEW s \in Seq(S), Len(s) = 0 PROVE s = <<>>
    BY <2>1, EmptySeq
  <2> QED
    BY <2>1
<1>2. \A n \in 0 .. Len(t) - 1 : n \in Q => n + 1 \in Q
  <2> SUFFICES ASSUME NEW n \in Nat, \A s \in Seq(S) : Len(s) = n => s \in P,
                      NEW s \in Seq(S), Len(s) = n + 1
               PROVE  s \in P
    OBVIOUS
  <2> DEFINE front == [k \in 1 .. n |-> s[k]]
  <2>1. front \in Seq(S) /\ Len(front) = n /\ s[n + 1] \in S
    OBVIOUS
  <2>2. Append(front, s[n + 1]) = s
    OBVIOUS
  <2> HIDE DEF front
  <2> QED
    BY <2>1, <2>2
<1>3. 0 .. Len(t) \subseteq Q
  <2>1. Len(t) \in Nat
    OBVIOUS
  <2> HIDE DEF Q
  <2> QED
    BY <1>1, <1>2, <2>1, InductionUpTo
<1> QED
  BY <1>3

-----------------------------------------------------------------------------
(* What a recursive function is: one that satisfies its equation exists. *)

\* The value at k from that at next[k], which is beyond.
Chains(g, n, end, base, head, next) ==
  g = [k \in 1 .. n |-> IF k \in end THEN base[k] ELSE head[k] \o g[next[k]]]
Follows(n, end, next) == \A k \in (1 .. n) \ end : next[k] \in k + 1 .. n

LEMMA ChainsValue ==
  ASSUME NEW n \in Nat, NEW end, NEW base, NEW head, NEW next, NEW g,
         Chains(g, n, end, base, head, next)
  PROVE  \A k \in 1 .. n : g[k] = IF k \in end THEN base[k] ELSE head[k] \o g[next[k]]
<1> DEFINE h == [k \in 1 .. n |-> IF k \in end THEN base[k] ELSE head[k] \o g[next[k]]]
<1>1. \A k \in 1 .. n : h[k] = IF k \in end THEN base[k] ELSE head[k] \o g[next[k]]
  OBVIOUS
<1>2. g = h
  BY DEF Chains
<1> HIDE DEF h
<1> QED
  BY <1>1, <1>2

LEMMA ChainsExists ==
  ASSUME NEW n \in Nat, NEW end, NEW base, NEW head, NEW next, Follows(n, end, next)
  PROVE  \E g : Chains(g, n, end, base, head, next)
<1> DEFINE Holds(g, k) == g[k] = IF k \in end THEN base[k] ELSE head[k] \o g[next[k]]
           From(g, m) == /\ g = [k \in 1 .. n |-> g[k]]
                         /\ \A k \in n + 1 - m .. n : Holds(g, k)
           P == {m \in 0 .. n : \E g : From(g, m)}
<1>1. 0 \in P
  <2> DEFINE g == [k \in 1 .. n |-> 0]
  <2>1. g = [k \in 1 .. n |-> g[k]]
    OBVIOUS
  <2>2. \A k \in n + 1 - 0 .. n : Holds(g, k)
    OBVIOUS
  <2>3. From(g, 0)
    <3> HIDE DEF g
    <3> QED
      BY <2>1, <2>2
  <2> HIDE DEF From
  <2> QED
    BY <2>3
<1>2. \A m \in 0 .. n - 1 : m \in P => m + 1 \in P
  <2> SUFFICES ASSUME NEW m \in 0 .. n - 1, m \in P PROVE \E h : From(h, m + 1)
    <3> HIDE DEF From
    <3> QED
      OBVIOUS
  <2>9. PICK g : From(g, m)
    <3> HIDE DEF From
    <3> QED
      OBVIOUS
  <2> DEFINE at == n - m
             new == IF at \in end THEN base[at] ELSE head[at] \o g[next[at]]
             h == [k \in 1 .. n |-> IF k = at THEN new ELSE g[k]]
  <2>0. at \in 1 .. n /\ n + 1 - (m + 1) = at /\ n + 1 - m = at + 1 /\ at \in Nat
    OBVIOUS
  <2>8. \A k \in at + 1 .. n : Holds(g, k)
    BY <2>0, <2>9
  <2> HIDE DEF at
  <2>1. h = [k \in 1 .. n |-> h[k]]
    OBVIOUS
  <2>2. h[at] = new /\ \A k \in at + 1 .. n : h[k] = g[k]
    <3>1. at \in 1 .. n /\ \A k \in at + 1 .. n : k \in 1 .. n /\ k # at
      BY <2>0
    <3> HIDE DEF new
    <3> QED
      BY <3>1
  <2>3. ASSUME NEW k \in at .. n PROVE Holds(h, k)
    <3>1. CASE k = at
      <4>1. at \notin end => next[at] \in at + 1 .. n
        BY <2>0 DEF Follows
      <4> HIDE DEF h
      <4> QED
        BY <4>1, <3>1, <2>2
    <3>2. CASE k \in at + 1 .. n
      <4>1. k \notin end => next[k] \in at + 1 .. n
        <5>1. k \in 1 .. n
          BY <2>0, <3>2
        <5>2. k \notin end => next[k] \in k + 1 .. n
          BY <5>1 DEF Follows
        <5> QED
          BY <5>2, <3>2, <2>0
      <4>2. Holds(g, k)
        BY <2>8, <3>2
      <4> HIDE DEF h
      <4> QED
        BY <4>1, <4>2, <3>2, <2>2
    <3> QED
      BY <3>1, <3>2, <2>0
  <2>4. From(h, m + 1)
    <3> HIDE DEF h, Holds
    <3> QED
      BY <2>0, <2>1, <2>3
  <2> HIDE DEF From
  <2> QED
    BY <2>4
<1>3. 0 .. n \subseteq P
  <2> HIDE DEF P
  <2> QED
    BY <1>1, <1>2, InductionUpTo
<1>4. PICK g : From(g, n)
  <2> HIDE DEF From
  <2>1. n \in P
    BY <1>3
  <2> QED
    BY <2>1
<1>5. \A k \in 1 .. n : Holds(g, k)
  <2>1. n + 1 - n = 1
    OBVIOUS
  <2> HIDE DEF Holds
  <2> QED
    BY <1>4, <2>1
<1> QED
  BY <1>4, <1>5 DEF Chains

\* What holds of the ends and of a link before one of which it holds, holds of all.
LEMMA InductionOverChain ==
  ASSUME NEW n \in Nat, NEW end, NEW base, NEW head, NEW next, NEW g, NEW P,
         Chains(g, n, end, base, head, next), Follows(n, end, next),
         \A k \in (1 .. n) \cap end : base[k] \in P[k],
         \A k \in (1 .. n) \ end : \A x \in P[next[k]] : head[k] \o x \in P[k]
  PROVE  \A k \in 1 .. n : g[k] \in P[k]
<1> DEFINE Q == {m \in 0 .. n : \A k \in n + 1 - m .. n : g[k] \in P[k]}
<1>0. \A k \in 1 .. n : g[k] = IF k \in end THEN base[k] ELSE head[k] \o g[next[k]]
  BY ChainsValue
<1>1. 0 \in Q
  OBVIOUS
<1>2. \A m \in 0 .. n - 1 : m \in Q => m + 1 \in Q
  <2> SUFFICES ASSUME NEW m \in 0 .. n - 1, \A k \in n + 1 - m .. n : g[k] \in P[k],
                      NEW k \in n + 1 - (m + 1) .. n
               PROVE  g[k] \in P[k]
    <3> HIDE DEF Q
    <3>1. \A m \in 0 .. n : m \in Q <=> \A k \in n + 1 - m .. n : g[k] \in P[k]
      BY DEF Q
    <3>2. \A m \in 0 .. n - 1 : m \in 0 .. n /\ m + 1 \in 0 .. n
      OBVIOUS
    <3> QED
      BY <3>1, <3>2
  <2>1. CASE k = n - m
    <3>1. k \in 1 .. n
      BY <2>1
    <3>2. ASSUME k \notin end PROVE g[next[k]] \in P[next[k]]
      <4>1. next[k] \in k + 1 .. n
        BY <3>1, <3>2 DEF Follows
      <4>2. next[k] \in n + 1 - m .. n
        BY <4>1, <2>1
      <4> QED
        BY <4>2
    <3> QED
      BY <3>1, <3>2, <1>0
  <2>2. CASE k \in n + 1 - m .. n
    BY <2>2
  <2> QED
    BY <2>1, <2>2
<1>3. 0 .. n \subseteq Q
  <2> HIDE DEF Q
  <2> QED
    BY <1>1, <1>2, InductionUpTo
<1>4. \A k \in n + 1 - n .. n : g[k] \in P[k]
  BY <1>3
<1> QED
  BY <1>4

-----------------------------------------------------------------------------
(* What FlattenSeq puts together. *)

Flattens(g, ss, n) == g = [x \in 1 .. n |-> IF x = 1 THEN ss[x] ELSE g[x - 1] \o ss[x]]

LEMMA FlattensValue ==
  ASSUME NEW ss, NEW n \in Nat \ {0}, NEW g, Flattens(g, ss, n)
  PROVE  g[1] = ss[1] /\ \A k \in 1 .. n - 1 : g[k + 1] = g[k] \o ss[k + 1]
<1> DEFINE h == [x \in 1 .. n |-> IF x = 1 THEN ss[x] ELSE g[x - 1] \o ss[x]]
<1>1. h[1] = ss[1]
  OBVIOUS
<1>2. ASSUME NEW k \in 1 .. n - 1 PROVE h[k + 1] = g[k] \o ss[k + 1]
  <2>1. k + 1 \in 1 .. n /\ k + 1 # 1 /\ (k + 1) - 1 = k
    OBVIOUS
  <2> QED
    BY <2>1
<1>3. g = h
  BY DEF Flattens
<1> HIDE DEF h
<1> QED
  BY <1>1, <1>2, <1>3

LEMMA FlattensExists ==
  ASSUME NEW ss, NEW n \in Nat \ {0}
  PROVE  \E g : Flattens(g, ss, n)
<1> DEFINE P == {k \in Nat : \E g : Flattens(g, ss, k + 1)}
<1>1. 0 \in P
  <2>1. Flattens([x \in 1 .. 1 |-> ss[1]], ss, 1)
    BY DEF Flattens
  <2> QED
    BY <2>1
<1>2. \A k \in 0 .. n - 2 : k \in P => k + 1 \in P
  <2> SUFFICES ASSUME NEW k \in Nat, NEW g, Flattens(g, ss, k + 1)
               PROVE  \E h : Flattens(h, ss, k + 2)
    OBVIOUS
  <2> DEFINE m == k + 1
             h == [x \in 1 .. m + 1 |-> IF x <= m THEN g[x] ELSE g[m] \o ss[x]]
  <2>0. m \in Nat \ {0} /\ m + 1 = k + 2
    OBVIOUS
  <2>1. g[1] = ss[1] /\ \A x \in 1 .. m - 1 : g[x + 1] = g[x] \o ss[x + 1]
    <3>1. Flattens(g, ss, m)
      OBVIOUS
    <3> HIDE DEF m
    <3> QED
      BY <2>0, <3>1, FlattensValue
  <2> HIDE DEF m
  <2>2. \A x \in 1 .. m : h[x] = g[x]
    BY <2>0
  <2>3. \A x \in 1 .. m + 1 : h[x] = IF x = 1 THEN ss[x] ELSE h[x - 1] \o ss[x]
    <3> TAKE x \in 1 .. m + 1
    <3>1. CASE x = 1
      BY <3>1, <2>0, <2>1, <2>2
    <3>2. CASE x \in 2 .. m
      <4>1. x - 1 \in 1 .. m - 1 /\ x \in 1 .. m /\ x # 1 /\ (x - 1) + 1 = x /\ x - 1 \in 1 .. m
        BY <2>0, <3>2
      <4>2. g[x] = g[x - 1] \o ss[x]
        BY <4>1, <2>1
      <4> HIDE DEF h
      <4> QED
        BY <4>1, <4>2, <2>2
    <3>3. CASE x = m + 1
      <4>0. x \in 1 .. m + 1 /\ ~(x <= m) /\ x - 1 = m /\ m \in 1 .. m + 1 /\ m <= m /\ x # 1
        BY <2>0, <3>3
      <4>1. h[x] = g[m] \o ss[x] /\ h[m] = g[m]
        BY <4>0
      <4> HIDE DEF h
      <4> QED
        BY <4>0, <4>1
    <3> QED
      BY <2>0, <3>1, <3>2, <3>3
  <2>4. Flattens(h, ss, m + 1)
    <3> HIDE DEF h
    <3>1. h = [x \in 1 .. m + 1 |-> h[x]]
      BY DEF h
    <3> QED
      BY <3>1, <2>3 DEF Flattens
  <2> QED
    BY <2>0, <2>4
<1>3. 0 .. n - 1 \subseteq P
  <2> HIDE DEF P
  <2>1. n - 1 \in Nat /\ (n - 1) - 1 = n - 2
    OBVIOUS
  <2> QED
    BY <2>1, <1>1, <1>2, InductionUpTo
<1>4. n - 1 \in P /\ (n - 1) + 1 = n
  BY <1>3
<1> QED
  BY <1>4

LEMMA FlattenSeqIs ==
  ASSUME NEW ss, NEW n \in Nat \ {0}, Len(ss) = n
  PROVE  \E g : FlattenSeq(ss) = g[n] /\ Flattens(g, ss, n)
<1> DEFINE g == CHOOSE g : Flattens(g, ss, n)
<1>1. FlattenSeq(ss) = g[n]
  BY Zenon DEF FlattenSeq, Flattens
<1>2. Flattens(g, ss, n)
  BY FlattensExists
<1> HIDE DEF g
<1> QED
  BY <1>1, <1>2

\* The pieces without the last one, and that one.
LEMMA FlattenAppend ==
  ASSUME NEW S, NEW ss \in Seq(Seq(S)), NEW s \in Seq(S)
  PROVE  FlattenSeq(<<>>) = <<>> /\ FlattenSeq(Append(ss, s)) = FlattenSeq(ss) \o s
<1>1. FlattenSeq(<<>>) = <<>>
  BY DEF FlattenSeq
<1> DEFINE n == Len(ss)
           tt == Append(ss, s)
<1>2. n \in Nat /\ Len(tt) = n + 1 /\ tt[n + 1] = s /\ \A k \in 1 .. n : tt[k] = ss[k]
  OBVIOUS
<1> HIDE DEF tt
<1>3. PICK h : FlattenSeq(tt) = h[n + 1] /\ Flattens(h, tt, n + 1)
  <2>1. n + 1 \in Nat \ {0}
    BY <1>2
  <2> HIDE DEF n
  <2> QED
    BY <2>1, <1>2, FlattenSeqIs
<1>4. h[1] = tt[1] /\ \A k \in 1 .. n : h[k + 1] = h[k] \o tt[k + 1]
  <2>1. n + 1 \in Nat \ {0} /\ (n + 1) - 1 = n
    BY <1>2
  <2> HIDE DEF n
  <2>2. h[1] = tt[1] /\ \A k \in 1 .. (n + 1) - 1 : h[k + 1] = h[k] \o tt[k + 1]
    BY <2>1, <1>3, FlattensValue
  <2> QED
    BY <2>1, <2>2
<1>5. CASE n = 0
  <2>1. FlattenSeq(tt) = s
    BY <1>5, <1>2, <1>3, <1>4
  <2>2. ss = <<>> /\ <<>> \o s = s
    BY <1>5, EmptySeq
  <2> QED
    BY <1>1, <2>1, <2>2 DEF tt
<1>6. CASE n # 0
  <2>0. n \in Nat \ {0}
    BY <1>2, <1>6
  <2>1. PICK g : FlattenSeq(ss) = g[n] /\ Flattens(g, ss, n)
    BY <2>0, FlattenSeqIs
  <2>2. g[1] = ss[1] /\ \A k \in 1 .. n - 1 : g[k + 1] = g[k] \o ss[k + 1]
    BY <2>0, <2>1, FlattensValue
  <2> HIDE DEF n
  <2> DEFINE P == {k \in 0 .. n - 1 : h[k + 1] = g[k + 1]}
  <2>3. 0 \in P
    BY <2>0, <2>2, <1>2, <1>4
  <2>4. \A k \in 0 .. (n - 1) - 1 : k \in P => k + 1 \in P
    <3> SUFFICES ASSUME NEW k \in 0 .. n - 2, h[k + 1] = g[k + 1]
                 PROVE  k + 1 \in 0 .. n - 1 /\ h[(k + 1) + 1] = g[(k + 1) + 1]
      BY <2>0
    <3>1. k + 1 \in 1 .. n - 1 /\ k + 1 \in 1 .. n /\ (k + 1) + 1 \in 1 .. n /\ k + 1 \in 0 .. n - 1
      BY <2>0
    <3> QED
      BY <3>1, <2>2, <1>2, <1>4
  <2>5. 0 .. n - 1 \subseteq P
    <3> HIDE DEF P
    <3>1. n - 1 \in Nat
      BY <2>0
    <3> QED
      BY <3>1, <2>3, <2>4, InductionUpTo
  <2>6. h[n] = g[n]
    <3>1. n - 1 \in 0 .. n - 1 /\ (n - 1) + 1 = n
      BY <2>0
    <3> QED
      BY <3>1, <2>5
  <2>7. h[n + 1] = h[n] \o tt[n + 1]
    <3>1. n \in 1 .. n
      BY <2>0
    <3> QED
      BY <3>1, <1>4
  <2> QED
    BY <1>1, <1>2, <1>3, <2>1, <2>6, <2>7 DEF tt
<1> QED
  BY <1>5, <1>6

LEMMA FlattenIsSeq ==
  ASSUME NEW S, NEW ss \in Seq(Seq(S))
  PROVE  FlattenSeq(ss) \in Seq(S)
<1> DEFINE P == {tt \in Seq(Seq(S)) : FlattenSeq(tt) \in Seq(S)}
<1>1. <<>> \in P
  <2>1. FlattenSeq(<<>>) = <<>> /\ <<>> \in Seq(Seq(S)) /\ <<>> \in Seq(S)
    BY EmptySeq DEF FlattenSeq
  <2> QED
    BY <2>1
<1>2. \A tt \in Seq(Seq(S)), s \in Seq(S) : tt \in P => Append(tt, s) \in P
  <2> SUFFICES ASSUME NEW tt \in Seq(Seq(S)), NEW s \in Seq(S), FlattenSeq(tt) \in Seq(S)
               PROVE  Append(tt, s) \in P
    OBVIOUS
  <2>1. FlattenSeq(Append(tt, s)) = FlattenSeq(tt) \o s
    BY FlattenAppend
  <2>2. FlattenSeq(tt) \o s \in Seq(S) /\ Append(tt, s) \in Seq(Seq(S))
    OBVIOUS
  <2> QED
    BY <2>1, <2>2
<1>3. Seq(Seq(S)) \subseteq P
  <2> HIDE DEF P
  <2> QED
    BY <1>1, <1>2, InductionOverSeq
<1> QED
  BY <1>3

\* What is read of each element of a sequence, one after another.
Spread(s, F) == FlattenSeq([k \in 1 .. Len(s) |-> F[s[k]]])

LEMMA MappedIsSeq ==
  ASSUME NEW S, NEW T, NEW F \in [S -> T], NEW s \in Seq(S)
  PROVE  /\ [k \in 1 .. Len(s) |-> F[s[k]]] \in Seq(T)
         /\ Len([k \in 1 .. Len(s) |-> F[s[k]]]) = Len(s)
<1>1. Len(s) \in Nat /\ \A k \in 1 .. Len(s) : F[s[k]] \in T
  BY ElementOfSeq
<1> QED
  BY <1>1

LEMMA SpreadEmpty ==
  ASSUME NEW F
  PROVE  Spread(<<>>, F) = <<>>
<1>1. Len(<<>>) = 0
  OBVIOUS
<1>2. [k \in 1 .. 0 |-> F[<<>>[k]]] = <<>>
  OBVIOUS
<1>3. FlattenSeq(<<>>) = <<>>
  BY DEF FlattenSeq
<1> QED
  BY <1>1, <1>2, <1>3 DEF Spread

LEMMA SpreadIsSeq ==
  ASSUME NEW S, NEW T, NEW F \in [S -> Seq(T)], NEW s \in Seq(S)
  PROVE  Spread(s, F) \in Seq(T)
<1>1. [k \in 1 .. Len(s) |-> F[s[k]]] \in Seq(Seq(T))
  BY MappedIsSeq
<1> QED
  BY <1>1, FlattenIsSeq DEF Spread

LEMMA SpreadAppend ==
  ASSUME NEW S, NEW T, NEW F \in [S -> Seq(T)], NEW s \in Seq(S), NEW x \in S
  PROVE  Spread(Append(s, x), F) = Spread(s, F) \o F[x]
<1> DEFINE ff == [k \in 1 .. Len(s) |-> F[s[k]]]
           gg == [k \in 1 .. Len(Append(s, x)) |-> F[Append(s, x)[k]]]
<1>1. ff \in Seq(Seq(T)) /\ Len(ff) = Len(s) /\ Len(s) \in Nat /\ F[x] \in Seq(T)
  BY MappedIsSeq
<1>2. Append(s, x) \in Seq(S) /\ Len(Append(s, x)) = Len(s) + 1
  OBVIOUS
<1>3. gg \in Seq(Seq(T)) /\ Len(gg) = Len(s) + 1
  <2>1. gg \in Seq(Seq(T)) /\ Len(gg) = Len(Append(s, x))
    BY <1>2, MappedIsSeq
  <2> HIDE DEF gg
  <2> QED
    BY <2>1, <1>2
<1>4. ASSUME NEW k \in 1 .. Len(s) + 1 PROVE gg[k] = Append(ff, F[x])[k]
  <2>1. gg[k] = F[Append(s, x)[k]]
    BY <1>2
  <2>2. CASE k = Len(s) + 1
    <3>1. Append(s, x)[k] = x
      BY <2>2
    <3> HIDE DEF ff, gg
    <3>2. Append(ff, F[x])[k] = F[x]
      BY <2>2, <1>1
    <3> QED
      BY <2>1, <3>1, <3>2
  <2>3. CASE k \in 1 .. Len(s)
    <3>1. Append(s, x)[k] = s[k] /\ ff[k] = F[s[k]]
      BY <2>3
    <3> HIDE DEF ff, gg
    <3>2. Append(ff, F[x])[k] = ff[k]
      BY <2>3, <1>1
    <3> QED
      BY <2>1, <3>1, <3>2
  <2> QED
    BY <2>2, <2>3, <1>1
<1>5. gg = Append(ff, F[x])
  <2> HIDE DEF ff, gg
  <2>1. Append(ff, F[x]) \in Seq(Seq(T)) /\ Len(Append(ff, F[x])) = Len(s) + 1
    BY <1>1
  <2> QED
    BY <2>1, <1>3, <1>4, SeqEqual
<1>6. FlattenSeq(Append(ff, F[x])) = FlattenSeq(ff) \o F[x]
  <2> HIDE DEF ff, gg
  <2> QED
    BY <1>1, FlattenAppend
<1> QED
  BY <1>5, <1>6 DEF Spread

LEMMA SpreadOne ==
  ASSUME NEW S, NEW T, NEW F \in [S -> Seq(T)], NEW x \in S
  PROVE  Spread(<<x>>, F) = F[x]
<1>1. <<>> \in Seq(S) /\ Append(<<>>, x) = <<x>> /\ F[x] \in Seq(T)
  OBVIOUS
<1>2. Spread(Append(<<>>, x), F) = Spread(<<>>, F) \o F[x]
  BY <1>1, SpreadAppend
<1>3. <<>> \o F[x] = F[x]
  BY <1>1
<1> QED
  BY <1>1, <1>2, <1>3, SpreadEmpty

LEMMA SpreadConcat ==
  ASSUME NEW S, NEW T, NEW F \in [S -> Seq(T)], NEW s \in Seq(S), NEW t \in Seq(S)
  PROVE  Spread(s \o t, F) = Spread(s, F) \o Spread(t, F)
<1> DEFINE P == {r \in Seq(S) : Spread(s \o r, F) = Spread(s, F) \o Spread(r, F)}
<1>0. ASSUME NEW r \in Seq(S) PROVE Spread(r, F) \in Seq(T)
  BY SpreadIsSeq
<1>1. <<>> \in P
  <2>1. <<>> \in Seq(S) /\ s \o <<>> = s
    OBVIOUS
  <2>2. Spread(s, F) \o <<>> = Spread(s, F)
    BY <1>0
  <2> QED
    BY <2>1, <2>2, SpreadEmpty
<1>2. \A r \in Seq(S), x \in S : r \in P => Append(r, x) \in P
  <2> SUFFICES ASSUME NEW r \in Seq(S), NEW x \in S, Spread(s \o r, F) = Spread(s, F) \o Spread(r, F)
               PROVE  Append(r, x) \in Seq(S)
                      /\ Spread(s \o Append(r, x), F) = Spread(s, F) \o Spread(Append(r, x), F)
    OBVIOUS
  <2>1. s \o Append(r, x) = Append(s \o r, x) /\ s \o r \in Seq(S) /\ Append(r, x) \in Seq(S)
    OBVIOUS
  <2>2. Spread(Append(s \o r, x), F) = Spread(s \o r, F) \o F[x]
    <3> DEFINE sr == s \o r
    <3>1. sr \in Seq(S)
      BY <2>1
    <3> HIDE DEF sr
    <3>2. Spread(Append(sr, x), F) = Spread(sr, F) \o F[x]
      BY <3>1, SpreadAppend
    <3> QED
      BY <3>2 DEF sr
  <2>3. Spread(Append(r, x), F) = Spread(r, F) \o F[x]
    BY SpreadAppend
  <2>4. (Spread(s, F) \o Spread(r, F)) \o F[x] = Spread(s, F) \o (Spread(r, F) \o F[x])
    <3>1. Spread(s, F) \in Seq(T) /\ Spread(r, F) \in Seq(T) /\ F[x] \in Seq(T)
      BY <1>0
    <3> QED
      BY <3>1, ConcatAssociative
  <2> QED
    BY <2>1, <2>2, <2>3, <2>4
<1>3. Seq(S) \subseteq P
  <2> HIDE DEF P
  <2> QED
    BY <1>1, <1>2, InductionOverSeq
<1> QED
  BY <1>3

\* Read of what was read.
Reads(F, S, T) == F \in [S -> Seq(T)]
Composed(H, G, F, R) == \A x \in R : H[x] = Spread(G[x], F)

LEMMA SpreadOfSpread ==
  ASSUME NEW R, NEW S, NEW T, NEW G, Reads(G, R, S), NEW F, Reads(F, S, T),
         NEW H, Reads(H, R, T), Composed(H, G, F, R), NEW s \in Seq(R)
  PROVE  Spread(Spread(s, G), F) = Spread(s, H)
<1>0. /\ G \in [R -> Seq(S)] /\ F \in [S -> Seq(T)] /\ H \in [R -> Seq(T)]
      /\ \A x \in R : H[x] = Spread(G[x], F)
  BY DEF Reads, Composed
<1> DEFINE P == {r \in Seq(R) : Spread(Spread(r, G), F) = Spread(r, H)}
<1>1. <<>> \in P
  <2>1. <<>> \in Seq(R)
    OBVIOUS
  <2> QED
    BY <2>1, SpreadEmpty
<1>2. \A r \in Seq(R), x \in R : r \in P => Append(r, x) \in P
  <2> SUFFICES ASSUME NEW r \in Seq(R), NEW x \in R, Spread(Spread(r, G), F) = Spread(r, H)
               PROVE  Append(r, x) \in Seq(R)
                      /\ Spread(Spread(Append(r, x), G), F) = Spread(Append(r, x), H)
    OBVIOUS
  <2>1. Spread(Append(r, x), G) = Spread(r, G) \o G[x]
    BY <1>0, SpreadAppend
  <2>2. Spread(r, G) \in Seq(S) /\ G[x] \in Seq(S)
    BY <1>0, SpreadIsSeq
  <2>3. Spread(Spread(r, G) \o G[x], F) = Spread(Spread(r, G), F) \o Spread(G[x], F)
    <3> DEFINE a == Spread(r, G)
               b == G[x]
    <3>1. a \in Seq(S) /\ b \in Seq(S)
      BY <2>2
    <3> HIDE DEF a, b
    <3>2. Spread(a \o b, F) = Spread(a, F) \o Spread(b, F)
      BY <1>0, <3>1, SpreadConcat
    <3> QED
      BY <3>2 DEF a, b
  <2>4. Spread(Append(r, x), H) = Spread(r, H) \o H[x]
    BY <1>0, SpreadAppend
  <2>5. Append(r, x) \in Seq(R)
    OBVIOUS
  <2> QED
    BY <1>0, <2>1, <2>3, <2>4, <2>5
<1>3. Seq(R) \subseteq P
  <2> HIDE DEF P
  <2> QED
    BY <1>1, <1>2, InductionOverSeq
<1> QED
  BY <1>3

\* FlattenSeq reads the elements themselves.
LEMMA FlattenIsSpread ==
  ASSUME NEW S, NEW ss \in Seq(Seq(S))
  PROVE  FlattenSeq(ss) = Spread(ss, [x \in Seq(S) |-> x])
<1> DEFINE self == [x \in Seq(S) |-> x]
           tt == [k \in 1 .. Len(ss) |-> self[ss[k]]]
<1>1. self \in [Seq(S) -> Seq(S)] /\ \A x \in Seq(S) : self[x] = x
  OBVIOUS
<1>2. tt \in Seq(Seq(S)) /\ Len(tt) = Len(ss)
  <2> HIDE DEF self
  <2> QED
    BY <1>1, MappedIsSeq
<1>3. ASSUME NEW k \in 1 .. Len(ss) PROVE tt[k] = ss[k]
  <2>1. ss[k] \in Seq(S)
    BY ElementOfSeq
  <2> HIDE DEF self
  <2> QED
    BY <1>1, <2>1
<1>4. tt = ss
  <2> HIDE DEF tt
  <2> QED
    BY <1>2, <1>3, SeqEqual
<1> QED
  BY <1>4 DEF Spread

LEMMA FlattenConcat ==
  ASSUME NEW S, NEW ss \in Seq(Seq(S)), NEW tt \in Seq(Seq(S))
  PROVE  FlattenSeq(ss \o tt) = FlattenSeq(ss) \o FlattenSeq(tt)
<1> DEFINE self == [x \in Seq(S) |-> x]
<1>1. self \in [Seq(S) -> Seq(S)]
  OBVIOUS
<1>2. ss \o tt \in Seq(Seq(S))
  OBVIOUS
<1>3. FlattenSeq(ss) = Spread(ss, self) /\ FlattenSeq(tt) = Spread(tt, self)
  BY FlattenIsSpread
<1>4. FlattenSeq(ss \o tt) = Spread(ss \o tt, self)
  BY <1>2, FlattenIsSpread
<1> HIDE DEF self
<1>5. Spread(ss \o tt, self) = Spread(ss, self) \o Spread(tt, self)
  BY <1>1, SpreadConcat
<1> QED
  BY <1>3, <1>4, <1>5

LEMMA FlattenOne ==
  ASSUME NEW S, NEW s \in Seq(S)
  PROVE  FlattenSeq(<<s>>) = s
<1>1. <<>> \in Seq(Seq(S)) /\ Append(<<>>, s) = <<s>> /\ <<>> \o s = s
  OBVIOUS
<1>2. FlattenSeq(<<>>) = <<>> /\ FlattenSeq(Append(<<>>, s)) = FlattenSeq(<<>>) \o s
  BY <1>1, FlattenAppend
<1> QED
  BY <1>1, <1>2

\* What is read of the pieces is what is read of the whole.
LEMMA SpreadOfPieces ==
  ASSUME NEW S, NEW T, NEW F \in [S -> Seq(T)], NEW ss \in Seq(Seq(S))
  PROVE  Spread(FlattenSeq(ss), F) = Spread(ss, [x \in Seq(S) |-> Spread(x, F)])
<1> DEFINE self == [x \in Seq(S) |-> x]
           whole == [x \in Seq(S) |-> Spread(x, F)]
<1>1. self \in [Seq(S) -> Seq(S)] /\ \A x \in Seq(S) : self[x] = x
  OBVIOUS
<1>2. FlattenSeq(ss) = Spread(ss, self)
  BY FlattenIsSpread
<1> HIDE DEF self
<1>4. whole \in [Seq(S) -> Seq(T)] /\ \A x \in Seq(S) : whole[x] = Spread(self[x], F)
  BY <1>1, SpreadIsSeq
<1>3. Spread(Spread(ss, self), F) = Spread(ss, whole)
  <2> HIDE DEF whole
  <2>1. Reads(self, Seq(S), S) /\ Reads(F, S, T) /\ Reads(whole, Seq(S), T)
        /\ Composed(whole, self, F, Seq(S))
    BY <1>1, <1>4 DEF Reads, Composed
  <2> QED
    BY <2>1, SpreadOfSpread
<1> QED
  BY <1>2, <1>3, <1>4

LEMMA FlattenSingles ==
  ASSUME NEW S, NEW s \in Seq(S)
  PROVE  /\ [k \in 1 .. Len(s) |-> <<s[k]>>] \in Seq(Seq(S))
         /\ FlattenSeq([k \in 1 .. Len(s) |-> <<s[k]>>]) = s
<1> DEFINE one == [x \in S |-> <<x>>]
           P == {r \in Seq(S) : Spread(r, one) = r}
<1>1. one \in [S -> Seq(S)] /\ \A x \in S : one[x] = <<x>>
  OBVIOUS
<1>2. [k \in 1 .. Len(s) |-> one[s[k]]] = [k \in 1 .. Len(s) |-> <<s[k]>>]
  BY ElementOfSeq
<1> HIDE DEF one
<1>3. <<>> \in P
  BY SpreadEmpty
<1>4. \A r \in Seq(S), x \in S : r \in P => Append(r, x) \in P
  <2> SUFFICES ASSUME NEW r \in Seq(S), NEW x \in S, Spread(r, one) = r
               PROVE  Append(r, x) \in Seq(S) /\ Spread(Append(r, x), one) = Append(r, x)
    OBVIOUS
  <2>1. Spread(Append(r, x), one) = r \o <<x>>
    BY <1>1, SpreadAppend
  <2>2. r \o <<x>> = Append(r, x) /\ Append(r, x) \in Seq(S)
    OBVIOUS
  <2> QED
    BY <2>1, <2>2
<1>5. Seq(S) \subseteq P
  <2> HIDE DEF P
  <2> QED
    BY <1>3, <1>4, InductionOverSeq
<1>6. Spread(s, one) = s
  BY <1>5
<1>7. [k \in 1 .. Len(s) |-> one[s[k]]] \in Seq(Seq(S))
  BY <1>1, MappedIsSeq
<1> QED
  BY <1>2, <1>6, <1>7 DEF Spread

-----------------------------------------------------------------------------
(* The matchers do not look beyond the text. *)

LEMMA RunWithin ==
  ASSUME NEW s \in Seq(Char), NEW k \in 1 .. Len(s) + 1, NEW C
  PROVE  Run(s, k, C) \in 0 .. Len(s) + 1 - k
<1> DEFINE J == {j \in k .. Len(s) + 1 : j > Len(s) \/ s[j] \notin C}
<1>1. J \in SUBSET Nat /\ Len(s) + 1 \in J
  BY LenProperties
<1>2. Min(J) \in J
  <2> HIDE DEF J
  <2> QED
    BY <1>1, LeastOf
<1>3. Min(J) \in k .. Len(s) + 1
  BY <1>2
<1>4. Run(s, k, C) = Min(J) - k
  BY DEF Run
<1> HIDE DEF J
<1> QED
  BY <1>3, <1>4, LenProperties

Within(s, k) == 0 .. Len(s) + 1 - k

LEMMA NumbersWithin ==
  ASSUME NEW s \in Seq(Char), NEW k \in 1 .. Len(s)
  PROVE  MatchNumbers(s, k) \in Within(s, k) /\ MatchCjk(s, k) \in Within(s, k)
<1>1. k \in 1 .. Len(s) + 1 /\ Len(s) \in Nat
  BY LenProperties
<1>2. Run(s, k, OfCat({"N"})) \in Within(s, k) /\ Run(s, k, Cjk) \in Within(s, k)
  BY <1>1, RunWithin DEF Within
<1> QED
  BY <1>1, <1>2 DEF MatchNumbers, MatchCjk, Shorter, Within

LEMMA WordsWithin ==
  ASSUME NEW s \in Seq(Char), NEW k \in 1 .. Len(s)
  PROVE  PunctWord(s, k) \in Within(s, k) /\ Word(s, k) \in Within(s, k)
<1>1. k \in 1 .. Len(s) + 1 /\ k + 1 \in 1 .. Len(s) + 1 /\ Len(s) \in Nat
  BY LenProperties
<1>2. /\ Run(s, k + 1, AsciiAlpha) \in 0 .. Len(s) + 1 - (k + 1)
      /\ Run(s, k + 1, Letter) \in 0 .. Len(s) + 1 - (k + 1)
      /\ Run(s, k, Letter) \in 0 .. Len(s) + 1 - k
  BY <1>1, RunWithin
<1> QED
  BY <1>1, <1>2 DEF PunctWord, Word, Within

LEMMA SignsWithin ==
  ASSUME NEW s \in Seq(Char), NEW k \in 1 .. Len(s)
  PROVE  Signs(s, k) \in Within(s, k)
<1> DEFINE from == IF At(s, k, Sign) THEN k ELSE k + 1
           end  == from + Run(s, from, Sign)
<1>1. k \in 1 .. Len(s) + 1 /\ k + 1 \in 1 .. Len(s) + 1 /\ Len(s) \in Nat
  BY LenProperties
<1>2. from \in k .. k + 1 /\ from \in 1 .. Len(s) + 1
  BY <1>1
<1>3. Run(s, from, Sign) \in 0 .. Len(s) + 1 - from
  <2> HIDE DEF from
  <2> QED
    BY <1>2, RunWithin
<1>4. end \in k .. Len(s) + 1 /\ end \in 1 .. Len(s) + 1
  <2> HIDE DEF from
  <2> QED
    BY <1>1, <1>2, <1>3
<1>5. Run(s, end, NewLine) \in 0 .. Len(s) + 1 - end
  <2> HIDE DEF end
  <2> QED
    BY <1>4, RunWithin
<1>6. Signs(s, k) = 0 \/ Signs(s, k) = end + Run(s, end, NewLine) - k
  BY DEF Signs
<1> HIDE DEF end
<1> QED
  BY <1>1, <1>4, <1>5, <1>6 DEF Within

LEMMA BlanksWithin ==
  ASSUME NEW s \in Seq(Char), NEW k \in 1 .. Len(s)
  PROVE  Lines(s, k) \in Within(s, k) /\ Blank(s, k) \in Within(s, k)
<1> DEFINE n == Run(s, k, White)
           breaks == {j \in k .. k + n - 1 : s[j] \in NewLine}
<1>1. k \in 1 .. Len(s) + 1 /\ Len(s) \in Nat
  BY LenProperties
<1>2. n \in 0 .. Len(s) + 1 - k
  BY <1>1, RunWithin
<1>3. Lines(s, k) = IF breaks = {} THEN 0 ELSE Max(breaks) - k + 1
  BY DEF Lines
<1>4. Blank(s, k) = IF k + n <= Len(s) /\ n >= 2 THEN n - 1 ELSE n
  BY DEF Blank
<1> HIDE DEF n
<1>5. ASSUME breaks # {} PROVE Max(breaks) \in k .. Len(s)
  <2>1. breaks \in SUBSET Nat /\ \A x \in breaks : x <= Len(s) /\ x \in k .. Len(s)
    BY <1>1, <1>2
  <2>2. Max(breaks) \in breaks
    <3> HIDE DEF breaks
    <3> QED
      BY <1>1, <1>5, <2>1, GreatestOf
  <2> QED
    BY <2>1, <2>2
<1> HIDE DEF breaks
<1> QED
  BY <1>1, <1>2, <1>3, <1>4, <1>5 DEF Within

LEMMA Pattern3Within ==
  ASSUME NEW s \in Seq(Char), NEW k \in 1 .. Len(s)
  PROVE  MatchPattern3(s, k) \in Within(s, k)
<1> DEFINE all == <<PunctWord(s, k), Word(s, k), Signs(s, k), Lines(s, k), Blank(s, k)>>
           hits == {a \in 1 .. 5 : all[a] > 0}
<1>1. \A a \in 1 .. 5 : all[a] \in Within(s, k)
  BY WordsWithin, SignsWithin, BlanksWithin
<1>2. MatchPattern3(s, k) = IF hits = {} THEN 0 ELSE all[Min(hits)]
  BY DEF MatchPattern3
<1>3. hits # {} => Min(hits) \in 1 .. 5
  <2>1. hits \in SUBSET Nat /\ hits \subseteq 1 .. 5
    OBVIOUS
  <2> HIDE DEF hits
  <2> QED
    BY <2>1, LeastOf
<1>4. 0 \in Within(s, k)
  BY LenProperties DEF Within
<1> HIDE DEF all, hits
<1> QED
  BY <1>1, <1>2, <1>3, <1>4

-----------------------------------------------------------------------------
(* The pieces are the text. *)

Splits(g, s, match) ==
  LET hit(k) == Min({j \in k .. Len(s) + 1 : j > Len(s) \/ match[j] > 0})
  IN  g = [k \in 1 .. Len(s) + 1 |->
            LET m == hit(k)
                between == IF k < m THEN <<SubSeq(s, k, m - 1)>> ELSE <<>>
            IN  IF m > Len(s) THEN between
                ELSE between \o <<SubSeq(s, m, m + match[m] - 1)>> \o g[m + match[m]]]

\* The parts of its equation.
Hit(s, match, k) == Min({j \in k .. Len(s) + 1 : j > Len(s) \/ match[j] > 0})
Between(s, match, k) ==
  IF k < Hit(s, match, k) THEN <<SubSeq(s, k, Hit(s, match, k) - 1)>> ELSE <<>>
Matched(s, match, k) ==
  SubSeq(s, Hit(s, match, k), Hit(s, match, k) + match[Hit(s, match, k)] - 1)

LEMMA HitWithin ==
  ASSUME NEW s \in Seq(Char), NEW match, NEW k \in 1 .. Len(s) + 1
  PROVE  /\ Hit(s, match, k) \in k .. Len(s) + 1
         /\ Hit(s, match, k) > Len(s) \/ match[Hit(s, match, k)] > 0
<1> DEFINE J == {j \in k .. Len(s) + 1 : j > Len(s) \/ match[j] > 0}
<1>1. J \in SUBSET Nat /\ Len(s) + 1 \in J
  BY LenProperties
<1>2. Min(J) \in J
  <2> HIDE DEF J
  <2> QED
    BY <1>1, LeastOf
<1>3. Hit(s, match, k) = Min(J)
  BY DEF Hit
<1> QED
  BY <1>2, <1>3

LEMMA SplitIs ==
  ASSUME NEW s \in Seq(Char), NEW match \in [1 .. Len(s) -> Nat],
         \A k \in 1 .. Len(s) : match[k] <= Len(s) + 1 - k
  PROVE  /\ SplitIsolated(s, match) \in Seq(Seq(Char))
         /\ FlattenSeq(SplitIsolated(s, match)) = s
<1> DEFINE n == Len(s) + 1
           hit(k) == Hit(s, match, k)
           between(k) == Between(s, match, k)
           end == {k \in 1 .. n : hit(k) > Len(s)}
           base == [k \in 1 .. n |-> between(k)]
           head == [k \in 1 .. n |-> between(k) \o <<Matched(s, match, k)>>]
           next == [k \in 1 .. n |-> hit(k) + match[hit(k)]]
           P == [k \in 1 .. n |-> {x \in Seq(Seq(Char)) : FlattenSeq(x) = SubSeq(s, k, Len(s))}]
<1>0. n \in Nat /\ Len(s) \in Nat
  BY LenProperties
<1>1. ASSUME NEW k \in 1 .. n
      PROVE  /\ hit(k) \in k .. n /\ hit(k) \in Nat
             /\ k \notin end => /\ hit(k) \in 1 .. Len(s) /\ match[hit(k)] \in Nat /\ match[hit(k)] > 0
                                /\ hit(k) + match[hit(k)] \in k + 1 .. n
  <2>1. hit(k) \in k .. n /\ (hit(k) > Len(s) \/ match[hit(k)] > 0)
    BY HitWithin
  <2>2. ASSUME k \notin end PROVE hit(k) \in 1 .. Len(s)
    BY <2>1, <2>2, <1>0
  <2>3. \A j \in 1 .. Len(s) : match[j] \in Nat /\ match[j] <= Len(s) + 1 - j
    OBVIOUS
  <2> HIDE DEF hit
  <2> QED
    BY <2>1, <2>2, <2>3, <1>0
<1>2. Follows(n, end, next)
  <2> SUFFICES ASSUME NEW k \in (1 .. n) \ end PROVE next[k] \in k + 1 .. n
    BY DEF Follows
  <2> HIDE DEF hit, end
  <2> QED
    BY <1>1
<1>3. \A g : Splits(g, s, match) <=> Chains(g, n, end, base, head, next)
  <2> SUFFICES ASSUME NEW g PROVE Splits(g, s, match) <=> Chains(g, n, end, base, head, next)
    OBVIOUS
  <2> DEFINE one == [k \in 1 .. n |->
                IF hit(k) > Len(s) THEN between(k)
                ELSE between(k) \o <<Matched(s, match, k)>> \o g[hit(k) + match[hit(k)]]]
             two == [k \in 1 .. n |-> IF k \in end THEN base[k] ELSE head[k] \o g[next[k]]]
  <2>1. Splits(g, s, match) <=> g = one
    BY DEF Splits, Hit, Between, Matched
  <2>2. one = two
    <3> SUFFICES ASSUME NEW k \in 1 .. n
                 PROVE  (IF hit(k) > Len(s) THEN between(k)
                         ELSE between(k) \o <<Matched(s, match, k)>> \o g[hit(k) + match[hit(k)]])
                        = IF k \in end THEN base[k] ELSE head[k] \o g[next[k]]
      OBVIOUS
    <3>1. base[k] = between(k) /\ head[k] = between(k) \o <<Matched(s, match, k)>>
          /\ next[k] = hit(k) + match[hit(k)] /\ (k \in end <=> hit(k) > Len(s))
      OBVIOUS
    <3> HIDE DEF base, head, next, end, hit, between
    <3> QED
      BY <3>1
  <2>3. Chains(g, n, end, base, head, next) <=> g = two
    BY DEF Chains
  <2> HIDE DEF one, two
  <2> QED
    BY <2>1, <2>2, <2>3
<1>4. PICK g : SplitIsolated(s, match) = g[1] /\ Chains(g, n, end, base, head, next)
  <2> DEFINE g == CHOOSE g : Splits(g, s, match)
  <2>1. SplitIsolated(s, match) = g[1]
    BY Zenon DEF SplitIsolated, Splits
  <2>2. \E f : Splits(f, s, match)
    <3>1. \E f : Chains(f, n, end, base, head, next)
      <4> HIDE DEF n, end, base, head, next
      <4> QED
        BY <1>0, <1>2, ChainsExists
    <3> HIDE DEF n, end, base, head, next
    <3> QED
      BY <3>1, <1>3
  <2>3. Splits(g, s, match)
    BY <2>2
  <2> HIDE DEF n, end, base, head, next, g
  <2> QED
    BY <2>1, <2>3, <1>3
<1>5. ASSUME NEW k \in 1 .. n
      PROVE  between(k) \in Seq(Seq(Char)) /\ FlattenSeq(between(k)) = SubSeq(s, k, hit(k) - 1)
  <2>1. hit(k) \in k .. n
    BY <1>1
  <2>2. between(k) = IF k < hit(k) THEN <<SubSeq(s, k, hit(k) - 1)>> ELSE <<>>
    BY DEF Between
  <2>3. SubSeq(s, k, hit(k) - 1) \in Seq(Char)
    <3> HIDE DEF hit
    <3>1. k \in Int /\ hit(k) - 1 \in Int /\ \A j \in k .. hit(k) - 1 : j \in 1 .. Len(s)
      BY <2>1, <1>0
    <3>2. \A j \in k .. hit(k) - 1 : s[j] \in Char
      BY <3>1, ElementOfSeq
    <3> QED
      BY <3>1, <3>2, SubSeqProperties
  <2> HIDE DEF hit, between
  <2>4. CASE k < hit(k)
    <3>1. <<SubSeq(s, k, hit(k) - 1)>> \in Seq(Seq(Char))
      BY <2>3
    <3> QED
      BY <2>2, <2>3, <2>4, <3>1, FlattenOne
  <2>5. CASE ~(k < hit(k))
    <3>1. hit(k) - 1 < k /\ k \in Int /\ hit(k) - 1 \in Int
      BY <2>1, <2>5, <1>0
    <3>2. SubSeq(s, k, hit(k) - 1) = <<>>
      BY <3>1, SubSeqEmpty
    <3>3. FlattenSeq(<<>>) = <<>> /\ <<>> \in Seq(Seq(Char))
      BY DEF FlattenSeq
    <3> QED
      BY <2>2, <2>5, <3>2, <3>3
  <2> QED
    BY <2>4, <2>5
<1>6. ASSUME NEW k \in (1 .. n) \cap end PROVE base[k] \in P[k]
  <2>1. hit(k) - 1 = Len(s)
    <3>1. hit(k) \in k .. n /\ hit(k) > Len(s)
      BY <1>1
    <3> HIDE DEF hit
    <3> QED
      BY <3>1, <1>0
  <2>2. base[k] = between(k) /\ P[k] = {x \in Seq(Seq(Char)) : FlattenSeq(x) = SubSeq(s, k, Len(s))}
    OBVIOUS
  <2> HIDE DEF base, P, between, hit, end
  <2> QED
    BY <2>1, <2>2, <1>5
<1>7. ASSUME NEW k \in (1 .. n) \ end, NEW x \in P[next[k]] PROVE head[k] \o x \in P[k]
  <2> DEFINE m == hit(k)
             e == m + match[m]
             piece == SubSeq(s, m, e - 1)
  <2>1. m \in k .. n /\ m \in 1 .. Len(s) /\ match[m] \in Nat /\ match[m] > 0 /\ e \in k + 1 .. n
    BY <1>1
  <2>2. next[k] = e /\ head[k] = between(k) \o <<piece>>
    <3>2. k \in 1 .. n
      OBVIOUS
    <3>3. next[k] = hit(k) + match[hit(k)]
      <4> HIDE DEF hit, n
      <4> QED
        BY <3>2
    <3>4. head[k] = between(k) \o <<Matched(s, match, k)>>
      <4> HIDE DEF hit, n, between
      <4> QED
        BY <3>2
    <3>5. Matched(s, match, k) = piece
      <4>1. e - 1 = m + (match[m] - 1)
        <5> HIDE DEF hit, n
        <5> QED
          BY <2>1, <1>1
      <4>2. Matched(s, match, k) = SubSeq(s, m, m + (match[m] - 1))
        BY Zenon DEF Matched
      <4> HIDE DEF e, m, hit
      <4> QED
        BY <4>1, <4>2
    <3> HIDE DEF next, head, between, piece
    <3> QED
      BY <3>3, <3>4, <3>5
  <2> HIDE DEF e
  <2>3. x \in Seq(Seq(Char)) /\ FlattenSeq(x) = SubSeq(s, e, Len(s))
    <3>1. e \in 1 .. n
      BY <2>1, <1>0
    <3>2. P[e] = {y \in Seq(Seq(Char)) : FlattenSeq(y) = SubSeq(s, e, Len(s))}
      BY <3>1
    <3> HIDE DEF P, next
    <3> QED
      BY <2>2, <3>2
  <2>4. between(k) \in Seq(Seq(Char)) /\ FlattenSeq(between(k)) = SubSeq(s, k, m - 1)
    BY <1>5
  <2> HIDE DEF m, piece, between, hit
  <2>5. k \in 1 .. n /\ e - 1 \in 1 .. Len(s) /\ m <= e - 1 /\ e - 1 \in m - 1 .. Len(s) /\ m - 1 \in k - 1 .. e - 1
    BY <2>1, <1>0 DEF e
  <2>6. piece \in Seq(Char)
    <3>1. m \in Int /\ e - 1 \in Int /\ \A j \in m .. e - 1 : j \in 1 .. Len(s)
      BY <2>1, <2>5, <1>0
    <3>2. \A j \in m .. e - 1 : s[j] \in Char
      BY <3>1, ElementOfSeq
    <3> QED
      BY <3>1, <3>2, SubSeqProperties DEF piece
  <2>7. <<piece>> \in Seq(Seq(Char)) /\ between(k) \o <<piece>> \in Seq(Seq(Char))
        /\ (between(k) \o <<piece>>) \o x \in Seq(Seq(Char))
    BY <2>3, <2>4, <2>6
  <2>8. FlattenSeq((between(k) \o <<piece>>) \o x)
          = (SubSeq(s, k, m - 1) \o piece) \o SubSeq(s, e, Len(s))
    <3>1. FlattenSeq((between(k) \o <<piece>>) \o x) = FlattenSeq(between(k) \o <<piece>>) \o FlattenSeq(x)
      BY <2>3, <2>7, FlattenConcat
    <3>2. FlattenSeq(between(k) \o <<piece>>) = FlattenSeq(between(k)) \o FlattenSeq(<<piece>>)
      BY <2>4, <2>7, FlattenConcat
    <3>3. FlattenSeq(<<piece>>) = piece
      BY <2>6, FlattenOne
    <3> QED
      BY <3>1, <3>2, <3>3, <2>3, <2>4
  <2>9. SubSeq(s, k, m - 1) \o piece = SubSeq(s, k, e - 1)
    <3>1. k \in 1 .. Len(s) + 1 /\ m - 1 \in k - 1 .. Len(s) /\ e - 1 \in m - 1 .. Len(s) /\ (m - 1) + 1 = m
      BY <2>1, <2>5, <1>0
    <3>2. SubSeq(s, k, m - 1) \o SubSeq(s, (m - 1) + 1, e - 1) = SubSeq(s, k, e - 1)
      BY <3>1, ConcatAdjacentSubSeq
    <3> QED
      BY <3>1, <3>2 DEF piece
  <2>10. SubSeq(s, k, e - 1) \o SubSeq(s, e, Len(s)) = SubSeq(s, k, Len(s))
    <3>1. k \in 1 .. Len(s) + 1 /\ e - 1 \in k - 1 .. Len(s) /\ Len(s) \in e - 1 .. Len(s) /\ (e - 1) + 1 = e
      BY <2>1, <2>5, <1>0
    <3>2. SubSeq(s, k, e - 1) \o SubSeq(s, (e - 1) + 1, Len(s)) = SubSeq(s, k, Len(s))
      BY <3>1, ConcatAdjacentSubSeq
    <3> QED
      BY <3>1, <3>2
  <2>11. P[k] = {y \in Seq(Seq(Char)) : FlattenSeq(y) = SubSeq(s, k, Len(s))}
    BY <2>5
  <2> HIDE DEF P, head
  <2> QED
    BY <2>2, <2>7, <2>8, <2>9, <2>10, <2>11
<1>8. g[1] \in P[1]
  <2>1. \A k \in 1 .. n : g[k] \in P[k]
    <3> HIDE DEF n, end, base, head, next, P
    <3> QED
      BY <1>0, <1>2, <1>4, <1>6, <1>7, InductionOverChain
  <2>2. 1 \in 1 .. n
    BY <1>0
  <2> HIDE DEF P
  <2> QED
    BY <2>1, <2>2
<1>9. P[1] = {x \in Seq(Seq(Char)) : FlattenSeq(x) = SubSeq(s, 1, Len(s))}
  BY <1>0
<1>10. SubSeq(s, 1, Len(s)) = s
  BY SubSeqFull
<1> HIDE DEF P
<1> QED
  BY <1>4, <1>8, <1>9, <1>10

\* Splitting every piece leaves the text what it is.
LEMMA SplitKeeps ==
  ASSUME NEW split, Reads(split, Seq(Char), Seq(Char)),
         \A x \in Seq(Char) : FlattenSeq(split[x]) = x,
         NEW ss \in Seq(Seq(Char))
  PROVE  /\ Spread(ss, split) \in Seq(Seq(Char))
         /\ FlattenSeq(Spread(ss, split)) = FlattenSeq(ss)
<1> DEFINE self == [x \in Seq(Char) |-> x]
<1>0. split \in [Seq(Char) -> Seq(Seq(Char))]
  BY DEF Reads
<1>1. Spread(ss, split) \in Seq(Seq(Char))
  <2> DEFINE A == Seq(Char)
  <2>1. split \in [A -> Seq(A)] /\ ss \in Seq(A)
    BY <1>0
  <2> HIDE DEF A
  <2>2. Spread(ss, split) \in Seq(A)
    BY <2>1, SpreadIsSeq
  <2> QED
    BY <2>2 DEF A
<1>2. FlattenSeq(Spread(ss, split)) = Spread(Spread(ss, split), self)
  BY <1>1, FlattenIsSpread
<1>3. FlattenSeq(ss) = Spread(ss, self)
  BY FlattenIsSpread
<1>4. Reads(self, Seq(Char), Char)
  BY DEF Reads
<1>5. Composed(self, split, self, Seq(Char))
  <2> SUFFICES ASSUME NEW x \in Seq(Char) PROVE self[x] = Spread(split[x], self)
    <3> HIDE DEF self
    <3> QED
      BY DEF Composed
  <2>1. split[x] \in Seq(Seq(Char))
    BY <1>0
  <2>2. FlattenSeq(split[x]) = Spread(split[x], self)
    <3> DEFINE y == split[x]
    <3>1. y \in Seq(Seq(Char))
      BY <2>1
    <3> HIDE DEF y
    <3>2. FlattenSeq(y) = Spread(y, self)
      BY <3>1, FlattenIsSpread
    <3> QED
      BY <3>2 DEF y
  <2>3. self[x] = x
    OBVIOUS
  <2> HIDE DEF self
  <2> QED
    BY <2>2, <2>3
<1> HIDE DEF self
<1>6. Spread(Spread(ss, split), self) = Spread(ss, self)
  BY <1>4, <1>5, SpreadOfSpread
<1> QED
  BY <1>1, <1>2, <1>3, <1>6

\* A matcher that stays within the text splits a piece into what it is.
LEMMA PassKeeps ==
  ASSUME NEW match, NEW split,
         split = [x \in Seq(Char) |-> SplitIsolated(x, match[x])],
         \A x \in Seq(Char) : match[x] \in [1 .. Len(x) -> Nat],
         \A x \in Seq(Char) : \A k \in 1 .. Len(x) : match[x][k] \in Within(x, k),
         NEW ss \in Seq(Seq(Char))
  PROVE  /\ Spread(ss, split) \in Seq(Seq(Char))
         /\ FlattenSeq(Spread(ss, split)) = FlattenSeq(ss)
<1>1. ASSUME NEW x \in Seq(Char)
      PROVE  SplitIsolated(x, match[x]) \in Seq(Seq(Char)) /\ FlattenSeq(SplitIsolated(x, match[x])) = x
  <2> DEFINE one == match[x]
  <2>1. one \in [1 .. Len(x) -> Nat] /\ \A k \in 1 .. Len(x) : one[k] <= Len(x) + 1 - k
    BY LenProperties DEF Within
  <2> HIDE DEF one
  <2>2. SplitIsolated(x, one) \in Seq(Seq(Char)) /\ FlattenSeq(SplitIsolated(x, one)) = x
    BY <2>1, SplitIs
  <2> QED
    BY <2>2 DEF one
<1>2. Reads(split, Seq(Char), Seq(Char)) /\ \A x \in Seq(Char) : FlattenSeq(split[x]) = x
  BY <1>1 DEF Reads
<1> QED
  BY <1>2, SplitKeeps

\* Pretokenize loses no character, repeats none and moves none: whatever the
\* three patterns match, its pieces one after another are the text
\* (tokenizer.cpp, split_isolated and pretokenize).
THEOREM PiecesAreText ==
  ASSUME NEW s \in Seq(Char)
  PROVE  Pretokenize(s) \in Seq(Seq(Char)) /\ FlattenSeq(Pretokenize(s)) = s
<1> DEFINE numbers == [x \in Seq(Char) |-> [k \in DOMAIN x |-> MatchNumbers(x, k)]]
           cjk == [x \in Seq(Char) |-> [k \in DOMAIN x |-> MatchCjk(x, k)]]
           words == [x \in Seq(Char) |-> [k \in DOMAIN x |-> MatchPattern3(x, k)]]
           byNumbers == [x \in Seq(Char) |-> SplitIsolated(x, numbers[x])]
           byCjk == [x \in Seq(Char) |-> SplitIsolated(x, cjk[x])]
           byWords == [x \in Seq(Char) |-> SplitIsolated(x, words[x])]
<1>0. \A x \in Seq(Char) : DOMAIN x = 1 .. Len(x)
  BY LenProperties
<1>1. ASSUME NEW x \in Seq(Char), NEW k \in 1 .. Len(x)
      PROVE  /\ numbers[x][k] \in Within(x, k) /\ cjk[x][k] \in Within(x, k)
             /\ words[x][k] \in Within(x, k)
  <2>1. numbers[x][k] = MatchNumbers(x, k) /\ cjk[x][k] = MatchCjk(x, k)
        /\ words[x][k] = MatchPattern3(x, k)
    BY <1>0
  <2> HIDE DEF numbers, cjk, words
  <2> QED
    BY <2>1, NumbersWithin, Pattern3Within
<1>2. ASSUME NEW x \in Seq(Char)
      PROVE  /\ numbers[x] \in [1 .. Len(x) -> Nat] /\ cjk[x] \in [1 .. Len(x) -> Nat]
             /\ words[x] \in [1 .. Len(x) -> Nat]
  <2>1. \A k \in 1 .. Len(x) : Within(x, k) \subseteq Nat
    BY DEF Within
  <2>2. /\ numbers[x] = [k \in 1 .. Len(x) |-> numbers[x][k]]
        /\ cjk[x] = [k \in 1 .. Len(x) |-> cjk[x][k]]
        /\ words[x] = [k \in 1 .. Len(x) |-> words[x][k]]
    BY <1>0
  <2> HIDE DEF numbers, cjk, words
  <2> QED
    BY <2>1, <2>2, <1>1
<1>3. ASSUME NEW ss \in Seq(Seq(Char))
      PROVE  /\ SplitAll(ss, MatchNumbers) = Spread(ss, byNumbers)
             /\ SplitAll(ss, MatchCjk) = Spread(ss, byCjk)
             /\ SplitAll(ss, MatchPattern3) = Spread(ss, byWords)
  <2>1. \A k \in 1 .. Len(ss) :
          /\ byNumbers[ss[k]] = SplitIsolated(ss[k], [j \in DOMAIN ss[k] |-> MatchNumbers(ss[k], j)])
          /\ byCjk[ss[k]] = SplitIsolated(ss[k], [j \in DOMAIN ss[k] |-> MatchCjk(ss[k], j)])
          /\ byWords[ss[k]] = SplitIsolated(ss[k], [j \in DOMAIN ss[k] |-> MatchPattern3(ss[k], j)])
    BY ElementOfSeq
  <2> HIDE DEF byNumbers, byCjk, byWords
  <2>2. /\ [k \in 1 .. Len(ss) |-> byNumbers[ss[k]]]
             = [k \in 1 .. Len(ss) |-> SplitIsolated(ss[k], [j \in DOMAIN ss[k] |-> MatchNumbers(ss[k], j)])]
        /\ [k \in 1 .. Len(ss) |-> byCjk[ss[k]]]
             = [k \in 1 .. Len(ss) |-> SplitIsolated(ss[k], [j \in DOMAIN ss[k] |-> MatchCjk(ss[k], j)])]
        /\ [k \in 1 .. Len(ss) |-> byWords[ss[k]]]
             = [k \in 1 .. Len(ss) |-> SplitIsolated(ss[k], [j \in DOMAIN ss[k] |-> MatchPattern3(ss[k], j)])]
    BY <2>1
  <2> QED
    BY <2>2, Zenon DEF SplitAll, Spread
<1> HIDE DEF numbers, cjk, words
<1>4. ASSUME NEW ss \in Seq(Seq(Char))
      PROVE  /\ Spread(ss, byNumbers) \in Seq(Seq(Char)) /\ FlattenSeq(Spread(ss, byNumbers)) = FlattenSeq(ss)
             /\ Spread(ss, byCjk) \in Seq(Seq(Char)) /\ FlattenSeq(Spread(ss, byCjk)) = FlattenSeq(ss)
             /\ Spread(ss, byWords) \in Seq(Seq(Char)) /\ FlattenSeq(Spread(ss, byWords)) = FlattenSeq(ss)
  <2>1. Spread(ss, byNumbers) \in Seq(Seq(Char)) /\ FlattenSeq(Spread(ss, byNumbers)) = FlattenSeq(ss)
    BY <1>1, <1>2, PassKeeps
  <2>2. Spread(ss, byCjk) \in Seq(Seq(Char)) /\ FlattenSeq(Spread(ss, byCjk)) = FlattenSeq(ss)
    BY <1>1, <1>2, PassKeeps
  <2>3. Spread(ss, byWords) \in Seq(Seq(Char)) /\ FlattenSeq(Spread(ss, byWords)) = FlattenSeq(ss)
    BY <1>1, <1>2, PassKeeps
  <2> QED
    BY <2>1, <2>2, <2>3
<1> HIDE DEF byNumbers, byCjk, byWords
<1> DEFINE s1 == SplitAll(<<s>>, MatchNumbers)
           s2 == SplitAll(s1, MatchCjk)
           s3 == SplitAll(s2, MatchPattern3)
<1>5. <<s>> \in Seq(Seq(Char)) /\ FlattenSeq(<<s>>) = s
  BY FlattenOne
<1>6. s1 \in Seq(Seq(Char)) /\ FlattenSeq(s1) = s
  <2>1. s1 = Spread(<<s>>, byNumbers)
    BY <1>3, <1>5
  <2> HIDE DEF s1
  <2> QED
    BY <2>1, <1>4, <1>5
<1>7. s2 \in Seq(Seq(Char)) /\ FlattenSeq(s2) = s
  <2> HIDE DEF s1
  <2>1. s2 = Spread(s1, byCjk)
    BY <1>3, <1>6
  <2> HIDE DEF s2
  <2> QED
    BY <2>1, <1>4, <1>6
<1>8. s3 \in Seq(Seq(Char)) /\ FlattenSeq(s3) = s
  <2> HIDE DEF s2
  <2>1. s3 = Spread(s2, byWords)
    BY <1>3, <1>7
  <2> HIDE DEF s3
  <2> QED
    BY <2>1, <1>4, <1>7
<1>9. Pretokenize(s) = s3
  BY DEF Pretokenize
<1> HIDE DEF s3
<1> QED
  BY <1>8, <1>9

-----------------------------------------------------------------------------
(* The symbols are the bytes. *)

Merges(g, syms, pair) ==
  g = [k \in 1 .. Len(syms) + 1 |->
        IF k > Len(syms) THEN <<>>
        ELSE IF k < Len(syms) /\ Pair(syms, k) = pair
               THEN <<pair[1] \o pair[2]>> \o g[k + 2]
               ELSE <<syms[k]>> \o g[k + 1]]

LEMMA MergeKeeps ==
  ASSUME NEW syms \in Seq(Seq(Byte)), NEW pair
  PROVE  /\ MergeAll(syms, pair) \in Seq(Seq(Byte))
         /\ FlattenSeq(MergeAll(syms, pair)) = FlattenSeq(syms)
<1> DEFINE n == Len(syms) + 1
           found(k) == k < Len(syms) /\ Pair(syms, k) = pair
           end == {n}
           base == [k \in 1 .. n |-> <<>>]
           head == [k \in 1 .. n |-> IF found(k) THEN <<pair[1] \o pair[2]>> ELSE <<syms[k]>>]
           next == [k \in 1 .. n |-> IF found(k) THEN k + 2 ELSE k + 1]
           rest(k) == FlattenSeq(SubSeq(syms, k, Len(syms)))
           P == [k \in 1 .. n |-> {x \in Seq(Seq(Byte)) : FlattenSeq(x) = rest(k)}]
<1>0. n \in Nat /\ Len(syms) \in Nat
  BY LenProperties
<1>1. Follows(n, end, next)
  <2> SUFFICES ASSUME NEW k \in (1 .. n) \ end PROVE next[k] \in k + 1 .. n
    BY DEF Follows
  <2>1. k \in 1 .. Len(syms)
    BY <1>0
  <2>2. next[k] = IF found(k) THEN k + 2 ELSE k + 1
    OBVIOUS
  <2>3. found(k) => k < Len(syms)
    OBVIOUS
  <2> HIDE DEF found, next
  <2> QED
    BY <2>1, <2>2, <2>3, <1>0
<1>2. \A g : Merges(g, syms, pair) <=> Chains(g, n, end, base, head, next)
  <2> SUFFICES ASSUME NEW g PROVE Merges(g, syms, pair) <=> Chains(g, n, end, base, head, next)
    OBVIOUS
  <2> DEFINE one == [k \in 1 .. n |->
                       IF k > Len(syms) THEN <<>>
                       ELSE IF found(k) THEN <<pair[1] \o pair[2]>> \o g[k + 2]
                       ELSE <<syms[k]>> \o g[k + 1]]
             two == [k \in 1 .. n |-> IF k \in end THEN base[k] ELSE head[k] \o g[next[k]]]
  <2>1. Merges(g, syms, pair) <=> g = one
    BY DEF Merges
  <2>2. one = two
    <3> SUFFICES ASSUME NEW k \in 1 .. n
                 PROVE  (IF k > Len(syms) THEN <<>>
                         ELSE IF found(k) THEN <<pair[1] \o pair[2]>> \o g[k + 2]
                         ELSE <<syms[k]>> \o g[k + 1])
                        = IF k \in end THEN base[k] ELSE head[k] \o g[next[k]]
      OBVIOUS
    <3>1. base[k] = <<>>
          /\ head[k] = (IF found(k) THEN <<pair[1] \o pair[2]>> ELSE <<syms[k]>>)
          /\ next[k] = (IF found(k) THEN k + 2 ELSE k + 1)
      OBVIOUS
    <3>2. k \in end <=> k > Len(syms)
      BY <1>0
    <3> HIDE DEF base, head, next, end, found
    <3> QED
      BY <3>1, <3>2
  <2>3. Chains(g, n, end, base, head, next) <=> g = two
    BY DEF Chains
  <2> HIDE DEF one, two
  <2> QED
    BY <2>1, <2>2, <2>3
<1>3. PICK g : MergeAll(syms, pair) = g[1] /\ Chains(g, n, end, base, head, next)
  <2> DEFINE g == CHOOSE g : Merges(g, syms, pair)
  <2>1. MergeAll(syms, pair) = g[1]
    BY Zenon DEF MergeAll, Merges
  <2>2. \E f : Merges(f, syms, pair)
    <3>1. \E f : Chains(f, n, end, base, head, next)
      <4> HIDE DEF n, end, base, head, next
      <4> QED
        BY <1>0, <1>1, ChainsExists
    <3> HIDE DEF n, end, base, head, next
    <3> QED
      BY <3>1, <1>2
  <2>3. Merges(g, syms, pair)
    BY <2>2
  <2> HIDE DEF n, end, base, head, next, g
  <2> QED
    BY <2>1, <2>3, <1>2
<1>4. ASSUME NEW k \in 1 .. n
      PROVE  SubSeq(syms, k, Len(syms)) \in Seq(Seq(Byte)) /\ rest(k) \in Seq(Byte)
  <2>1. k \in Int /\ Len(syms) \in Int /\ \A j \in k .. Len(syms) : j \in 1 .. Len(syms)
    BY <1>0
  <2>2. \A j \in k .. Len(syms) : syms[j] \in Seq(Byte)
    BY <2>1, ElementOfSeq
  <2>3. SubSeq(syms, k, Len(syms)) \in Seq(Seq(Byte))
    BY <2>1, <2>2, SubSeqProperties
  <2> QED
    BY <2>3, FlattenIsSeq
<1>5. ASSUME NEW k \in 1 .. Len(syms)
      PROVE  rest(k) = syms[k] \o rest(k + 1) /\ syms[k] \in Seq(Byte) /\ k + 1 \in 1 .. n
  <2>1. k + 1 \in 1 .. n /\ Len(syms) \in k .. Len(syms)
    BY <1>0
  <2>2. SubSeq(syms, k, Len(syms)) = <<syms[k]>> \o SubSeq(syms, k + 1, Len(syms))
    BY <2>1, SubSeqRecursiveFirst
  <2>3. syms[k] \in Seq(Byte)
    BY ElementOfSeq
  <2> DEFINE a == syms[k]
             tail == SubSeq(syms, k + 1, Len(syms))
  <2>4. a \in Seq(Byte) /\ <<a>> \in Seq(Seq(Byte)) /\ tail \in Seq(Seq(Byte))
    BY <2>1, <2>3, <1>4
  <2> HIDE DEF a, tail
  <2>5. FlattenSeq(<<a>> \o tail) = FlattenSeq(<<a>>) \o FlattenSeq(tail)
    BY <2>4, FlattenConcat
  <2>6. FlattenSeq(<<a>>) = a
    BY <2>4, FlattenOne
  <2>7. FlattenSeq(<<a>> \o tail) = a \o FlattenSeq(tail)
    BY <2>5, <2>6
  <2> QED
    BY <2>1, <2>2, <2>3, <2>7 DEF a, tail
<1>6. ASSUME NEW k \in (1 .. n) \cap end PROVE base[k] \in P[k]
  <2>1. k = n /\ n \in 1 .. n /\ Len(syms) < n /\ n \in Int /\ Len(syms) \in Int
    BY <1>0
  <2> HIDE DEF n
  <2>2. SubSeq(syms, n, Len(syms)) = <<>>
    BY <2>1, SubSeqEmpty
  <2>3. FlattenSeq(<<>>) = <<>> /\ <<>> \in Seq(Seq(Byte))
    BY DEF FlattenSeq
  <2>4. base[n] = <<>> /\ P[n] = {x \in Seq(Seq(Byte)) : FlattenSeq(x) = FlattenSeq(SubSeq(syms, n, Len(syms)))}
    BY <2>1
  <2> HIDE DEF base, P
  <2> QED
    BY <2>1, <2>2, <2>3, <2>4
<1>7. ASSUME NEW k \in (1 .. n) \ end, NEW x \in P[next[k]] PROVE head[k] \o x \in P[k]
  <2>1. k \in 1 .. Len(syms) /\ k \in 1 .. n /\ next[k] \in 1 .. n
    <3>1. next[k] \in k + 1 .. n
      BY <1>1 DEF Follows
    <3> HIDE DEF next
    <3> QED
      BY <3>1, <1>0
  <2>2. head[k] = (IF found(k) THEN <<pair[1] \o pair[2]>> ELSE <<syms[k]>>)
        /\ next[k] = (IF found(k) THEN k + 2 ELSE k + 1)
    BY <2>1
  <2>3. x \in Seq(Seq(Byte)) /\ FlattenSeq(x) = rest(next[k])
    <3>1. P[next[k]] = {y \in Seq(Seq(Byte)) : FlattenSeq(y) = rest(next[k])}
      <4> HIDE DEF next
      <4> QED
        BY <2>1
    <3> HIDE DEF P, next, rest
    <3> QED
      BY <3>1
  <2>4. P[k] = {y \in Seq(Seq(Byte)) : FlattenSeq(y) = rest(k)}
    <3> HIDE DEF rest
    <3> QED
      BY <2>1
  <2>5. \E a \in Seq(Byte) : head[k] = <<a>> /\ a \o rest(next[k]) = rest(k)
    <3>1. CASE found(k)
      <4>1. k < Len(syms) /\ pair[1] = syms[k] /\ pair[2] = syms[k + 1]
        BY <3>1 DEF Pair
      <4>2. k + 1 \in 1 .. Len(syms) /\ (k + 1) + 1 = k + 2 /\ k + 2 \in 1 .. n
        BY <4>1, <2>1, <1>0
      <4>3. rest(k) = syms[k] \o rest(k + 1) /\ rest(k + 1) = syms[k + 1] \o rest(k + 2)
            /\ syms[k] \in Seq(Byte) /\ syms[k + 1] \in Seq(Byte)
        <5> HIDE DEF rest
        <5>1. rest(k + 1) = syms[k + 1] \o rest((k + 1) + 1) /\ syms[k + 1] \in Seq(Byte)
          BY <4>2, <1>5
        <5> QED
          BY <5>1, <4>2, <2>1, <1>5
      <4>4. rest(k + 2) \in Seq(Byte)
        <5> HIDE DEF rest
        <5> QED
          BY <4>2, <1>4
      <4> HIDE DEF rest, head, next, found
      <4>5. (syms[k] \o syms[k + 1]) \o rest(k + 2) = syms[k] \o (syms[k + 1] \o rest(k + 2))
        <5> DEFINE a == syms[k]
                   b == syms[k + 1]
                   c == rest(k + 2)
        <5>1. a \in Seq(Byte) /\ b \in Seq(Byte) /\ c \in Seq(Byte)
          BY <4>3, <4>4
        <5> HIDE DEF a, b, c
        <5>2. (a \o b) \o c = a \o (b \o c)
          BY <5>1, ConcatAssociative
        <5> QED
          BY <5>2 DEF a, b, c
      <4>6. syms[k] \o syms[k + 1] \in Seq(Byte)
        BY <4>3
      <4> QED
        BY <3>1, <4>1, <4>3, <4>5, <4>6, <2>2
    <3>2. CASE ~found(k)
      <4> HIDE DEF rest, head, next, found
      <4> QED
        BY <3>2, <2>1, <2>2, <1>5
    <3> QED
      BY <3>1, <3>2
  <2> HIDE DEF P, head, next, rest, found
  <2>6. PICK a \in Seq(Byte) : head[k] = <<a>> /\ a \o rest(next[k]) = rest(k)
    BY <2>5
  <2>7. <<a>> \in Seq(Seq(Byte)) /\ <<a>> \o x \in Seq(Seq(Byte))
    BY <2>3
  <2>8. FlattenSeq(<<a>> \o x) = a \o FlattenSeq(x)
    <3>1. FlattenSeq(<<a>> \o x) = FlattenSeq(<<a>>) \o FlattenSeq(x)
      BY <2>3, <2>7, FlattenConcat
    <3>2. FlattenSeq(<<a>>) = a
      BY FlattenOne
    <3> QED
      BY <3>1, <3>2
  <2> QED
    BY <2>3, <2>4, <2>6, <2>7, <2>8
<1>8. g[1] \in P[1]
  <2>1. \A k \in 1 .. n : g[k] \in P[k]
    <3> HIDE DEF n, end, base, head, next, P
    <3> QED
      BY <1>0, <1>1, <1>3, <1>6, <1>7, InductionOverChain
  <2>2. 1 \in 1 .. n
    BY <1>0
  <2> HIDE DEF P
  <2> QED
    BY <2>1, <2>2
<1>9. P[1] = {x \in Seq(Seq(Byte)) : FlattenSeq(x) = FlattenSeq(SubSeq(syms, 1, Len(syms)))}
  BY <1>0
<1>10. SubSeq(syms, 1, Len(syms)) = syms
  BY SubSeqFull
<1> HIDE DEF P
<1> QED
  BY <1>3, <1>8, <1>9, <1>10

LEMMA RoundKeeps ==
  ASSUME NEW syms \in Seq(Seq(Byte))
  PROVE  Round(syms) \in Seq(Seq(Byte)) /\ FlattenSeq(Round(syms)) = FlattenSeq(syms)
<1>1. Round(syms) = syms \/ \E pair : Round(syms) = MergeAll(syms, pair)
  BY DEF Round
<1> QED
  BY <1>1, MergeKeeps

Rounds(g, syms, n) == g = [r \in 0 .. n |-> IF r = 0 THEN syms ELSE Round(g[r - 1])]

LEMMA RoundsValue ==
  ASSUME NEW syms, NEW n \in Nat, NEW g, Rounds(g, syms, n)
  PROVE  g[0] = syms /\ \A r \in 0 .. n - 1 : g[r + 1] = Round(g[r])
<1> DEFINE h == [r \in 0 .. n |-> IF r = 0 THEN syms ELSE Round(g[r - 1])]
<1>1. h[0] = syms
  OBVIOUS
<1>2. ASSUME NEW r \in 0 .. n - 1 PROVE h[r + 1] = Round(g[r])
  <2>1. r + 1 \in 0 .. n /\ r + 1 # 0 /\ (r + 1) - 1 = r
    OBVIOUS
  <2> QED
    BY <2>1
<1>3. g = h
  BY DEF Rounds
<1> HIDE DEF h
<1> QED
  BY <1>1, <1>2, <1>3

LEMMA RoundsExist ==
  ASSUME NEW syms, NEW n \in Nat
  PROVE  \E g : Rounds(g, syms, n)
<1> DEFINE P == {k \in Nat : \E g : Rounds(g, syms, k)}
<1>1. 0 \in P
  <2>1. Rounds([r \in 0 .. 0 |-> syms], syms, 0)
    BY DEF Rounds
  <2> QED
    BY <2>1
<1>2. \A k \in 0 .. n - 1 : k \in P => k + 1 \in P
  <2> SUFFICES ASSUME NEW k \in Nat, NEW g, Rounds(g, syms, k)
               PROVE  \E h : Rounds(h, syms, k + 1)
    OBVIOUS
  <2> DEFINE h == [r \in 0 .. k + 1 |-> IF r <= k THEN g[r] ELSE Round(g[k])]
  <2>1. g[0] = syms /\ \A r \in 0 .. k - 1 : g[r + 1] = Round(g[r])
    BY RoundsValue
  <2>2. \A r \in 0 .. k : h[r] = g[r]
    OBVIOUS
  <2>3. \A r \in 0 .. k + 1 : h[r] = IF r = 0 THEN syms ELSE Round(h[r - 1])
    <3> TAKE r \in 0 .. k + 1
    <3>1. CASE r = 0
      BY <3>1, <2>1, <2>2
    <3>2. CASE r \in 1 .. k
      <4>1. r - 1 \in 0 .. k - 1 /\ r - 1 \in 0 .. k /\ r \in 0 .. k /\ r # 0 /\ (r - 1) + 1 = r
        BY <3>2
      <4>2. g[r] = Round(g[r - 1])
        BY <4>1, <2>1
      <4> HIDE DEF h
      <4> QED
        BY <4>1, <4>2, <2>2
    <3>3. CASE r = k + 1
      <4>1. h[r] = Round(g[k]) /\ h[r - 1] = g[k] /\ r # 0
        BY <3>3
      <4> HIDE DEF h
      <4> QED
        BY <4>1
    <3> QED
      BY <3>1, <3>2, <3>3
  <2>4. Rounds(h, syms, k + 1)
    <3> HIDE DEF h
    <3>1. h = [r \in 0 .. k + 1 |-> h[r]]
      BY DEF h
    <3> QED
      BY <3>1, <2>3 DEF Rounds
  <2> QED
    BY <2>4
<1>3. 0 .. n \subseteq P
  <2> HIDE DEF P
  <2> QED
    BY <1>1, <1>2, InductionUpTo
<1> QED
  BY <1>3

LEMMA MergedInRounds ==
  ASSUME NEW syms, NEW n \in Nat, n = Len(syms)
  PROVE  \E g : /\ Merged(syms) = g[n] /\ g[0] = syms
                /\ \A r \in 0 .. n - 1 : g[r + 1] = Round(g[r])
<1> DEFINE after == CHOOSE after : Rounds(after, syms, Len(syms))
<1>1. Merged(syms) = after[Len(syms)]
  BY Zenon DEF Merged, Rounds
<1>2. Rounds(after, syms, Len(syms))
  BY RoundsExist
<1> HIDE DEF after
<1>3. \E g : Merged(syms) = g[n] /\ Rounds(g, syms, n)
  BY <1>1, <1>2
<1>4. ASSUME NEW k \in Nat, NEW g, Rounds(g, syms, k)
      PROVE  g[0] = syms /\ \A r \in 0 .. k - 1 : g[r + 1] = Round(g[r])
  <2>1. g[0] = syms
    BY <1>4, RoundsValue
  <2>2. \A r \in 0 .. k - 1 : g[r + 1] = Round(g[r])
    BY <1>4, RoundsValue
  <2> QED
    BY <2>1, <2>2
<1> QED
  BY <1>3, <1>4

LEMMA MergedKeeps ==
  ASSUME NEW syms \in Seq(Seq(Byte))
  PROVE  Merged(syms) \in Seq(Seq(Byte)) /\ FlattenSeq(Merged(syms)) = FlattenSeq(syms)
<1>1. PICK n \in Nat : \E g : /\ Merged(syms) = g[n] /\ g[0] = syms
                              /\ \A r \in 0 .. n - 1 : g[r + 1] = Round(g[r])
  <2>1. Len(syms) \in Nat
    BY LenProperties
  <2> QED
    BY <2>1, MergedInRounds
<1>4. PICK g : /\ Merged(syms) = g[n] /\ g[0] = syms
               /\ \A r \in 0 .. n - 1 : g[r + 1] = Round(g[r])
  BY <1>1
<1> DEFINE Q == {r \in 0 .. n : g[r] \in Seq(Seq(Byte)) /\ FlattenSeq(g[r]) = FlattenSeq(syms)}
<1>5. 0 \in Q
  BY <1>4
<1>6. \A r \in 0 .. n - 1 : r \in Q => r + 1 \in Q
  <2> SUFFICES ASSUME NEW r \in 0 .. n - 1, g[r] \in Seq(Seq(Byte)), FlattenSeq(g[r]) = FlattenSeq(syms)
               PROVE  /\ r + 1 \in 0 .. n
                      /\ g[r + 1] \in Seq(Seq(Byte)) /\ FlattenSeq(g[r + 1]) = FlattenSeq(syms)
    OBVIOUS
  <2>1. r + 1 \in 0 .. n
    OBVIOUS
  <2>2. g[r + 1] = Round(g[r])
    BY <1>4
  <2>3. Round(g[r]) \in Seq(Seq(Byte)) /\ FlattenSeq(Round(g[r])) = FlattenSeq(g[r])
    <3> DEFINE now == g[r]
    <3>1. now \in Seq(Seq(Byte))
      OBVIOUS
    <3> HIDE DEF now
    <3>2. Round(now) \in Seq(Seq(Byte)) /\ FlattenSeq(Round(now)) = FlattenSeq(now)
      BY <3>1, RoundKeeps
    <3> QED
      BY <3>2 DEF now
  <2> QED
    BY <2>1, <2>2, <2>3
<1>7. 0 .. n \subseteq Q
  <2> HIDE DEF Q
  <2> QED
    BY <1>5, <1>6, InductionUpTo
<1>8. n \in Q
  BY <1>7
<1> QED
  BY <1>4, <1>8

-----------------------------------------------------------------------------
(* Decoding the ids of one flush. *)

\* The ids, and those that decode gives back.
AnyTok == ({InVocab} \X Seq(Byte)) \cup (Nat \X Seq(Char))
Tok == {id \in AnyTok : Reversible(id)}
Decoded == [id \in Tok |-> DecodeOne(id, FALSE)]

LEMMA BytesIsSpread ==
  ASSUME NEW s \in Seq(Char)
  PROVE  Bytes(s) = Spread(s, Utf8) /\ Bytes(s) \in Seq(Byte)
<1>1. Bytes(s) = Spread(s, Utf8)
  BY DEF Bytes, Spread
<1>2. Utf8 \in [Char -> Seq(Byte)]
  BY TokenizerAssumption
<1>3. Spread(s, Utf8) \in Seq(Byte)
  BY <1>2, SpreadIsSeq
<1> QED
  BY <1>1, <1>3

LEMMA InVocabDecodes ==
  ASSUME NEW b \in Seq(Byte)
  PROVE  <<InVocab, b>> \in Tok /\ Decoded[<<InVocab, b>>] = b
<1>1. InVocab < VocabSize
  BY TokenizerAssumption DEF InVocab
<1>2. <<InVocab, b>> \in Tok
  BY <1>1 DEF Tok, AnyTok, Reversible
<1> QED
  BY <1>2 DEF Decoded, DecodeOne

LEMMA AddedDecodes ==
  ASSUME NEW n \in Nat, NEW s \in Seq(Char), Reversible(<<n, s>>)
  PROVE  <<n, s>> \in Tok /\ Decoded[<<n, s>>] = Bytes(s)
<1>1. <<n, s>> \in Tok
  BY DEF Tok, AnyTok
<1>2. n # InVocab
  BY DEF InVocab
<1>3. n < VocabSize \/ Unprinted(s) = Bytes(s)
  BY DEF Reversible
<1>4. CASE n < VocabSize
  <2>1. IsSpecial(<<n, s>>)
    BY <1>4, TokenizerAssumption DEF IsSpecial
  <2> QED
    BY <1>1, <1>2, <2>1 DEF Decoded, DecodeOne
<1>5. CASE ~(n < VocabSize)
  <2>1. ~IsSpecial(<<n, s>>)
    BY <1>5, TokenizerAssumption DEF IsSpecial
  <2> QED
    BY <1>1, <1>2, <1>3, <1>5, <2>1 DEF Decoded, DecodeOne
<1> QED
  BY <1>4, <1>5

LEMMA DecodedType == Decoded \in [Tok -> Seq(Byte)]
<1> SUFFICES ASSUME NEW id \in Tok
             PROVE  Decoded[id] \in Seq(Byte)
  BY DEF Decoded
<1>1. CASE id \in {InVocab} \X Seq(Byte)
  <2>1. PICK b \in Seq(Byte) : id = <<InVocab, b>>
    BY <1>1
  <2> QED
    BY <2>1, InVocabDecodes
<1>2. CASE id \in Nat \X Seq(Char)
  <2>1. PICK n \in Nat, s \in Seq(Char) : id = <<n, s>>
    BY <1>2
  <2>2. Reversible(<<n, s>>)
    BY <2>1 DEF Tok
  <2> QED
    BY <2>1, <2>2, AddedDecodes, BytesIsSpread
<1> QED
  BY <1>1, <1>2 DEF Tok, AnyTok

\* What RoundTrips asks of the ids, as a set they are in; it holds of both parts
\* of a sequence that satisfies it.
LEMMA KeptIsTok ==
  ASSUME NEW out \in Seq(AnyTok)
  PROVE  (\A k \in DOMAIN out : Reversible(out[k])) <=> out \in Seq(Tok)
<1>1. Len(out) \in Nat /\ DOMAIN out = 1 .. Len(out)
  BY LenProperties
<1>2. ASSUME \A k \in DOMAIN out : Reversible(out[k])
      PROVE  out \in Seq(Tok)
  <2>1. \A k \in 1 .. Len(out) : out[k] \in Tok
    BY <1>1, <1>2, ElementOfSeq DEF Tok
  <2>2. out = [k \in 1 .. Len(out) |-> out[k]]
    BY <1>1, LenProperties
  <2>3. out \in [1 .. Len(out) -> Tok]
    BY <2>1, <2>2
  <2> QED
    BY <1>1, <2>3, SeqDef
<1>3. ASSUME out \in Seq(Tok)
      PROVE  \A k \in DOMAIN out : Reversible(out[k])
  <2>1. \A k \in DOMAIN out : out[k] \in Tok
    BY <1>1, <1>3, ElementOfSeq
  <2> QED
    BY <2>1 DEF Tok
<1> QED
  BY <1>2, <1>3

LEMMA TokIsAnyTok ==
  ASSUME NEW out \in Seq(Tok)
  PROVE  out \in Seq(AnyTok)
<1>1. Tok \subseteq AnyTok
  BY DEF Tok
<1> QED
  BY <1>1, SeqMonotonic

LEMMA TokParts ==
  ASSUME NEW out \in Seq(AnyTok), NEW more \in Seq(AnyTok), out \o more \in Seq(Tok)
  PROVE  out \in Seq(Tok) /\ more \in Seq(Tok)
<1> DEFINE both == out \o more
<1>1. /\ Len(out) \in Nat /\ Len(more) \in Nat /\ Len(both) = Len(out) + Len(more)
      /\ DOMAIN out = 1 .. Len(out) /\ DOMAIN more = 1 .. Len(more)
      /\ \A k \in 1 .. Len(out) : both[k] = out[k]
      /\ \A k \in 1 .. Len(more) : both[Len(out) + k] = more[k]
  BY LenProperties, ConcatProperties
<1>2. \A k \in 1 .. Len(both) : both[k] \in Tok
  <2> HIDE DEF both
  <2>1. both \in Seq(Tok)
    BY DEF both
  <2> QED
    BY <2>1, ElementOfSeq
<1> HIDE DEF both
<1>3. \A k \in 1 .. Len(out) : out[k] \in Tok
  BY <1>1, <1>2
<1>4. \A k \in 1 .. Len(more) : more[k] \in Tok
  <2> TAKE k \in 1 .. Len(more)
  <2>1. Len(out) + k \in 1 .. Len(both)
    BY <1>1
  <2> QED
    BY <1>1, <1>2, <2>1
<1> QED
  BY <1>1, <1>3, <1>4, KeptIsTok DEF Tok

LEMMA DecodeIsSpread ==
  ASSUME NEW out \in Seq(Tok)
  PROVE  Decode(out, FALSE) = Spread(out, Decoded)
<1>1. \A k \in 1 .. Len(out) : DecodeOne(out[k], FALSE) = Decoded[out[k]]
  <2> TAKE k \in 1 .. Len(out)
  <2>1. out[k] \in Tok
    BY ElementOfSeq
  <2> QED
    BY <2>1 DEF Decoded
<1>2. [k \in 1 .. Len(out) |-> DecodeOne(out[k], FALSE)] = [k \in 1 .. Len(out) |-> Decoded[out[k]]]
  BY <1>1
<1> QED
  BY <1>2 DEF Decode, Spread

LEMMA PretokenKeeps ==
  ASSUME NEW piece \in Seq(Char)
  PROVE  /\ EncodePretoken(piece) \in Seq(Tok)
         /\ Spread(EncodePretoken(piece), Decoded) = Spread(piece, Utf8)
<1> DEFINE bytes == Bytes(piece)
           singles == [k \in 1 .. Len(bytes) |-> <<bytes[k]>>]
           syms == Merged(singles)
           out == [k \in 1 .. Len(syms) |-> <<InVocab, syms[k]>>]
<1>1. bytes \in Seq(Byte) /\ bytes = Spread(piece, Utf8)
  BY BytesIsSpread
<1>2. EncodePretoken(piece) = out
  BY DEF EncodePretoken
<1>3. singles \in Seq(Seq(Byte)) /\ FlattenSeq(singles) = bytes
  <2> HIDE DEF bytes
  <2> QED
    BY <1>1, FlattenSingles
<1>4. syms \in Seq(Seq(Byte)) /\ FlattenSeq(syms) = bytes
  <2> HIDE DEF bytes, singles
  <2> QED
    BY <1>3, MergedKeeps
<1> HIDE DEF bytes, singles, syms
<1>5. /\ Len(syms) \in Nat
      /\ syms = [k \in 1 .. Len(syms) |-> syms[k]]
      /\ \A k \in 1 .. Len(syms) : syms[k] \in Seq(Byte)
  BY <1>4, LenProperties
<1>6. \A k \in 1 .. Len(syms) : out[k] \in Tok /\ Decoded[out[k]] = syms[k]
  BY <1>5, InVocabDecodes
<1>7. out \in Seq(Tok) /\ Len(out) = Len(syms)
  <2>1. out \in [1 .. Len(syms) -> Tok] /\ Len(out) = Len(syms)
    BY <1>5, <1>6
  <2> HIDE DEF out
  <2> QED
    BY <1>5, <2>1, SeqDef
<1>8. Spread(out, Decoded) = FlattenSeq(syms)
  <2> HIDE DEF out
  <2>1. [k \in 1 .. Len(out) |-> Decoded[out[k]]] = [k \in 1 .. Len(syms) |-> syms[k]]
    BY <1>6, <1>7
  <2> QED
    BY <2>1, <1>5 DEF Spread
<1> QED
  BY <1>1, <1>2, <1>4, <1>7, <1>8

LEMMA FlushKeeps ==
  ASSUME NEW s \in Seq(Char)
  PROVE  /\ FlushNormal(s) \in Seq(Tok)
         /\ Spread(FlushNormal(s), Decoded) = Spread(s, Utf8)
<1> DEFINE pieces == Pretokenize(s)
           E == [x \in Seq(Char) |-> EncodePretoken(x)]
           H == [x \in Seq(Char) |-> Spread(x, Utf8)]
<1>0. Utf8 \in [Char -> Seq(Byte)]
  BY TokenizerAssumption
<1>1. pieces \in Seq(Seq(Char)) /\ FlattenSeq(pieces) = s
  BY PiecesAreText
<1>2. E \in [Seq(Char) -> Seq(Tok)] /\ Reads(E, Seq(Char), Tok)
  BY PretokenKeeps DEF Reads
<1>3. Reads(Decoded, Tok, Byte)
  BY DecodedType DEF Reads
<1>4. Reads(H, Seq(Char), Byte)
  BY <1>0, SpreadIsSeq DEF Reads
<1>5. Composed(H, E, Decoded, Seq(Char))
  BY PretokenKeeps DEF Composed
<1> HIDE DEF pieces
<1>6. FlushNormal(s) = Spread(pieces, E)
  <2>1. \A k \in 1 .. Len(pieces) : EncodePretoken(pieces[k]) = E[pieces[k]]
    <3> TAKE k \in 1 .. Len(pieces)
    <3>1. pieces[k] \in Seq(Char)
      BY <1>1, ElementOfSeq
    <3> QED
      BY <3>1
  <2> HIDE DEF E
  <2>2. [k \in 1 .. Len(pieces) |-> EncodePretoken(pieces[k])] = [k \in 1 .. Len(pieces) |-> E[pieces[k]]]
    BY <2>1
  <2>3. FlushNormal(s) = FlattenSeq([k \in 1 .. Len(pieces) |-> EncodePretoken(pieces[k])])
    BY DEF FlushNormal, pieces
  <2> QED
    BY <2>2, <2>3 DEF Spread
<1>7. Spread(s, Utf8) = Spread(pieces, H)
  BY <1>0, <1>1, SpreadOfPieces
<1> HIDE DEF E, H
<1>8. Spread(pieces, E) \in Seq(Tok)
  BY <1>1, <1>2, SpreadIsSeq
<1>9. Spread(Spread(pieces, E), Decoded) = Spread(pieces, H)
  BY <1>1, <1>2, <1>3, <1>4, <1>5, SpreadOfSpread
<1> QED
  BY <1>6, <1>7, <1>8, <1>9

LEMMA FirstIsOneOf ==
  ASSUME NEW as, as # {}, NEW n \in Nat, \A a \in as : Len(a.content) \in 0 .. n
  PROVE  First(as) \in as
<1> DEFINE lens == {Len(a.content) : a \in as}
<1>1. lens \in SUBSET Nat /\ lens # {} /\ \A x \in lens : x <= n
  <2>1. \A x \in lens : x \in 0 .. n
    OBVIOUS
  <2>2. lens # {}
    <3>1. PICK a \in as : TRUE
      OBVIOUS
    <3>2. Len(a.content) \in lens
      BY <3>1
    <3> QED
      BY <3>2
  <2> HIDE DEF lens
  <2> QED
    BY <2>1, <2>2
<1>2. Max(lens) \in lens /\ \A x \in lens : x <= Max(lens)
  <2> HIDE DEF lens
  <2> QED
    BY <1>1, GreatestOf
<1>3. PICK a \in as : Max(lens) = Len(a.content)
  BY <1>2
<1>4. \A b \in as : Len(b.content) <= Len(a.content)
  <2> TAKE b \in as
  <2>1. Len(b.content) \in lens
    OBVIOUS
  <2> HIDE DEF lens
  <2> QED
    BY <2>1, <1>2, <1>3
<1>5. \A b \in as : Len(a.content) >= Len(b.content)
  BY <1>4
<1> QED
  BY <1>5, Zenon DEF First

LEMMA PrefixIsSubSeq ==
  ASSUME NEW s \in Seq(Char), NEW k \in 1 .. Len(s), NEW content \in Seq(Char), content # <<>>,
         StartsWith(s, k, content)
  PROVE  /\ Len(content) \in 1 .. Len(s) + 1 - k
         /\ content = SubSeq(s, k, k + Len(content) - 1)
<1> DEFINE rest == SubSeq(s, k, Len(s))
           m == Len(content)
<1>0. Len(s) \in Nat /\ m \in Nat /\ m # 0
  BY LenProperties, EmptySeq
<1>1. rest \in Seq(Char) /\ Len(rest) = Len(s) + 1 - k
  <2>1. \A j \in k .. Len(s) : s[j] \in Char
    BY ElementOfSeq, <1>0
  <2>2. k \in Int /\ Len(s) \in Int /\ k <= Len(s)
    BY <1>0
  <2>3. rest \in Seq(Char) /\ Len(rest) = IF k <= Len(s) THEN Len(s) - k + 1 ELSE 0
    BY <2>1, <2>2, SubSeqProperties
  <2> QED
    BY <1>0, <2>2, <2>3
<1>2. m <= Len(rest) /\ SubSeq(content, 1, m) = SubSeq(rest, 1, m)
  BY DEF StartsWith, IsPrefix
<1>3. SubSeq(content, 1, m) = content
  BY SubSeqFull
<1>4. m \in 1 .. Len(s) - k + 1 /\ 1 \in 1 .. Len(s) - k + 1 /\ Len(s) \in 1 .. Len(s)
  BY <1>0, <1>1, <1>2
<1>5. SubSeq(rest, 1, m) = SubSeq(s, k + 1 - 1, k + m - 1)
  <2> HIDE DEF m
  <2> QED
    BY <1>4, SubSeqOfSubSeq
<1>6. k + 1 - 1 = k
  OBVIOUS
<1> HIDE DEF rest, m
<1>7. m \in 1 .. Len(s) + 1 - k
  BY <1>0, <1>4
<1>8. content = SubSeq(s, k, k + m - 1)
  BY <1>2, <1>3, <1>5, <1>6
<1> QED
  BY <1>7, <1>8 DEF m

LEMMA BytesConcat ==
  ASSUME NEW s \in Seq(Char), NEW t \in Seq(Char)
  PROVE  Spread(s \o t, Utf8) = Spread(s, Utf8) \o Spread(t, Utf8)
<1>1. Utf8 \in [Char -> Seq(Byte)]
  BY TokenizerAssumption
<1> QED
  BY <1>1, SpreadConcat

\* What lies before index k, and the m characters from there.
LEMMA BytesUpTo ==
  ASSUME NEW s \in Seq(Char), NEW k \in 1 .. Len(s), NEW m \in 0 .. Len(s) + 1 - k
  PROVE  Bytes(SubSeq(s, 1, k + m - 1))
           = Bytes(SubSeq(s, 1, k - 1)) \o Bytes(SubSeq(s, k, k + m - 1))
<1> DEFINE a == SubSeq(s, 1, k - 1)
           b == SubSeq(s, k, k + m - 1)
           c == SubSeq(s, 1, k + m - 1)
<1>0. Len(s) \in Nat
  BY LenProperties
<1>1. \A x \in 1 .. Len(s) : s[x] \in Char
  BY ElementOfSeq
<1>2. a \in Seq(Char) /\ b \in Seq(Char)
  <2>1. \A x \in 1 .. k - 1 : s[x] \in Char
    BY <1>0, <1>1
  <2>2. \A x \in k .. k + m - 1 : s[x] \in Char
    BY <1>0, <1>1
  <2>3. 1 \in Int /\ k \in Int /\ k - 1 \in Int /\ k + m - 1 \in Int
    BY <1>0
  <2> QED
    BY <2>1, <2>2, <2>3, SubSeqProperties
<1>3. c = a \o b
  <2> DEFINE p == k - 1
             q == k + m - 1
  <2>1. 1 \in 1 .. Len(s) + 1 /\ p \in 1 - 1 .. Len(s) /\ q \in p .. Len(s) /\ p + 1 = k
    BY <1>0
  <2> HIDE DEF p, q
  <2>2. SubSeq(s, 1, p) \o SubSeq(s, p + 1, q) = SubSeq(s, 1, q)
    BY <2>1, ConcatAdjacentSubSeq
  <2> QED
    BY <2>1, <2>2 DEF p, q
<1> HIDE DEF a, b, c
<1>4. c \in Seq(Char)
  BY <1>2, <1>3
<1>5. Bytes(c) = Bytes(a) \o Bytes(b)
  BY <1>2, <1>3, <1>4, BytesIsSpread, BytesConcat
<1> QED
  BY <1>5 DEF a, b, c

-----------------------------------------------------------------------------
(* The scan of encode. *)

AllReversible == \A k \in DOMAIN tokens : Reversible(tokens[k])

\* The inductive invariant.
TokInv ==
  /\ text \in Seq(Char)
  /\ \A a \in added : a.id \in Nat /\ a.content \in Seq(Char)
  /\ i \in 1 .. Len(text) + 1
  /\ normal \in Seq(Char)
  /\ tokens \in Seq(AnyTok)
  /\ RoundTrips

\* RoundTrips in terms of Spread.
LEMMA RoundTripsIs ==
  ASSUME tokens \in Seq(AnyTok), normal \in Seq(Char)
  PROVE  RoundTrips <=>
           (tokens \in Seq(Tok) => Spread(tokens, Decoded) \o Spread(normal, Utf8)
                                     = Bytes(SubSeq(text, 1, i - 1)))
<1>1. ASSUME tokens \in Seq(Tok) PROVE Decode(tokens, FALSE) = Spread(tokens, Decoded)
  BY <1>1, DecodeIsSpread
<1>2. Bytes(normal) = Spread(normal, Utf8)
  BY BytesIsSpread
<1>3. AllReversible <=> tokens \in Seq(Tok)
  BY KeptIsTok DEF AllReversible
<1> QED
  BY <1>1, <1>2, <1>3 DEF RoundTrips, AllReversible

LEMMA TokInitInv == TokInit => TokInv
<1> SUFFICES ASSUME TokInit PROVE TokInv
  OBVIOUS
<1>1. /\ text \in Seq(Char)
      /\ \A a \in added : a.id \in Nat /\ a.content \in Seq(Char)
  BY TokenizerAssumption DEF TokInit
<1>2. i = 1 /\ normal = <<>> /\ tokens = <<>>
  BY DEF TokInit
<1>3. i \in 1 .. Len(text) + 1
  BY <1>1, <1>2, LenProperties
<1>4. normal \in Seq(Char) /\ tokens \in Seq(AnyTok)
  BY <1>2, EmptySeq
<1>5. Spread(tokens, Decoded) = <<>> /\ Spread(normal, Utf8) = <<>> /\ Spread(<<>>, Utf8) = <<>>
  BY <1>2, SpreadEmpty
<1>6. SubSeq(text, 1, i - 1) = <<>>
  <2>1. i - 1 \in Int /\ 1 \in Int /\ i - 1 < 1
    BY <1>2
  <2> QED
    BY <2>1, SubSeqEmpty
<1>7. Bytes(SubSeq(text, 1, i - 1)) = <<>>
  <2>1. <<>> \in Seq(Char)
    BY EmptySeq
  <2> QED
    BY <2>1, <1>5, <1>6, BytesIsSpread
<1>8. <<>> \o <<>> = <<>>
  <2>1. <<>> \in Seq(Char)
    BY EmptySeq
  <2> QED
    BY <2>1, ConcatEmptySeq
<1>9. RoundTrips
  BY <1>4, <1>5, <1>7, <1>8, RoundTripsIs
<1> QED
  BY <1>1, <1>3, <1>4, <1>9 DEF TokInv

\* What FlushNormal adds to the ids.
LEMMA FlushDecodes ==
  ASSUME NEW out \in Seq(Tok), NEW s \in Seq(Char)
  PROVE  /\ out \o FlushNormal(s) \in Seq(Tok)
         /\ Spread(out \o FlushNormal(s), Decoded) = Spread(out, Decoded) \o Spread(s, Utf8)
<1> DEFINE F == FlushNormal(s)
<1>1. F \in Seq(Tok) /\ Spread(F, Decoded) = Spread(s, Utf8)
  BY FlushKeeps
<1> HIDE DEF F
<1>2. out \o F \in Seq(Tok)
  BY <1>1, ConcatProperties
<1>3. Spread(out \o F, Decoded) = Spread(out, Decoded) \o Spread(F, Decoded)
  BY <1>1, DecodedType, SpreadConcat
<1> QED
  BY <1>1, <1>2, <1>3 DEF F

LEMMA FlushAdds ==
  ASSUME NEW out \in Seq(AnyTok), NEW s \in Seq(Char)
  PROVE  FlushNormal(s) \in Seq(AnyTok) /\ out \o FlushNormal(s) \in Seq(AnyTok)
<1> DEFINE F == FlushNormal(s)
<1>1. F \in Seq(AnyTok)
  BY FlushKeeps, TokIsAnyTok
<1> HIDE DEF F
<1>2. out \o F \in Seq(AnyTok)
  BY <1>1, ConcatProperties
<1> QED
  BY <1>1, <1>2 DEF F

LEMMA RoundTripsSpread ==
  ASSUME NEW out \in Seq(Tok), NEW s \in Seq(Char)
  PROVE  Decode(out, FALSE) \o Bytes(s) = Spread(out, Decoded) \o Spread(s, Utf8)
BY BytesIsSpread, DecodeIsSpread

LEMMA SpreadsAreBytes ==
  ASSUME NEW out \in Seq(Tok), NEW s \in Seq(Char)
  PROVE  Spread(out, Decoded) \in Seq(Byte) /\ Spread(s, Utf8) \in Seq(Byte)
<1>1. Spread(out, Decoded) \in Seq(Byte)
  BY DecodedType, SpreadIsSeq
<1> QED
  BY <1>1, BytesIsSpread

LEMMA TakeAddedInv == TokInv /\ TakeAdded => TokInv'
<1> SUFFICES ASSUME TokInv, TakeAdded PROVE TokInv'
  OBVIOUS
<1> DEFINE a == First(Matching)
           m == Len(a.content)
           flushed == tokens \o FlushNormal(normal)
           t == <<a.id, a.content>>
<1>1. /\ i <= Len(text) /\ Matching # {}
      /\ tokens' = flushed \o <<t>> /\ i' = i + m /\ normal' = <<>>
      /\ text' = text /\ added' = added
  BY DEF TakeAdded
<1>2. /\ text \in Seq(Char) /\ normal \in Seq(Char) /\ i \in 1 .. Len(text)
      /\ \A x \in added : x.id \in Nat /\ x.content \in Seq(Char)
  BY <1>1, LenProperties DEF TokInv
<1>3. \A x \in Matching : /\ x \in added /\ x.content \in Seq(Char)
                          /\ Len(x.content) \in 1 .. Len(text) + 1 - i
                          /\ x.content = SubSeq(text, i, i + Len(x.content) - 1)
  <2> TAKE x \in Matching
  <2>1. x \in added /\ x.content # <<>> /\ StartsWith(text, i, x.content)
    BY DEF Matching
  <2>2. x.content \in Seq(Char)
    BY <1>2, <2>1
  <2> QED
    BY <1>2, <2>1, <2>2, PrefixIsSubSeq
<1>4. a \in Matching
  <2>1. Len(text) \in Nat /\ \A x \in Matching : Len(x.content) \in 0 .. Len(text)
    BY <1>2, <1>3, LenProperties
  <2> QED
    BY <1>1, <2>1, FirstIsOneOf
<1> HIDE DEF a
<1>5. /\ a \in added /\ a.id \in Nat /\ a.content \in Seq(Char)
      /\ m \in 1 .. Len(text) + 1 - i /\ a.content = SubSeq(text, i, i + m - 1)
  BY <1>2, <1>3, <1>4
<1> HIDE DEF m
<1>6. i' \in 1 .. Len(text') + 1
  BY <1>1, <1>2, <1>5, LenProperties
<1>7. <<>> \in Seq(Char) /\ <<>> \in Seq(Byte) /\ normal' \in Seq(Char)
  BY <1>1, EmptySeq
<1>10. t \in AnyTok /\ flushed \in Seq(AnyTok)
  BY <1>2, <1>5, FlushAdds DEF AnyTok, TokInv
<1>11. tokens' \in Seq(AnyTok)
  <2> HIDE DEF flushed, t
  <2>1. <<t>> \in Seq(AnyTok)
    BY <1>10
  <2> QED
    BY <1>1, <1>10, <2>1, ConcatProperties
<1>8. ASSUME tokens' \in Seq(Tok)
      PROVE  Decode(tokens', FALSE) \o Bytes(normal') = Bytes(SubSeq(text', 1, i' - 1))
  <2>1. flushed \in Seq(Tok) /\ t \in Tok
    <3> HIDE DEF flushed, t
    <3> DEFINE one == <<t>>
    <3>1. one \in Seq(AnyTok) /\ Len(one) = 1 /\ one[1] = t /\ flushed \o one \in Seq(Tok)
      BY <1>1, <1>8, <1>10
    <3> HIDE DEF one
    <3>2. flushed \in Seq(Tok) /\ one \in Seq(Tok)
      BY <1>10, <3>1, TokParts
    <3>3. 1 \in 1 .. Len(one)
      BY <3>1
    <3>4. one[1] \in Tok
      BY <3>2, <3>3, ElementOfSeq
    <3> QED
      BY <3>1, <3>2, <3>4
  <2>2. tokens \in Seq(Tok)
    BY <1>2, <2>1, FlushAdds, TokParts DEF TokInv
  <2>3. Spread(tokens, Decoded) \o Spread(normal, Utf8) = Bytes(SubSeq(text, 1, i - 1))
    BY <1>2, <2>2, RoundTripsIs DEF TokInv
  <2>4. flushed \in Seq(Tok) /\ Spread(flushed, Decoded) = Bytes(SubSeq(text, 1, i - 1))
    BY <1>2, <2>2, <2>3, FlushDecodes
  <2>5. t \in Tok /\ Decoded[t] = Bytes(a.content)
    <3>1. Reversible(t)
      BY <2>1 DEF Tok
    <3> QED
      BY <1>5, <3>1, AddedDecodes
  <2> HIDE DEF flushed, t
  <2>6. <<t>> \in Seq(Tok) /\ Spread(<<t>>, Decoded) = Bytes(a.content)
    BY <2>5, DecodedType, SpreadOne
  <2>7. tokens' \in Seq(Tok)
    BY <1>8
  <2>8. Spread(tokens', Decoded) = Bytes(SubSeq(text, 1, i - 1)) \o Bytes(a.content)
    <3> DEFINE one == <<t>>
    <3>1. one \in Seq(Tok) /\ Spread(one, Decoded) = Bytes(a.content) /\ tokens' = flushed \o one
      BY <1>1, <2>6
    <3> HIDE DEF one
    <3>2. Spread(flushed \o one, Decoded) = Spread(flushed, Decoded) \o Spread(one, Decoded)
      BY <2>4, <3>1, DecodedType, SpreadConcat
    <3> QED
      BY <2>4, <3>1, <3>2
  <2>9. m \in 0 .. Len(text) + 1 - i
    BY <1>5
  <2>10. Spread(tokens', Decoded) = Bytes(SubSeq(text, 1, i + m - 1))
    BY <1>2, <1>5, <2>8, <2>9, BytesUpTo
  <2>11. Spread(tokens', Decoded) \o Spread(normal', Utf8) = Spread(tokens', Decoded)
    <3>1. Spread(normal', Utf8) = <<>>
      BY <1>1, SpreadEmpty
    <3>2. Spread(tokens', Decoded) \in Seq(Byte)
      BY <1>7, <2>7, SpreadsAreBytes
    <3> QED
      BY <3>1, <3>2, ConcatEmptySeq
  <2>12. Decode(tokens', FALSE) \o Bytes(normal') = Spread(tokens', Decoded) \o Spread(normal', Utf8)
    BY <1>7, <2>7, RoundTripsSpread
  <2>13. i' - 1 = i + m - 1
    BY <1>1, <1>2, <1>5
  <2> QED
    BY <1>1, <2>7, <2>10, <2>11, <2>12, <2>13
<1>9. RoundTrips'
  BY <1>8, <1>11, KeptIsTok DEF RoundTrips
<1> QED
  BY <1>1, <1>2, <1>6, <1>7, <1>9, <1>11 DEF TokInv

LEMMA TakeNormalInv == TokInv /\ TakeNormal => TokInv'
<1> SUFFICES ASSUME TokInv, TakeNormal PROVE TokInv'
  OBVIOUS
<1> DEFINE c == text[i]
<1>1. /\ i <= Len(text) /\ normal' = Append(normal, c) /\ i' = i + 1
      /\ text' = text /\ added' = added /\ tokens' = tokens
  BY DEF TakeNormal
<1>2. /\ text \in Seq(Char) /\ normal \in Seq(Char) /\ i \in 1 .. Len(text)
      /\ \A x \in added : x.id \in Nat /\ x.content \in Seq(Char)
  BY <1>1, LenProperties DEF TokInv
<1>3. c \in Char
  BY <1>2, ElementOfSeq
<1>4. normal' = normal \o <<c>> /\ <<c>> \in Seq(Char) /\ normal' \in Seq(Char)
  BY <1>1, <1>2, <1>3, AppendIsConcat, AppendProperties
<1>5. SubSeq(text, i, i + 1 - 1) = <<c>>
  <2>1. i \in Int /\ i + 1 - 1 \in Int /\ i + 1 - 1 = i /\ i <= i
    BY <1>2
  <2>2. \A x \in i .. i : text[x] \in Char
    BY <1>3, <2>1
  <2>3. /\ SubSeq(text, i, i) \in Seq(Char) /\ Len(SubSeq(text, i, i)) = 1
        /\ SubSeq(text, i, i)[1] = c
    <3>1. /\ SubSeq(text, i, i) \in Seq(Char)
          /\ Len(SubSeq(text, i, i)) = IF i <= i THEN i - i + 1 ELSE 0
          /\ \A x \in 1 .. i - i + 1 : SubSeq(text, i, i)[x] = text[i + x - 1]
      BY <2>1, <2>2, SubSeqProperties
    <3>2. 1 \in 1 .. i - i + 1 /\ i + 1 - 1 = i /\ i - i + 1 = 1
      BY <2>1
    <3> QED
      BY <2>1, <3>1, <3>2
  <2> DEFINE one == SubSeq(text, i, i)
  <2> HIDE DEF one, c
  <2>4. one = <<c>>
    <3>1. one \in Seq(Char) /\ Len(one) = 1 /\ one[1] = c
      BY <2>3 DEF one
    <3> QED
      BY <3>1
  <2> QED
    BY <2>1, <2>4 DEF one
<1> HIDE DEF c
<1>6. i' \in 1 .. Len(text') + 1
  BY <1>1, <1>2, LenProperties
<1>7. tokens' \in Seq(AnyTok)
  BY <1>1 DEF TokInv
<1>8. ASSUME tokens' \in Seq(Tok)
      PROVE  Decode(tokens', FALSE) \o Bytes(normal') = Bytes(SubSeq(text', 1, i' - 1))
  <2> DEFINE d == Spread(tokens, Decoded)
             u == Spread(normal, Utf8)
             v == Spread(<<c>>, Utf8)
  <2>2. tokens \in Seq(Tok) /\ tokens' \in Seq(Tok)
    BY <1>1, <1>8
  <2>3. d \o u = Bytes(SubSeq(text, 1, i - 1))
    BY <1>2, <2>2, RoundTripsIs DEF TokInv
  <2>4. Spread(normal', Utf8) = u \o v
    BY <1>2, <1>4, BytesConcat
  <2>5. v = Bytes(SubSeq(text, i, i + 1 - 1))
    BY <1>4, <1>5, BytesIsSpread
  <2>6. d \in Seq(Byte) /\ u \in Seq(Byte) /\ v \in Seq(Byte)
    BY <1>2, <1>4, <2>2, SpreadsAreBytes
  <2>7. Decode(tokens', FALSE) \o Bytes(normal') = d \o Spread(normal', Utf8)
    BY <1>1, <1>4, <2>2, RoundTripsSpread
  <2> HIDE DEF d, u, v
  <2>8. d \o (u \o v) = (d \o u) \o v
    BY <2>6, ConcatAssociative
  <2>9. 1 \in 0 .. Len(text) + 1 - i
    BY <1>2, LenProperties
  <2>10. Bytes(SubSeq(text, 1, i + 1 - 1)) = (d \o u) \o v
    BY <1>2, <2>3, <2>5, <2>9, BytesUpTo
  <2>11. i' - 1 = i + 1 - 1
    BY <1>1, <1>2
  <2> QED
    BY <1>1, <2>2, <2>4, <2>7, <2>8, <2>10, <2>11
<1>9. RoundTrips'
  BY <1>7, <1>8, KeptIsTok DEF RoundTrips
<1> QED
  BY <1>1, <1>2, <1>4, <1>6, <1>7, <1>9 DEF TokInv

LEMMA ReturnInv == TokInv /\ Return => TokInv'
<1> SUFFICES ASSUME TokInv, Return PROVE TokInv'
  OBVIOUS
<1> DEFINE flushed == tokens \o FlushNormal(normal)
<1>1. /\ tokens' = flushed /\ normal' = <<>> /\ i' = i
      /\ text' = text /\ added' = added
  BY DEF Return
<1>2. /\ text \in Seq(Char) /\ normal \in Seq(Char) /\ i \in 1 .. Len(text) + 1
      /\ \A x \in added : x.id \in Nat /\ x.content \in Seq(Char)
  BY DEF TokInv
<1>3. normal' \in Seq(Char)
  BY <1>1, EmptySeq
<1>7. tokens' \in Seq(AnyTok)
  BY <1>1, <1>2, FlushAdds DEF TokInv
<1>8. ASSUME tokens' \in Seq(Tok)
      PROVE  Decode(tokens', FALSE) \o Bytes(normal') = Bytes(SubSeq(text', 1, i' - 1))
  <2>2. tokens \in Seq(Tok)
    BY <1>1, <1>2, <1>8, FlushAdds, TokParts DEF TokInv
  <2>3. Spread(tokens, Decoded) \o Spread(normal, Utf8) = Bytes(SubSeq(text, 1, i - 1))
    BY <1>2, <2>2, RoundTripsIs DEF TokInv
  <2>4. flushed \in Seq(Tok) /\ Spread(flushed, Decoded) = Bytes(SubSeq(text, 1, i - 1))
    BY <1>2, <2>2, <2>3, FlushDecodes
  <2> HIDE DEF flushed
  <2>5. Spread(flushed, Decoded) \o Spread(normal', Utf8) = Spread(flushed, Decoded)
    <3>1. Spread(normal', Utf8) = <<>>
      BY <1>1, SpreadEmpty
    <3>2. Spread(flushed, Decoded) \in Seq(Byte)
      BY <1>3, <2>4, SpreadsAreBytes
    <3> QED
      BY <3>1, <3>2, ConcatEmptySeq
  <2>6. Decode(flushed, FALSE) \o Bytes(normal') = Spread(flushed, Decoded) \o Spread(normal', Utf8)
    BY <1>3, <2>4, RoundTripsSpread
  <2> QED
    BY <1>1, <2>4, <2>5, <2>6
<1>9. RoundTrips'
  BY <1>7, <1>8, KeptIsTok DEF RoundTrips
<1> QED
  BY <1>1, <1>2, <1>3, <1>7, <1>9 DEF TokInv

LEMMA TokNextInv == TokInv /\ [TokNext]_tokVars => TokInv'
<1> SUFFICES ASSUME TokInv, [TokNext]_tokVars PROVE TokInv'
  OBVIOUS
<1>1. CASE TakeAdded
  BY <1>1, TakeAddedInv
<1>2. CASE TakeNormal
  BY <1>2, TakeNormalInv
<1>3. CASE Return
  BY <1>3, ReturnInv
<1>4. CASE UNCHANGED tokVars
  BY <1>4 DEF tokVars, TokInv, RoundTrips
<1> QED
  BY <1>1, <1>2, <1>3, <1>4 DEF TokNext

\* At every step of encode, what it has encoded decodes to the bytes it has read,
\* but for the characters it still holds back in the piece before the next added
\* token, as long as no added token was met that lies beyond the vocabulary and does
\* not print itself: no byte of the text is lost, repeated or moved.
THEOREM DecodeUndoesEncode == TokSpec => []RoundTrips
<1>1. TokInit => TokInv
  BY TokInitInv
<1>2. TokInv /\ [TokNext]_tokVars => TokInv'
  BY TokNextInv
<1>3. TokInv => RoundTrips
  BY DEF TokInv
<1> QED
  BY <1>1, <1>2, <1>3, PTL DEF TokSpec

==============================================================================
