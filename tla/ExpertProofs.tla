---------------------------- MODULE ExpertProofs ----------------------------
(***************************************************************************)
(* Proofs about the experts: MoEDispatch, for any number of experts, rows  *)
(* and warps, and ExpertWeights, for every shape of the experts, every     *)
(* group size (even ones, where warp_dot_i4 needs that), every number of   *)
(* experts and all weights.                                                *)
(*                                                                         *)
(* Dispatch.  A list has room for every row because a row is in it at most *)
(* once: its counter is the number of distinct rows that claimed it, which *)
(* is at most the number of rows of the layer.  The expert kernels visit   *)
(* every place that was counted once, which is a fact of arithmetic about  *)
(* tiles, warps and halves.                                                *)
(*                                                                         *)
(* Weights.  All kernels find the weight that at() gives on the host.  It  *)
(* is index arithmetic: the table is the experts' arrays one after         *)
(* another, so that the index of an expert's entry divides by the stride   *)
(* into the expert and the entry.                                          *)
(*                                                                         *)
(* Rounding.  A weight's nibble is a quotient rounded and clamped.  It is  *)
(* a nearest one because the sixteen values are multiples of the scale,    *)
(* and the rounded zero point lies in their range, or half a step outside, *)
(* when the group has weights on both sides of zero.                       *)
(***************************************************************************)
EXTENDS MoEDispatch, ExpertWeights, FiniteSetTheorems, TLAPS

-----------------------------------------------------------------------------
(* Quotients and remainders. *)

LEMMA Division ==
  ASSUME NEW n \in Nat, NEW d \in Nat \ {0}
  PROVE  /\ n = (n \div d) * d + (n % d)
         /\ n \div d \in Nat /\ n % d \in 0 .. d - 1
<1>1. n = (n \div d) * d + (n % d)
  OBVIOUS
<1>2. n \div d \in Nat /\ n % d \in 0 .. d - 1
  OBVIOUS
<1> QED
  BY <1>1, <1>2

LEMMA DivideUnique ==
  ASSUME NEW p \in Int, NEW q \in Int, NEW d \in Nat \ {0},
         NEW r \in 0 .. d - 1, NEW s \in 0 .. d - 1,
         p * d + r = q * d + s
  PROVE  p = q /\ r = s
<1>1. CASE p < q
  <2>1. (q - p - 1) * d >= 0
    BY <1>1, SMT
  <2>2. (q - p - 1) * d = q * d - p * d - d
    BY SMT
  <2> QED
    BY <2>1, <2>2, SMT
<1>2. CASE q < p
  <2>1. (p - q - 1) * d >= 0
    BY <1>2, SMT
  <2>2. (p - q - 1) * d = p * d - q * d - d
    BY SMT
  <2> QED
    BY <2>1, <2>2, SMT
<1> QED
  BY <1>1, <1>2, SMT

LEMMA Halves ==
  ASSUME NEW n \in Nat
  PROVE  n = 2 * (n \div 2) + (n % 2) /\ n \div 2 \in Nat /\ n % 2 \in 0 .. 1
OBVIOUS

\* A quotient is what the multiple below a number is of.
LEMMA QuotientUnique ==
  ASSUME NEW d \in Nat \ {0}, NEW q \in Nat, NEW x \in 0 .. d - 1
  PROVE  (q * d + x) \div d = q /\ (q * d + x) % d = x
<1> DEFINE n == q * d + x
<1>1. n \in Nat
  OBVIOUS
<1>2. (n \div d) * d + (n % d) = q * d + x /\ n \div d \in Nat /\ n % d \in 0 .. d - 1
  BY <1>1, Division
<1> QED
  BY <1>2, DivideUnique

\* Entry x of row r of a matrix with d entries a row.
LEMMA EntryBelow ==
  ASSUME NEW d \in Nat \ {0}, NEW n \in Nat, NEW r \in 0 .. n - 1, NEW x \in 0 .. d - 1
  PROVE  r * d + x \in 0 .. n * d - 1
<1>1. r * d \in Nat /\ n * d \in Nat
  OBVIOUS
<1>2. n * d - r * d = (n - r) * d
  OBVIOUS
<1>3. (n - r) * d >= d
  <2> DEFINE k == n - r
  <2>1. k \in Nat /\ k >= 1
    OBVIOUS
  <2> HIDE DEF k
  <2>2. k * d >= d
    BY <2>1
  <2> QED
    BY <2>2 DEF k
<1> QED
  BY <1>1, <1>2, <1>3

\* The quotient of a number below n is below n / d rounded up.
LEMMA QuotientBelow ==
  ASSUME NEW d \in Nat \ {0}, NEW n \in Nat \ {0}, NEW c \in 0 .. n - 1
  PROVE  c \div d \in 0 .. (n + d - 1) \div d - 1
<1> DEFINE a == c \div d
           x == c % d
           m == n + d - 1
           b == m \div d
           y == m % d
<1>1. c = a * d + x /\ a \in Nat /\ x \in 0 .. d - 1
  <2>1. c \in Nat
    OBVIOUS
  <2> QED
    BY <2>1, Division
<1>2. m \in Nat /\ m = n + d - 1
  OBVIOUS
<1>3. m = b * d + y /\ b \in Nat /\ y \in 0 .. d - 1
  BY <1>2, Division
<1> HIDE DEF a, x, m, b, y
<1>4. b * d > a * d
  BY <1>1, <1>2, <1>3
<1>5. b > a
  <2>1. (b - a) * d = b * d - a * d
    BY <1>1, <1>3
  <2>2. (b - a) * d > 0 /\ b - a \in Int
    BY <2>1, <1>1, <1>3, <1>4
  <2> DEFINE k == b - a
  <2> HIDE DEF k
  <2>3. k \in Int /\ k * d > 0
    BY <2>2 DEF k
  <2>4. k > 0
    BY <2>3
  <2> QED
    BY <2>4, <1>1, <1>3 DEF k
<1> QED
  BY <1>1, <1>3, <1>5 DEF a, b, m

LEMMA RowParts ==
  ASSUME NEW cols \in Nat \ {0}, NEW g \in Nat \ {0}
  PROVE  PackedRow(cols) \in Nat \ {0} /\ NumGroups(cols, g) \in Nat \ {0}
<1>1. PackedRow(cols) \in Nat \ {0}
  BY DEF PackedRow
<1>2. 0 \div g \in 0 .. NumGroups(cols, g) - 1
  BY QuotientBelow DEF NumGroups
<1>3. NumGroups(cols, g) \in Nat
  <2>1. cols + g - 1 \in Nat
    OBVIOUS
  <2> QED
    BY <2>1, Division DEF NumGroups
<1> QED
  BY <1>1, <1>2, <1>3

\* Two columns that share a byte share a group, unless the second starts one.
LEMMA PairInGroup ==
  ASSUME NEW c \in Nat, NEW g \in Nat \ {0}, ~ SplitsPair(c, g)
  PROVE  /\ (2 * (c \div 2)) \div g = c \div g
         /\ (2 * (c \div 2)) \div 2 = c \div 2
         /\ c = 2 * (c \div 2) <=> c % 2 # 1
<1> DEFINE h == c \div 2
           z == c % 2
           f == 2 * h
<1>1. c = h * 2 + z /\ h \in Nat /\ z \in 0 .. 1
  BY Division
<1>2. f \in Nat /\ f = 2 * h /\ c = f + z
  BY <1>1
<1>3. f \div 2 = h /\ (c = f <=> z # 1)
  BY <1>1, <1>2
<1> DEFINE a == c \div g
           x == c % g
<1>4. c = a * g + x /\ a \in Nat /\ x \in 0 .. g - 1
  BY Division
<1>5. z = 0 \/ x # 0
  BY <1>1 DEF SplitsPair
<1> HIDE DEF h, z, f, a, x
<1>6. f = a * g + (x - z) /\ x - z \in 0 .. g - 1
  <2>1. a * g \in Nat
    BY <1>4
  <2> QED
    BY <2>1, <1>1, <1>2, <1>4, <1>5
<1>7. f \div g = a
  BY <1>4, <1>6, QuotientUnique
<1> QED
  BY <1>3, <1>7 DEF h, z, f, a

\* A panel starts at an even column, so it splits its bytes as the row does.
LEMMA PanelColumn ==
  ASSUME NEW k \in Nat, NEW cc \in Nat
  PROVE  LET k0 == k * PanelCols
         IN  /\ k0 \div 2 + cc \div 2 = (k0 + cc) \div 2
             /\ (k0 + cc) % 2 = cc % 2
             /\ 2 * (k0 \div 2 + cc \div 2) <= k0 + cc
<1>1. PanelCols \in Nat /\ PanelCols % 2 = 0
  BY WeightsAssumption
<1> DEFINE h == PanelCols \div 2
           k0 == k * PanelCols
<1>2. PanelCols = 2 * h + (PanelCols % 2) /\ h \in Nat
  BY <1>1, Halves
<1> DEFINE m == k * h
<1>3. k0 = 2 * m /\ m \in Nat
  <2>1. PanelCols = 2 * h
    BY <1>1, <1>2
  <2> HIDE DEF h
  <2>2. k * PanelCols = k * (2 * h)
    BY <2>1
  <2>3. k * (2 * h) = 2 * (k * h) /\ k * h \in Nat
    BY <1>2
  <2> QED
    BY <2>2, <2>3
<1> HIDE DEF m, k0
<1>4. /\ k0 \div 2 + cc \div 2 = (k0 + cc) \div 2
      /\ (k0 + cc) % 2 = cc % 2
      /\ 2 * (k0 \div 2 + cc \div 2) <= k0 + cc
  BY <1>3
<1> QED
  BY <1>4 DEF k0

-----------------------------------------------------------------------------
(* The weights. *)

\* Every expert loaded has the shape of the first one of the checkpoint.
Shaped(q) ==
  /\ q.rows = Rows(experts[0]) /\ q.cols = Cols(experts[0]) /\ q.group = group

WeightInv ==
  /\ experts \in Layers /\ group \in Group
  /\ DOMAIN stored \subseteq DOMAIN experts
  /\ \A e \in DOMAIN stored : Shaped(stored[e])
  /\ table # NoTable => DOMAIN stored = DOMAIN experts /\ table = TableOf(stored)

\* A matrix of rows * cols weights.
Matrix(rows, cols) == [Upto(rows) -> [Upto(cols) -> Int]]

LEMMA MatrixShape ==
  ASSUME NEW rows \in Nat \ {0}, NEW cols \in Nat \ {0}, NEW w \in Matrix(rows, cols)
  PROVE  Rows(w) = rows /\ Cols(w) = cols
<1>1. DOMAIN w = 0 .. rows - 1 /\ DOMAIN w[0] = 0 .. cols - 1
  BY DEF Matrix, Upto
<1>2. Cardinality(0 .. rows - 1) = rows /\ Cardinality(0 .. cols - 1) = cols
  <2>1. \A n \in Nat \ {0} : Cardinality(0 .. n - 1) = n
    BY FS_Interval
  <2> QED
    BY <2>1
<1> QED
  BY <1>1, <1>2 DEF Rows, Cols

\* The shape that all experts have.
LEMMA LayerShape ==
  ASSUME WeightInv
  PROVE  /\ 0 \in DOMAIN experts
         /\ DOMAIN experts = Upto(Cardinality(DOMAIN experts))
         /\ Cardinality(DOMAIN experts) \in Nat \ {0}
         /\ Rows(experts[0]) \in Nat \ {0} /\ Cols(experts[0]) \in Nat \ {0}
         /\ \A e \in DOMAIN experts : /\ Rows(experts[e]) = Rows(experts[0])
                                      /\ Cols(experts[e]) = Cols(experts[0])
         /\ group \in Nat \ {0}
<1>1. experts \in Layers /\ group \in Group
  BY DEF WeightInv
<1>2. /\ DOMAIN experts = Upto(Cardinality(DOMAIN experts))
      /\ Cardinality(DOMAIN experts) \in Nat \ {0}
  BY <1>1, WeightsAssumption
<1>3. 0 \in DOMAIN experts
  BY <1>2 DEF Upto
<1> DEFINE rows == Rows(experts[0])
           cols == Cols(experts[0])
<1>4. rows \in Nat \ {0} /\ cols \in Nat \ {0} /\ group \in Nat \ {0}
  BY <1>1, WeightsAssumption
<1>5. \A e \in DOMAIN experts : experts[e] \in Matrix(rows, cols)
  BY <1>1, WeightsAssumption DEF Matrix
<1> HIDE DEF rows, cols
<1>6. \A e \in DOMAIN experts : Rows(experts[e]) = rows /\ Cols(experts[e]) = cols
  BY <1>4, <1>5, MatrixShape
<1> QED
  BY <1>2, <1>3, <1>4, <1>6 DEF rows, cols

LEMMA LoadKeepsInv ==
  ASSUME WeightInv, NEW e \in DOMAIN experts, LoadExpert(e)
  PROVE  WeightInv'
<1> DEFINE q == Quantized(experts[e], group, inFile)
<1>1. /\ e \notin DOMAIN stored
      /\ stored' = [f \in DOMAIN stored \cup {e} |-> IF f = e THEN q ELSE stored[f]]
      /\ experts' = experts /\ group' = group /\ table' = table
  BY DEF LoadExpert
<1>2. q.rows = Rows(experts[e]) /\ q.cols = Cols(experts[e]) /\ q.group = group
  BY DEF Quantized
<1> HIDE DEF q
<1>3. Shaped(q)
  BY <1>2, LayerShape DEF Shaped
<1>4. table = NoTable
  BY <1>1 DEF WeightInv
<1> QED
  BY <1>1, <1>3, <1>4 DEF WeightInv, Shaped

LEMMA UploadKeepsInv ==
  ASSUME WeightInv, Upload
  PROVE  WeightInv'
<1>1. /\ DOMAIN stored = DOMAIN experts /\ table' = TableOf(stored)
      /\ experts' = experts /\ group' = group /\ stored' = stored
  BY DEF Upload
<1>2. TableOf(stored)' = TableOf(stored)
  BY <1>1 DEF TableOf, Flat
<1> QED
  BY <1>1, <1>2 DEF WeightInv, Shaped

-----------------------------------------------------------------------------
\* What the table says of the shape.
LEMMA TableStrides ==
  ASSUME WeightInv, table # NoTable
  PROVE  /\ table.cols = Cols(experts[0]) /\ table.group = group
         /\ table.pstride = Rows(experts[0]) * PackedRow(Cols(experts[0]))
         /\ table.sstride = Rows(experts[0]) * NumGroups(Cols(experts[0]), group)
<1>1. /\ table = TableOf(stored)
      /\ stored[0].rows = Rows(experts[0]) /\ stored[0].cols = Cols(experts[0])
      /\ stored[0].group = group
  BY LayerShape DEF WeightInv, Shaped
<1> QED
  BY <1>1 DEF TableOf, PackedStride

\* The table in terms of the shape of the experts.
LEMMA TableEntries ==
  ASSUME WeightInv, table # NoTable, NEW e \in DOMAIN stored
  PROVE  LET rows == Rows(experts[0])
             cols == Cols(experts[0])
             bytes == PackedRow(cols)
             groups == NumGroups(cols, group)
         IN  /\ table.cols = cols /\ table.group = group
             /\ \A x \in 0 .. rows * bytes - 1 :
                  table.packed[e * table.pstride + x] = stored[e].packed[x]
             /\ \A x \in 0 .. rows * groups - 1 :
                  /\ table.scales[e * table.sstride + x] = stored[e].scales[x]
                  /\ table.zeros[e * table.sstride + x] = stored[e].zeros[x]
<1> DEFINE rows == Rows(experts[0])
           cols == Cols(experts[0])
           ps == rows * PackedRow(cols)
           ss == rows * NumGroups(cols, group)
           n == Cardinality(DOMAIN experts)
<1>1. /\ DOMAIN stored = DOMAIN experts /\ table = TableOf(stored)
      /\ stored[0].rows = rows /\ stored[0].cols = cols /\ stored[0].group = group
  BY LayerShape DEF WeightInv, Shaped
<1>2. PackedStride(stored[0]) = ps
  BY <1>1 DEF PackedStride
<1>3. stored[0].rows * NumGroups(stored[0].cols, stored[0].group) = ss
  BY <1>1
<1>4. Cardinality(DOMAIN stored) = n
  BY <1>1
<1> HIDE DEF ps, ss, n
<1>5. table = [cols |-> stored[0].cols, group |-> stored[0].group,
               pstride |-> ps, sstride |-> ss,
               packed |-> Flat(stored, n, ps, "packed"),
               scales |-> Flat(stored, n, ss, "scales"),
               zeros  |-> Flat(stored, n, ss, "zeros")]
  BY <1>1, <1>2, <1>3, <1>4, Zenon DEF TableOf
<1> HIDE DEF rows, cols
<1>6. /\ table.cols = cols /\ table.group = group
      /\ table.pstride = ps /\ table.sstride = ss
      /\ table.packed = Flat(stored, n, ps, "packed")
      /\ table.scales = Flat(stored, n, ss, "scales")
      /\ table.zeros = Flat(stored, n, ss, "zeros")
  BY <1>1, <1>5
<1>7. rows \in Nat \ {0} /\ cols \in Nat \ {0} /\ group \in Nat \ {0}
  BY LayerShape DEF rows, cols
<1>8. ps \in Nat \ {0} /\ ss \in Nat \ {0}
  <2>1. PackedRow(cols) \in Nat \ {0} /\ NumGroups(cols, group) \in Nat \ {0}
    BY <1>7, RowParts
  <2>2. \A a, b \in Nat \ {0} : a * b \in Nat \ {0}
    OBVIOUS
  <2> QED
    BY <2>1, <2>2, <1>7 DEF ps, ss
<1>9. n \in Nat /\ e \in 0 .. n - 1
  BY <1>1, LayerShape DEF n, Upto
<1>10. \A x \in 0 .. ps - 1 : table.packed[e * table.pstride + x] = stored[e].packed[x]
  <2> SUFFICES ASSUME NEW x \in 0 .. ps - 1
               PROVE  table.packed[e * table.pstride + x] = stored[e].packed[x]
    OBVIOUS
  <2>1. Flat(stored, n, ps, "packed")[e * ps + x] = stored[e].packed[x]
    <3> DEFINE i == e * ps + x
    <3>1. i \in 0 .. n * ps - 1 /\ i \div ps = e /\ i % ps = x
      <4>1. ps \in Nat \ {0} /\ n \in Nat /\ e \in 0 .. n - 1
        BY <1>8, <1>9
      <4>2. i = e * ps + x /\ e \in Nat
        BY <4>1
      <4>3. i \in 0 .. n * ps - 1
        BY <4>1, EntryBelow
      <4>4. i \div ps = e /\ i % ps = x
        BY <4>1, <4>2, QuotientUnique
      <4> QED
        BY <4>3, <4>4
    <3> HIDE DEF i
    <3>2. Flat(stored, n, ps, "packed")[i] = stored[e].packed[x]
      BY <3>1 DEF Flat, Upto
    <3> QED
      BY <3>2 DEF i
  <2> QED
    BY <2>1, <1>6, Zenon
<1>11. \A x \in 0 .. ss - 1 : /\ table.scales[e * table.sstride + x] = stored[e].scales[x]
                              /\ table.zeros[e * table.sstride + x] = stored[e].zeros[x]
  <2> SUFFICES ASSUME NEW x \in 0 .. ss - 1
               PROVE  /\ table.scales[e * table.sstride + x] = stored[e].scales[x]
                      /\ table.zeros[e * table.sstride + x] = stored[e].zeros[x]
    OBVIOUS
  <2>1. /\ Flat(stored, n, ss, "scales")[e * ss + x] = stored[e].scales[x]
        /\ Flat(stored, n, ss, "zeros")[e * ss + x] = stored[e].zeros[x]
    <3> DEFINE i == e * ss + x
    <3>1. i \in 0 .. n * ss - 1 /\ i \div ss = e /\ i % ss = x
      <4>1. ss \in Nat \ {0} /\ n \in Nat /\ e \in 0 .. n - 1
        BY <1>8, <1>9
      <4>2. i = e * ss + x /\ e \in Nat
        BY <4>1
      <4>3. i \in 0 .. n * ss - 1
        BY <4>1, EntryBelow
      <4>4. i \div ss = e /\ i % ss = x
        BY <4>1, <4>2, QuotientUnique
      <4> QED
        BY <4>3, <4>4
    <3> HIDE DEF i
    <3>2. /\ Flat(stored, n, ss, "scales")[i] = stored[e].scales[x]
          /\ Flat(stored, n, ss, "zeros")[i] = stored[e].zeros[x]
      BY <3>1 DEF Flat, Upto
    <3> QED
      BY <3>2 DEF i
  <2> QED
    BY <2>1, <1>6, Zenon
<1> QED
  BY <1>6, <1>10, <1>11 DEF ps, ss, rows, cols

-----------------------------------------------------------------------------
\* Where column c of row r has its byte and its group.
LEMMA ColumnEntry ==
  ASSUME WeightInv, NEW r \in Upto(Rows(experts[0])), NEW c \in Upto(Cols(experts[0]))
  PROVE  LET rows == Rows(experts[0])
             cols == Cols(experts[0])
         IN  /\ r * PackedRow(cols) + c \div 2 \in 0 .. rows * PackedRow(cols) - 1
             /\ r * NumGroups(cols, group) + c \div group
                  \in 0 .. rows * NumGroups(cols, group) - 1
<1> DEFINE rows == Rows(experts[0])
           cols == Cols(experts[0])
<1>1. rows \in Nat \ {0} /\ cols \in Nat \ {0} /\ group \in Nat \ {0}
  BY LayerShape
<1>2. r \in 0 .. rows - 1 /\ c \in 0 .. cols - 1
  BY DEF Upto
<1> HIDE DEF rows, cols
<1>3. PackedRow(cols) \in Nat \ {0} /\ NumGroups(cols, group) \in Nat \ {0}
  BY <1>1, RowParts
<1>4. c \div 2 \in 0 .. PackedRow(cols) - 1
  BY <1>1, <1>2 DEF PackedRow
<1>5. c \div group \in 0 .. NumGroups(cols, group) - 1
  BY <1>1, <1>2, QuotientBelow DEF NumGroups
<1>6. r * PackedRow(cols) + c \div 2 \in 0 .. rows * PackedRow(cols) - 1
  BY <1>1, <1>2, <1>3, <1>4, EntryBelow
<1>7. r * NumGroups(cols, group) + c \div group \in 0 .. rows * NumGroups(cols, group) - 1
  BY <1>1, <1>2, <1>3, <1>5, EntryBelow
<1> QED
  BY <1>6, <1>7 DEF rows, cols


-----------------------------------------------------------------------------
\* The table holds the expert's byte, scale and zero point of every column.
LEMMA TableColumn ==
  ASSUME WeightInv, table # NoTable, NEW e \in DOMAIN stored,
         NEW r \in Upto(Rows(experts[0])), NEW c \in Upto(Cols(experts[0]))
  PROVE  LET cols == Cols(experts[0])
             b == r * PackedRow(cols) + c \div 2
             k == r * NumGroups(cols, group) + c \div group
         IN  /\ table.packed[e * table.pstride + r * PackedRow(cols) + c \div 2]
                  = stored[e].packed[b]
             /\ table.scales[e * table.sstride + r * NumGroups(cols, group) + c \div group]
                  = stored[e].scales[k]
             /\ table.zeros[e * table.sstride + r * NumGroups(cols, group) + c \div group]
                  = stored[e].zeros[k]
<1> DEFINE cols == Cols(experts[0])
           b == r * PackedRow(cols) + c \div 2
           k == r * NumGroups(cols, group) + c \div group
<1>1. /\ b \in 0 .. Rows(experts[0]) * PackedRow(cols) - 1
      /\ k \in 0 .. Rows(experts[0]) * NumGroups(cols, group) - 1
  BY ColumnEntry
<1>2. /\ table.packed[e * table.pstride + b] = stored[e].packed[b]
      /\ table.scales[e * table.sstride + k] = stored[e].scales[k]
      /\ table.zeros[e * table.sstride + k] = stored[e].zeros[k]
  <2> HIDE DEF b, k
  <2> QED
    BY <1>1, TableEntries
<1>3. /\ e * table.pstride + r * PackedRow(cols) + c \div 2 = e * table.pstride + b
      /\ e * table.sstride + r * NumGroups(cols, group) + c \div group
           = e * table.sstride + k
  <2>1. \A p, q, v \in Int : p + q + v = p + (q + v)
    OBVIOUS
  <2>2. /\ e * table.pstride \in Int /\ e * table.sstride \in Int
        /\ r * PackedRow(cols) \in Int /\ r * NumGroups(cols, group) \in Int
        /\ c \div 2 \in Int /\ c \div group \in Int
    <3>1. /\ e \in Int /\ r \in Int /\ c \in Int /\ group \in Nat \ {0}
          /\ Rows(experts[0]) \in Nat \ {0} /\ cols \in Nat \ {0}
      BY LayerShape DEF WeightInv, Upto
    <3>2. PackedRow(cols) \in Int /\ NumGroups(cols, group) \in Int
      BY <3>1, RowParts
    <3>3. table.pstride \in Int /\ table.sstride \in Int
      BY <3>1, <3>2, TableStrides
    <3> HIDE DEF cols
    <3> QED
      BY <3>1, <3>2, <3>3
  <2> QED
    BY <2>1, <2>2
<1> QED
  BY <1>2, <1>3, Zenon


\* Reading the table gives the weight that at() gives.
LEMMA TableReadRight ==
  ASSUME WeightInv, table # NoTable, NEW e \in DOMAIN stored,
         NEW r \in Upto(Rows(experts[0])), NEW c \in Upto(Cols(experts[0]))
  PROVE  TableRead(e, r, c) = HostRead(stored[e], r, c)
<1>1. /\ stored[e].cols = Cols(experts[0]) /\ stored[e].group = group
      /\ table.cols = Cols(experts[0]) /\ table.group = group
  BY TableStrides DEF WeightInv, Shaped
<1> QED
  BY <1>1, TableColumn, Zenon DEF TableRead, HostRead

LEMMA PairReadRight ==
  ASSUME WeightInv, table # NoTable, NEW e \in DOMAIN stored,
         NEW r \in Upto(Rows(experts[0])), NEW c \in Upto(Cols(experts[0])),
         ~ SplitsPair(c, stored[e].group)
  PROVE  PairRead(e, r, c) = TableRead(e, r, c)
<1>1. c \in Nat /\ group \in Nat \ {0} /\ table.group = group /\ ~ SplitsPair(c, group)
  BY LayerShape, TableStrides DEF Upto, WeightInv, Shaped
<1>2. /\ (2 * (c \div 2)) \div table.group = c \div table.group
      /\ (2 * (c \div 2)) \div 2 = c \div 2
      /\ c = 2 * (c \div 2) <=> c % 2 # 1
  BY <1>1, PairInGroup
<1>3. CASE c % 2 = 1
  <2>1. c # 2 * (c \div 2)
    BY <1>2, <1>3
  <2> QED
    BY <1>2, <1>3, <2>1, Zenon DEF PairRead, TableRead
<1>4. CASE c % 2 # 1
  <2>1. c = 2 * (c \div 2)
    BY <1>2, <1>4
  <2> QED
    BY <1>2, <1>4, <2>1, Zenon DEF PairRead, TableRead
<1> QED
  BY <1>3, <1>4

\* An entry of a staged panel is the row's, or zero past its end.
LEMMA PanelReadRight ==
  ASSUME WeightInv, NEW e \in DOMAIN stored, NEW r \in Upto(Rows(experts[0])),
         NEW k \in Nat, NEW cc \in Upto(PanelCols)
  PROVE  LET q == stored[e]
             c == k * PanelCols + cc
         IN  IF c < q.cols THEN PanelRead(q, r, k * PanelCols, cc) = HostRead(q, r, c)
             ELSE PanelRead(q, r, k * PanelCols, cc).num = 0
<1> DEFINE q == stored[e]
           k0 == k * PanelCols
           c == k0 + cc
<1>1. q.cols \in Nat \ {0} /\ q.cols = Cols(experts[0])
  BY LayerShape DEF WeightInv, Shaped
<1>2. PanelCols \in Nat /\ cc \in Nat
  BY WeightsAssumption DEF Upto
<1>3. k0 \in Nat /\ c \in Nat
  BY <1>2
<1>4. /\ k0 \div 2 + cc \div 2 = c \div 2
      /\ c % 2 = cc % 2
      /\ 2 * (k0 \div 2 + cc \div 2) <= c
  BY <1>2, PanelColumn
<1>5. CASE c < q.cols
  <2>1. InRow(q.cols, k0 \div 2 + cc \div 2)
    <3>1. k0 \div 2 + cc \div 2 \in Nat
      BY <1>2, <1>3
    <3> HIDE DEF q, k0, c
    <3> QED
      BY <3>1, <1>1, <1>3, <1>4, <1>5 DEF InRow
  <2>2. RawByte(q, r, k0, cc \div 2) = q.packed[r * PackedRow(q.cols) + k0 \div 2 + cc \div 2]
    BY <2>1 DEF RawByte
  <2>3. r * PackedRow(q.cols) + k0 \div 2 + cc \div 2
          = r * PackedRow(q.cols) + c \div 2
    <3>1. /\ r * PackedRow(q.cols) \in Int /\ k0 \div 2 \in Int /\ cc \div 2 \in Int
      <4>1. r \in Int /\ PackedRow(q.cols) \in Int
        BY <1>1, RowParts DEF Upto
      <4> QED
        BY <4>1, <1>2, <1>3
    <3>2. \A x, y, z \in Int : x + y + z = x + (y + z)
      OBVIOUS
    <3> HIDE DEF q, k0, c
    <3> QED
      BY <3>1, <3>2, <1>4
  <2>4. ~ (c >= q.cols)
    BY <1>1, <1>3, <1>5
  <2> DEFINE byte == q.packed[r * PackedRow(q.cols) + c \div 2]
             gi == r * NumGroups(q.cols, q.group) + c \div q.group
  <2>5. RawByte(q, r, k0, cc \div 2) = byte
    BY <2>2, <2>3
  <2> HIDE DEF byte
  <2>6. PanelRead(q, r, k0, cc)
          = Value(IF cc % 2 = 1 THEN High(byte) ELSE Low(byte), q.zeros[gi], q.scales[gi])
    BY <2>4, <2>5, Zenon DEF PanelRead
  <2>7. HostRead(q, r, c)
          = Value(IF c % 2 = 1 THEN High(byte) ELSE Low(byte), q.zeros[gi], q.scales[gi])
    BY Zenon DEF HostRead, byte
  <2>8. PanelRead(q, r, k0, cc) = HostRead(q, r, c)
    <3>1. CASE cc % 2 = 1
      <4>1. PanelRead(q, r, k0, cc) = Value(High(byte), q.zeros[gi], q.scales[gi])
        BY <2>6, <3>1
      <4>2. HostRead(q, r, c) = Value(High(byte), q.zeros[gi], q.scales[gi])
        BY <2>7, <3>1, <1>4
      <4> QED
        BY <4>1, <4>2, Zenon
    <3>2. CASE cc % 2 # 1
      <4>1. PanelRead(q, r, k0, cc) = Value(Low(byte), q.zeros[gi], q.scales[gi])
        BY <2>6, <3>2
      <4>2. HostRead(q, r, c) = Value(Low(byte), q.zeros[gi], q.scales[gi])
        BY <2>7, <3>2, <1>4
      <4> QED
        BY <4>1, <4>2, Zenon
    <3> QED
      BY <3>1, <3>2
  <2> QED
    BY <2>8, <1>5, Zenon
<1>6. CASE ~ (c < q.cols)
  <2>1. c >= q.cols
    BY <1>1, <1>3, <1>6
  <2>2. PanelRead(q, r, k0, cc) = Zero(q.scales[0])
    BY <2>1 DEF PanelRead
  <2>3. Zero(q.scales[0]).num = 0
    BY DEF Zero
  <2> QED
    BY <2>2, <2>3, <1>6
<1> QED
  BY <1>5, <1>6

LEMMA WeightsStep ==
  ASSUME WeightInv, [WeightsNext]_weightVars
  PROVE  WeightInv'
<1>1. ASSUME NEW e \in DOMAIN experts, LoadExpert(e)
      PROVE  WeightInv'
  BY <1>1, LoadKeepsInv
<1>2. ASSUME Upload
      PROVE  WeightInv'
  BY <1>2, UploadKeepsInv
<1>3. ASSUME UNCHANGED weightVars
      PROVE  WeightInv'
  BY <1>3 DEF WeightInv, weightVars, Shaped, TableOf, Flat
<1> QED
  BY <1>1, <1>2, <1>3 DEF WeightsNext

\* Whatever the shape of the experts, their number, their order of loading and
\* the size of the groups, odd or even, each kernel multiplies with the weight
\* that at() gives on the host, but warp_dot_i4 where a group of odd size starts
\* at the second column of a pair (warp_dot_i4, the panels of the INT4 products).
THEOREM KernelsReadTheWeights == WeightsSpec => []ReadersAgree
<1>1. WeightsInit => WeightInv
  BY DEF WeightsInit, WeightInv
<1>2. WeightInv /\ [WeightsNext]_weightVars => WeightInv'
  BY WeightsStep
<1>3. WeightInv => ReadersAgree
  <2> SUFFICES ASSUME WeightInv, table # NoTable, NEW e \in DOMAIN stored,
                      NEW r \in Upto(stored[e].rows)
               PROVE  /\ \A c \in Upto(stored[e].cols) :
                           /\ TableRead(e, r, c) = HostRead(stored[e], r, c)
                           /\ \/ SplitsPair(c, stored[e].group)
                              \/ PairRead(e, r, c) = HostRead(stored[e], r, c)
                      /\ \A k \in Upto((stored[e].cols + PanelCols - 1) \div PanelCols),
                            cc \in Upto(PanelCols) :
                           LET c == k * PanelCols + cc
                           IN  IF c < stored[e].cols
                                 THEN PanelRead(stored[e], r, k * PanelCols, cc)
                                        = HostRead(stored[e], r, c)
                                 ELSE PanelRead(stored[e], r, k * PanelCols, cc).num = 0
    BY DEF ReadersAgree
  <2>1. stored[e].rows = Rows(experts[0]) /\ stored[e].cols = Cols(experts[0])
    BY DEF WeightInv, Shaped
  <2>2. \A c \in Upto(stored[e].cols) :
          /\ TableRead(e, r, c) = HostRead(stored[e], r, c)
          /\ SplitsPair(c, stored[e].group) \/ PairRead(e, r, c) = HostRead(stored[e], r, c)
    BY <2>1, TableReadRight, PairReadRight
  <2>3. ASSUME NEW k \in Upto((stored[e].cols + PanelCols - 1) \div PanelCols),
               NEW cc \in Upto(PanelCols)
        PROVE  LET c == k * PanelCols + cc
               IN  IF c < stored[e].cols
                     THEN PanelRead(stored[e], r, k * PanelCols, cc)
                            = HostRead(stored[e], r, c)
                     ELSE PanelRead(stored[e], r, k * PanelCols, cc).num = 0
    <3>1. k \in Nat
      BY DEF Upto
    <3> QED
      BY <2>1, <3>1, PanelReadRight
  <2> QED
    BY <2>2, <2>3
<1> QED
  BY <1>1, <1>2, <1>3, PTL DEF WeightsSpec

\* So with groups of even size, as those of the program's defaults
\* (config.h:112), warp_dot_i4 reads every column right too.
LEMMA EvenGroupsSplitNone ==
  ASSUME NEW c \in Nat, NEW g \in Nat \ {0}, g % 2 = 0
  PROVE  ~ SplitsPair(c, g)
<1> SUFFICES ASSUME c % g = 0 PROVE c % 2 = 0
  BY DEF SplitsPair
<1> DEFINE k == g \div 2
           a == c \div g
<1>1. g = 2 * k + (g % 2) /\ k \in Nat
  BY Halves
<1>2. c = a * g + (c % g) /\ a \in Nat
  BY Division
<1> HIDE DEF a, k
<1>3. a * g = 2 * (a * k) /\ a * k \in Nat
  BY <1>1, <1>2
<1> DEFINE b == a * k
<1> HIDE DEF b
<1>4. c = 2 * b /\ b \in Nat
  BY <1>2, <1>3 DEF b
<1> QED
  BY <1>4

-----------------------------------------------------------------------------
(* Rounding. *)

\* Near(n, p, d): p is a multiple of d that n is half of d from, at most.
Near(n, p, d) == 2 * n <= 2 * p + d /\ 2 * p <= 2 * n + d

LEMMA RoundNear ==
  ASSUME NEW n \in Int, NEW d \in Nat \ {0}
  PROVE  Round(n, d) \in Int /\ Near(n, Round(n, d) * d, d)
<1> DEFINE s == 2 * d
<1>0. s \in Nat \ {0} /\ s = 2 * d
  OBVIOUS
<1>1. CASE n >= 0
  <2> DEFINE m == 2 * n + d
             q == m \div s
             x == m % s
  <2>1. m \in Nat /\ m = 2 * n + d
    BY <1>1
  <2> HIDE DEF m, s
  <2>2. m = q * s + x /\ q \in Nat /\ x \in 0 .. s - 1
    BY <1>0, <2>1, Division
  <2>3. Round(n, d) = q
    BY <1>1 DEF Round, m, s
  <2> HIDE DEF q, x
  <2>4. q * s = 2 * (q * d) /\ q * d \in Int
    BY <1>0, <2>2
  <2> DEFINE p == q * d
  <2>5. p \in Int /\ m = 2 * p + x
    BY <2>2, <2>4
  <2>6. Near(n, p, d)
    <3> HIDE DEF p
    <3> QED
      BY <1>0, <2>1, <2>2, <2>5 DEF Near
  <2> QED
    BY <2>2, <2>3, <2>6
<1>2. CASE n < 0
  <2> DEFINE m == d - 2 * n
             q == m \div s
             x == m % s
  <2>1. m \in Nat /\ m = d - 2 * n
    BY <1>2
  <2> HIDE DEF m, s
  <2>2. m = q * s + x /\ q \in Nat /\ x \in 0 .. s - 1
    BY <1>0, <2>1, Division
  <2>3. Round(n, d) = -q
    BY <1>2 DEF Round, m, s
  <2> HIDE DEF q, x
  <2>4. q * s = 2 * (q * d) /\ q * d \in Int /\ (-q) * d = -(q * d)
    BY <1>0, <2>2
  <2> DEFINE p == q * d
  <2>5. p \in Int /\ m = 2 * p + x /\ (-q) * d = -p
    BY <2>2, <2>4
  <2>6. Near(n, -p, d)
    <3> HIDE DEF p
    <3> QED
      BY <1>0, <2>1, <2>2, <2>5 DEF Near
  <2>7. Near(n, (-q) * d, d)
    BY <2>5, <2>6
  <2> QED
    BY <2>2, <2>3, <2>7
<1> QED
  BY <1>1, <1>2

\* Multiples of two numbers keep their order.
LEMMA Multiples ==
  ASSUME NEW d \in Nat \ {0}, NEW a \in Int, NEW b \in Int
  PROVE  /\ a * d \in Int
         /\ a < b => a * d + d <= b * d
         /\ 0 * d = 0
<1>1. a < b => a * d + d <= b * d
  <2> SUFFICES ASSUME a < b  PROVE a * d + d <= b * d
    OBVIOUS
  <2> DEFINE k == b - a - 1
  <2>1. k \in Nat /\ b = a + k + 1
    OBVIOUS
  <2> HIDE DEF k
  <2>2. b * d = a * d + k * d + d /\ k * d \in Nat /\ a * d \in Int
    BY <2>1
  <2> QED
    BY <2>2
<1> QED
  BY <1>1

\* Of the sixteen values of a nibble the clamped one is nearest, and it is half
\* a step off at most if the number is no further than that from the range.
LEMMA ClampNear ==
  ASSUME NEW n \in Int, NEW d \in Nat \ {0}, NEW R \in Int, Near(n, R * d, d)
  PROVE  LET off(v) == Abs(n - v * d)
         IN  /\ Clamp4(R) \in 0 .. 15
             /\ \A v \in 0 .. 15 : off(Clamp4(R)) <= off(v)
             /\ -d <= 2 * n /\ 2 * n <= 31 * d => 2 * off(Clamp4(R)) <= d
<1> DEFINE K == Clamp4(R)
           p == R * d
<1>1. K \in 0 .. 15 /\ K = (IF R < 0 THEN 0 ELSE IF R > 15 THEN 15 ELSE R)
  BY DEF Clamp4
<1>2. p \in Int /\ K * d \in Int /\ Near(n, p, d)
  BY <1>1
<1> DEFINE k == K * d
<1>3. \/ R = K /\ p = k
      \/ R < 0 /\ K = 0 /\ k = 0 /\ p + d <= 0
      \/ R > 15 /\ K = 15 /\ k = 15 * d /\ 15 * d + d <= p
  <2>1. CASE R < 0
    BY <1>1, <2>1, Multiples
  <2>2. CASE R > 15
    BY <1>1, <2>2, Multiples
  <2>3. CASE ~ (R < 0) /\ ~ (R > 15)
    BY <1>1, <2>3
  <2> QED
    BY <2>1, <2>2, <2>3
<1> HIDE DEF p, k, K
<1>4. k \in Int
  BY <1>2 DEF k
<1>5. ASSUME NEW v \in 0 .. 15
      PROVE  Abs(n - k) <= Abs(n - v * d)
  <2> DEFINE u == v * d
  <2>1. /\ u \in Int /\ 0 <= u /\ u <= 15 * d
        /\ R < v => p + d <= u
        /\ v < R => u + d <= p
        /\ v = R => u = p
    <3>1. u \in Int /\ 0 <= u
      BY Multiples
    <3>2. u <= 15 * d
      <4>1. CASE v = 15
        BY <4>1
      <4>2. CASE v < 15
        BY <4>2, <3>1, Multiples
      <4> QED
        BY <4>1, <4>2
    <3>3. (R < v => p + d <= u) /\ (v < R => u + d <= p) /\ (v = R => u = p)
      BY Multiples DEF p
    <3> QED
      BY <3>1, <3>2, <3>3
  <2> HIDE DEF u
  <2>2. Abs(n - k) <= Abs(n - u)
    BY <1>2, <1>3, <1>4, <2>1 DEF Near, Abs
  <2> QED
    BY <2>2 DEF u
<1>6. -d <= 2 * n /\ 2 * n <= 31 * d => 2 * Abs(n - k) <= d
  BY <1>2, <1>3, <1>4 DEF Near, Abs
<1> QED
  BY <1>1, <1>5, <1>6 DEF K, k

-----------------------------------------------------------------------------
(* The groups. *)

LEMMA InductionOverSubsets ==
  ASSUME NEW S, IsFiniteSet(S), NEW P,
         \A U \in SUBSET S : (\A x \in U : U \ {x} \in P) => U \in P
  PROVE  SUBSET S \subseteq P
<1> DEFINE T == (SUBSET S) \ P
<1>1. SUFFICES ASSUME T # {}  PROVE FALSE
  OBVIOUS
<1>2. IsWellFoundedOn(StrictSubsetOrdering(S), SUBSET S)
  BY FS_StrictSubsetOrderingWellFounded, FS_FiniteSubsetsOfFinite
<1>3. PICK U \in T : \A V \in T : <<V, U>> \notin StrictSubsetOrdering(S)
  <2>1. T \subseteq SUBSET S
    OBVIOUS
  <2> HIDE DEF T
  <2> QED
    BY <1>1, <1>2, <2>1, WFMin
<1>4. \A x \in U : U \ {x} \in P
  <2> SUFFICES ASSUME NEW x \in U  PROVE U \ {x} \in P
    OBVIOUS
  <2>1. U \ {x} \in SUBSET S /\ U \ {x} \subseteq U /\ U \ {x} # U
    OBVIOUS
  <2>2. <<U \ {x}, U>> \in StrictSubsetOrdering(S)
    BY <2>1 DEF StrictSubsetOrdering
  <2> QED
    BY <1>3, <2>1, <2>2
<1> QED
  BY <1>4

LEMMA Extremes ==
  ASSUME NEW S \in SUBSET Int, IsFiniteSet(S), S # {}
  PROVE  /\ Max(S) \in S /\ \A y \in S : y <= Max(S)
         /\ Min(S) \in S /\ \A y \in S : Min(S) <= y
<1> DEFINE Has(U) == /\ \E m \in U : \A y \in U : m >= y
                     /\ \E m \in U : \A y \in U : m =< y
           P == {U \in SUBSET S : U = {} \/ Has(U)}
<1>1. ASSUME NEW U \in SUBSET S, \A x \in U : U \ {x} \in P
      PROVE  U \in P
  <2>1. SUFFICES ASSUME U # {}  PROVE Has(U)
    OBVIOUS
  <2>2. PICK x \in U : TRUE
    BY <2>1
  <2>3. U \ {x} \in P /\ U \subseteq Int
    BY <1>1
  <2>4. CASE U \ {x} = {}
    <3>1. U = {x}
      BY <2>4
    <3> QED
      BY <2>3, <3>1
  <2>5. CASE U \ {x} # {}
    <3>1. PICK m \in U \ {x} : \A y \in U \ {x} : m >= y
      BY <2>3, <2>5
    <3>2. PICK l \in U \ {x} : \A y \in U \ {x} : l =< y
      BY <2>3, <2>5
    <3>3. \E k \in U : \A y \in U : k >= y
      <4>1. CASE m >= x
        BY <2>3, <3>1, <4>1
      <4>2. CASE ~ (m >= x)
        BY <2>3, <3>1, <4>2
      <4> QED
        BY <4>1, <4>2
    <3>4. \E k \in U : \A y \in U : k =< y
      <4>1. CASE l =< x
        BY <2>3, <3>2, <4>1
      <4>2. CASE ~ (l =< x)
        BY <2>3, <3>2, <4>2
      <4> QED
        BY <4>1, <4>2
    <3> QED
      BY <3>3, <3>4
  <2> QED
    BY <2>4, <2>5
<1>2. SUBSET S \subseteq P
  <2> HIDE DEF P
  <2> QED
    BY <1>1, InductionOverSubsets
<1>3. Has(S)
  BY <1>2
<1> QED
  BY <1>3 DEF Max, Min

\* What RoundsToNearest says of weight w of a group ws quantized to q.
Represents(q, w, ws) ==
  LET off(v) == Abs(w * q.den - (v - q.zero) * q.num)
  IN  /\ q.nibble[w] \in 0 .. 15
      /\ \A v \in 0 .. 15 : off(q.nibble[w]) <= off(v)
      /\ (\E u \in ws : u <= 0) /\ (\E u \in ws : u >= 0) => 2 * off(q.nibble[w]) <= q.num

\* A nibble rounded and clamped from m weights' worth of n, with zero point z.
LEMMA RoundedNibble ==
  ASSUME NEW w \in Int, NEW den \in Int, NEW z \in Int, NEW d \in Nat \ {0}, NEW R \in Int,
         Near(w * den + z * d, R * d, d)
  PROVE  LET off(v) == Abs(w * den - (v - z) * d)
             n == w * den + z * d
         IN  /\ Clamp4(R) \in 0 .. 15
             /\ \A v \in 0 .. 15 : off(Clamp4(R)) <= off(v)
             /\ -d <= 2 * n /\ 2 * n <= 31 * d => 2 * off(Clamp4(R)) <= d
<1> DEFINE n == w * den + z * d
           K == Clamp4(R)
<1>1. n \in Int
  OBVIOUS
<1>2. /\ K \in 0 .. 15
      /\ \A v \in 0 .. 15 : Abs(n - K * d) <= Abs(n - v * d)
      /\ -d <= 2 * n /\ 2 * n <= 31 * d => 2 * Abs(n - K * d) <= d
  <2> HIDE DEF n
  <2>1. Near(n, R * d, d)
    BY DEF n
  <2> QED
    BY <1>1, <2>1, ClampNear
<1>3. \A v \in Int : w * den - (v - z) * d = n - v * d
  <2> SUFFICES ASSUME NEW v \in Int  PROVE w * den - (v - z) * d = n - v * d
    OBVIOUS
  <2>1. (v - z) * d = v * d - z * d
    OBVIOUS
  <2>2. w * den \in Int /\ v * d \in Int /\ z * d \in Int
    OBVIOUS
  <2> QED
    BY <2>1, <2>2
<1>4. /\ w * den - (K - z) * d = n - K * d
      /\ \A v \in 0 .. 15 : w * den - (v - z) * d = n - v * d
  <2>1. K \in Int /\ \A v \in 0 .. 15 : v \in Int
    BY <1>2
  <2> HIDE DEF n, K
  <2> QED
    BY <1>3, <2>1, Zenon
<1> HIDE DEF n, K
<1>5. \A v \in 0 .. 15 : Abs(w * den - (K - z) * d) <= Abs(w * den - (v - z) * d)
  BY <1>2, <1>4, Zenon
<1>6. -d <= 2 * n /\ 2 * n <= 31 * d => 2 * Abs(w * den - (K - z) * d) <= d
  BY <1>2, <1>4, Zenon
<1> QED
  BY <1>2, <1>5, <1>6 DEF n, K

LEMMA AwqRepresents ==
  ASSUME NEW ws \in SUBSET Int, IsFiniteSet(ws), NEW w \in ws
  PROVE  Represents(Awq(ws), w, ws)
<1> DEFINE mn == Min(ws)
           mx == Max(ws)
           d == mx - mn
           Sign(x) == IF x > 0 THEN 15 ELSE 0
           z0 == Round(-mn * 15, d)
           zero == IF d = 0 THEN Sign(-mn) ELSE Clamp4(z0)
           R == Round(w * 15 + zero * d, d)
           q == Awq(ws)
<1>1. /\ mn \in ws /\ mx \in ws /\ mn \in Int /\ mx \in Int /\ w \in Int
      /\ \A y \in ws : mn <= y /\ y <= mx /\ y \in Int
  BY Extremes
<1>2. /\ q.num = d /\ q.den = 15 /\ q.zero = zero
      /\ q.nibble[w] = IF d = 0 THEN Sign(w) ELSE Clamp4(R)
  BY DEF Awq
<1> HIDE DEF mn, mx, q
<1>3. d \in Nat
  BY <1>1
<1>4. CASE d = 0
  <2>1. /\ \A y \in ws : y = w
        /\ q.num = 0 /\ q.nibble[w] \in 0 .. 15 /\ q.zero \in 0 .. 15
    BY <1>1, <1>2, <1>4
  <2>2. \A v \in 0 .. 15 : (v - q.zero) * q.num = 0
    BY <2>1
  <2>3. \A v \in 0 .. 15 : w * q.den - (v - q.zero) * q.num = w * 15
    BY <1>1, <1>2, <2>2
  <2>4. \A v \in 0 .. 15 : Abs(w * q.den - (v - q.zero) * q.num) = Abs(w * 15)
    BY <2>3
  <2>5. Abs(w * 15) \in Int
    BY <1>1 DEF Abs
  <2>6. (\E u \in ws : u <= 0) /\ (\E u \in ws : u >= 0) => 2 * Abs(w * 15) <= 0
    <3> SUFFICES ASSUME NEW u \in ws, u <= 0, NEW v \in ws, v >= 0
                 PROVE  2 * Abs(w * 15) <= 0
      OBVIOUS
    <3>1. w = 0
      BY <1>1, <2>1
    <3> QED
      BY <3>1 DEF Abs
  <2> QED
    BY <2>1, <2>4, <2>5, <2>6 DEF Represents, q
<1>5. CASE d # 0
  <2>1. d \in Nat \ {0} /\ z0 \in Int /\ Near(-mn * 15, z0 * d, d) /\ -mn * 15 \in Int
    BY <1>1, <1>3, <1>5, RoundNear
  <2>2. /\ zero \in 0 .. 15 /\ zero = Clamp4(z0)
        /\ -d <= 2 * (-mn * 15) /\ 2 * (-mn * 15) <= 31 * d
             => 2 * Abs(-mn * 15 - Clamp4(z0) * d) <= d
    <3> HIDE DEF z0
    <3> QED
      BY <1>5, <2>1, ClampNear
  <2> DEFINE n == w * 15 + zero * d
  <2>3. n \in Int /\ zero * d \in Int
    BY <1>1, <1>3, <2>2
  <2>4. R \in Int /\ Near(n, R * d, d)
    <3> HIDE DEF zero
    <3> QED
      BY <2>1, <2>3, RoundNear
  <2>5. LET off(v) == Abs(w * 15 - (v - zero) * d)
        IN  /\ Clamp4(R) \in 0 .. 15
            /\ \A v \in 0 .. 15 : off(Clamp4(R)) <= off(v)
            /\ -d <= 2 * n /\ 2 * n <= 31 * d => 2 * off(Clamp4(R)) <= d
    <3>1. w \in Int /\ 15 \in Int /\ zero \in Int /\ d \in Nat \ {0} /\ R \in Int
      BY <1>1, <2>1, <2>2, <2>4
    <3>2. Near(w * 15 + zero * d, R * d, d)
      BY <2>4
    <3> HIDE DEF zero, R, d
    <3> QED
      BY <3>1, <3>2, RoundedNibble, Zenon
  <2>6. ASSUME \E u \in ws : u <= 0, \E u \in ws : u >= 0
        PROVE  -d <= 2 * n /\ 2 * n <= 31 * d
    <3>1. mn <= 0 /\ 0 <= mx /\ mn <= w /\ w <= mx
      <4>1. PICK u \in ws : u <= 0
        BY <2>6
      <4>2. PICK v \in ws : v >= 0
        BY <2>6
      <4> QED
        BY <1>1, <4>1, <4>2
    <3>2. -d <= 2 * (-mn * 15) /\ 2 * (-mn * 15) <= 31 * d
      BY <1>1, <3>1
    <3>3. 2 * Abs(-mn * 15 - zero * d) <= d
      BY <2>2, <3>2
    <3> DEFINE Z == zero * d
    <3> HIDE DEF zero
    <3>4. Z \in Int /\ 2 * Abs(-mn * 15 - Z) <= d /\ n = w * 15 + Z
      BY <2>3, <3>3
    <3> HIDE DEF Z, n
    <3> QED
      BY <1>1, <3>1, <3>4 DEF Abs
  <2>7. q.num = d /\ q.den = 15 /\ q.zero = zero /\ q.nibble[w] = Clamp4(R)
    BY <1>2, <1>5
  <2> HIDE DEF zero, R, d
  <2> QED
    BY <2>5, <2>6, <2>7 DEF Represents, q
<1> QED
  BY <1>4, <1>5

LEMMA SymmetricRepresents ==
  ASSUME NEW ws \in SUBSET Int, IsFiniteSet(ws), NEW w \in ws
  PROVE  Represents(Symmetric(ws), w, ws)
<1> DEFINE M(x) == IF x < 0 THEN -x ELSE x
           mags == {M(x) : x \in ws}
           d == Max(mags)
           R == Round(w * 7, d)
           q == Symmetric(ws)
<1>1. /\ q.num = d /\ q.den = 7 /\ q.zero = 8
      /\ q.nibble[w] = IF d = 0 THEN 8 ELSE Clamp4(R + 8)
  BY DEF Symmetric
<1>2. IsFiniteSet(mags) /\ mags \in SUBSET Int /\ mags # {}
  <2>1. IsFiniteSet(mags)
    <3> DEFINE f == [x \in ws |-> M(x)]
    <3>1. f \in Surjection(ws, mags)
      BY DEF Surjection
    <3> HIDE DEF f, mags
    <3> QED
      BY <3>1, FS_Surjection
  <2> QED
    BY <2>1
<1>3. d \in mags /\ \A y \in mags : y <= d
  <2> HIDE DEF mags
  <2> QED
    BY <1>2, Extremes
<1>4. M(w) \in mags
  OBVIOUS
<1>5. d \in Nat /\ -d <= w /\ w <= d /\ w \in Int
  <2>1. d \in Nat
    <3> HIDE DEF d
    <3> QED
      BY <1>3
  <2>2. M(w) <= d /\ M(w) \in Nat
    <3> HIDE DEF d, mags
    <3> QED
      BY <1>3, <1>4
  <2> HIDE DEF d
  <2> QED
    BY <2>1, <2>2
<1> HIDE DEF d, q, mags
<1>6. CASE d = 0
  <2>1. w = 0 /\ q.num = 0 /\ q.nibble[w] = 8
    BY <1>1, <1>5, <1>6
  <2>2. \A v \in 0 .. 15 : (v - q.zero) * q.num = 0
    BY <1>1, <2>1
  <2>3. \A v \in 0 .. 15 : w * q.den - (v - q.zero) * q.num = 0
    BY <1>1, <2>1, <2>2
  <2> QED
    BY <2>1, <2>3 DEF Represents, q, Abs
<1>7. CASE d # 0
  <2>1. d \in Nat \ {0} /\ w * 7 \in Int
    BY <1>5, <1>7
  <2>2. R \in Int /\ Near(w * 7, R * d, d)
    BY <2>1, RoundNear
  <2> HIDE DEF R
  <2> DEFINE n == w * 7 + 8 * d
  <2>3. Near(n, (R + 8) * d, d) /\ R + 8 \in Int
    <3> DEFINE p == R * d
    <3>1. (R + 8) * d = p + 8 * d /\ p \in Int
      BY <2>1, <2>2
    <3>2. Near(w * 7, p, d)
      BY <2>2
    <3> HIDE DEF p
    <3>3. Near(n, p + 8 * d, d)
      BY <2>1, <3>1, <3>2 DEF Near
    <3> QED
      BY <2>2, <3>1, <3>3
  <2>4. LET off(v) == Abs(w * 7 - (v - 8) * d)
        IN  /\ Clamp4(R + 8) \in 0 .. 15
            /\ \A v \in 0 .. 15 : off(Clamp4(R + 8)) <= off(v)
            /\ -d <= 2 * n /\ 2 * n <= 31 * d => 2 * off(Clamp4(R + 8)) <= d
    <3> DEFINE T == R + 8
    <3>1. /\ T \in Int /\ Near(w * 7 + 8 * d, T * d, d)
          /\ w \in Int /\ 7 \in Int /\ 8 \in Int /\ d \in Nat \ {0}
      BY <1>5, <2>1, <2>3
    <3> HIDE DEF T
    <3>2. LET off(v) == Abs(w * 7 - (v - 8) * d)
          IN  /\ Clamp4(T) \in 0 .. 15
              /\ \A v \in 0 .. 15 : off(Clamp4(T)) <= off(v)
              /\ -d <= 2 * n /\ 2 * n <= 31 * d => 2 * off(Clamp4(T)) <= d
      BY <3>1, RoundedNibble, Zenon
    <3> QED
      BY <3>2 DEF T
  <2>5. -d <= 2 * n /\ 2 * n <= 31 * d
    BY <1>5
  <2>6. q.num = d /\ q.den = 7 /\ q.zero = 8 /\ q.nibble[w] = Clamp4(R + 8)
    BY <1>1, <1>7 DEF R
  <2> HIDE DEF n
  <2> QED
    BY <2>4, <2>5, <2>6 DEF Represents, q
<1> QED
  BY <1>6, <1>7

-----------------------------------------------------------------------------
LEMMA QuantizeRepresents ==
  ASSUME NEW ws \in SUBSET Int, IsFiniteSet(ws), NEW w \in ws, NEW symmetric
  PROVE  Represents(Quantize(ws, symmetric), w, ws)
BY AwqRepresents, SymmetricRepresents DEF Quantize

LEMMA GroupOf ==
  ASSUME NEW rows \in Nat \ {0}, NEW cols \in Nat \ {0}, NEW w \in Matrix(rows, cols),
         NEW g \in Nat \ {0}, NEW r \in Upto(rows), NEW c \in Upto(cols)
  PROVE  LET ws == InGroup(w, g, r, c \div g)
         IN  ws \in SUBSET Int /\ IsFiniteSet(ws) /\ w[r][c] \in ws
<1> DEFINE ws == InGroup(w, g, r, c \div g)
           D == {d \in DOMAIN w[r] : d \div g = c \div g}
           f == [d \in D |-> w[r][d]]
<1>1. DOMAIN w[r] = 0 .. cols - 1 /\ \A d \in DOMAIN w[r] : w[r][d] \in Int
  BY DEF Matrix, Upto
<1>2. ws = {w[r][d] : d \in D}
  BY DEF InGroup
<1>3. IsFiniteSet(D)
  <2>1. IsFiniteSet(0 .. cols - 1)
    BY FS_Interval
  <2> QED
    BY <1>1, <2>1, FS_Subset
<1>4. f \in Surjection(D, ws)
  BY <1>2 DEF Surjection
<1>5. IsFiniteSet(ws)
  <2> HIDE DEF f, D, ws
  <2> QED
    BY <1>3, <1>4, FS_Surjection
<1>6. c \in D
  BY <1>1 DEF Upto
<1> QED
  BY <1>1, <1>2, <1>5, <1>6

\* What at() reads of a quantized matrix is what its group gives.
LEMMA ReadsGroup ==
  ASSUME NEW rows \in Nat \ {0}, NEW cols \in Nat \ {0}, NEW w \in Matrix(rows, cols),
         NEW g \in Nat \ {0}, NEW symmetric, NEW r \in Upto(rows), NEW c \in Upto(cols)
  PROVE  LET q == Quantized(w, g, symmetric)
             of == Quantize(InGroup(w, g, r, c \div g), symmetric)
             gi == r * NumGroups(cols, g) + c \div g
         IN  /\ q.cols = cols /\ q.group = g
             /\ q.zeros[gi] = of.zero /\ q.scales[gi] = [num |-> of.num, den |-> of.den]
             /\ HostRead(q, r, c) = Value(of.nibble[w[r][c]], q.zeros[gi], q.scales[gi])
<1> DEFINE q == Quantized(w, g, symmetric)
           ng == NumGroups(cols, g)
           P == PackedRow(cols)
           Grp(x, k) == Quantize(InGroup(w, g, x, k), symmetric)
           Nib(x, y) == IF y < cols THEN Grp(x, y \div g).nibble[w[x][y]] ELSE 0
           gi == r * ng + c \div g
           i == r * P + c \div 2
           f == 2 * (c \div 2)
<1>1. Rows(w) = rows /\ Cols(w) = cols /\ DOMAIN w = 0 .. rows - 1
  BY MatrixShape DEF Matrix, Upto
<1>2. ng \in Nat \ {0} /\ P \in Nat \ {0} /\ r \in 0 .. rows - 1 /\ c \in 0 .. cols - 1
  BY RowParts DEF Upto
<1>3. c \div g \in 0 .. ng - 1 /\ c \div 2 \in 0 .. P - 1
  <2>1. c \div g \in 0 .. ng - 1
    BY <1>2, QuotientBelow DEF NumGroups
  <2>2. c \div 2 \in 0 .. P - 1
    BY <1>2 DEF PackedRow
  <2> QED
    BY <2>1, <2>2
<1>4. /\ gi \in 0 .. rows * ng - 1 /\ gi \div ng = r /\ gi % ng = c \div g
      /\ i \in 0 .. rows * P - 1 /\ i \div P = r /\ i % P = c \div 2
  <2> HIDE DEF ng, P
  <2>1. gi \in 0 .. rows * ng - 1 /\ i \in 0 .. rows * P - 1
    BY <1>2, <1>3, EntryBelow
  <2>2. r \in Nat
    BY <1>2
  <2>3. gi \div ng = r /\ gi % ng = c \div g
    BY <1>2, <1>3, <2>2, QuotientUnique, Zenon
  <2>4. i \div P = r /\ i % P = c \div 2
    BY <1>2, <1>3, <2>2, QuotientUnique, Zenon
  <2> QED
    BY <2>1, <2>3, <2>4
<1>5. q.cols = cols /\ q.group = g
  BY <1>1 DEF Quantized
<1>6. /\ q.zeros[gi] = Grp(r, c \div g).zero
      /\ q.scales[gi] = [num |-> Grp(r, c \div g).num, den |-> Grp(r, c \div g).den]
  <2> DEFINE n == NumGroups(Cols(w), g)
             by == [x \in DOMAIN w |-> [k \in Upto(n) |-> Grp(x, k)]]
             of(y) == by[y \div n][y % n]
  <2>0. n = ng
    BY <1>1
  <2>1. /\ q.zeros = [y \in Upto(Rows(w) * n) |-> of(y).zero]
        /\ q.scales = [y \in Upto(Rows(w) * n) |-> [num |-> of(y).num, den |-> of(y).den]]
    BY DEF Quantized
  <2>2. gi \in Upto(rows * ng)
    BY <1>4 DEF Upto
  <2>3. of(gi) = Grp(r, c \div g)
    <3>1. by[r][c \div g] = Grp(r, c \div g)
      <4>1. r \in DOMAIN w /\ c \div g \in Upto(n)
        BY <1>1, <1>2, <1>3, <2>0 DEF Upto
      <4> HIDE DEF n, Grp
      <4> QED
        BY <4>1
    <3>2. gi \div n = r /\ gi % n = c \div g
      BY <1>4, <2>0
    <3> HIDE DEF by, gi, n
    <3> QED
      BY <3>1, <3>2
  <2>4. gi \in Upto(Rows(w) * n)
    BY <1>1, <2>0, <2>2
  <2> HIDE DEF of, gi, n, q
  <2> QED
    BY <2>1, <2>3, <2>4
<1>7. q.packed[i] = Nib(r, f) + 16 * Nib(r, f + 1)
  <2> DEFINE n == NumGroups(Cols(w), g)
             p == PackedRow(Cols(w))
             by == [x \in DOMAIN w |-> [k \in Upto(n) |-> Grp(x, k)]]
             N(x, y) == IF y < Cols(w) THEN by[x][y \div g].nibble[w[x][y]] ELSE 0
             E(y) == EvenColumn(Cols(w), y)
  <2>0. n = ng /\ p = P
    BY <1>1
  <2>1. q.packed = [y \in Upto(Rows(w) * p) |-> N(y \div p, E(y)) + 16 * N(y \div p, E(y) + 1)]
    BY DEF Quantized
  <2>2. i \in Upto(Rows(w) * p) /\ i \div p = r
    BY <1>1, <1>4, <2>0 DEF Upto
  <2>3. E(i) = f
    BY <1>1, <1>4 DEF EvenColumn
  <2>4. \A y \in Nat : N(r, y) = Nib(r, y)
    <3> SUFFICES ASSUME NEW y \in Nat, y < cols
                 PROVE  by[r][y \div g] = Grp(r, y \div g)
      <4> HIDE DEF by, Grp
      <4> QED
        BY <1>1
    <3>1. r \in DOMAIN w /\ y \div g \in Upto(n)
      <4>1. y \in 0 .. cols - 1
        OBVIOUS
      <4>2. y \div g \in 0 .. ng - 1
        BY <4>1, QuotientBelow DEF NumGroups
      <4> QED
        BY <1>1, <1>2, <2>0, <4>2 DEF Upto
    <3> HIDE DEF n, Grp
    <3> QED
      BY <3>1
  <2>5. f \in Nat /\ f + 1 \in Nat
    BY <1>2
  <2>6. N(r, f) = Nib(r, f) /\ N(r, f + 1) = Nib(r, f + 1)
    <3> HIDE DEF f, by, Grp
    <3> QED
      BY <2>4, <2>5
  <2>7. q.packed[i] = N(i \div p, E(i)) + 16 * N(i \div p, E(i) + 1)
    <3> HIDE DEF N, E, i, p, q
    <3> QED
      BY <2>1, <2>2
  <2> HIDE DEF N, E, i, p, q, f, Nib
  <2> QED
    BY <2>2, <2>3, <2>6, <2>7
<1>8. \A y \in Upto(cols) : Nib(r, y) \in 0 .. 15
  <2> SUFFICES ASSUME NEW y \in Upto(cols)
               PROVE  Grp(r, y \div g).nibble[w[r][y]] \in 0 .. 15
    BY DEF Upto
  <2> DEFINE ws == InGroup(w, g, r, y \div g)
  <2>1. ws \in SUBSET Int /\ IsFiniteSet(ws) /\ w[r][y] \in ws
    BY GroupOf
  <2> HIDE DEF ws
  <2>2. Represents(Quantize(ws, symmetric), w[r][y], ws)
    BY <2>1, QuantizeRepresents
  <2> QED
    BY <2>2 DEF Represents, ws
<1>9. Nib(r, f) \in 0 .. 15 /\ Nib(r, f + 1) \in 0 .. 15
  <2>1. f \in 0 .. cols - 1 /\ f + 1 \in Nat
    BY <1>2
  <2>2. Nib(r, f) \in 0 .. 15
    <3> HIDE DEF f, Nib
    <3> QED
      BY <1>8, <2>1 DEF Upto
  <2>3. CASE f + 1 < cols
    <3>1. f + 1 \in Upto(cols)
      BY <2>1, <2>3 DEF Upto
    <3> HIDE DEF f, Nib
    <3> QED
      BY <1>8, <2>2, <3>1
  <2>4. CASE ~ (f + 1 < cols)
    <3>1. Nib(r, f + 1) = 0
      BY <2>4
    <3> HIDE DEF f, Nib
    <3> QED
      BY <2>2, <3>1
  <2> QED
    BY <2>3, <2>4
<1>10. (IF c % 2 = 1 THEN High(q.packed[i]) ELSE Low(q.packed[i])) = Nib(r, c)
  <2> DEFINE a == Nib(r, f)
             b == Nib(r, f + 1)
  <2>1. High(a + 16 * b) = b /\ Low(a + 16 * b) = a
    <3>1. a \in 0 .. 15 /\ b \in 0 .. 15
      BY <1>9
    <3> HIDE DEF a, b
    <3> QED
      BY <3>1 DEF High, Low
  <2>2. c = f + (c % 2) /\ c % 2 \in 0 .. 1 /\ f \in Nat
    BY <1>2, Halves
  <2>3. CASE c % 2 = 1
    <3>1. c = f + 1
      BY <2>2, <2>3
    <3> HIDE DEF f, Nib, q, i
    <3> QED
      BY <1>7, <2>1, <2>3, <3>1 DEF a, b
  <2>4. CASE c % 2 # 1
    <3>1. c = f
      BY <2>2, <2>4
    <3> HIDE DEF f, Nib, q, i
    <3> QED
      BY <1>7, <2>1, <2>4, <3>1 DEF a, b
  <2> QED
    BY <2>3, <2>4
<1>11. Nib(r, c) = Grp(r, c \div g).nibble[w[r][c]]
  BY <1>2
<1>12. HostRead(q, r, c) = Value(Grp(r, c \div g).nibble[w[r][c]], q.zeros[gi], q.scales[gi])
  <2> HIDE DEF Nib, Grp, q
  <2> QED
    BY <1>5, <1>10, <1>11, Zenon DEF HostRead
<1> QED
  BY <1>5, <1>6, <1>12

-----------------------------------------------------------------------------
\* Every expert loaded is the quantized one of the checkpoint.
Faithful == \A e \in DOMAIN stored : stored[e] = Quantized(experts[e], group, inFile)

LEMMA FaithfulIsNearest ==
  ASSUME WeightInv, DOMAIN stored \subseteq DOMAIN experts, Faithful
  PROVE  RoundsToNearest
<1> SUFFICES ASSUME NEW e \in DOMAIN stored, NEW r \in DOMAIN experts[e],
                    NEW c \in DOMAIN experts[e][r]
             PROVE  LET q  == stored[e]
                        w  == experts[e][r][c]
                        ws == InGroup(experts[e], group, r, c \div group)
                        gi == r * NumGroups(q.cols, group) + c \div group
                        read == HostRead(q, r, c)
                        Off(num) == Abs(w * read.den - num)
                    IN  /\ \A v \in 0 .. 15 :
                             Off(read.num) <= Off(Value(v, q.zeros[gi], q.scales[gi]).num)
                        /\ (\E u \in ws : u <= 0) /\ (\E u \in ws : u >= 0) =>
                             2 * Off(read.num) <= q.scales[gi].num
  BY DEF RoundsToNearest
<1> DEFINE q  == stored[e]
           m  == experts[e]
           rows == Rows(experts[0])
           cols == Cols(experts[0])
           ws == InGroup(m, group, r, c \div group)
           of == Quantize(ws, inFile)
           gi == r * NumGroups(q.cols, group) + c \div group
<1>1. /\ rows \in Nat \ {0} /\ cols \in Nat \ {0} /\ m \in Matrix(rows, cols)
      /\ group \in Nat \ {0} /\ q = Quantized(m, group, inFile)
  BY WeightsAssumption DEF WeightInv, Matrix, Faithful
<1>2. r \in Upto(rows) /\ c \in Upto(cols)
  BY <1>1 DEF Matrix
<1> HIDE DEF rows, cols, m, q
<1>3. ws \in SUBSET Int /\ IsFiniteSet(ws) /\ m[r][c] \in ws
  BY <1>1, <1>2, GroupOf
<1>4. /\ q.cols = cols
      /\ q.zeros[gi] = of.zero /\ q.scales[gi] = [num |-> of.num, den |-> of.den]
      /\ HostRead(q, r, c) = Value(of.nibble[m[r][c]], q.zeros[gi], q.scales[gi])
  <2> DEFINE k == r * NumGroups(cols, group) + c \div group
             p == Quantized(m, group, inFile)
  <2>1. /\ p.cols = cols
        /\ p.zeros[k] = of.zero /\ p.scales[k] = [num |-> of.num, den |-> of.den]
        /\ HostRead(p, r, c) = Value(of.nibble[m[r][c]], p.zeros[k], p.scales[k])
    BY <1>1, <1>2, ReadsGroup
  <2>2. q = p
    BY <1>1
  <2> HIDE DEF p, of, ws
  <2> QED
    BY <2>1, <2>2
<1> HIDE DEF ws
<1>5. Represents(of, m[r][c], ws)
  BY <1>3, QuantizeRepresents
<1> HIDE DEF of, gi
<1>6. /\ HostRead(q, r, c).num = (of.nibble[m[r][c]] - of.zero) * of.num
      /\ HostRead(q, r, c).den = of.den
      /\ q.scales[gi].num = of.num
      /\ \A v \in 0 .. 15 : Value(v, q.zeros[gi], q.scales[gi]).num = (v - of.zero) * of.num
  BY <1>4 DEF Value
<1> QED
  BY <1>5, <1>6, Zenon DEF Represents, q, m, ws, gi

LEMMA LoadsFaithfully ==
  ASSUME WeightInv, Faithful, [WeightsNext]_weightVars
  PROVE  Faithful'
<1>1. ASSUME NEW e \in DOMAIN experts, LoadExpert(e)
      PROVE  Faithful'
  <2> DEFINE q == Quantized(experts[e], group, inFile)
  <2>1. /\ stored' = [f \in DOMAIN stored \cup {e} |-> IF f = e THEN q ELSE stored[f]]
        /\ experts' = experts /\ group' = group /\ inFile' = inFile
    BY <1>1 DEF LoadExpert
  <2>2. \A f \in DOMAIN stored' : Quantized(experts[f], group, inFile)'
                                    = Quantized(experts[f], group, inFile)
    BY <2>1
  <2>3. q = Quantized(experts[e], group, inFile)
    OBVIOUS
  <2> HIDE DEF q
  <2> QED
    BY <2>1, <2>2, <2>3 DEF Faithful
<1>2. CASE UNCHANGED <<experts, group, inFile, stored>>
  BY <1>2 DEF Faithful
<1> QED
  BY <1>1, <1>2 DEF WeightsNext, Upload, weightVars

\* Of the sixteen values of its group a weight gets a nearest one, of every
\* weight, group size and shape; and it is half a step off at most unless the
\* group lies on one side of zero (quant.cpp quantize and quantize_symmetric).
THEOREM WeightsRoundToNearest == WeightsSpec => []RoundsToNearest
<1>1. WeightsInit => WeightInv /\ Faithful
  BY DEF WeightsInit, WeightInv, Faithful
<1>2. WeightInv /\ Faithful /\ [WeightsNext]_weightVars => (WeightInv /\ Faithful)'
  BY WeightsStep, LoadsFaithfully
<1>3. WeightInv /\ Faithful => RoundsToNearest
  BY FaithfulIsNearest DEF WeightInv
<1> QED
  BY <1>1, <1>2, <1>3, PTL DEF WeightsSpec

-----------------------------------------------------------------------------
(* Dispatch. *)

USE MoEAssumption

----------------------------------------------------------------------------
(* The places a block visits. *)

\* Every place below n is visited once, and no other.
VisitsCover(V, n) ==
  /\ V \subseteq Int \X Int \X Int \X Int
  /\ \A v \in V : RowOf(v) \in 0 .. n - 1
  /\ \A s \in 0 .. n - 1 : \E v \in V : RowOf(v) = s
  /\ \A v, w \in V : RowOf(v) = RowOf(w) => v = w

\* A row within a tile as warp, lane group and half.
LEMMA LaneOfRow ==
  ASSUME NEW r \in Nat
  PROVE  \E w \in Nat, g \in 0 .. Half - 1, h \in {0, 1} :
            r = w * (2 * Half) + g + h * Half
<1>1. PICK w \in Nat, x \in 0 .. 2 * Half - 1 : r = w * (2 * Half) + x
  <2> DEFINE d == 2 * Half
             q == r \div d
             x == r % d
  <2>1. d \in Nat \ {0}
    OBVIOUS
  <2>2. r = q * d + x /\ q \in Nat /\ x \in 0 .. d - 1
    BY <2>1, Division
  <2> HIDE DEF q, x
  <2> QED
    BY <2>2
<1>2. CASE x < Half
  <2>1. x \in 0 .. Half - 1 /\ r = w * (2 * Half) + x + 0 * Half
    BY <1>1, <1>2
  <2> QED
    BY <2>1
<1>3. CASE x >= Half
  <2>1. x - Half \in 0 .. Half - 1
    BY <1>1, <1>3
  <2>2. r = w * (2 * Half) + (x - Half) + 1 * Half
    BY <1>1
  <2> QED
    BY <2>1, <2>2
<1> QED
  BY <1>1, <1>2, <1>3

LEMMA LaneUnique ==
  ASSUME NEW w \in Nat, NEW g \in 0 .. Half - 1, NEW h \in {0, 1},
         NEW x \in Nat, NEW k \in 0 .. Half - 1, NEW l \in {0, 1},
         w * (2 * Half) + g + h * Half = x * (2 * Half) + k + l * Half
  PROVE  w = x /\ g = k /\ h = l
<1>1. g + h * Half \in 0 .. 2 * Half - 1 /\ k + l * Half \in 0 .. 2 * Half - 1
  <2>1. h * Half \in {0, Half} /\ l * Half \in {0, Half}
    BY SMT
  <2> QED
    BY <2>1
<1>2. w = x /\ g + h * Half = k + l * Half
  <2>1. w * (2 * Half) + (g + h * Half) = x * (2 * Half) + (k + l * Half)
    BY SMT
  <2>2. 2 * Half \in Nat \ {0}
    OBVIOUS
  <2> HIDE MoEAssumption
  <2> QED
    BY <1>1, <2>1, <2>2, DivideUnique
<1> QED
  BY <1>2, SMT

LEMMA GroupedVisitsCover ==
  ASSUME warps \in Nat \ {0}, NEW n \in Nat
  PROVE  VisitsCover(GroupedVisits(n), n)
<1> DEFINE B == BlockRows
           V == GroupedVisits(n)
           Inner(v) == v[2] * (2 * Half) + v[3] + v[4] * Half
<1>1. B \in Nat \ {0}
  <2>1. 2 * Half \in Nat \ {0}
    OBVIOUS
  <2>2. \A x \in Nat \ {0}, y \in Nat \ {0} : x * y \in Nat \ {0}
    BY SMT
  <2> QED
    BY <2>1, <2>2 DEF BlockRows
\* What a visit is.
<1>2. \A v \in V :
        /\ \E i \in Nat : v[1] = i * B
        /\ v[1] \in Nat /\ v[1] < n
        /\ v[2] \in Nat /\ v[2] < warps
        /\ v[3] \in 0 .. Half - 1 /\ v[4] \in {0, 1}
        /\ v = <<v[1], v[2], v[3], v[4]>>
        /\ Inner(v) \in Nat /\ Inner(v) < RowsIn(n, v[1])
        /\ RowOf(v) = v[1] + Inner(v)
  <2> SUFFICES ASSUME NEW v \in V
               PROVE  /\ \E i \in Nat : v[1] = i * B
                      /\ v[1] \in Nat /\ v[1] < n
                      /\ v[2] \in Nat /\ v[2] < warps
                      /\ v[3] \in 0 .. Half - 1 /\ v[4] \in {0, 1}
                      /\ v = <<v[1], v[2], v[3], v[4]>>
                      /\ Inner(v) \in Nat /\ Inner(v) < RowsIn(n, v[1])
                      /\ RowOf(v) = v[1] + Inner(v)
    OBVIOUS
  <2>1. /\ v \in {i * B : i \in 0 .. n - 1} \X (0 .. warps - 1)
                   \X (0 .. Half - 1) \X {0, 1}
        /\ v[1] < n /\ InTile(v, RowsIn(n, v[1]))
    BY DEF GroupedVisits
  <2>2. PICK i \in 0 .. n - 1 : v[1] = i * B
    BY <2>1
  <2>3. /\ v[2] \in 0 .. warps - 1 /\ v[3] \in 0 .. Half - 1 /\ v[4] \in {0, 1}
        /\ v = <<v[1], v[2], v[3], v[4]>>
    BY <2>1
  <2>4. v[1] \in Nat
    <3>1. \A x, y \in Nat : x * y \in Nat
      BY SMT
    <3> QED
      BY <1>1, <2>2, <3>1
  <2>5. v[2] * (2 * Half) \in Nat /\ v[4] * Half \in Nat
    <3>1. \A x, y \in Nat : x * y \in Nat
      BY SMT
    <3> QED
      BY <2>3, <3>1
  <2>6. RowOf(v) = v[1] + Inner(v) /\ Inner(v) \in Nat
    BY <2>3, <2>4, <2>5 DEF RowOf
  <2>7. Inner(v) = RowOf(v) - v[1]
    <3> HIDE DEF Inner
    <3> QED
      BY <2>4, <2>6
  <2>8. Inner(v) < RowsIn(n, v[1])
    BY <2>1, <2>7 DEF InTile
  <2> QED
    BY <2>1, <2>2, <2>3, <2>4, <2>6, <2>8
<1> HIDE DEF V, B, Inner
<1>3. \A v \in V : /\ RowOf(v) \in 0 .. n - 1
                   /\ Inner(v) < B
  BY <1>1, <1>2 DEF RowsIn, B
\* Two visits of one row are the same.
<1>4. ASSUME NEW v \in V, NEW u \in V, RowOf(v) = RowOf(u)
      PROVE  v = u
  <2>1. PICK i \in Nat : v[1] = i * B
    BY <1>2
  <2>2. PICK k \in Nat : u[1] = k * B
    BY <1>2
  <2>3. i = k /\ Inner(v) = Inner(u)
    <3>1. Inner(v) \in 0 .. B - 1 /\ Inner(u) \in 0 .. B - 1
      BY <1>1, <1>2, <1>3
    <3>2. i * B + Inner(v) = k * B + Inner(u)
      BY <1>2, <2>1, <2>2, <1>4
    <3> QED
      BY <1>1, <3>1, <3>2, DivideUnique
  <2>4. v[2] = u[2] /\ v[3] = u[3] /\ v[4] = u[4]
    <3>1. v[2] * (2 * Half) + v[3] + v[4] * Half
            = u[2] * (2 * Half) + u[3] + u[4] * Half
      BY <2>3 DEF Inner
    <3>2. /\ v[2] \in Nat /\ v[3] \in 0 .. Half - 1 /\ v[4] \in {0, 1}
          /\ u[2] \in Nat /\ u[3] \in 0 .. Half - 1 /\ u[4] \in {0, 1}
      BY <1>2
    <3>3. \A w, x \in Nat, g, y \in 0 .. Half - 1, h, z \in {0, 1} :
            w * (2 * Half) + g + h * Half = x * (2 * Half) + y + z * Half
              => w = x /\ g = y /\ h = z
      BY LaneUnique
    <3> QED
      BY <3>1, <3>2, <3>3
  <2> QED
    BY <1>2, <2>1, <2>2, <2>3, <2>4
\* Every row has a visit.
<1>5. ASSUME NEW s \in 0 .. n - 1
      PROVE  \E v \in V : RowOf(v) = s
  <2>0. /\ s = (s \div B) * B + (s % B)
        /\ s \div B \in Nat /\ s % B \in 0 .. B - 1
    BY <1>1, Division, s \in Nat, B \in Nat \ {0}, Zenon
  <2>1. PICK i \in Nat, r \in 0 .. B - 1 : s = i * B + r
    BY <2>0, Zenon
  <2>2. PICK w \in Nat, g \in 0 .. Half - 1, h \in {0, 1} :
          r = w * (2 * Half) + g + h * Half
    BY <1>1, <2>1, LaneOfRow, r \in Nat
  <2> DEFINE v == <<i * B, w, g, h>>
  <2>3. /\ i * B \in Nat /\ w * (2 * Half) \in Nat /\ h * Half \in Nat
        /\ i <= i * B
    <3>1. \A x \in Nat, y \in Nat : x * y \in Nat
      BY SMT
    <3>2. \A x \in Nat, y \in Nat \ {0} : x <= x * y
      BY SMT
    <3> QED
      BY <1>1, <2>1, <2>2, <3>1, <3>2
  <2>4. i * B < n /\ i \in 0 .. n - 1
    BY <1>1, <2>1, <2>3
  <2>5. w * (2 * Half) <= r
    BY <1>1, <2>1, <2>2, <2>3
  <2>6. w \in 0 .. warps - 1
    <3>1. w * (2 * Half) < warps * (2 * Half)
      BY <1>1, <2>1, <2>3, <2>5 DEF B, BlockRows
    <3>2. \A x, y \in Nat, d \in Nat \ {0} : x * d < y * d => x < y
      <4> SUFFICES ASSUME NEW x \in Nat, NEW y \in Nat, NEW d \in Nat \ {0}, x >= y
                   PROVE  x * d >= y * d
        BY SMT
      <4>1. (x - y) * d >= 0
        BY SMT
      <4>2. (x - y) * d = x * d - y * d
        BY SMT
      <4>3. x * d \in Int /\ y * d \in Int
        BY SMT
      <4> QED
        BY <4>1, <4>2, <4>3
    <3>3. 2 * Half \in Nat \ {0}
      OBVIOUS
    <3> QED
      BY <2>2, <3>1, <3>2, <3>3
  <2>7. RowOf(v) = s /\ RowOf(v) - v[1] = r
    BY <1>1, <2>1, <2>2, <2>3 DEF RowOf
  <2>8. InTile(v, RowsIn(n, v[1]))
    BY <1>1, <2>1, <2>3, <2>4, <2>5, <2>7 DEF InTile, RowsIn, B
  <2>9. v \in V
    BY <2>2, <2>4, <2>6, <2>8 DEF V, GroupedVisits, B
  <2> QED
    BY <2>7, <2>9
<1>6. V \subseteq Int \X Int \X Int \X Int
  BY <1>2
<1> QED
  BY <1>3, <1>4, <1>5, <1>6 DEF VisitsCover, V

\* Whatever the path, a block visits every place of a list of n rows once.
LEMMA BlockVisitsCover ==
  ASSUME warps \in Nat \ {0}, NEW n \in Nat
  PROVE  VisitsCover(Visits(n), n)
<1>1. CASE path = "grouped"
  BY <1>1, GroupedVisitsCover DEF Visits
<1>2. CASE path # "grouped"
  <2>1. \A v \in Visits(n) : /\ v[1] \in 0 .. n - 1
                             /\ v = <<v[1], 0, 0, 0>>
                             /\ RowOf(v) = v[1]
                             /\ v \in Int \X Int \X Int \X Int
    BY <1>2 DEF Visits, RowOf
  <2>2. ASSUME NEW s \in 0 .. n - 1
        PROVE  <<s, 0, 0, 0>> \in Visits(n) /\ RowOf(<<s, 0, 0, 0>>) = s
    BY <1>2 DEF Visits, RowOf
  <2>3. \A v, u \in Visits(n) : RowOf(v) = RowOf(u) => v = u
    BY <2>1
  <2>4. Visits(n) \subseteq Int \X Int \X Int \X Int
    BY <2>1
  <2>5. \A v \in Visits(n) : RowOf(v) \in 0 .. n - 1
    BY <2>1
  <2>6. \A s \in 0 .. n - 1 : \E v \in Visits(n) : RowOf(v) = s
    BY <2>2
  <2> QED
    BY <2>3, <2>4, <2>5, <2>6 DEF VisitsCover
<1> QED
  BY <1>1, <1>2

----------------------------------------------------------------------------
(* The inductive invariant. *)

EntryOf(t, j) == [token |-> t, weight |-> [token |-> t, rank |-> j]]

\* Row t has claimed its place for rank j, in the list of e.
HasClaimed(t, j, e) == j <= claimed[t] /\ ids[t][j] = e

RowsOf(e) == {t \in Token : \E j \in Rank : HasClaimed(t, j, e)}

IRoutes == ids \in [Token -> Routes]

IRoom == path # "host" => seq <= cap

IPath ==
  /\ pc = "host" => path = "host"
  /\ pc \in {"router", "gate_up", "down"} => path # "host"
  /\ pc \in {"gate_up", "down"} => \A t \in Token : claimed[t] = TopK

ICounts == \A e \in Expert : count[e] = Cardinality(RowsOf(e))

\* The counted places of a list hold its rows, each row once.
ListHolds(e) ==
  /\ \A t \in Token, j \in Rank :
       HasClaimed(t, j, e) => \E s \in Place : s < count[e] /\ assign[e][s] = EntryOf(t, j)
  /\ \A s \in 0 .. count[e] - 1 :
       /\ s \in Place
       /\ \E t \in Token, j \in Rank :
            HasClaimed(t, j, e) /\ assign[e][s] = EntryOf(t, j)
  /\ \A s, u \in 0 .. count[e] - 1 :
       assign[e][s].token = assign[e][u].token => s = u

ILists == \A e \in Expert : ListHolds(e)

Staged(e) == \A s \in 0 .. count[e] - 1 : act[e][s] = assign[e][s].token

IActs ==
  /\ pc = "gate_up" => \A e \in Expert \ left : Staged(e)
  /\ pc = "down" => \A e \in Expert : Staged(e)

\* The experts that have not added their results yet.
Todo == CASE pc \in {"router", "gate_up"} -> Expert
          [] pc = "idle" -> {}
          [] OTHER -> left

\* What Combined says of one expert.
Served(e) ==
  /\ \A a \in out : a.by = e => a.to \in Token
  /\ \A t \in Token :
       IF \E j \in Rank : ids[t][j] = e
       THEN \E a \in out :
              /\ Received(t, e) = {a}
              /\ a.row = t
              /\ a.weight.token = t /\ ids[t][a.weight.rank] = e
       ELSE Received(t, e) = {}

IOut ==
  /\ \A a \in out : a.by \notin Todo
  /\ \A e \in Expert \ Todo : Served(e)

IInv == TypeOK /\ IRoutes /\ IRoom /\ IPath /\ ICounts /\ ILists /\ IActs /\ IOut

----------------------------------------------------------------------------
LEMMA InitInvariant == Init => IInv
<1> SUFFICES ASSUME Init PROVE IInv
  OBVIOUS
<1>1. Token = {} /\ Place = {}
  BY DEF Init, Token, Place
<1>2. \A e \in Expert : RowsOf(e) = {} /\ count[e] = 0
  BY <1>1 DEF Init, RowsOf
<1>3. ICounts
  BY <1>2, FS_EmptySet DEF ICounts
<1>4. TypeOK
  BY <1>1 DEF Init, TypeOK
<1>5. IRoutes
  BY <1>1 DEF Init, IRoutes
<1>6. ILists
  BY <1>1, <1>2 DEF ILists, ListHolds
<1>7. IOut
  BY <1>1 DEF Init, IOut, Todo, Served
<1> QED
  BY <1>3, <1>4, <1>5, <1>6, <1>7 DEF Init, IInv, IRoom, IPath, IActs

LEMMA LayerInvariant ==
  ASSUME IInv, NEW pass \in {"prefill", "decode", "batch", "ragged"},
         NEW n \in 1 .. MaxSeq, Layer(pass, n)
  PROVE  IInv'
<1>1. /\ path' \in {"masked", "grouped", "host"}
      /\ pass \in {"prefill", "decode"} => path' \in {"masked", "host"}
  BY DEF Layer, PathsOf
<1>2. cap' \in Nat /\ (path' # "host" => n <= cap')
  BY <1>1 DEF Layer, RouterCap, IInv, TypeOK
<1>3. Token' = 0 .. n - 1 /\ seq' = n
  BY DEF Layer, Token
<1>4. \A e \in Expert : RowsOf(e)' = {} /\ count'[e] = 0
  BY <1>3 DEF Layer, RowsOf, HasClaimed, Rank
<1>5. ICounts'
  BY <1>4, FS_EmptySet DEF ICounts
<1>6. TypeOK'
  <2>1. ids' \in [Token' -> [Rank -> Expert]]
    BY <1>3 DEF Layer, Routes
  <2>2. claimed' \in [Token' -> 0 .. TopK]
    BY <1>3 DEF Layer
  <2>3. count' \in [Expert -> 0 .. cap']
    BY <1>2 DEF Layer
  <2>4. assign' \in [Expert -> [Place' -> Entry \cup {Garbage}]]
    BY DEF Layer, Place
  <2>5. act' \in [Expert -> [Place' -> (Token \cup {Garbage})']]
    BY DEF Layer, Place
  <2> QED
    BY <1>1, <1>2, <1>3, <2>1, <2>2, <2>3, <2>4, <2>5
    DEF Layer, shape, IInv, TypeOK
<1>7. IRoutes' /\ IRoom'
  BY <1>2, <1>3 DEF Layer, IRoutes, IRoom
<1>8. ILists'
  BY <1>3, <1>4 DEF Layer, ILists, ListHolds, HasClaimed, Rank
<1>9. IOut'
  BY DEF Layer, IOut, Todo
<1> QED
  BY <1>5, <1>6, <1>7, <1>8, <1>9 DEF Layer, IInv, IPath, IActs

\* A list that does not hold row t yet has room for it.
LEMMA RoomForRow ==
  ASSUME IInv, NEW e \in Expert, NEW t \in Token, t \notin RowsOf(e),
         path # "host"
  PROVE  /\ count[e] \in Place
         /\ Cardinality(RowsOf(e) \cup {t}) = count[e] + 1
<1>1. seq \in Nat /\ cap \in Nat /\ count[e] \in Nat
  BY DEF IInv, TypeOK
<1>2. IsFiniteSet(Token) /\ Cardinality(Token) = seq
  <2>1. /\ IsFiniteSet(0 .. seq - 1)
        /\ Cardinality(0 .. seq - 1) = IF 0 > seq - 1 THEN 0 ELSE seq - 1 - 0 + 1
    BY <1>1, FS_Interval, 0 \in Int, seq - 1 \in Int
  <2> QED
    BY <1>1, <2>1 DEF Token
<1>3. RowsOf(e) \cup {t} \in SUBSET Token /\ RowsOf(e) \in SUBSET Token
  BY DEF RowsOf
<1>4. IsFiniteSet(RowsOf(e)) /\ Cardinality(RowsOf(e) \cup {t}) <= seq
  BY <1>2, <1>3, FS_Subset
<1>5. Cardinality(RowsOf(e) \cup {t}) = Cardinality(RowsOf(e)) + 1
  BY <1>4, FS_AddElement
<1>6. count[e] = Cardinality(RowsOf(e))
  BY DEF IInv, ICounts
<1>7. seq <= cap
  BY DEF IInv, IRoom
<1> QED
  BY <1>1, <1>4, <1>5, <1>6, <1>7 DEF Place

LEMMA ClaimInvariant ==
  ASSUME IInv, NEW t \in Token, Claim(t)
  PROVE  IInv'
<1> DEFINE j == claimed[t] + 1
           e == ids[t][j]
           place == count[e]
<1>1. /\ claimed[t] \in Nat /\ j \in Rank /\ e \in Expert
      /\ path # "host" /\ pc = "router" /\ t \in Nat
  BY DEF Claim, IInv, TypeOK, Rank, IPath, Token
<1>2. /\ claimed' = [claimed EXCEPT ![t] = j]
      /\ count' = [count EXCEPT ![e] = place + 1]
      /\ assign' = IF place < cap THEN [assign EXCEPT ![e][place] = EntryOf(t, j)]
                                  ELSE assign
      /\ IF \A u \in Token : claimed'[u] = TopK
           THEN pc' = "gate_up" /\ left' = Expert
           ELSE pc' = pc /\ left' = left
      /\ aligned' = aligned /\ warps' = warps /\ cap' = cap /\ path' = path
      /\ seq' = seq /\ ids' = ids /\ act' = act /\ out' = out
  BY DEF Claim, EntryOf, shape, request
<1>3. Token' = Token /\ Place' = Place
  BY <1>2 DEF Token, Place
<1>4. \A u \in Token, k \in Rank, f \in Expert :
        HasClaimed(u, k, f)' <=> \/ HasClaimed(u, k, f)
                                 \/ u = t /\ k = j /\ f = e
  <2> SUFFICES ASSUME NEW u \in Token, NEW k \in Rank, NEW f \in Expert
               PROVE  HasClaimed(u, k, f)' <=> \/ HasClaimed(u, k, f)
                                               \/ u = t /\ k = j /\ f = e
    OBVIOUS
  <2>1. claimed \in [Token -> 0 .. TopK]
    BY DEF IInv, TypeOK
  <2>2. CASE u = t
    BY <1>1, <1>2, <2>1, <2>2 DEF HasClaimed, Rank
  <2>3. CASE u # t
    BY <1>2, <2>1, <2>3 DEF HasClaimed
  <2> QED
    BY <2>2, <2>3
<1>5. t \notin RowsOf(e)
  <2> SUFFICES ASSUME NEW k \in Rank, HasClaimed(t, k, e) PROVE FALSE
    BY DEF RowsOf
  <2>1. ids[t] \in Routes
    BY DEF IInv, IRoutes
  <2>2. k # j /\ ids[t][k] = ids[t][j]
    BY <1>1 DEF HasClaimed, Rank
  <2> QED
    BY <1>1, <2>1, <2>2 DEF Routes
<1>6. place \in Place /\ Cardinality(RowsOf(e) \cup {t}) = place + 1
  BY <1>1, <1>5, RoomForRow
<1>7. place < cap /\ place \in Nat
  BY <1>6 DEF Place, IInv, TypeOK
<1>8. \A f \in Expert : /\ count'[f] = IF f = e THEN place + 1 ELSE count[f]
                        /\ \A s \in Place :
                             assign'[f][s] = IF f = e /\ s = place
                                             THEN EntryOf(t, j) ELSE assign[f][s]
  BY <1>1, <1>2, <1>6, <1>7 DEF IInv, TypeOK
<1> HIDE DEF j, e, place
<1>9. ICounts'
  <2> SUFFICES ASSUME NEW f \in Expert
               PROVE  count'[f] = Cardinality(RowsOf(f)')
    BY DEF ICounts
  <2>1. CASE f = e
    <3>1. RowsOf(f)' = RowsOf(e) \cup {t}
      BY <1>1, <1>3, <1>4, <2>1 DEF RowsOf
    <3> QED
      BY <1>6, <1>8, <2>1, <3>1
  <2>2. CASE f # e
    <3>1. RowsOf(f)' = RowsOf(f)
      BY <1>1, <1>3, <1>4, <2>2 DEF RowsOf
    <3> QED
      BY <1>8, <2>2, <3>1 DEF IInv, ICounts
  <2> QED
    BY <2>1, <2>2
<1>10. ILists'
  <2> SUFFICES ASSUME NEW f \in Expert
               PROVE  ListHolds(f)'
    BY DEF ILists
  <2>1. ListHolds(f) /\ count[f] \in Nat
    BY DEF IInv, ILists, TypeOK
  <2>2. CASE f # e
    <3>1. count'[f] = count[f] /\ \A s \in Place : assign'[f][s] = assign[f][s]
      BY <1>8, <2>2
    <3>2. \A u \in Token, k \in Rank : HasClaimed(u, k, f)' <=> HasClaimed(u, k, f)
      BY <1>4, <2>2
    <3>3. \A s \in 0 .. count[f] - 1 : assign'[f][s] = assign[f][s] /\ s \in Place
      BY <2>1, <3>1 DEF ListHolds
    <3>4. \A u \in Token, k \in Rank :
            HasClaimed(u, k, f)' =>
              \E s \in Place : s < count'[f] /\ assign'[f][s] = EntryOf(u, k)
      BY <2>1, <3>1, <3>2 DEF ListHolds
    <3>5. \A s \in 0 .. count'[f] - 1 :
            /\ s \in Place
            /\ \E u \in Token, k \in Rank :
                 HasClaimed(u, k, f)' /\ assign'[f][s] = EntryOf(u, k)
      BY <2>1, <3>1, <3>2, <3>3 DEF ListHolds
    <3>6. \A s, u \in 0 .. count'[f] - 1 :
            assign'[f][s].token = assign'[f][u].token => s = u
      BY <2>1, <3>1, <3>3 DEF ListHolds
    <3> QED
      BY <1>3, <3>4, <3>5, <3>6 DEF ListHolds, EntryOf
  <2>3. CASE f = e
    <3>1. count'[f] = count[f] + 1 /\ place = count[f]
      BY <1>8, <2>3 DEF place
    <3>2. \A s \in 0 .. count[f] - 1 : assign'[f][s] = assign[f][s] /\ s \in Place
      BY <1>8, <2>1, <3>1 DEF ListHolds
    <3>3. assign'[f][place] = EntryOf(t, j)
      BY <1>6, <1>8, <2>3
    <3>4. ASSUME NEW u \in Token, NEW k \in Rank, HasClaimed(u, k, f)'
          PROVE  \E s \in Place : s < count'[f] /\ assign'[f][s] = EntryOf(u, k)
      <4>1. CASE HasClaimed(u, k, f)
        <5>1. PICK s \in Place : s < count[f] /\ assign[f][s] = EntryOf(u, k)
          BY <2>1, <4>1 DEF ListHolds
        <5>2. s \in 0 .. count[f] - 1
          BY <5>1, <2>1 DEF Place
        <5> QED
          BY <2>1, <3>1, <3>2, <5>1, <5>2
      <4>2. CASE u = t /\ k = j
        BY <1>6, <1>7, <3>1, <3>3, <4>2
      <4> QED
        BY <1>4, <3>4, <4>1, <4>2
    <3>5. ASSUME NEW s \in 0 .. count'[f] - 1
          PROVE  /\ s \in Place
                 /\ \E u \in Token, k \in Rank :
                      HasClaimed(u, k, f)' /\ assign'[f][s] = EntryOf(u, k)
      <4>1. CASE s = place
        BY <1>1, <1>4, <1>6, <2>3, <3>3, <4>1
      <4>2. CASE s # place
        <5>1. s \in 0 .. count[f] - 1
          BY <2>1, <3>1, <4>2
        <5> QED
          BY <1>4, <2>1, <3>2, <5>1 DEF ListHolds
      <4> QED
        BY <4>1, <4>2
    <3>6. ASSUME NEW s \in 0 .. count'[f] - 1, NEW u \in 0 .. count'[f] - 1,
                 assign'[f][s].token = assign'[f][u].token
          PROVE  s = u
      <4>1. \A x \in 0 .. count[f] - 1 : assign'[f][x].token # t
        <5> SUFFICES ASSUME NEW x \in 0 .. count[f] - 1
                     PROVE  assign'[f][x].token # t
          OBVIOUS
        <5>1. PICK v \in Token, k \in Rank :
                HasClaimed(v, k, f) /\ assign[f][x] = EntryOf(v, k)
          BY <2>1 DEF ListHolds
        <5>2. v # t
          BY <1>5, <2>3, <5>1 DEF RowsOf
        <5> QED
          BY <3>2, <5>1, <5>2 DEF EntryOf
      <4>2. assign'[f][place].token = t
        BY <3>3 DEF EntryOf
      <4>3. s \in 0 .. count[f] - 1 \/ s = place
        BY <2>1, <3>1
      <4>4. u \in 0 .. count[f] - 1 \/ u = place
        BY <2>1, <3>1
      <4>5. CASE s \in 0 .. count[f] - 1 /\ u \in 0 .. count[f] - 1
        BY <2>1, <3>2, <3>6, <4>5 DEF ListHolds
      <4> QED
        BY <3>6, <4>1, <4>2, <4>3, <4>4, <4>5
    <3> QED
      BY <1>3, <3>4, <3>5, <3>6 DEF ListHolds, EntryOf
  <2> QED
    BY <2>2, <2>3
<1>11. TypeOK'
  <2>1. EntryOf(t, j) \in Entry
    BY <1>1 DEF EntryOf, Entry, Weight
  <2>2. claimed' \in [Token' -> 0 .. TopK]
    BY <1>1, <1>2, <1>3 DEF IInv, TypeOK, Rank
  <2>3. count' \in [Expert -> 0 .. cap']
    <3>1. place + 1 \in 0 .. cap
      BY <1>7 DEF IInv, TypeOK
    <3> QED
      BY <1>2, <3>1 DEF IInv, TypeOK
  <2>4. assign' \in [Expert -> [Place' -> Entry \cup {Garbage}]]
    BY <1>2, <1>3, <1>7, <2>1 DEF IInv, TypeOK
  <2>5. pc' \in {"gate_up", "router"} /\ left' \subseteq Expert
    BY <1>1, <1>2 DEF IInv, TypeOK
  <2>6. ids' \in [Token' -> [Rank -> Expert]]
    BY <1>2, <1>3 DEF IInv, TypeOK
  <2>7. act' \in [Expert -> [Place' -> (Token \cup {Garbage})']]
    BY <1>2, <1>3 DEF IInv, TypeOK
  <2> QED
    BY <1>2, <2>2, <2>3, <2>4, <2>5, <2>6, <2>7 DEF IInv, TypeOK
<1>12. IPath' /\ IActs'
  BY <1>1, <1>2, <1>3 DEF IPath, IActs
<1>13. IOut'
  <2>1. Todo = Expert /\ Todo' = Expert
    BY <1>1, <1>2 DEF Todo
  <2> QED
    BY <1>2, <2>1 DEF IInv, IOut
<1>14. IRoutes' /\ IRoom'
  BY <1>2, <1>3 DEF IInv, IRoutes, IRoom
<1> QED
  BY <1>9, <1>10, <1>11, <1>12, <1>13, <1>14 DEF IInv

\* The lists stay as they are.
LEMMA ListsUnchanged ==
  ASSUME IInv, cap' = cap, seq' = seq, ids' = ids, claimed' = claimed,
         count' = count, assign' = assign
  PROVE  ICounts' /\ ILists'
<1>1. Token' = Token /\ Place' = Place /\ \A f \in Expert : RowsOf(f)' = RowsOf(f)
  BY DEF Token, Place, RowsOf, HasClaimed
<1>2. ICounts'
  BY <1>1 DEF IInv, ICounts
<1>3. \A e \in Expert : ListHolds(e)' = ListHolds(e)
  BY <1>1 DEF ListHolds, HasClaimed, EntryOf
<1>4. ILists'
  BY <1>3 DEF IInv, ILists
<1> QED
  BY <1>2, <1>4

LEMMA GateUpInvariant ==
  ASSUME IInv, NEW e \in Expert, GateUp(e)
  PROVE  IInv'
<1> DEFINE read == {RowOf(v) : v \in Visits(count[e])}
<1>1. /\ aligned' = aligned /\ warps' = warps /\ cap' = cap /\ path' = path
      /\ seq' = seq /\ ids' = ids /\ claimed' = claimed /\ count' = count
      /\ assign' = assign /\ out' = out /\ pc = "gate_up" /\ e \in left
      /\ act' = [act EXCEPT ![e] = [s \in Place |->
                   IF s \in read THEN assign[e][s].token ELSE act[e][s]]]
      /\ \/ left = {e} /\ pc' = "down" /\ left' = Expert
         \/ left' = left \ {e} /\ pc' = pc
  BY DEF GateUp, shape, request
<1>2. Token' = Token /\ Place' = Place 
  BY <1>1 DEF Token, Place
<1>3. warps \in Nat \ {0} /\ count[e] \in Nat
  BY DEF IInv, TypeOK
<1>4. read = 0 .. count[e] - 1
  BY <1>3, BlockVisitsCover DEF VisitsCover
<1>5. \A s \in 0 .. count[e] - 1 : s \in Place /\ assign[e][s].token \in Token
  <2> SUFFICES ASSUME NEW s \in 0 .. count[e] - 1
               PROVE  s \in Place /\ assign[e][s].token \in Token
    OBVIOUS
  <2>1. ListHolds(e)
    BY DEF IInv, ILists
  <2>2. PICK t \in Token, j \in Rank : assign[e][s] = EntryOf(t, j)
    BY <2>1 DEF ListHolds
  <2> QED
    BY <2>1, <2>2 DEF ListHolds, EntryOf
<1> HIDE DEF read
<1>6. Staged(e)'
  BY <1>1, <1>4, <1>5 DEF Staged, IInv, TypeOK
<1>7. \A f \in Expert : f # e /\ Staged(f) => Staged(f)'
  BY <1>1 DEF Staged, IInv, TypeOK
<1>8. IActs'
  BY <1>1, <1>6, <1>7 DEF IInv, IActs
<1>9. TypeOK'
  <2>1. [s \in Place |-> IF s \in read THEN assign[e][s].token ELSE act[e][s]]
          \in [Place -> Token \cup {Garbage}]
    BY <1>4, <1>5 DEF IInv, TypeOK
  <2>2. act' \in [Expert -> [Place' -> (Token \cup {Garbage})']]
    BY <1>1, <1>2, <2>1 DEF IInv, TypeOK
  <2>3. left' \subseteq Expert /\ pc' \in {"gate_up", "down"}
    BY <1>1 DEF IInv, TypeOK
  <2> QED
    BY <1>1, <1>2, <2>2, <2>3 DEF IInv, TypeOK
<1>10. ICounts' /\ ILists'
  BY <1>1, ListsUnchanged
<1>11. IPath' /\ IRoutes' /\ IRoom'
  BY <1>1, <1>2 DEF IInv, IPath, IRoutes, IRoom
<1>12. IOut'
  <2>1. Todo = Expert /\ Todo' = Expert
    BY <1>1 DEF Todo
  <2> QED
    BY <1>1, <2>1 DEF IInv, IOut
<1> QED
  BY <1>8, <1>9, <1>10, <1>11, <1>12 DEF IInv

\* What an expert received is not touched by the additions of another.
LEMMA OthersStayServed ==
  ASSUME IInv, NEW e \in Expert, NEW f \in Expert, e # f, Served(f),
         seq' = seq, ids' = ids,
         NEW adds, \A a \in adds : a.by = e, out' = out \cup adds
  PROVE  Served(f)'
<1>1. Token' = Token
  BY DEF Token
<1>2. \A t \in Token : Received(t, f)' = Received(t, f)
  BY DEF Received
<1> QED
  BY <1>1, <1>2 DEF Served

LEMMA DownInvariant ==
  ASSUME IInv, NEW e \in Expert, Down(e)
  PROVE  IInv'
<1> DEFINE n == count[e]
           AddOf(v) == [to |-> assign[e][RowOf(v)].token, by |-> e, via |-> v,
                        row |-> act[e][RowOf(v)],
                        weight |-> assign[e][RowOf(v)].weight]
           adds == {AddOf(v) : v \in Visits(n)}
<1>1. /\ aligned' = aligned /\ warps' = warps /\ cap' = cap /\ path' = path
      /\ seq' = seq /\ ids' = ids /\ claimed' = claimed /\ count' = count
      /\ assign' = assign /\ act' = act /\ pc = "down" /\ e \in left
      /\ out' = out \cup adds
      /\ left' = left \ {e}
      /\ \/ left = {e} /\ pc' = "idle"
         \/ left # {e} /\ pc' = pc
  BY DEF Down, shape, request
<1>2. Token' = Token /\ Place' = Place 
  BY <1>1 DEF Token, Place
<1>3. VisitsCover(Visits(n), n) /\ n \in Nat
  BY BlockVisitsCover DEF IInv, TypeOK
\* The addition of a visit goes to a row of the list, with that row's value.
<1>4. \A v \in Visits(n) :
        \E t \in Token, j \in Rank :
          /\ ids[t][j] = e
          /\ assign[e][RowOf(v)] = EntryOf(t, j)
          /\ AddOf(v) = [to |-> t, by |-> e, via |-> v, row |-> t,
                         weight |-> [token |-> t, rank |-> j]]
  <2> SUFFICES ASSUME NEW v \in Visits(n)
               PROVE  \E t \in Token, j \in Rank :
                        /\ ids[t][j] = e
                        /\ assign[e][RowOf(v)] = EntryOf(t, j)
                        /\ AddOf(v) = [to |-> t, by |-> e, via |-> v, row |-> t,
                                       weight |-> [token |-> t, rank |-> j]]
    OBVIOUS
  <2>1. RowOf(v) \in 0 .. n - 1
    BY <1>3 DEF VisitsCover
  <2>2. PICK t \in Token, j \in Rank :
          HasClaimed(t, j, e) /\ assign[e][RowOf(v)] = EntryOf(t, j)
    BY <2>1 DEF IInv, ILists, ListHolds
  <2>3. act[e][RowOf(v)] = assign[e][RowOf(v)].token
    BY <1>1, <2>1 DEF IInv, IActs, Staged
  <2> QED
    BY <2>2, <2>3 DEF HasClaimed, EntryOf
<1>5. \A v, w \in Visits(n) : AddOf(v).to = AddOf(w).to => v = w
  <2> SUFFICES ASSUME NEW v \in Visits(n), NEW w \in Visits(n),
                      AddOf(v).to = AddOf(w).to
               PROVE  v = w
    OBVIOUS
  <2>1. RowOf(v) \in 0 .. n - 1 /\ RowOf(w) \in 0 .. n - 1
    BY <1>3 DEF VisitsCover
  <2>2. assign[e][RowOf(v)].token = assign[e][RowOf(w)].token
    OBVIOUS
  <2>3. RowOf(v) = RowOf(w)
    BY <2>1, <2>2 DEF IInv, ILists, ListHolds
  <2> QED
    BY <1>3, <2>3 DEF VisitsCover
\* Every row that picked e is in the list.
<1>6. \A t \in Token, j \in Rank : ids[t][j] = e =>
        \E v \in Visits(n) : assign[e][RowOf(v)] = EntryOf(t, j)
  <2> SUFFICES ASSUME NEW t \in Token, NEW j \in Rank, ids[t][j] = e
               PROVE  \E v \in Visits(n) : assign[e][RowOf(v)] = EntryOf(t, j)
    OBVIOUS
  <2>1. HasClaimed(t, j, e)
    BY <1>1 DEF HasClaimed, IInv, IPath, Rank
  <2>2. PICK s \in Place : s < n /\ assign[e][s] = EntryOf(t, j)
    BY <2>1 DEF IInv, ILists, ListHolds
  <2>3. s \in 0 .. n - 1
    BY <1>3, <2>2 DEF Place
  <2> QED
    BY <1>3, <2>2, <2>3 DEF VisitsCover
<1>7. \A v \in Visits(n) : AddOf(v) \in Addition
  <2>1. \A v \in Visits(n) : v \in Int \X Int \X Int \X Int
    BY <1>3 DEF VisitsCover
  <2> SUFFICES ASSUME NEW v \in Visits(n) PROVE AddOf(v) \in Addition
    OBVIOUS
  <2>2. PICK t \in Token, j \in Rank :
          AddOf(v) = [to |-> t, by |-> e, via |-> v, row |-> t,
                      weight |-> [token |-> t, rank |-> j]]
    BY <1>4
  <2>3. t \in Nat /\ [token |-> t, rank |-> j] \in Weight
    BY DEF Token, Weight
  <2> HIDE DEF AddOf
  <2> QED
    BY <2>1, <2>2, <2>3 DEF Addition
<1>8. \A v \in Visits(n) : AddOf(v).by = e
  OBVIOUS
<1>9. Todo = left /\ Todo' = left \ {e}
  BY <1>1 DEF Todo
<1>10. \A a \in out : a.by # e
  BY <1>1, <1>9 DEF IInv, IOut
<1> HIDE DEF AddOf, n
<1>11. Served(e)'
  <2>1. \A t \in Token : Received(t, e)' = {a \in adds : a.to = t}
    BY <1>1, <1>8, <1>10 DEF Received
  <2>2. \A a \in out' : a.by = e => a.to \in Token
    <3>1. \A v \in Visits(n) : AddOf(v).to \in Token
      BY <1>4
    <3> QED
      BY <1>1, <1>10, <3>1
  <2>3. ASSUME NEW t \in Token, NEW j \in Rank, ids[t][j] = e
        PROVE  \E a \in out' :
                 /\ Received(t, e)' = {a}
                 /\ a.row = t
                 /\ a.weight.token = t /\ ids[t][a.weight.rank] = e
    <3>1. PICK v \in Visits(n) : assign[e][RowOf(v)] = EntryOf(t, j)
      BY <1>6, <2>3
    <3>2. AddOf(v) = [to |-> t, by |-> e, via |-> v, row |-> t,
                      weight |-> [token |-> t, rank |-> j]]
      <4>1. PICK u \in Token, k \in Rank :
              /\ assign[e][RowOf(v)] = EntryOf(u, k)
              /\ AddOf(v) = [to |-> u, by |-> e, via |-> v, row |-> u,
                             weight |-> [token |-> u, rank |-> k]]
        BY <1>4
      <4>2. u = t /\ k = j
        BY <3>1, <4>1 DEF EntryOf
      <4> QED
        BY <4>1, <4>2
    <3>3. {a \in adds : a.to = t} = {AddOf(v)}
      BY <1>5, <3>2
    <3> QED
      BY <1>1, <2>1, <2>3, <3>2, <3>3
  <2>4. ASSUME NEW t \in Token, \A j \in Rank : ids[t][j] # e
        PROVE  Received(t, e)' = {}
    <3>1. \A v \in Visits(n) : AddOf(v).to # t
      BY <1>4, <2>4
    <3> QED
      BY <2>1, <3>1
  <2> QED
    BY <1>1, <1>2, <2>2, <2>3, <2>4 DEF Served
<1>12. IOut'
  <2>1. \A a \in adds : a.by = e
    BY <1>8
  <2>2. \A f \in Expert : f # e /\ Served(f) => Served(f)'
    BY <1>1, <2>1, OthersStayServed
  <2>3. \A a \in out' : a.by \notin Todo'
    BY <1>1, <1>9, <2>1 DEF IInv, IOut
  <2> QED
    BY <1>9, <1>11, <2>2, <2>3 DEF IInv, IOut
<1>13. TypeOK'
  <2>1. out' \subseteq Addition
    BY <1>1, <1>7 DEF IInv, TypeOK
  <2>2. pc' \in {"idle", "down"} /\ left' \subseteq Expert
    BY <1>1 DEF IInv, TypeOK
  <2> QED
    BY <1>1, <1>2, <2>1, <2>2 DEF IInv, TypeOK
<1>14. ICounts' /\ ILists'
  BY <1>1, ListsUnchanged
<1>15. IPath' /\ IRoutes' /\ IRoom'
  BY <1>1, <1>2 DEF IInv, IPath, IRoutes, IRoom
<1>16. IActs'
  BY <1>1 DEF IInv, IActs, Staged
<1> QED
  BY <1>12, <1>13, <1>14, <1>15, <1>16 DEF IInv

LEMMA HostExpertInvariant ==
  ASSUME IInv, NEW e \in Expert, HostExpert(e)
  PROVE  IInv'
<1> DEFINE adds == HostAdds(e)
<1>1. \A a \in adds :
        \E t \in Token, j \in Rank :
          /\ ids[t][j] = e
          /\ a = [to |-> t, by |-> e, via |-> <<t, j, 0, 0>>, row |-> t,
                  weight |-> [token |-> t, rank |-> j]]
  BY DEF HostAdds
<1>2. \A t \in Token, j \in Rank : ids[t][j] = e =>
        [to |-> t, by |-> e, via |-> <<t, j, 0, 0>>, row |-> t,
         weight |-> [token |-> t, rank |-> j]] \in adds
  <2> SUFFICES ASSUME NEW t \in Token, NEW j \in Rank, ids[t][j] = e
               PROVE  [to |-> t, by |-> e, via |-> <<t, j, 0, 0>>, row |-> t,
                       weight |-> [token |-> t, rank |-> j]] \in adds
    OBVIOUS
  <2> DEFINE p == <<t, j>>
  <2>1. p[1] = t /\ p[2] = j /\ p \in {q \in Token \X Rank : ids[q[1]][q[2]] = e}
    OBVIOUS
  <2> HIDE DEF p
  <2>2. [to |-> p[1], by |-> e, via |-> <<p[1], p[2], 0, 0>>, row |-> p[1],
         weight |-> [token |-> p[1], rank |-> p[2]]] \in adds
    BY <2>1 DEF HostAdds
  <2> QED
    BY <2>1, <2>2
\* A row picks an expert once, so no two additions of a launch clash.
<1>3. \A a, b \in adds : a.to = b.to => a = b
  <2> SUFFICES ASSUME NEW a \in adds, NEW b \in adds, a.to = b.to
               PROVE  a = b
    OBVIOUS
  <2>1. PICK t \in Token, j \in Rank :
          /\ ids[t][j] = e
          /\ a = [to |-> t, by |-> e, via |-> <<t, j, 0, 0>>, row |-> t,
                  weight |-> [token |-> t, rank |-> j]]
    BY <1>1
  <2>2. PICK u \in Token, k \in Rank :
          /\ ids[u][k] = e
          /\ b = [to |-> u, by |-> e, via |-> <<u, k, 0, 0>>, row |-> u,
                  weight |-> [token |-> u, rank |-> k]]
    BY <1>1
  <2>3. t = u
    BY <2>1, <2>2
  <2>4. j = k
    BY <2>1, <2>2, <2>3 DEF IInv, IRoutes, Routes
  <2> QED
    BY <2>1, <2>2, <2>3, <2>4
<1>4. Clash(adds) = {}
  BY <1>3 DEF Clash
<1>5. /\ aligned' = aligned /\ warps' = warps /\ cap' = cap /\ path' = path
      /\ seq' = seq /\ ids' = ids /\ claimed' = claimed /\ count' = count
      /\ assign' = assign /\ act' = act /\ pc = "host" /\ e \in left
      /\ left' = left \ {e}
      /\ \/ left = {e} /\ pc' = "idle"
         \/ left # {e} /\ pc' = pc
  BY DEF HostExpert, shape, request
<1>6. out' = out \cup adds
  <2>1. PICK lost \in SUBSET Clash(adds) : out' = out \cup (adds \ lost)
    BY DEF HostExpert
  <2> QED
    BY <1>4, <2>1
<1>7. Token' = Token /\ Place' = Place
  BY <1>5 DEF Token, Place
<1>8. Todo = left /\ Todo' = left \ {e}
  BY <1>5 DEF Todo
<1>9. \A a \in out : a.by # e
  BY <1>5, <1>8 DEF IInv, IOut
<1>10. \A a \in adds : a.by = e
  BY <1>1
<1> HIDE DEF adds
<1>11. Served(e)'
  <2>1. \A t \in Token : Received(t, e)' = {a \in adds : a.to = t}
    BY <1>6, <1>9, <1>10 DEF Received
  <2>2. \A a \in out' : a.by = e => a.to \in Token
    <3>1. \A a \in adds : a.to \in Token
      BY <1>1
    <3> QED
      BY <1>6, <1>9, <3>1
  <2>3. ASSUME NEW t \in Token, NEW j \in Rank, ids[t][j] = e
        PROVE  \E a \in out' :
                 /\ Received(t, e)' = {a}
                 /\ a.row = t
                 /\ a.weight.token = t /\ ids[t][a.weight.rank] = e
    <3> DEFINE b == [to |-> t, by |-> e, via |-> <<t, j, 0, 0>>, row |-> t,
                     weight |-> [token |-> t, rank |-> j]]
    <3>1. b \in adds /\ b.to = t
      BY <1>2, <2>3
    <3>2. {a \in adds : a.to = t} = {b}
      BY <1>3, <3>1
    <3> QED
      BY <1>6, <2>1, <2>3, <3>1, <3>2
  <2>4. ASSUME NEW t \in Token, \A j \in Rank : ids[t][j] # e
        PROVE  Received(t, e)' = {}
    <3>1. \A a \in adds : a.to # t
      BY <1>1, <2>4
    <3> QED
      BY <2>1, <3>1
  <2> QED
    BY <1>5, <1>7, <2>2, <2>3, <2>4 DEF Served
<1>12. IOut'
  <2>1. \A f \in Expert : f # e /\ Served(f) => Served(f)'
    BY <1>5, <1>6, <1>10, OthersStayServed
  <2>2. \A a \in out' : a.by \notin Todo'
    BY <1>6, <1>8, <1>10 DEF IInv, IOut
  <2> QED
    BY <1>8, <1>11, <2>1, <2>2 DEF IInv, IOut
<1>13. TypeOK'
  <2>1. adds \subseteq Addition
    <3> SUFFICES ASSUME NEW a \in adds PROVE a \in Addition
      OBVIOUS
    <3>1. PICK t \in Token, j \in Rank :
            a = [to |-> t, by |-> e, via |-> <<t, j, 0, 0>>, row |-> t,
                 weight |-> [token |-> t, rank |-> j]]
      BY <1>1
    <3>2. t \in Nat /\ j \in Int /\ [token |-> t, rank |-> j] \in Weight
      BY DEF Token, Rank, Weight
    <3> QED
      BY <3>1, <3>2 DEF Addition
  <2>2. pc' \in {"idle", "host"} /\ left' \subseteq Expert
    BY <1>5 DEF IInv, TypeOK
  <2> QED
    BY <1>5, <1>6, <1>7, <2>1, <2>2 DEF IInv, TypeOK
<1>14. ICounts' /\ ILists'
  BY <1>5, ListsUnchanged
<1>15. IPath' /\ IRoutes' /\ IRoom'
  BY <1>5, <1>7 DEF IInv, IPath, IRoutes, IRoom
<1>16. IActs'
  BY <1>5 DEF IActs
<1> QED
  BY <1>12, <1>13, <1>14, <1>15, <1>16 DEF IInv

LEMMA StutterInvariant ==
  ASSUME IInv, UNCHANGED vars
  PROVE  IInv'
<1>1. /\ aligned' = aligned /\ warps' = warps /\ cap' = cap /\ path' = path
      /\ seq' = seq /\ ids' = ids /\ claimed' = claimed /\ count' = count
      /\ assign' = assign /\ act' = act /\ pc' = pc /\ left' = left /\ out' = out
  BY DEF vars, shape, request
<1>2. ICounts' /\ ILists'
  BY <1>1, ListsUnchanged
<1>3. Token' = Token /\ Place' = Place /\ Todo' = Todo
  BY <1>1 DEF Token, Place, Todo
<1>4. TypeOK' /\ IRoutes' /\ IRoom' /\ IPath' /\ IActs'
  BY <1>1, <1>3 DEF IInv, TypeOK, IRoutes, IRoom, IPath, IActs, Staged
<1>5. IOut'
  BY <1>1, <1>3 DEF IInv, IOut, Served, Received
<1> QED
  BY <1>2, <1>4, <1>5 DEF IInv

----------------------------------------------------------------------------
(* IInv holds in every state: the lists, their counters, the staged values and
   the output agree with what the rows of the layer have claimed. *)
THEOREM DispatchInvariant == Spec => []IInv
<1>1. IInv /\ [Next]_vars => IInv'
  <2> SUFFICES ASSUME IInv, [Next]_vars
               PROVE  IInv'
    OBVIOUS
  <2>1. CASE UNCHANGED vars
    BY <2>1, StutterInvariant
  <2>2. ASSUME NEW pass \in {"prefill", "decode", "batch", "ragged"},
               NEW n \in 1 .. MaxSeq, Layer(pass, n)
        PROVE  IInv'
    BY <2>2, LayerInvariant
  <2>3. ASSUME NEW t \in Token, Claim(t)
        PROVE  IInv'
    BY <2>3, ClaimInvariant
  <2>4. ASSUME NEW e \in Expert, GateUp(e)
        PROVE  IInv'
    BY <2>4, GateUpInvariant
  <2>5. ASSUME NEW e \in Expert, Down(e)
        PROVE  IInv'
    BY <2>5, DownInvariant
  <2>6. ASSUME NEW e \in Expert, HostExpert(e)
        PROVE  IInv'
    BY <2>6, HostExpertInvariant
  <2> QED
    BY <2>1, <2>2, <2>3, <2>4, <2>5, <2>6 DEF Next
<1> QED
  BY InitInvariant, <1>1, PTL DEF Spec

(* Type correctness of the dispatch; in particular no counter exceeds the
   capacity of its list. *)
THEOREM DispatchTypeCorrect == Spec => []TypeOK
<1>1. IInv => TypeOK
  BY DEF IInv
<1> QED
  BY DispatchInvariant, <1>1, PTL

(* No row that claimed a place loses it, for any number of experts, rows and
   warps and any order of the claims. *)
THEOREM NoClaimLost == Spec => []ListsComplete
<1>1. IInv => ListsComplete
  <2> SUFFICES ASSUME IInv, NEW t \in Token, NEW j \in Rank, j <= claimed[t]
               PROVE  \E s \in Place :
                        /\ s < count[ids[t][j]]
                        /\ assign[ids[t][j]][s] =
                             [token |-> t, weight |-> [token |-> t, rank |-> j]]
    BY DEF ListsComplete
  <2>1. ids[t][j] \in Expert /\ HasClaimed(t, j, ids[t][j])
    BY DEF IInv, TypeOK, HasClaimed
  <2> QED
    BY <2>1 DEF IInv, ILists, ListHolds, EntryOf
<1> QED
  BY DispatchInvariant, <1>1, PTL

(* Every row receives the result of each of its experts exactly once, on each of
   the three paths. *)
THEOREM EveryRowCombined == Spec => []Combined
<1>1. IInv => Combined
  <2> SUFFICES ASSUME IInv, pc = "idle"
               PROVE  /\ \A a \in out : a.to \in Token
                      /\ \A e \in Expert : Served(e)
    BY DEF Combined, Served
  <2>1. Todo = {}
    BY DEF Todo
  <2>2. \A e \in Expert : Served(e)
    BY <2>1 DEF IInv, IOut
  <2>3. \A a \in out : a.by \in Expert
    BY DEF IInv, TypeOK, Addition
  <2> QED
    BY <2>2, <2>3 DEF Served
<1> QED
  BY DispatchInvariant, <1>1, PTL
=============================================================================
