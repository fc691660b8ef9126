--------------------------- MODULE ExpertWeights ---------------------------
(***************************************************************************)
(* The INT4 weights of the experts of one layer, from the checkpoint to    *)
(* the kernels: quantized while they are loaded (runtime/quant.cpp) or     *)
(* taken from a quantized file (runtime/weights.cpp), packed two to a      *)
(* byte, copied into one table on the device (GpuDecoder::                 *)
(* upload_expert_table) and read back by kernels that find their way in    *)
(* the packed bytes in different ways.                                     *)
(*                                                                         *)
(* Weights are integers.  A scale is a fraction num / den; the floor of    *)
(* 1e-8 that keeps a scale from being zero is num = 0: against a weight    *)
(* that is not zero it is as small as that.  Rows, columns, bytes, groups  *)
(* and experts count from zero, as in the code.                            *)
(***************************************************************************)
EXTENDS Integers, FiniteSetsExt

CONSTANTS
  Layers,     \* sequences of experts, each a matrix w[r][c]
  Group,      \* int4_group_size, or the group of the file
  PanelCols,  \* BK, the columns of a staged panel
  ChunkBytes  \* CH, the bytes of one asynchronous copy

Upto(n) == 0 .. n - 1
Rows(w) == Cardinality(DOMAIN w)
Cols(w) == Cardinality(DOMAIN w[0])

\* A layer has an expert at least, and its experts are matrices of one shape.
ASSUME WeightsAssumption ==
  /\ \A layer \in Layers :
       /\ Cardinality(DOMAIN layer) \in Nat \ {0}
       /\ DOMAIN layer = Upto(Cardinality(DOMAIN layer))
       /\ Rows(layer[0]) \in Nat \ {0} /\ Cols(layer[0]) \in Nat \ {0}
       /\ \A e \in DOMAIN layer :
            layer[e] \in [Upto(Rows(layer[0])) -> [Upto(Cols(layer[0])) -> Int]]
  /\ Group \subseteq Nat \ {0}
  /\ PanelCols \in Nat \ {0} /\ PanelCols % 2 = 0
  /\ ChunkBytes \in Nat \ {0}

VARIABLES
  experts,  \* the checkpoint
  group,    \* the group size of the load
  inFile,   \* the file has the layer
  stored,   \* stored[e]: the QuantizedMatrix of expert e, once it is loaded
  table     \* DevExpertTable, once the layer is uploaded

weightVars == <<experts, group, inFile, stored, table>>

NoTable == <<>>

-----------------------------------------------------------------------------
\* std::round and std::lround of n / d: halves away from zero.
MutRound(n, d) == n \div d
Round(n, d) ==
  IF n >= 0 THEN (2 * n + d) \div (2 * d) ELSE -((d - 2 * n) \div (2 * d))
Clamp4(v) == IF v < 0 THEN 0 ELSE IF v > 15 THEN 15 ELSE v

\* n_groups() and the bytes of a row.
NumGroups(cols, g) == (cols + g - 1) \div g
PackedRow(cols) == (cols + 1) \div 2

InGroup(w, g, r, k) == {w[r][c] : c \in {d \in DOMAIN w[r] : d \div g = k}}

\* Scale, zero point and nibbles of a group with the weights ws.
Awq(ws) ==
  LET mn == Min(ws)
      range == Max(ws) - mn
      Sign(w) == IF w > 0 THEN 15 ELSE 0
      zero == IF range = 0 THEN Sign(-mn) ELSE Clamp4(Round(-mn * 15, range))
  IN  [num |-> range, den |-> 15, zero |-> zero,
       nibble |-> [w \in ws |-> IF range = 0 THEN Sign(w)
                                ELSE Clamp4(Round(w * 15 + zero * range, range))]]

Symmetric(ws) ==
  LET amax == Max({IF w < 0 THEN -w ELSE w : w \in ws})
  IN  [num |-> amax, den |-> 7, zero |-> 8,
       nibble |-> [w \in ws |-> IF amax = 0 THEN 8
                                ELSE Clamp4(Round(w * 7, amax) + 8)]]

Quantize(ws, symmetric) == IF symmetric THEN Symmetric(ws) ELSE Awq(ws)

\* A matrix quantized group by group and packed: the even column is the low
\* nibble, and the last high nibble of a row of odd length is left zero.
EvenColumn(cols, i) == 2 * (i % PackedRow(cols))
Quantized(w, g, symmetric) ==
  LET cols == Cols(w)
      ng   == NumGroups(cols, g)
      by   == [r \in DOMAIN w |-> [k \in Upto(ng) |-> Quantize(InGroup(w, g, r, k), symmetric)]]
      Nibble(r, c) == IF c < cols THEN by[r][c \div g].nibble[w[r][c]] ELSE 0
      byte(i) == LET r == i \div PackedRow(cols)
                     c == EvenColumn(cols, i)
                 IN  Nibble(r, c) + 16 * Nibble(r, c + 1)
      of(gi) == by[gi \div ng][gi % ng]
  IN  [rows |-> Rows(w), cols |-> cols, group |-> g,
       packed |-> [i \in Upto(Rows(w) * PackedRow(cols)) |-> byte(i)],
       scales |-> [gi \in Upto(Rows(w) * ng) |-> [num |-> of(gi).num, den |-> of(gi).den]],
       zeros  |-> [gi \in Upto(Rows(w) * ng) |-> of(gi).zero]]

-----------------------------------------------------------------------------
WeightsInit ==
  /\ experts \in Layers /\ group \in Group /\ inFile \in BOOLEAN
  /\ stored = [e \in {} |-> 0] /\ table = NoTable

\* make_quantized: the tensors of the file are taken as they are, with the group
\* the file names; their values are those of another program, here symmetric.
\* The loop over the experts is parallel.
LoadExpert(e) ==
  /\ e \notin DOMAIN stored
  /\ LET q == Quantized(experts[e], group, inFile)
     IN  stored' = [f \in DOMAIN stored \cup {e} |-> IF f = e THEN q ELSE stored[f]]
  /\ UNCHANGED <<experts, group, inFile, table>>

\* upload_expert_table: the arrays of all experts one after another.
PackedStride(first) == first.rows * PackedRow(first.cols)
Flat(q, n, stride, part) ==
  [i \in Upto(n * stride) |-> q[i \div stride][part][i % stride]]
TableOf(q) ==
  LET first == q[0]
      n  == Cardinality(DOMAIN q)
      ss == first.rows * NumGroups(first.cols, first.group)
  IN  [cols |-> first.cols, group |-> first.group,
       pstride |-> PackedStride(first), sstride |-> ss,
       packed |-> Flat(q, n, PackedStride(first), "packed"),
       scales |-> Flat(q, n, ss, "scales"),
       zeros  |-> Flat(q, n, ss, "zeros")]
Upload ==
  /\ table = NoTable /\ DOMAIN stored = DOMAIN experts
  /\ table' = TableOf(stored)
  /\ UNCHANGED <<experts, group, inFile, stored>>

WeightsNext == (\E e \in DOMAIN experts : LoadExpert(e)) \/ Upload
WeightsSpec == WeightsInit /\ [][WeightsNext]_weightVars

-----------------------------------------------------------------------------
(* The readers.  Each gives the weight of row r and column c that it
   multiplies with, as a fraction over the scale's denominator. *)

Value(nibble, zero, scale) == [num |-> (nibble - zero) * scale.num, den |-> scale.den]
Low(byte) == byte % 16
High(byte) == byte \div 16
Zero(scale) == [num |-> 0, den |-> scale.den]

\* at, dequantize, matmul and moe_gemm_int4_kernel: byte and group of the column.
HostRead(q, r, c) ==
  LET byte == q.packed[r * PackedRow(q.cols) + c \div 2]
      gi == r * NumGroups(q.cols, q.group) + c \div q.group
  IN  Value(IF c % 2 = 1 THEN High(byte) ELSE Low(byte), q.zeros[gi], q.scales[gi])

\* int4_stage_raw: byte b of row r of the panel that starts at column k0.  Whole
\* panels of rows whose length allows it are copied asynchronously in chunks;
\* otherwise byte by byte, and those past the row are zero.
MutInRow(k, b) == 2 * b + 1 < k
InRow(k, b) == 2 * b < k
RawByte(q, r, k0, b) ==
  LET row == r * PackedRow(q.cols)
      whole == PackedRow(q.cols) % ChunkBytes = 0 /\ k0 + PanelCols <= q.cols
  IN  IF whole \/ InRow(q.cols, k0 \div 2 + b) THEN q.packed[row + k0 \div 2 + b] ELSE 0

\* int4_dequant_panel: entry (r, cc) of that panel; columns past the row are zero.
PanelRead(q, r, k0, cc) ==
  LET byte == RawByte(q, r, k0, cc \div 2)
      gi == r * NumGroups(q.cols, q.group) + (k0 + cc) \div q.group
  IN  IF k0 + cc >= q.cols THEN Zero(q.scales[0])
      ELSE Value(IF cc % 2 = 1 THEN High(byte) ELSE Low(byte), q.zeros[gi], q.scales[gi])

\* int4_dequant_panel_expert: the same straight from the table of expert e.
TableRead(e, r, c) ==
  LET byte == table.packed[e * table.pstride + r * PackedRow(table.cols) + c \div 2]
      gi == e * table.sstride + r * NumGroups(table.cols, table.group) + c \div table.group
  IN  Value(IF c % 2 = 1 THEN High(byte) ELSE Low(byte), table.zeros[gi], table.scales[gi])

\* warp_dot_i4: the lanes take the columns in pairs, the last of an odd row
\* alone, and read scale and zero point of a pair once, for its first column.
PairRead(e, r, c) ==
  LET first == 2 * (c \div 2)
      byte == table.packed[e * table.pstride + r * PackedRow(table.cols) + first \div 2]
      gi == e * table.sstride + r * NumGroups(table.cols, table.group) + first \div table.group
  IN  Value(IF c = first THEN Low(byte) ELSE High(byte), table.zeros[gi], table.scales[gi])

-----------------------------------------------------------------------------
\* A pair of columns that two groups share: its second column starts a group.
\* There are none if the groups are even, but quant.cpp:40 asks only that they
\* are not empty.
SplitsPair(c, g) == c % 2 = 1 /\ c % g = 0

\* Whichever kernel reads a weight, it reads what at() gives on the host, of
\* the expert, row and column meant; what a panel has past the end of a row
\* adds nothing (moe_device.cu warp_dot_i4, moe_gemm_int4.cu int4_stage_raw and
\* the dequantizers).  Of groups of odd size warp_dot_i4 reads all columns right
\* but those that start a group as the second of a pair: for them it has the
\* scale and the zero point of the group before (moe_device.cu:132).
ReadersAgree ==
  table # NoTable =>
    \A e \in DOMAIN stored :
      LET q == stored[e]
          panels == {k * PanelCols : k \in Upto((q.cols + PanelCols - 1) \div PanelCols)}
      IN  \A r \in Upto(q.rows) :
            /\ \A c \in Upto(q.cols) :
                 /\ TableRead(e, r, c) = HostRead(q, r, c)
                 /\ SplitsPair(c, q.group) \/ PairRead(e, r, c) = HostRead(q, r, c)
            /\ \A k0 \in panels, cc \in Upto(PanelCols) :
                 LET c == k0 + cc
                 IN  IF c < q.cols THEN PanelRead(q, r, k0, cc) = HostRead(q, r, c)
                     ELSE PanelRead(q, r, k0, cc).num = 0

\* "round-to-nearest" (preDocs/CORE_TECH.md:60): of the values the nibbles of its
\* group stand for, a weight gets one that none is nearer to; and it is off by
\* half a step at most if the group's weights are not all on one side of zero,
\* at whose side zero points are clamped (quant.cpp:65).
Abs(x) == IF x < 0 THEN -x ELSE x
RoundsToNearest ==
  \A e \in DOMAIN stored : \A r \in DOMAIN experts[e] : \A c \in DOMAIN experts[e][r] :
    LET q  == stored[e]
        w  == experts[e][r][c]
        ws == InGroup(experts[e], group, r, c \div group)
        gi == r * NumGroups(q.cols, group) + c \div group
        read == HostRead(q, r, c)
        Off(num) == Abs(w * read.den - num)
    IN  /\ \A v \in 0 .. 15 :
             Off(read.num) <= Off(Value(v, q.zeros[gi], q.scales[gi]).num)
        /\ (\E u \in ws : u <= 0) /\ (\E u \in ws : u >= 0) =>
             2 * Off(read.num) <= q.scales[gi].num
=============================================================================
