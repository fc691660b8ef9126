------------------------------- MODULE Encoder -------------------------------
(***************************************************************************)
(* The vision encoder of a square view, twice: on the host                 *)
(* (engine/deep_encoder.cpp) and on the device (engine/gpu_encoder.cu with *)
(* kernels/cuda/vision_ops.cu), which "mirrors it stage by stage".  Patch  *)
(* embedding, attention blocks over windows or over the whole grid, three  *)
(* convolutions, CLIP over the tokens, and the layout of the rows.         *)
(*                                                                         *)
(* Values are left out; what is kept of a cell is what it was computed     *)
(* from.  field[p][cell] are the pixels that reach the cell of SAM,        *)
(* clip[p][row] those that reach the row of CLIP, whose row 0 is the class *)
(* token and row t + 1 token t, and reads[p][cell] what the last stage     *)
(* read for it: cells and, with each, the weight or the rows of the        *)
(* position tables; in a layer of CLIP, rows.                              *)
(***************************************************************************)
EXTENDS Integers, FiniteSets, Sequences

CONSTANTS
  Views,       \* sides of the views, in pixels
  Depths,      \* sam_depth
  Patch,       \* patch_size
  Window,      \* sam_window_size
  StoredGrid,  \* the grid whose position tables the checkpoint holds
  ClipGrid,    \* the grid of CLIP's position table
  ClipDepths,  \* layers of CLIP
  KeyTile,     \* keys the device stages at a time, kAttnKT
  QueryTile    \* queries of a block of it, kAttnWarps * kAttnQP

ASSUME EncoderAssumption ==
  /\ Patch \in Nat \ {0} /\ Window \in Nat \ {0}
  /\ StoredGrid \in Nat \ {0} /\ ClipGrid \in Nat \ {0}
  /\ Depths \subseteq Nat /\ ClipDepths \subseteq Nat
  /\ KeyTile \in Nat \ {0} /\ QueryTile \in Nat \ {0}
  /\ \A n \in Views : n \in Nat /\ n >= Patch

VARIABLES
  view, depth,  \* the call: side of the view, number of blocks
  clipDepth,    \* and the number of CLIP's layers
  stage,        \* the stage to run next
  block,        \* index of the next block
  layer,        \* index of the next layer of CLIP
  side,         \* side[p]: cells on a side
  field,        \* field[p][cell]
  clip,         \* clip[p][row]
  reads,        \* reads[p][cell]
  rows          \* rows[p]: the rows returned

encVars == <<view, depth, clipDepth, stage, block, layer, side, field, clip, reads, rows>>

Path == {"cpu", "gpu"}
Pad == -1     \* no cell: a zero of the padding, the class embedding
Below(n) == 0 .. n - 1
Cells(n) == Below(n * n)

-----------------------------------------------------------------------------
(* Convolutions of a kernel c over n by n cells. *)

Conv == [patch |-> [k |-> Patch, stride |-> Patch, pad |-> 0],
         neck  |-> [k |-> 3, stride |-> 1, pad |-> 1],
         net2  |-> [k |-> 3, stride |-> 2, pad |-> 1],
         net3  |-> [k |-> 3, stride |-> 2, pad |-> 1]]

\* conv2d: for every output cell the taps that fall inside.
CpuSide(s, n) == (n + 2 * Conv[s].pad - Conv[s].k) \div Conv[s].stride + 1
Conv2d(c, n, m) ==
  [o \in Cells(m) |->
    LET from(x) == x * c.stride - c.pad
        taps == {t \in Below(c.k) \X Below(c.k) : /\ from(o \div m) + t[1] \in Below(n)
                                                 /\ from(o % m) + t[2] \in Below(n)}
    IN  {<<(from(o \div m) + t[1]) * n + from(o % m) + t[2], t[1] * c.k + t[2]>> : t \in taps}]

\* im2col_chw and im2col_hwc: one element of the matrix for every thread; row o
\* is then multiplied with the weights in the same order.
GpuSide(s, n) == CASE s = "patch" -> n \div Patch
                   [] s = "neck"  -> n
                   [] OTHER       -> (n + 2 - 3) \div 2 + 1
Im2col(c, n, m) ==
  [idx \in Below(m * m * c.k * c.k) |->
    LET o  == idx \div (c.k * c.k)
        ih == (o \div m) * c.stride - c.pad + ((idx \div c.k) % c.k)
        iw == (o % m) * c.stride - c.pad + (idx % c.k)
    IN  IF ih \in Below(n) /\ iw \in Below(n) THEN ih * n + iw ELSE Pad]
ConvByRows(c, n, m) ==
  LET col == Im2col(c, n, m)
  IN  [o \in Cells(m) |->
        {r \in {<<col[o * c.k * c.k + t], t>> : t \in Below(c.k * c.k)} : r[1] # Pad}]

-----------------------------------------------------------------------------
(* Windows: part[i] is the cell at place i of the windows, back[cell] the
   place the cell is taken back from, if there is one. *)

\* window_partition and window_unpartition of the host.
CpuWindows(n) == (n + ((Window - (n % Window)) % Window)) \div Window
CpuPlaces(n) ==
  LET nw == CpuWindows(n)
      at(wi, wj, i, j) == <<((wi * nw + wj) * Window + i) * Window + j,
                            (wi * Window + i) * n + wj * Window + j>>
  IN  {at(w[1], w[2], w[3], w[4]) :
         w \in {v \in Below(nw) \X Below(nw) \X Below(Window) \X Below(Window) :
                  v[1] * Window + v[3] < n /\ v[2] * Window + v[4] < n}}
CpuPartition(n) ==
  LET nw == CpuWindows(n)
      places == CpuPlaces(n)
      cells(i) == {pl[2] : pl \in {q \in places : q[1] = i}}
  IN  [i \in Below(nw * nw * Window * Window) |->
        IF cells(i) = {} THEN Pad ELSE CHOOSE cell \in cells(i) : TRUE]
CpuUnpartition(n) ==
  LET places == CpuPlaces(n)
  IN  [cell \in {pl[2] : pl \in places} |-> (CHOOSE pl \in places : pl[2] = cell)[1]]

\* The kernels window_partition and window_unpartition of the device.
MutGpuWindows(n) == n \div Window
GpuWindows(n) == (n + Window - 1) \div Window
GpuCell(n, idx) ==
  LET win == idx \div (Window * Window)
      ih  == (win \div GpuWindows(n)) * Window + ((idx \div Window) % Window)
      iw  == (win % GpuWindows(n)) * Window + (idx % Window)
  IN  IF ih < n /\ iw < n THEN ih * n + iw ELSE Pad
GpuPartition(n) ==
  [idx \in Below(GpuWindows(n) * GpuWindows(n) * Window * Window) |-> GpuCell(n, idx)]
GpuUnpartition(n) ==
  LET part == GpuPartition(n)
  IN  [cell \in {part[idx] : idx \in DOMAIN part} \ {Pad} |->
         CHOOSE idx \in DOMAIN part : part[idx] = cell]

-----------------------------------------------------------------------------
(* Position tables: which stored rows a row is made of. *)

Clamp(x, n) == IF x < 0 THEN 0 ELSE IF x >= n THEN n - 1 ELSE x

\* linear_resample and bicubic_resize, from n stored rows to m.
LinearTaps(n, m, o) ==
  LET x0 == ((2 * o + 1) * n - m) \div (2 * m)
  IN  IF n = m THEN {o} ELSE {Clamp(x0, n), Clamp(x0 + 1, n)}
CubicTaps(n, m, o) ==
  LET y0 == ((2 * o + 1) * n - m) \div (2 * m)
  IN  IF n = m THEN {o} ELSE {Clamp(y0 - 1 + j, n) : j \in 0 .. 3}

\* The block's table of relative positions: made for its window, or for the
\* stored grid.
StoredRel(global) == 2 * (IF global THEN StoredGrid ELSE Window) - 1

\* build_rel_pos of the host for queries and keys w to a side.
CpuRel(global, w, q, k) ==
  LinearTaps(StoredRel(global), 2 * w - 1, Clamp(q - k + w - 1, 2 * w - 1))

\* encode resamples the table of a global block, and gives the kernel that of a
\* windowed one as it is.
GpuRel(global, w, q, k) ==
  IF global THEN LinearTaps(StoredRel(global), 2 * w - 1, q - k + w - 1)
            ELSE {q - k + w - 1}

Rel(p, global, w, q, k) ==
  IF p = "cpu" THEN CpuRel(global, w, q, k) ELSE GpuRel(global, w, q, k)

-----------------------------------------------------------------------------
(* Attention blocks. *)

MutIsGlobal(b) == b > 2 /\ (b - 2) % 3 = 0
IsGlobal(b) == b >= 2 /\ (b - 2) % 3 = 0

\* sam_attention / attention_flash over the whole grid.
AttendGrid(p, n) ==
  [q \in Cells(n) |-> {<<k, Rel(p, TRUE, n, q \div n, k \div n),
                            Rel(p, TRUE, n, q % n, k % n)>> : k \in Cells(n)}]

\* And over every window: each cell attends to what its window holds.
AttendWindows(p, part, back) ==
  [cell \in DOMAIN back |->
    LET w == Window
        q == back[cell] % (w * w)
        first == back[cell] - q
    IN  {<<part[first + k], Rel(p, FALSE, w, q \div w, k \div w),
                              Rel(p, FALSE, w, q % w, k % w)>> : k \in Cells(w)}]

CpuAttend(n) ==
  IF IsGlobal(block) THEN AttendGrid("cpu", n)
  ELSE AttendWindows("cpu", CpuPartition(n), CpuUnpartition(n))
GpuAttend(n) ==
  IF IsGlobal(block) THEN AttendGrid("gpu", n)
  ELSE AttendWindows("gpu", GpuPartition(n), GpuUnpartition(n))

\* What reaches a cell that reads r.
Reached(p, r) == UNION {field[p][s[1]] : s \in {t \in r : t[1] # Pad}}

-----------------------------------------------------------------------------
EncInit ==
  /\ view \in Views /\ depth \in Depths /\ clipDepth \in ClipDepths
  /\ stage = "patch" /\ block = 0 /\ layer = 0
  /\ side = [p \in Path |-> view]
  /\ field = [p \in Path |-> [px \in Cells(view) |-> {px}]]
  /\ reads = [p \in Path |-> <<>>]
  /\ clip = [p \in Path |-> <<>>]
  /\ rows = [p \in Path |-> <<>>]

\* A convolution, and the stage after it.
Convolve(s, then) ==
  /\ stage = s
  /\ LET size == [cpu |-> CpuSide(s, side.cpu), gpu |-> GpuSide(s, side.gpu)]
     IN  /\ side' = size
         /\ reads' = [cpu |-> Conv2d(Conv[s], side.cpu, size.cpu),
                      gpu |-> ConvByRows(Conv[s], side.gpu, size.gpu)]
  /\ field' = [p \in Path |-> [o \in DOMAIN reads'[p] |-> Reached(p, reads'[p][o])]]
  /\ stage' = then
  /\ UNCHANGED <<view, depth, clipDepth, block, layer, clip, rows>>

\* The absolute position of each cell, resampled unless the grid is the stored one.
Positions ==
  /\ stage = "position"
  /\ reads' = [p \in Path |-> [cell \in Cells(side[p]) |->
       {<<cell, CubicTaps(StoredGrid, side[p], cell \div side[p]),
                CubicTaps(StoredGrid, side[p], cell % side[p])>>}]]
  /\ stage' = IF depth = 0 THEN "neck" ELSE "blocks"
  /\ UNCHANGED <<view, depth, clipDepth, block, layer, side, field, clip, rows>>

\* One block; the residual keeps what the cell had.
Attend ==
  /\ stage = "blocks"
  /\ reads' = [cpu |-> CpuAttend(side.cpu), gpu |-> GpuAttend(side.gpu)]
  /\ field' = [p \in Path |-> [cell \in DOMAIN field[p] |->
       field[p][cell] \cup (IF cell \in DOMAIN reads'[p] THEN Reached(p, reads'[p][cell]) ELSE {})]]
  /\ block' = block + 1
  /\ stage' = IF block' = depth THEN "neck" ELSE "blocks"
  /\ UNCHANGED <<view, depth, clipDepth, layer, side, clip, rows>>

\* CLIP puts the class token before the tokens and adds the positions, of
\* which the class token has the first.
ClipPosition(n, r) ==
  LET t == r - 1
  IN  IF r = 0 THEN {0}
      ELSE IF n = ClipGrid THEN {r}
      ELSE {1 + y * ClipGrid + x : y \in CubicTaps(ClipGrid, n, t \div n),
                                   x \in CubicTaps(ClipGrid, n, t % n)}
ClipRows(n) == n * n + 1
Clip ==
  /\ stage = "clip"
  /\ reads' = [p \in Path |-> [r \in Below(ClipRows(side[p])) |->
       {<<IF r = 0 THEN Pad ELSE r - 1, ClipPosition(side[p], r)>>}]]
  /\ clip' = [p \in Path |-> [r \in DOMAIN reads'[p] |-> Reached(p, reads'[p][r])]]
  /\ stage' = IF clipDepth = 0 THEN "layout" ELSE "layers"
  /\ UNCHANGED <<view, depth, clipDepth, block, layer, side, field, rows>>

\* A layer of CLIP: every row attends to every row, on the device a block of
\* queries and a tile of keys at a time.  The residual keeps what the row had.
Tiled(n, width) ==
  {i \in {tile * width + j : tile \in Below((n + width - 1) \div width), j \in Below(width)} :
     i < n}
CpuClip(n) == [q \in Below(n) |-> Below(n)]
GpuClip(n) == [q \in Tiled(n, QueryTile) |-> Tiled(n, KeyTile)]
ClipLayer ==
  /\ stage = "layers"
  /\ reads' = [cpu |-> CpuClip(ClipRows(side.cpu)), gpu |-> GpuClip(ClipRows(side.gpu))]
  /\ clip' = [p \in Path |-> [q \in DOMAIN clip[p] |->
       clip[p][q] \cup (IF q \in DOMAIN reads'[p] THEN UNION {clip[p][k] : k \in reads'[p][q]}
                        ELSE {})]]
  /\ layer' = layer + 1
  /\ stage' = IF layer' = clipDepth THEN "layout" ELSE "layers"
  /\ UNCHANGED <<view, depth, clipDepth, block, side, field, rows>>

\* The projected tokens row by row, a newline after each row, the separator.
\* Token t is made of its cell of SAM and of CLIP's row t + 1: the class token
\* is dropped.
MutPlace(n, i) == (i \div (n + 1)) * (n + 1) + (i % (n + 1))
Place2D(n, i) == (i \div (n + 1)) * n + (i % (n + 1))
Layout(n) ==
  [j \in 1 .. n * (n + 1) + 1 |->
    LET i == j - 1
    IN  IF i = n * (n + 1) THEN [kind |-> "separator"]
        ELSE IF i % (n + 1) = n THEN [kind |-> "newline"]
        ELSE [kind |-> "token", of |-> Place2D(n, i), clip |-> Place2D(n, i) + 1]]
Return2D ==
  /\ stage = "layout"
  /\ rows' = [p \in Path |-> Layout(side[p])]
  /\ stage' = "done"
  /\ UNCHANGED <<view, depth, clipDepth, block, layer, side, field, clip, reads>>

EncNext ==
  \/ Convolve("patch", "position") \/ Positions \/ Attend
  \/ Convolve("neck", "net2") \/ Convolve("net2", "net3") \/ Convolve("net3", "clip")
  \/ Clip \/ ClipLayer \/ Return2D

EncSpec == EncInit /\ [][EncNext]_encVars

-----------------------------------------------------------------------------
\* The two encoders compute every cell of every stage from the same cells, with
\* the same weights and the same positions (gpu_encoder.h:7 "matches the CPU
\* DeepEncoder::encode exactly").
EncodersAgree ==
  /\ side.cpu = side.gpu /\ field.cpu = field.gpu /\ clip.cpu = clip.gpu
  /\ reads.cpu = reads.gpu /\ rows.cpu = rows.gpu

\* The two halves of a token of the final grid.  SAM's stands for its place in
\* the picture: it comes from the patches within four of its own, if there are
\* windowed blocks from the whole windows these lie in, if there is a global
\* block from everything (the third is one, deep_encoder.cpp:463
\* "global_attn_indexes = {2,5,8,11}"), and from nothing else; none of it is
\* lost at the borders of windows or grid.  CLIP's comes, as soon as CLIP has a
\* layer, from the whole grid and from nothing outside it, and so does that of
\* the class token; without a layer it is SAM's.
Grid == view \div Patch
Near(r) == (4 * r - 4 .. 4 * r + 4) \cap Below(Grid)
Seen(r) ==
  IF depth >= 3 THEN Below(Grid)
  ELSE IF depth = 0 THEN Near(r)
  ELSE {i \in Below(Grid) : \E j \in Near(r) : i \div Window = j \div Window}
PixelsOf(is, js) ==
  {y * view + x : y \in {v \in Below(view) : v \div Patch \in is},
                  x \in {v \in Below(view) : v \div Patch \in js}}
TokensSeeTheirPlace ==
  /\ stage \in {"clip", "layers", "layout", "done"} =>
       \A p \in Path : \A t \in Cells(side[p]) :
         field[p][t] = PixelsOf(Seen(t \div side[p]), Seen(t % side[p]))
  /\ stage \in {"layout", "done"} =>
       \A p \in Path : \A r \in Below(ClipRows(side[p])) :
         clip[p][r] = IF clipDepth > 0 THEN PixelsOf(Below(Grid), Below(Grid))
                      ELSE IF r = 0 THEN {} ELSE field[p][r - 1]
==============================================================================
