---------------------------- MODULE BlockKernels ----------------------------
(***************************************************************************)
(* One thread block of the kernels whose threads meet in shared memory:    *)
(* the norms (rmsnorm.cu, vision_ops.cu), the per-head norm with its       *)
(* rotation (rope_fused.cu), the router (moe_device.cu), the attention     *)
(* over the cache (rswa_attention.cu) and the two flash attentions of the  *)
(* vision towers (vision_ops.cu), all under src/src/kernels/cuda.          *)
(*                                                                         *)
(* A kernel is the sequence of what each of its threads does between two   *)
(* barriers.  In the array `red` the threads reduce a row: its cells are   *)
(* sets of <<round, column>>, what has been summed up there.  Of any other *)
(* shared array only the round in which each thread wrote its part last is *)
(* kept.  What a thread reads for as long as it is at a step is there in   *)
(* every state in which it is at that step.                                *)
(***************************************************************************)
EXTENDS Integers, SequencesExt

CONSTANTS
  Levels,     \* a block has 2^Levels threads, TwoTo[Levels]
  MaxCols,    \* bound on the columns of a row
  MaxRounds   \* bound on the heads, cache rows or key tiles of a block

ASSUME BlockAssumption == Levels \in Nat /\ MaxCols \in Nat /\ MaxRounds \in Nat

VARIABLES
  cols,     \* the columns of the row this block reduces
  program,  \* the steps of the launched kernel
  done,     \* done[t]: how many steps thread t has taken
  red,      \* red[t]: sdata, sred or red
  shared    \* shared[a][t]: the round thread t last wrote its part of array a in

blockVars == <<cols, program, done, red, shared>>

TwoTo[k \in 0 .. Levels] == IF k = 0 THEN 1 ELSE 2 * TwoTo[k - 1]
Thread == 0 .. TwoTo[Levels] - 1
Blank == -1
Arrays == {"query", "table", "tile", "scores", "probs", "cells"}

-----------------------------------------------------------------------------
\* The steps.  `round` is the round of the kernel's loop a step belongs to.
Does(op, r) == <<[op |-> op, round |-> r, array |-> "", stride |-> 0]>>
Store(a, r) == <<[op |-> "store", round |-> r, array |-> a, stride |-> 0]>>
Load(a, r) == <<[op |-> "load", round |-> r, array |-> a, stride |-> 0]>>
Sync == Does("sync", 0)

\* Every thread publishes its part of the row; then half as many threads as
\* before add the other half to their own, down to one.
Fold(r, l) == <<[op |-> "fold", round |-> r, array |-> "", stride |-> TwoTo[Levels - l]]>>
Tree(r) == Does("publish", r) \o Sync \o FlattenSeq([l \in 1 .. Levels |-> Fold(r, l) \o Sync])

Times(n, Body(_)) == FlattenSeq([r \in 1 .. n |-> Body(r)])

RmsNorm == Tree(1) \o Does("take", 1)

\* The mean, then the variance: the barrier lets red be used again.
LayerNorm == Tree(1) \o Does("take", 1) \o Sync \o Tree(2) \o Does("take", 2)

\* Norm of the own cells of a head, then the rotation of pairs of cells.
HeadNorm(heads) ==
  Times(heads, LAMBDA r : Tree(r) \o Does("take", r) \o Store("cells", r) \o Sync
                            \o Load("cells", r) \o Sync)

\* The maximum, the sum and the division, or a sigmoid; then the selection.
Router(sigmoid) ==
  (IF sigmoid THEN Store("probs", 1)
   ELSE Tree(1) \o Does("take", 1) \o Sync
          \o Tree(2) \o Does("take", 2) \o Sync \o Store("probs", 1))
  \o Sync \o Does("select", 1)

\* One cache row per round: the dot product, the factors thread 0 leaves in its
\* place, and the sum scaled by them.
MutAttention(rows) ==
  Times(rows, LAMBDA r : Tree(r) \o Does("factors", r) \o Sync \o Does("combine", r))
Attention(rows) ==
  Times(rows, LAMBDA r : Tree(r) \o Does("factors", r) \o Sync \o Does("combine", r) \o Sync)

\* The rows a block walks: those of its slot, those before its query, or those
\* up to the position of a packed token.
BatchAttention(lengths, slot) == Attention(lengths[slot])
CausalAttention(kvLen, qStart, s, causal) ==
  Attention(IF causal /\ qStart + s + 1 < kvLen THEN qStart + s + 1 ELSE kvLen)
RaggedAttention(pos) == Attention(pos + 1)

\* The vision attention on plain cores: one tile of keys and values per round.
FlashAttention(tiles, relpos) ==
  (IF relpos THEN Store("table", 0) \o Sync ELSE <<>>)
  \o Times(tiles, LAMBDA r : Store("tile", r) \o Sync \o Load("tile", r) \o Sync)

\* And on tensor cores: scores by quadrant of a warp, softmax by row of a
\* thread, then the sum over the tile's values.
MutFlashAttentionTc(tiles) ==
  Store("query", 0) \o Sync \o Load("query", 0) \o Store("table", 0) \o Sync
  \o Times(tiles, LAMBDA r :
       Store("tile", r) \o Sync
       \o Load("tile", r) \o Load("table", 0) \o Store("scores", r) \o Sync
       \o Load("scores", r) \o Store("probs", r) \o Sync
       \o Load("probs", r) \o Load("tile", r))
FlashAttentionTc(tiles) ==
  Store("query", 0) \o Sync \o Load("query", 0) \o Store("table", 0) \o Sync
  \o Times(tiles, LAMBDA r :
       Store("tile", r) \o Sync
       \o Load("tile", r) \o Load("table", 0) \o Store("scores", r) \o Sync
       \o Load("scores", r) \o Store("probs", r) \o Sync
       \o Load("probs", r) \o Load("tile", r) \o Sync)

\* The launcher takes the tensor cores for a large relative-position attention
\* whose table fits the shared memory.
VisionAttention(tiles, relpos, large, fits) ==
  IF relpos /\ large /\ fits THEN FlashAttentionTc(tiles) ELSE FlashAttention(tiles, relpos)

\* What the host launches over n rows, heads or tiles.  A row of an attention
\* over the cache has at most a column per thread, head_dim <= 256.
AttentionPrograms(n) ==
  {Attention(n), BatchAttention([slot \in {"a"} |-> n], "a")}
  \cup {CausalAttention(n, start, 0, causal) : start \in 0 .. n, causal \in BOOLEAN}
  \cup IF n > 0 THEN {RaggedAttention(n - 1)} ELSE {}

Programs(n) ==
  {RmsNorm, LayerNorm, HeadNorm(n)} \cup {Router(sigmoid) : sigmoid \in BOOLEAN}
  \cup {VisionAttention(n, relpos, large, fits) : relpos, large, fits \in BOOLEAN}

BlockInit ==
  /\ cols \in 1 .. MaxCols
  /\ \E n \in 0 .. MaxRounds :
       program \in Programs(n) \cup (IF cols <= TwoTo[Levels] THEN AttentionPrograms(n) ELSE {})
  /\ done = [t \in Thread |-> 0]
  /\ red = [t \in Thread |-> {}]
  /\ shared = [a \in Arrays |-> [t \in Thread |-> Blank]]

-----------------------------------------------------------------------------
Running(t) == done[t] < Len(program)
Step(t) == program[done[t] + 1]
At(t, op) == Running(t) /\ Step(t).op = op
Finish(t) == done' = [done EXCEPT ![t] = @ + 1]

\* for (c = tid; c < cols; c += blockDim.x)
Share(t) == {c \in 0 .. cols - 1 : c % TwoTo[Levels] = t}

\* A sum to which a column contributes twice is none of the sums wanted.
Spoiled == {<<0, 0>>}
Sum(x, y) == IF x \cap y = {} THEN x \cup y ELSE Spoiled

Publish(t) ==
  /\ At(t, "publish")
  /\ red' = [red EXCEPT ![t] = {Step(t).round} \X Share(t)]
  /\ Finish(t)
  /\ UNCHANGED <<cols, program, shared>>

FoldHalf(t) ==
  /\ At(t, "fold")
  /\ LET s == Step(t).stride
     IN  red' = IF t < s THEN [red EXCEPT ![t] = Sum(@, red[t + s])] ELSE red
  /\ Finish(t)
  /\ UNCHANGED <<cols, program, shared>>

\* Thread 0 of an attention replaces the dot product by alpha and beta.
Factors(r) == {<<r, MaxCols>>}

ReplaceByFactors(t) ==
  /\ At(t, "factors")
  /\ red' = IF t = 0 THEN [red EXCEPT ![0] = Factors(Step(t).round)] ELSE red
  /\ Finish(t)
  /\ UNCHANGED <<cols, program, shared>>

StorePart(t) ==
  /\ At(t, "store")
  /\ shared' = [shared EXCEPT ![Step(t).array][t] = Step(t).round]
  /\ Finish(t)
  /\ UNCHANGED <<cols, program, red>>

\* Steps that read what others wrote into registers or to global memory.
Read(t) ==
  /\ \E op \in {"take", "combine", "load", "select"} : At(t, op)
  /\ Finish(t)
  /\ UNCHANGED <<cols, program, red, shared>>

\* __syncthreads.
BlockSync ==
  /\ \A t \in Thread : At(t, "sync") /\ done[t] = done[0]
  /\ done' = [t \in Thread |-> done[t] + 1]
  /\ UNCHANGED <<cols, program, red, shared>>

ThreadStep(t) ==
  Publish(t) \/ FoldHalf(t) \/ ReplaceByFactors(t) \/ StorePart(t) \/ Read(t)

BlockNext == BlockSync \/ \E t \in Thread : ThreadStep(t)

BlockSpec == BlockInit /\ [][BlockNext]_blockVars

-----------------------------------------------------------------------------
WholeRow(r) == {r} \X (0 .. cols - 1)

\* The thread that uses a reduction finds in red[0] the sum over every column of
\* the row, each counted once, and of this round: not a partial sum, not the
\* next round's, and not the attention factors that replace it; the threads that
\* use those factors find the ones of their own cache row.
ReducesWholeRow ==
  \A t \in Thread :
    /\ At(t, "take") \/ (At(t, "factors") /\ t = 0) => red[0] = WholeRow(Step(t).round)
    /\ At(t, "combine") => red[0] = Factors(Step(t).round)

\* A thread that reads a tile, table, score or probability reads what every other
\* thread wrote of it for this round, none of it missing and none overwritten by
\* a thread that is a tile or a head ahead.
ReadsWholeTile ==
  \A t \in Thread :
    /\ At(t, "load") => \A v \in Thread : shared[Step(t).array][v] = Step(t).round
    /\ At(t, "select") /\ t = 0 => \A v \in Thread : shared["probs"][v] = Step(t).round
=============================================================================
