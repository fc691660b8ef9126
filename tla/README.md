# Verification of unlimited-ocr.cpp

TLA+ models of the control core of unlimited-ocr.cpp (an OCR language-model
runtime: a mixture-of-experts decoder with a sliding-window K/V cache, run on the
CPU or on CUDA), TLC configurations that check them on small instances, and TLAPS
proofs for every value of the constants. Paths below are relative to the
repository; `engine.cpp` is `src/engine/engine.cpp` there, and so on.

## 1. The system

| Component | State | Operations | Talks to |
|---|---|---|---|
| R-SWA cache: `kv_cache.cpp` (host), `gpu_cache.cu` (device) | rows of K/V per layer; per layer `len_`, `ring_pos_`, `ring_started_`; `prefill_len_`, `capacity_` | `reset`, `write_prefill`, `append_decode`, `attention` | driven layer by layer by the decoder |
| Append kernels: `rswa_attention.cu` | `*d_len`, `*d_ring_pos` in device memory, shared by the threads of a block | one launch per token | launched by the device cache |
| Decoder: `moe_decoder.cpp`, `gpu_decoder.cu` | weights, scratch buffers, captured CUDA graphs, K/V of the batch slots | `prefill_embeds`, `decode`, `batch_configure`, `batch_prefill_embeds`, `batch_decode` | cache, kernels |
| Memory pool: `memory_pool.cpp` | sorted free list, `used_`, `peak_` | `reserve`, `reset`, `allocate`, `free` | two instances in the block manager |
| Block manager: `block_manager.cpp` | reference-counted prefixes, `shared_bytes_` | `acquire_prefix`, `release_prefix`, `allocate_ring`, `free_ring` | pools; called by the engine |
| Scheduler: `continuous_batch.cpp` | `waiting_`, `running_`, the requests | `add_request`, `build_batch`, `mark_prefilled`, `add_token`, `finish` | called by `generate_batch` |
| Engine: `engine.cpp` | per call: history, position, slot map, slot stack | `generate`, `generate_from_image`, `generate_batch` | all of the above |
| Sampler: `sampler.cpp` | generator state | `sample`, `apply_no_repeat_ngram` | called by the engine |
| MoE router and experts: `moe_decoder.cpp`, `moe_device.cu`, GEMM kernels | assignment lists per expert | routing, grouped GEMM | decoder |
| Kernels of one block: `backend.cu`, `moe_gemm_int4.cu`, `rmsnorm.cu`, `rope_fused.cu`, `rswa_attention.cu`, `vision_ops.cu` | rings of staged panels, reduction arrays and tiles in shared memory | one launch | decoder, encoder |
| Vision encoder: `deep_encoder.cpp` (host), `gpu_encoder.cu` (device) | weights, position tables | `encode` of one view | engine |
| Prompt and image layout: `prompt.cpp`, `image.cpp`, `engine.cpp` | the views and rows of one call | crop grid, padding, token layout, embeddings, scatter | engine, tools |
| Tokenizer: `tokenizer.cpp` | vocabulary, ranks of the merges, special flags | `encode`, `decode` | tools |
| Quantizer and expert weights: `quant.cpp`, `weights.cpp`, `gpu_decoder.cu` | packed nibbles, scales and zero points per group; one table of all experts on the device | quantize, load in parallel, upload, read back in each kernel | expert kernels |
| Safetensors, config, log, elementwise operators | read-only after start | loading, arithmetic | |

The host side runs in the caller's thread, but for parallel loops over independent
elements; there are no locks, queues between threads or persistent state. On the
device the warps and threads of a block run concurrently. What makes the system hard:

* **Positions that wrap.** A row of the cache is named by the cursors of its
  layer; the cursors only wrap after a full window of tokens, layer by layer, in
  the middle of a forward pass, and the same arrays serve the next request.
* **State of one request in several places.** In `generate_batch` a request is
  in a queue of the scheduler, in the engine's slot map or stack, and in a slot
  of the device cache, and the batch is a snapshot of the queues that the steps
  after it make stale.
* **Addresses baked into CUDA graphs.** Buffers grow on demand inside whichever
  call needs more rows, while graphs captured by the other kind of call still
  hold the old addresses.
* **Threads of one block.** The append kernels read and write the cursors from
  every thread with no barrier. The products stage panels in rings of asynchronous
  copies with one barrier per step, and the reductions use the same shared array
  round after round.
* **Counts that several owners share.** Reference counts, the free list and its
  statistics.
* **Rows grouped by a race.** The blocks of the router claim places in the lists of
  the experts in any order, up to a capacity set by an earlier call.
* **Layouts computed several times.** The crop grid and the number of visual rows
  are worked out for the prompt, for the embeddings and for the scatter; the two
  encoders repeat each other with other index arithmetic; six readers unpack the
  same nibbles.
* **Regular expressions by hand.** The tokenizer matches three patterns without
  backtracking and applies merges to all occurrences at once.

What makes each component correct is stated as its properties in section 3; the
full list of hazards, each at its line, is `hazards` in `PROJECT.json`.

## 2. Modules

```
SlidingWindow  <-- implements --  RSWACache                              <-- CacheProofs
BatchContract  <-- implements --  BatchEngine                            <-- BatchEngineProofs
Generate, GraphCache                                                     <-- DecodeProofs
MemoryPool  <-- two instances in -- BlockManager   (MCMemory)            <-- MemoryPoolProofs, CacheProofs
AppendKernel, PanelPipeline, BlockKernels          (MCKernels)           <-- KernelProofs
ExpertWeights, MoEDispatch                         (MCExperts)           <-- ExpertProofs
ImageLayout, Encoder  <-- related by --  EncodedView (MCFront)           <-- FrontProofs
Tokenizer  <-- compared with -- TokenizerReference (MCTokenizer, MCFront) <-- TokenizerProofs
```

`MC*` modules give the constants for TLC. Where one of them names several modules,
a behaviour is about one of these, chosen at the start: the modules keep no state
in common, and the others stand still.
Definitions whose name starts with `Mut` are deliberate bugs that replace the
definition after them to confirm that a property notices; nothing else uses them.

**RSWACache** models both caches and the forward passes above them. A row stores
the position of the token it belongs to instead of numbers. `onDevice` selects
`GpuRSWACache::reset`, which keeps a larger allocation, or `RSWACache::reset`.
`StartPrefill` and `StartDecode` begin a pass; `WritePrefill`, `AppendWarmup` and
`AppendRing` are the write of one layer followed by the move to the next
(`NextLayer`), so the states in which some layers have seen the token and others
have not are all visible. The device cache with the cursors in device memory
(`append_decode_device`) follows the same rule by a kernel, modelled in
AppendKernel.

**SlidingWindow** is what the comment in `kv_cache.h` promises: every layer
attends to the reference and the last W decoded tokens.

**GraphCache** models the buffers of `GpuDecoder`, grown by `ensure_*`,
`GpuRSWACache::reset` and `batch_configure`, and the graphs captured over them. A
graph is the set of buffers it bakes that were freed since its capture; `replay`
is the last launch. `mode` says which call the engine is in: a prefill by
`generate` and its decodes, or a call of `generate_batch`. Graph mode is on, and
scope and the MoE prefill mode are chosen once, as the engine's constructor does.

**MemoryPool** keeps the free list as a set: no two blocks have the same offset,
so "first" is the least offset. `live` stands for the callers' knowledge.
**BlockManager** uses it twice through `INSTANCE` and adds the prefix entries;
`holds` stands for the requests that have acquired a key.

**BatchEngine** models `generate_batch` on the device with the scheduler and the
slots, one action for each iteration of each loop: building the batch, taking a
slot, the ragged prefill, the first token of each request, the batched decode,
each decoded token. `fed[s]` is what the rows of slot s hold, as request and
position. Sampling chooses between the end-of-sequence token and another one. A
prompt may be empty, which ends the call with the exception of
`batch_prefill_embeds`.

**BatchContract** is what the callers rely on: requests are taken up in order, at
most `slots` at a time, each gets tokens until the limit or its end, and nothing
afterwards.

**Generate** models the loop of `generate` and `generate_from_image` with the
n-gram processor of the sampler. Logits are reduced to which tokens are possible;
temperature, top-k and top-p narrow that choice and are left out.

**AppendKernel** models one launch after another of `rswa_append_kernel` with the
warps of the block interleaved at every access to `*d_len` and `*d_ring_pos`. The
threads of one warp are taken to run in lock step. The batch kernel runs the same
code once per slot on words of its own.

**PanelPipeline** models one block of the matrix products, of three kinds: one slot
per operand and two barriers per panel; a ring of weight panels filled by
`cp.async` with one barrier per panel; and the same with packed INT4 weights that
are dequantized from the ring. Each warp's share of a slot holds a panel number; an
asynchronous copy spoils it when issued and is there when `cp_async_wait` has
counted its commit group. `Route` and `RawRoute` are the order of the locations,
`DenseLaunch`, `SplitLaunch` and `Int4PipeLaunch` the choice the host makes.

**BlockKernels** models the kernels whose threads meet in shared memory as the
sequence of what a thread does between barriers: the tree reductions of the norms,
the router and the attentions over the cache, the broadcast of their result, and
the tiles of the two flash attentions. A reduction cell is the set of columns
summed up in it, another array the round of each thread's part.

**ExpertWeights** follows the INT4 weights of a layer: both quantizers (`Awq`,
`Symmetric`) with their rounding, clamping and packing, the load of the experts in
any order, the table `upload_expert_table` makes, and the readers `HostRead`
(`at`, `dequantize`, the plain product), `PanelRead` over `RawByte` (the pipelined
product), `TableRead` (the grouped kernels) and `PairRead` (the masked kernels).
Weights are integers and scales exact fractions, so the rounding is that of the
real quotient. Tensors of a pre-quantized file are those of another program; here
the symmetric quantizer makes them.

**MoEDispatch** models the routed experts of one layer after another
(`GpuDecoder::mlp_block`). `Claim` is one round of the loop of
`moe_router_topk_kernel`, so that the blocks of the rows interleave at every
`atomicAdd`; `GateUp` and `Down` are the block of one expert, in any order within a
kernel. `Visits` gives the places of a list a block goes through: one after
another in the masked kernels, by tile, warp, lane group and half in the grouped
ones. `HostExpert` is the loop of the host path with the plain additions of
`scatter_add_scaled`. Results are named: an addition says which row it was computed
from and which weight it used. Which path is taken depends on the pass (`PathsOf`).

**Tokenizer** models `encode` with the scan for added tokens, the three
pre-tokenizer passes matched by hand and the merges applied rank by rank to all
occurrences, and `decode`. Characters are members of a small set with categories
and bytes. **TokenizerReference** is a definition of the three regular expressions
with backtracking and of merges one at a time, leftmost of the lowest rank first.

**ImageLayout** models the pipeline of `tools/ocr_image.cpp`: the crop grid of
`image_crops`, the prompt of `build_ocr_prompt`, the views, the crops one by one and
their stitching in `image_embeddings`, and the scatter of `generate_from_image`. A
visual row is named by its view and the pixel its patch starts at. `merged` is the
array of the local rows, zero until the round of the loop that copies the rows of
their crop to their places. Every `UOCR_CHECK` on a count leads to `failed`. Quotients are doubles in the code: where
two real numbers are equally near, both outcomes are possible, the same one each
time the grid is computed (`ties`).

**Encoder** runs the host and the device encoder side by side over one view, stage
by stage: patches, positions, attention blocks over windows or the whole grid, the
neck, two strided convolutions, CLIP and its layers one by one, the layout of the
rows. A cell carries the pixels it was computed from (`field`), a row of CLIP those
that reach it (`clip`: the class token and the tokens), and `reads` says what the
last stage read for it: cells, with the weight or the table rows used for each, or
the rows a row attends to. A layer of CLIP attends from every row to every row, on
the host in two loops, on the device by blocks of `QueryTile` queries that stage
`KeyTile` keys at a time. A row returned is the projection of two halves, the cell
of SAM and the row of CLIP, the class token dropped.

**EncodedView** relates the two: ImageLayout takes an encoder to return certain
rows for a view (`Laid`, an instance of it with the patches of Encoder), Encoder
says which it returns. `RowsAsLaidOut` is that these are the same.

## 3. Runs

| Run | Shows | Bounds |
|---|---|---|
| `kv_ring` | `ReferenceIntact`, `VisibleRowsDistinct`, `WritesInBounds`, refinement of `SlidingWindow` | two layers (one ahead of the other); windows 2 and 3; prompts up to 3; positions below 11, so that the ring wraps more than once for every prompt and window |
| `batch_engine` | `SlotsPartition`, `QueuesAgree`, `OwnTokens`, `WorkConserving`, `CallEnds`, refinement of `BatchContract` | four requests over one or two slots, prompts of 0 to 2 tokens, limits 0 and 3: requests wait, finish on the first, a middle and the last token, and hand slots on |
| `generate` | `NoRepeat`, `BansOnlyRepeats`, `DecoderSawHistory`, `ResultIsGenerated` | three tokens, n-grams of 0 to 3, windows 3 and 9, limits 0 and 4 |
| `memory` | `Partition`, `FullyCoalesced`, `BytesAccounted`, `CountsHolders`, `EntriesOwnBlocks` | pool: arenas of 0 and 9 bytes, sizes 1 and 3, alignments 4 and 1, `used_` up to 13; manager: three requests, two keys, sizes 0, 1, 3 with alignment 2, a ring pool of two blocks |
| `graph_cache` | `BatchReplaySafe`, `SingleReplayKeepsCache` | two prompt lengths, two ragged sizes, three slots, two capacities: every buffer can grow in either kind of call |
| `kernels` | `StaysInRing`, `ReadsItsPanel`, `BarriersMatch`, `SumsWholeRow`, `ReducesWholeRow`, `ReadsWholeTile` | three warps, a reference of two rows and a ring of three, unbounded launches; rings of the depths launched, up to six panels, the last one partly filled; four threads, rows of one to six columns, three rounds |
| `experts` | `ListsComplete`, `Combined`, `ReadersAgree`, `RoundsToNearest` | three experts, two per row, up to three rows, fragments of two rows with one and two warps; two experts of two rows and one to seven columns in groups of 2 to 4, panels of four columns and chunks of two bytes: odd rows, broken and odd groups, panels past the end, whole and bytewise copies |
| `front` | `LayoutsAgree`, `PageOrder`, `GridSuitsImage`, `PastedCentred`, `EncodesAsReference`, `RoundTrips`, `EncodersAgree`, `TokensSeeTheirPlace`, `RowsAsLaidOut` | every image up to 19 by 19, views of 5 and 9, grids of two to eight crops, text of 0 or 1 token on each side; texts of up to three of fourteen characters and up to five of the four that compete, all lists of three merges over two letters, added tokens within and beyond the vocabulary; views of one to nine patches in windows of three, up to six blocks (two of them global) and two layers of CLIP over at most ten rows, in blocks of three queries and tiles of four keys: several of each, the last partly filled |
| `token_skip` | violated: `SkipsSpecial` | three characters, two added tokens beyond the vocabulary |
| `contain_fit` | violated: `FitsInside` | as `front` |
| `append_race` | violated: `WritesOneRow` | as `kernels` |
| `graph_stale` | violated: `NoStaleReplay` | as `graph_cache` |

The type invariants that section 5 proves for every value of the constants are not
repeated in the runs; those of `BatchEngine`, `ImageLayout`, `BlockManager` and
`MemoryPool` are parts of `QueuesAgree`, `LayoutsAgree` and `BytesAccounted`.

Bounds that cut a behaviour off: `MaxPos` (decodes), `MaxPrefill` and `MaxPrompt`
(prompts), `MaxRequests`, `MaxUsed` and `MaxPoolUsed` (allocations that would take
`used_` above them), `MaxSeq` (rows of a layer), `MaxChunks` (columns of a product),
`MaxCols` and `MaxRounds` (reductions), `MaxSide` and `MaxText` (images and texts).
They hide one case distinction of the code: a ragged prefill of unaligned sizes
falls back to the host path above twice as many rows as experts, more than
`MaxSeq`; the host path itself is reached by the passes of one request, and the
proof covers any number of rows. Deadlock is checked everywhere but in `front`,
`token_skip` and `contain_fit`, where a call ends; in `kernels` and `experts` a
launch that is over, or a layer that is loaded, is a step that changes nothing.

Some of the properties deserve a note.

* `BytesAccounted`: `free` gives back the bytes of a block but not the padding
  `allocate` charged with it, so `used_` and `peak_` drift upwards; the bound
  `UsedCoversHeld` is what holds of each of the manager's pools, and no equation.
  `shared_bytes_` is exact. For a pool by itself the bound is the theorem
  `UsedStaysAboveHeld`.
* `ReadersAgree` is checked with odd groups too, as `quant.cpp:40` asks only for a
  positive size. `warp_dot_i4` (`moe_device.cu:132`) reads one scale and one zero
  point for a pair of columns, so where an odd group ends between the two
  (`SplitsPair`) the second column gets those of its neighbour's group. The
  property excepts exactly these columns of this reader: every other column, and
  every column of the other readers, agrees with the host. Even groups, as the
  defaults of the engine and the tools are, split no pair (`EvenGroupsSplitNone`).
* `TokensSeeTheirPlace` has two halves. That a token comes from its own
  neighbourhood and from nothing else is said of SAM's half, up to two blocks; the
  layers of CLIP attend over all tokens, and its half comes from the whole grid.
* `RoundTrips` is about the tokens met so far, not about the file: an added token
  beyond the vocabulary is decoded as if it were the printed form of bytes
  (`tokenizer.cpp:506-526`), which gives it back only if its characters are
  printable ASCII. A text in which another such token was found is not spoken of
  from there on; with the model's own file, whose added tokens follow the
  vocabulary, that is every text with one of those spelt with the wide bars.
* `RoundsToNearest` bounds the error by half a step only where the group has weights
  on both sides of zero: the zero point is clamped to 0..15 (`quant.cpp:65`), so a
  group on one side of zero is shifted out of the range of its nibbles.
* `EncodesAsReference` holds though the code knows no regular expressions. Texts
  with U+0000 are excepted: `strchr` finds it at the end of the list of
  punctuation (`tokenizer.cpp:148`), which the pattern does not.

The four violated runs are disagreements between the code and what it says of
itself:

* `token_skip`: an added token whose id lies beyond the vocabulary is not flagged as
  special, so `decode` with `skip_special` prints it, against `tokenizer.cpp:352`
  and `tokenizer.h:27`. What does hold is `RoundTrips`, of
  the texts without such tokens or with ones that print themselves.
* `contain_fit`: `pad_square` pastes a nearly square image larger than the view at
  its own size, beyond the square, against the comment at `image.cpp:247`: 18 by 19
  pixels in a view of 9, where the shorter side scales to 8.526, which rounds to 9.
  It takes no tie; `nearbyint` takes ties to the even neighbour, and the model does
  so where the code meets them exactly (`ExactTies`: a view that is a sum of two
  powers of two, as all views of the engine are), and allows both outcomes
  elsewhere. What does hold is `PastedCentred`: every other image lies centred inside. An image
  whose scaled side rounds to 0 is inside too, and invisible.
* `append_race`: a launch of the append kernel may write one token's K and V to
  two rows and advance the cursor twice, against the comment at
  `rswa_attention.cu:457`. What does hold, and is proved, is that all rows stay
  in the ring region.
* `graph_stale`: `ensure_scratch` and `ensure_router_scratch` leave the graph of
  `generate` in place when they free buffers it bakes, against the comment at
  `gpu_decoder.cu:383`. What does hold, and is proved, is that batched graphs are
  safe and that the single graph never runs over freed token ids, a replaced
  cache or another prompt length.

## 4. Fairness

Only `BatchEngine` states fairness: `WF_vars(Step)`, the caller's thread keeps
executing the call. It is sequential code without waiting, so weak fairness on
the disjunction of its steps is all there is; which step comes next is decided by
the program counter. Starting a call is not fair. `CallEnds` then says that the
loop over `has_work` terminates: the batch is never empty while requests wait,
and each round brings every request in it closer to its limit. It depends on
`max_batch_size >= 1`, which the code does not check (`BatchAssumption`). Nothing
else waits for anything: that no warp waits for ever at a barrier is the check for
deadlock of `kernels` together with `BarriersMatch`.

## 5. Proofs

All proofs use only the named assumptions on the constants. Most of the invariants
the runs check are not inductive; the paragraphs below name the invariant that is,
and what it adds.

**CacheProofs** (from `CacheAssumption` and `ManagerAssumption`) is about the cache
and about the blocks counted for it. In RSWACache, that the row to be overwritten holds
the oldest token depends on where every token of the window lies. `IInv` therefore
describes each layer exactly: cleared (`ICleared`); n tokens decoded and the region
not full, with row P+i holding position P+i (`IWarm`); or n tokens decoded and the
region full, with the rows below the cursor holding the tokens of this turn and
those at or above it the tokens of the turn before (`IRing`). One lemma per action
shows that `IInv` is preserved, with the layers the action does not visit treated
once (`OtherLayer`). From it follow `TypeCorrect`, `ReferenceNeverOverwritten`,
`NoWriteOutOfBounds` (which also shows that the capacity check of `kv_cache.cpp:46`
never fires), `EveryRowCountsOnce`, and `CacheIsSlidingWindow`: every step of the
cache is a step of `SlidingWindow` or a stutter, for every number of layers, window
and prompt length.

In BlockManager, counts are cardinalities of the
sets of holders: one lemma for a holder more, one for a holder less, and the keys an
action does not touch keep theirs. `ManagerInv` adds the invariants of the two pools,
taken from MemoryPoolProofs by `INSTANCE`, and `Matched`: entries with bytes and
blocks out of the prefix pool correspond one to one. It takes the pool's part: a
block just allocated is another than all that are out because blocks do not overlap.
Results: `CountsAreHolders`, `BlocksHaveOwners`, `BytesStayAccounted`, for any
requests, keys, sizes and pools.

**BatchEngineProofs** (from `BatchAssumption`). The four invariants speak of moments
when the loops of `generate_batch` have come to rest. `BatchInv` says what is true
in between, part by part: which states the members of each queue have (`IQueues`),
what is on the stack (`IStack`), which slots the map names (`ISlots`), what is left
of the current loop (`ITodo`), how far the batch, a snapshot, still describes the
queues (`IBatch`), the token counts (`IOutput`), and that the rows of a slot are the
tokens of its holder up to one not decoded yet (`IRows`). The scheduler filters its
queues; that what is kept is what was there, in order and once, is a fact of
induction over a queue (`KeepLoops` to `KeepOthers`). Results, for any number of
requests, slots, prompts and limits: `BatchInvariant`, `SlotsStayPartitioned`,
`QueuesStayInAgreement`, `SlotsHoldOwnTokens`, `NoSlotIdles`, and `KeepsContract`:
every step of the batched engine is a step of `BatchContract` or a stutter. The
refinement maps the queues and slots to the phase of each request; the step that
needs the invariant is the taking of requests, which is first come, first served
because the batch still is what the head of the waiting queue was.

**DecodeProofs** (from `GenerateAssumption` and `GraphAssumption`). For Generate,
`GenInv` ties the program counter to the lengths of history and result (`Progress`)
and to what the decoder was fed, which is the history, or all of it but the last
token while that one is being decoded (`DecoderInv`). The lemma `BannedIffRepeats`,
about the sampler alone, says that the tokens `apply_no_repeat_ngram` bans are
exactly those that complete an n-gram of the window once more; from it follow
`NeverRepeats` and `BansNothingElse`, for any vocabulary, n-gram and window. Further
results: `GenTypeCorrect`, `SampleSeesHistory`, `ResultCorrect`. For GraphCache,
`Good(d)` holds of a device state when batched graphs bake live buffers only and the
single graph, if ready, has live token ids and a cache large enough for its prompt;
`Follows(d, e)` says what no operation does (shrink the cache, capture a graph). Each
`ensure_*` operation has a lemma in these terms and each action composes them. The
part that needs the strengthening is the cache: nothing invalidates the single graph
when the cache grows, and it is safe only because a graph that survives a prefill has
the same prompt length, for which the cache was already large enough. Results:
`TypeCorrect`, `BatchedReplayIsSafe`, `SingleReplayIsForItsPrompt`.

**MemoryPoolProofs** (from `PoolAssumption`). `Partition` speaks of bytes; the
invariant `PoolInv` of intervals: blocks have positive size and lie in the arena,
any two are apart, every byte is covered, and free blocks do not touch. That last
part is needed for the rest: `free` joins a block with at most one neighbour on
each side, and it is because the free list was coalesced before that it is again.
`UsedInv` is about the sum over the blocks held, whose recursive definition is
unfolded by induction over the subsets of a finite set. Results: `TypeCorrect`,
`PoolPartition`, `NeverFragmented`, `UsedStaysAboveHeld`, for any arena, sizes
and alignments.

**KernelProofs** (from `KernelAssumption` and `PanelAssumption`). For the append
kernel, `IWarp` records what a warp knows after its read: room for one more row, or
a row of the region. Result: `AppendStaysInRing`, for any number of warps. For the
products, `GemmInv` says that all warps have passed the same number of barriers
(`Together`) and that what each warp has done to its own share of the ring, of the
halves and of its registers is a function of its place in the loop (`Share`): its
slots hold the last `stages` panels it issued, and the commit groups a wait counts,
empty ones too, cover the panel of this step. A slot that is being filled is then
never the slot that another warp, at most a barrier behind, still reads. `SumInv`
adds what an active warp has summed up, the chunks of the panels it has been
through; it is never a wrong panel because of `GemmInv`. Results:
`PanelTypeCorrect`, `ReadsAreSafe`, `BarriersAreSafe`, `RowsSummedUp`, for any number
of warps, depth of the ring and length of the row. For BlockKernels (from
`BlockAssumption`) the argument has two halves. `Fits` is what is asked of a program
without running it: a step that writes the reduction array stands alone between two
barriers and follows the step that left it the halves it adds; what is loaded of
another array was stored before a barrier and is not stored again before the next.
Each program of a kernel is put together from smaller ones, and is shown to fit by
what its parts are (the tree by induction over the halvings, the loops over heads,
rows and tiles by induction over the rounds). `BlockInv` then holds of any program
that fits: no two threads are a barrier apart (`Barred`), the threads below w hold
the columns of the row by their remainder by w (`Held`, `Wanted`), and an array holds
what each thread stored last (`Stored`). Results: `BlockInvariant`,
`ReductionsAreWhole`, `TilesAreWhole`, for every power of two of threads and any
columns, heads, rows and tiles.

**ExpertProofs** (from `MoEAssumption` and `WeightsAssumption`). For
MoEDispatch the inductive invariant says which ranks have a place: the places below
the counter of an expert hold different ranks routed to it, and every rank claimed
so far is among them. Since a row is routed to an expert at most once, an expert has
no more claims than the layer has rows, and `RouterCap` gives each list that many
places: no claim is dropped. A separate part, free of state, shows that the tiles,
warps, lane groups and halves of the grouped kernels name every place of a list
exactly once, for any size of tile; with it `Down` adds each place once. Results:
`DispatchTypeCorrect`, `NoClaimLost`, `EveryRowCombined`, for any number of rows,
experts and warps and for all paths. For ExpertWeights it is index arithmetic: the
table is the arrays of the experts one after another, so an index divides by the
stride into expert and entry, an entry by the row into row and byte; a pair of
columns starts at an even one, so its second column either lies in the group of the
first or starts a group, which is the case `SplitsPair` excepts; and a panel that is
copied whole ends within the row (`KernelsReadTheWeights`, for any group size). And rounding: the
sixteen values of a group are multiples of its scale, a nibble is a quotient rounded
and clamped, so no other value is nearer, and none is more than half a step away
when the rounded zero point lies in the range of the nibbles
(`WeightsRoundToNearest`).

**FrontProofs** (from `EncoderAssumption` and `LayoutAssumption`). For Encoder, the
host walks coordinates and the device divides the number of a thread by the extents.
Quotients and remainders are the digits of that number, so both name the same cells,
elements of im2col and places of windows, and a cell has one place; the tiles of
queries and keys leave no row of CLIP out and add none (`TilesCover`,
`EncodersComputeAlike`). For ImageLayout, the candidates of the grid are a finite
set with strict orders, so that the nearest ones, the first and the last of them
exist; all candidates of the proportions of a nearest one are nearest and tied with
it, and of two of the same proportions the larger comes later (`GridsSuitImages`).
`ImageInv` says what each step finds laid out: the image positions of the prompt,
consecutive after the text before them; the rows of the crops encoded so far, at
their places, and of no other; the page, with every local row at its line and
column; the decoder's input, the page between the text. That the three counts agree
(`CountsAgree`) and the order of the page (`PagesInOrder`) follow, the latter because
line and column k of the local rows start at a pixel that grows with k also from one
crop to the next (`EdgeGrows`), views being larger than where their last patch
starts. `PastesAreCentred` needs that the shorter side, scaled, is not longer than
the view, whichever way a tie may round. Further result: `EachStepLaidOut`.

What a token was computed from is the composition of all stages. `SeenInv` gives
it at each of them in closed form: a cell of stage s after b blocks carries the
pixels of the rows and columns `From(s, b, r)` of patches. Rows and columns can be
treated apart because every stage reads a rectangle of cells; a convolution with
three taps and stride two turns the span a of its input into 2a (`SpanDoubles`), the
windows of a block cover each other's (`WindowsCover`), and a block over the whole
grid leaves nothing out. `ClipInv` adds what a row of CLIP carries: before the first
layer the pixels of its SAM token, after it those of all of them, which together are
the whole grid (`RowsUnited`, `WholeSeen`), and another layer adds nothing
(`TokensStandForTheirPlace`). `RowsInv` adds what
`Return2D` copies; which token a row is, counted by `Cardinality` over the rows
before it, takes a bijection between these rows and the tokens before it in raster
order (`TokensBefore`), and that it saw the pixel that names its row follows from
`SeenInv` and `ClipInv` (`EncodersReturnLayout`).

**TokenizerProofs** (from `TokenizerAssumption`). `RoundTrips` says that the bytes of
what was encoded come back, and that takes all of `encode`. The functions that the
loops are written as are recursive over data: that one exists which satisfies its
equation is proved by induction, along the links of `SplitIsolated` and `MergeAll`
(`ChainsExists`) and over the rounds of `Merged` (`RoundsExist`), and what the
equation keeps from one link to the next holds altogether (`InductionOverChain`).
No matcher reads past the text (`Pattern3Within`), so that each link of a split is a
stretch of the piece and the next begins where it ends (`PiecesAreText`); a round
joins neighbours, which leaves the bytes (`MergedKeeps`). `Bytes`, `FlushNormal` and
`Decode` are all `Spread`, something read of each element one after another; it
passes through a concatenation, and what is read of the pieces is what is read of
the whole (`SpreadOfSpread`, `SpreadOfPieces`). `TokInv` adds to `RoundTrips` that
the index is in the text and that the ids are ids; those `Decoded` gives back are
the ones `RoundTrips` supposes (`KeptIsTok`), and what it supposes of a longer list
holds of its beginning (`TokParts`), so that a step may lose the supposition but
never regain it. An added token is found where the
text reads like it, so it stands for that stretch (`PrefixIsSubSeq`). Results:
`PiecesAreText`, `DecodeUndoesEncode`, for any text, tables of characters, merges
and added tokens.

The library's induction theorems take an operator, which the provers cannot
instantiate. Where a proof needs induction it uses the well-foundedness of the
naturals, or of the subsets of a finite set, as a fact about sets: the set of cases
that fail has a least element (`InductionUpTo`, `InductionOverSubsets`, `InductionOverSeq`).

Only model-checked:

* `CallEnds`: liveness is out of the prover's reach.
* `EncodesAsReference`: the reference is a recursive definition with backtracking,
  and modules with recursive operators have no backend for arithmetic.

## 6. Not modelled

* Numbers: the products, attention scores, norms and rotations, image resampling
  and decoding of image files are arithmetic. Their control, where threads share
  memory, is in PanelPipeline and BlockKernels.
* Elementwise kernels and `cpu_ops.cpp`: no state in common between elements.
* Safetensors, configuration and logging: file input at start. Of `weights.cpp`
  only the experts are modelled. An exception thrown inside the parallel loop
  (`weights.cpp:278`) leaves an OpenMP region, which ends the program; the model
  loads valid files only. `apply_expert_input_scale` (`weights.cpp:200`) divides the norm before
  the experts by a scale and multiplies the router and the shared expert by it, for
  experts stored multiplied; that is exact only if all experts of a layer are, which
  the model has no part of.
* `upload_expert_table` takes rows, columns and group of the first expert and
  checks sizes of the others; experts of equal shape, as all models have, are an
  assumption (`WeightsAssumption`).
* The memory of the device encoder: `encode` allocates the image through
  `Impl::alloc` (`gpu_encoder.cu:305`), which frees nothing before the encoder ends.
* `stats()` and timings are derived values. The CPU branch of `generate_batch` is a
  loop over `generate`.
* `set_use_graph` and `set_graph_scope` after a capture: the engine calls them once,
  only tests and benchmarks more often.
* An exception between `acquire_prefix` and `release_prefix` in `generate`: it takes
  a failed allocation or CUDA call, and no promise says what holds after one.
* Several images in one prompt.

Hazards without a property say why in `PROJECT.json`.
