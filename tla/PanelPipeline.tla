---------------------------- MODULE PanelPipeline ----------------------------
(***************************************************************************)
(* One thread block of the dense and expert matrix products                *)
(* (src/src/kernels/cuda/backend.cu and moe_gemm_int4.cu).  The product is *)
(* a sum over panels of the inner dimension; for each panel every warp     *)
(* copies its share of the operands to shared memory and every active warp *)
(* then multiplies all of the panel, the other warps' shares included.     *)
(*                                                                         *)
(*   "tiled"  one slot per operand: fill, barrier, multiply, barrier;      *)
(*   "pipe"   a ring of `stages` weight slots filled by asynchronous       *)
(*            copies, two halves for activations, one barrier per step;    *)
(*   "raw"    the ring holds packed INT4 weights, the two halves hold what *)
(*            is dequantized from it, the activations are in registers.    *)
(*                                                                         *)
(* A panel stands for its data.  What a warp reads for as long as it is at *)
(* a location is there in every state in which it is at that location.  A  *)
(* copy spoils its slot when it is issued and is there only when a wait    *)
(* says so: in between it may have landed or not.                          *)
(***************************************************************************)
EXTENDS Integers

CONSTANTS
  GemmWarp,     \* the warps of the block
  Launches,     \* what the host launches: [kernel, stages]
  PanelChunks,  \* 16-byte chunks of a row of a panel, BK / 8
  MaxChunks     \* bound on the chunks of a whole row, k / 8

ASSUME PanelAssumption ==
  /\ Launches \subseteq [kernel : {"tiled", "pipe", "raw"}, stages : Nat]
  /\ \A l \in Launches : IF l.kernel = "tiled" THEN l.stages = 1 ELSE l.stages > 1
  /\ PanelChunks \in Nat \ {0}
  /\ MaxChunks \in Nat

VARIABLES
  kernel, stages,  \* the kernel and its STAGES
  chunks, panels,  \* k in chunks, and nk
  active,          \* the warps that have rows to compute
  at,              \* at[w]: where warp w is
  step,            \* step[w]: its k0i
  ring,            \* ring[w][s]: the panel whose share w copied last to slot s
  committed,       \* committed[w]: commit groups w has issued
  complete,        \* complete[w]: how many of them a wait has seen complete
  pair,            \* pair[w][h]: the panel whose share w stored last in half h
  frag,            \* frag[w]: the panel of the activations in its registers
  acc              \* acc[w]: chunks summed up, Wrong once a product was wrong

launchVars == <<kernel, stages, chunks, panels, active>>
gemmVars == <<launchVars, at, step, ring, committed, complete, pair, frag, acc>>

NoPanel == -1
Wrong == -1

Barriers == {"arrive", "regroup"}
Locations == {"prologue", "fill", "wait", "dequant", "stage", "feed", "multiply",
              "done"} \cup Barriers

PanelTypeOK ==
  /\ [kernel |-> kernel, stages |-> stages] \in Launches
  /\ chunks \in 1 .. MaxChunks /\ panels \in Nat
  /\ active \subseteq GemmWarp
  /\ at \in [GemmWarp -> Locations]
  /\ step \in [GemmWarp -> 0 .. panels]
  /\ ring \in [GemmWarp -> [0 .. stages - 1 -> {NoPanel} \cup Nat]]
  /\ committed \in [GemmWarp -> 0 .. panels]
  /\ complete \in [GemmWarp -> 0 .. panels]
  /\ pair \in [GemmWarp -> [0 .. 1 -> {NoPanel} \cup Nat]]
  /\ frag \in [GemmWarp -> {NoPanel} \cup Nat]
  /\ acc \in [GemmWarp -> Int]

\* nk: panels that cover k.
MutPanelsOf(c) == c \div PanelChunks
PanelsOf(c) == (c + PanelChunks - 1) \div PanelChunks

\* The slot of panel p in the ring, and its half: the tiled kernels have one.
Slot(p) == p % stages
Half(p) == IF kernel = "tiled" THEN 0 ELSE p % 2

\* Every kernel is launched for m, n, k > 0, so the block has a row to compute.
GemmInit ==
  /\ \E l \in Launches : kernel = l.kernel /\ stages = l.stages
  /\ chunks \in 1 .. MaxChunks
  /\ panels = PanelsOf(chunks)
  /\ active \in SUBSET GemmWarp /\ active # {}
  /\ at = [w \in GemmWarp |-> IF kernel = "tiled" THEN "fill" ELSE "prologue"]
  /\ step = [w \in GemmWarp |-> 0]
  /\ ring = [w \in GemmWarp |-> [s \in 0 .. stages - 1 |-> NoPanel]]
  /\ committed = [w \in GemmWarp |-> 0]
  /\ complete = [w \in GemmWarp |-> 0]
  /\ pair = [w \in GemmWarp |-> [h \in 0 .. 1 |-> NoPanel]]
  /\ frag = [w \in GemmWarp |-> NoPanel]
  /\ acc = [w \in GemmWarp |-> 0]

-----------------------------------------------------------------------------
\* Which kernel a product takes.  The copies of the pipelines are of 16 bytes,
\* the activations of the tiled INT4 kernel are loaded in fours.
Tiled == [kernel |-> "tiled", stages |-> 1]
Piped(n) == [kernel |-> "pipe", stages |-> n]
DenseLaunch(m, k) == IF k % 8 # 0 THEN Tiled ELSE IF m <= 16 THEN Piped(4) ELSE Piped(3)
SplitLaunch(k) == IF k % 8 # 0 THEN Tiled ELSE Piped(3)
Int4PipeLaunch == [kernel |-> "raw", stages |-> 3]

-----------------------------------------------------------------------------
\* The order of a kernel's locations within one step.
TiledRoute == [fill |-> "arrive", arrive |-> "multiply", multiply |-> "regroup"]
PipeRoute ==
  [prologue |-> "wait", wait |-> "arrive", arrive |-> "stage", stage |-> "feed",
   feed |-> "multiply"]
RawRoute ==
  [prologue |-> "wait", wait |-> "arrive", arrive |-> "dequant", dequant |-> "stage",
   stage |-> "regroup", regroup |-> "multiply"]
Route == [tiled |-> TiledRoute, pipe |-> PipeRoute, raw |-> RawRoute]

GoOn(w) == at' = [at EXCEPT ![w] = Route[kernel][at[w]]]

\* Where the next step of the loop starts, if there is one.
StepStart == IF kernel = "tiled" THEN "fill" ELSE "wait"
MutLoopTo(w) == IF w \in active /\ step[w] + 1 < panels THEN StepStart ELSE "done"
LoopTo(w) == IF step[w] + 1 < panels THEN StepStart ELSE "done"

\* How many groups are issued before the loop.
Lead == IF stages - 1 < panels THEN stages - 1 ELSE panels

\* Panels 0 .. Lead - 1 to their slots, one commit group each, and the first
\* activations to their half or to the registers.
Prologue(w) ==
  /\ at[w] = "prologue"
  /\ ring' = [ring EXCEPT ![w] = [s \in 0 .. stages - 1 |-> IF s < Lead THEN s ELSE NoPanel]]
  /\ committed' = [committed EXCEPT ![w] = Lead]
  /\ IF kernel = "pipe"
       THEN pair' = [pair EXCEPT ![w][Half(0)] = 0] /\ UNCHANGED frag
       ELSE /\ frag' = IF w \in active THEN [frag EXCEPT ![w] = 0] ELSE frag
            /\ UNCHANGED pair
  /\ GoOn(w)
  /\ UNCHANGED <<launchVars, step, complete, acc>>

\* The tiled kernels store both operands with ordinary stores.
Fill(w) ==
  /\ at[w] = "fill"
  /\ ring' = [ring EXCEPT ![w][Slot(step[w])] = step[w]]
  /\ committed' = [committed EXCEPT ![w] = step[w] + 1]
  /\ complete' = [complete EXCEPT ![w] = step[w] + 1]
  /\ pair' = [pair EXCEPT ![w][Half(step[w])] = step[w]]
  /\ GoOn(w)
  /\ UNCHANGED <<launchVars, step, frag, acc>>

\* cp.async.wait_group<n>: at most n groups of this warp are still in flight.
MutInFlight(w) == IF step[w] + stages - 1 < panels THEN stages - 1 ELSE 0
InFlight(w) == IF step[w] + stages - 1 < panels THEN stages - 2 ELSE 0

Wait(w) ==
  /\ at[w] = "wait"
  /\ complete' = [complete EXCEPT ![w] =
                    IF committed[w] - InFlight(w) > @ THEN committed[w] - InFlight(w) ELSE @]
  /\ GoOn(w)
  /\ UNCHANGED <<launchVars, step, ring, committed, pair, frag, acc>>

\* __syncthreads: the inactive warps take part too.
Synchronize ==
  \E b \in Barriers :
    /\ \A w \in GemmWarp : at[w] = b
    /\ IF kernel = "tiled" /\ b = "regroup"
         THEN /\ at' = [w \in GemmWarp |-> LoopTo(w)]
              /\ step' = [w \in GemmWarp |-> step[w] + 1]
         ELSE /\ at' = [w \in GemmWarp |-> Route[kernel][b]]
              /\ UNCHANGED step
    /\ UNCHANGED <<launchVars, ring, committed, complete, pair, frag, acc>>

\* Whether all of panel p is in the ring, and in a half: every warp's share was
\* the last one copied there and no share is still in flight.
InRing(p) == \A v \in GemmWarp : ring[v][Slot(p)] = p /\ p < complete[v]
InPair(p) == \A v \in GemmWarp : pair[v][Half(p)] = p

\* The packed panel of this step, all shares of it, to this warp's share of a half.
Dequantize(w) ==
  /\ at[w] = "dequant"
  /\ pair' = [pair EXCEPT ![w][Half(step[w])] = IF InRing(step[w]) THEN step[w] ELSE NoPanel]
  /\ GoOn(w)
  /\ UNCHANGED <<launchVars, step, ring, committed, complete, frag, acc>>

\* The weights stages - 1 panels ahead.
StageAhead(w) ==
  /\ at[w] = "stage"
  /\ LET p == step[w] + stages - 1
     IN  IF p < panels
           THEN /\ ring' = [ring EXCEPT ![w][Slot(p)] = p]
                /\ committed' = [committed EXCEPT ![w] = @ + 1]
           ELSE UNCHANGED <<ring, committed>>
  /\ GoOn(w)
  /\ UNCHANGED <<launchVars, step, complete, pair, frag, acc>>

\* The activations of the next panel.
FeedNext(w) ==
  /\ at[w] = "feed"
  /\ pair' = IF step[w] + 1 < panels
               THEN [pair EXCEPT ![w][Half(step[w] + 1)] = step[w] + 1] ELSE pair
  /\ GoOn(w)
  /\ UNCHANGED <<launchVars, step, ring, committed, complete, frag, acc>>

\* The operands warp w multiplies in this step are those of panel step[w].
OperandsInPlace(w) ==
  /\ kernel # "raw" => InRing(step[w])
  /\ InPair(step[w])
  /\ kernel = "raw" => frag[w] = step[w]

\* Chunks of the row in panel p; the last panel is filled up with zeros.
ChunksOf(p) ==
  IF chunks - p * PanelChunks < PanelChunks THEN chunks - p * PanelChunks ELSE PanelChunks

\* The products of this step; the raw kernel then takes the activations it
\* loaded for the next one.
Multiply(w) ==
  /\ at[w] = "multiply"
  /\ acc' = IF w \notin active THEN acc
            ELSE [acc EXCEPT ![w] = IF OperandsInPlace(w) /\ @ # Wrong
                                      THEN @ + ChunksOf(step[w]) ELSE Wrong]
  /\ frag' = IF kernel = "raw" /\ w \in active /\ step[w] + 1 < panels
               THEN [frag EXCEPT ![w] = step[w] + 1] ELSE frag
  /\ IF kernel = "tiled"
       THEN GoOn(w) /\ UNCHANGED step
       ELSE /\ at' = [at EXCEPT ![w] = LoopTo(w)]
            /\ step' = [step EXCEPT ![w] = @ + 1]
  /\ UNCHANGED <<launchVars, ring, committed, complete, pair>>

GemmStep(w) ==
  \/ Prologue(w) \/ Fill(w) \/ Wait(w) \/ Dequantize(w)
  \/ StageAhead(w) \/ FeedNext(w) \/ Multiply(w)

GemmNext == Synchronize \/ \E w \in GemmWarp : GemmStep(w)

GemmSpec == GemmInit /\ [][GemmNext]_gemmVars

-----------------------------------------------------------------------------
\* While a warp reads a panel, from the ring to dequantize it or both operands
\* to multiply them, every warp's share of it has landed and none has been
\* overwritten by a later panel, though other warps may be a barrier ahead.
ReadsItsPanel ==
  \A w \in GemmWarp :
    /\ at[w] = "dequant" => InRing(step[w])
    /\ at[w] = "multiply" /\ w \in active => OperandsInPlace(w)

\* All warps that wait at a barrier wait at the same one of the same step, and
\* no warp ends while another still waits: the barrier of a block whose warps
\* part is undefined, and the inactive warps must therefore keep up.
BarriersMatch ==
  \A v, w \in GemmWarp : at[w] \in Barriers =>
    /\ at[v] # "done"
    /\ at[v] \in Barriers => at[v] = at[w] /\ step[v] = step[w]

\* What an active warp stores is the sum over the whole row, the last chunks
\* included when they do not fill a panel.
SumsWholeRow == \A w \in active : at[w] = "done" => acc[w] = chunks
=============================================================================
