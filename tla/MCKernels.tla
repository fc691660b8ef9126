------------------------------ MODULE MCKernels ------------------------------
(***************************************************************************)
(* Bounds for the kernels: AppendKernel, PanelPipeline and BlockKernels.   *)
(* The kernels of a stream run one after another, so a behaviour is one    *)
(* launch; `family` says of what.                                          *)
(*                                                                         *)
(* Three of the eight warps of a block are enough for one to be overtaken  *)
(* by two others; they are interchangeable.  Append: a reference of two    *)
(* rows and a window of three, launched again and again.  Products: rings  *)
(* of the two depths the code launches, up to six panels.  Reductions:     *)
(* four threads, rows of up to six columns, up to three rounds.            *)
(***************************************************************************)
EXTENDS AppendKernel, PanelPipeline, BlockKernels

CONSTANTS w1, w2, w3
MCWarp == {w1, w2, w3}
MCLaunches ==
  {DenseLaunch(m, k) : m \in {1, 64}, k \in {12, 16}} \cup {SplitLaunch(k) : k \in {12, 16}}
  \cup {Tiled, Int4PipeLaunch}
Symmetry == Permutations(MCWarp)

VARIABLE family

\* A block that was not launched.
AppendIdle == Init

PanelIdle ==
  /\ kernel = "tiled" /\ stages = 1 /\ chunks = 1 /\ panels = 1 /\ active = GemmWarp
  /\ at = [w \in GemmWarp |-> "done"]
  /\ step = [w \in GemmWarp |-> 1]
  /\ ring = [w \in GemmWarp |-> [s \in 0 .. 0 |-> 0]]
  /\ committed = [w \in GemmWarp |-> 1]
  /\ complete = [w \in GemmWarp |-> 1]
  /\ pair = [w \in GemmWarp |-> [h \in 0 .. 1 |-> NoPanel]]
  /\ frag = [w \in GemmWarp |-> NoPanel]
  /\ acc = [w \in GemmWarp |-> 1]

BlockIdle ==
  /\ cols = 1 /\ program = <<>>
  /\ done = [t \in Thread |-> 0]
  /\ red = [t \in Thread |-> {}]
  /\ shared = [a \in Arrays |-> [t \in Thread |-> Blank]]

KernelsInit ==
  \/ family = "append" /\ Init /\ PanelIdle /\ BlockIdle
  \/ family = "product" /\ AppendIdle /\ GemmInit /\ BlockIdle
  \/ family = "reduction" /\ AppendIdle /\ PanelIdle /\ BlockInit

\* The launch is over; a block that is not there yet waits, it is not stuck.
PanelEnded == family = "product" /\ \A w \in GemmWarp : at[w] = "done"
BlockEnded == family = "reduction" /\ \A t \in Thread : ~Running(t)

KernelsNext ==
  /\ UNCHANGED family
  /\ \/ family = "append" /\ Next /\ UNCHANGED <<gemmVars, blockVars>>
     \/ family = "product" /\ GemmNext /\ UNCHANGED <<vars, blockVars>>
     \/ family = "reduction" /\ BlockNext /\ UNCHANGED <<vars, gemmVars>>
     \/ (PanelEnded \/ BlockEnded) /\ UNCHANGED <<vars, gemmVars, blockVars>>

KernelsSpec == KernelsInit /\ [][KernelsNext]_<<family, vars, gemmVars, blockVars>>
==============================================================================
