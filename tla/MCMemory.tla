------------------------------ MODULE MCMemory ------------------------------
(***************************************************************************)
(* Bounds for MemoryPool and BlockManager, one or the other in a behaviour *)
(* as `subject` says.                                                      *)
(*                                                                         *)
(* A pool of nine bytes cut into blocks of one and three, so that holes of *)
(* every kind appear, some too small and some only because of alignment;   *)
(* an empty arena; the pool's alignment of four and, as allocate() lets a  *)
(* caller ask, an alignment of one; and enough room in used_ to let the    *)
(* padding it never gives back add up.                                     *)
(*                                                                         *)
(* A manager with three requests over two documents, so that a prefix is   *)
(* shared by two, three or none in every order; sizes that fill the pool,  *)
(* that leave padding, and zero, for which the pool does nothing; and a    *)
(* ring pool of two blocks.  Requests and keys are interchangeable.        *)
(***************************************************************************)
EXTENDS MemoryPool, BlockManager, TLC

CONSTANTS c1, c2, c3, k1, k2
MCClient == {c1, c2, c3}
MCKey == {k1, k2}
MCTotals == {0, 9}
MCSizes == {1, 3}
MCAlignments == {0, 1}
MCPrefixSizes == {0, 1, 3}
MCRingSizes == {1}
Symmetry == Permutations(MCClient) \cup Permutations(MCKey)

ASSUME PoolAssumption

VARIABLE subject

MemoryInit ==
  /\ subject \in {"pool", "manager"}
  /\ Init /\ ManagerInit
  /\ subject = "manager" => total = 0

MemoryNext ==
  \/ subject = "pool" /\ Next /\ UNCHANGED <<subject, managerVars>>
  \/ subject = "manager" /\ ManagerNext /\ UNCHANGED <<subject, vars>>

MemorySpec == MemoryInit /\ [][MemoryNext]_<<subject, vars, managerVars>>
=============================================================================
