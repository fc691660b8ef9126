----------------------------- MODULE MCExperts -----------------------------
(***************************************************************************)
(* Bounds for the experts: ExpertWeights (their weights, once) and         *)
(* MoEDispatch (layer after layer), one of them in a behaviour as `part`   *)
(* says; the first leaves behind what the kernels of the second read, and  *)
(* its numbers are left out there.                                         *)
(*                                                                         *)
(* Weights: two experts of two rows, of one to seven columns, so that rows *)
(* have odd and even lengths, whole and broken groups and panels; groups   *)
(* on both sides of zero, on one, and of one value.  Groups of two to four *)
(* columns: the odd ones split a pair of columns that share a byte.        *)
(*                                                                         *)
(* Dispatch: fragments of two rows, so that three rows of one expert take  *)
(* two tiles, or two warps of one tile.                                    *)
(***************************************************************************)
EXTENDS MoEDispatch, ExpertWeights

MCBlockWarps == {1, 2}
MCGroup == 2 .. 4

RowsOf(values, n) == [Upto(n) -> values]
FirstRows ==
  UNION {RowsOf({-5, -3, 0, 1, 4}, n) : n \in 1 .. 3}
    \cup UNION {RowsOf({-3, 0, 4}, n) : n \in 4 .. 5} \cup UNION {RowsOf({-3, 4}, n) : n \in 6 .. 7}

\* Four rows that differ, made of one.
LayerOf(row) ==
  LET n == Cardinality(DOMAIN row)
      back == [c \in Upto(n) |-> row[n - 1 - c]]
  IN  [e \in {0, 1} |-> [r \in {0, 1} |->
        IF r = 0 THEN [c \in Upto(n) |-> IF e = 0 THEN row[c] ELSE 3 - back[c]]
        ELSE [c \in Upto(n) |-> IF e = 0 THEN -back[c] ELSE row[c] + c]]]
MCLayers == {LayerOf(row) : row \in FirstRows}

VARIABLE part

NoWeights ==
  /\ experts = <<>> /\ group = 2 /\ inFile = FALSE
  /\ stored = [e \in {} |-> 0] /\ table = NoTable

NoDispatch == aligned = TRUE /\ warps = 1 /\ Init

ExpertsInit ==
  \/ part = "weights" /\ WeightsInit /\ NoDispatch
  \/ part = "dispatch" /\ NoWeights /\ Init

\* A loaded layer stays as it is.
Loaded == part = "weights" /\ table # NoTable /\ UNCHANGED <<vars, weightVars>>

ExpertsNext ==
  /\ UNCHANGED part
  /\ \/ part = "weights" /\ WeightsNext /\ UNCHANGED vars
     \/ part = "dispatch" /\ Next /\ UNCHANGED weightVars
     \/ Loaded

ExpertsSpec == ExpertsInit /\ [][ExpertsNext]_<<part, vars, weightVars>>
=============================================================================
