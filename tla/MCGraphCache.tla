---------------------------- MODULE MCGraphCache ----------------------------
(***************************************************************************)
(* Bounds for GraphCache: two prompt lengths, ragged prefills smaller than *)
(* one and larger than both, up to three slots of two capacities, so that  *)
(* each buffer can grow in a call of either kind and the slots can change  *)
(* shape and change back.                                                  *)
(***************************************************************************)
EXTENDS GraphCache

MCSeqs == {1, 3}
MCTotals == {2, 5}
MCCapacities == {4, 6}
=============================================================================
