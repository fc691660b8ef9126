---------------------------- MODULE MCRSWACache ----------------------------
(***************************************************************************)
(* Bounds for RSWACache: two layers, so that a forward pass can be seen    *)
(* between them; windows of one to three rows, the smallest being the      *)
(* degenerate ring; prompts longer and shorter than an earlier one, so     *)
(* that the device cache is reused with a larger allocation; and enough    *)
(* positions to wrap the widest ring more than twice.                      *)
(***************************************************************************)
EXTENDS RSWACache

MCWindows == {1, 2, 3}
=============================================================================
