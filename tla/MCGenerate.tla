----------------------------- MODULE MCGenerate -----------------------------
(***************************************************************************)
(* Bounds for Generate: three tokens, one of them the end of sequence, so  *)
(* that n-grams repeat and the processor can ban all of them; n-grams of   *)
(* one to three tokens and none; a window that the history outgrows and    *)
(* one that it does not; a limit of 0 and one of four.                     *)
(***************************************************************************)
EXTENDS Generate

MCNgrams == {0, 1, 2, 3}
MCWindows == {3, 9}
MCLimits == {0, 4}
=============================================================================
