----------------------------- MODULE EncodedView -----------------------------
(***************************************************************************)
(* Where the two halves of the image path meet: ImageLayout names the rows *)
(* an encoder returns for a view, Encoder computes them.  The engine takes *)
(* one for the other.                                                      *)
(***************************************************************************)
EXTENDS ImageLayout, Encoder

\* The layout of a view in the patches of the encoder.
Laid == INSTANCE ImageLayout WITH PatchSize <- Patch

\* What ImageLayout takes an encoder to return for a view is what both encoders
\* return: as many rows, newlines and separator where it has them, and between
\* them tokens in raster order, both halves of each computed from the pixel that
\* its row names (engine.cpp:466-475 checks the count only).
RowsAsLaidOut ==
  stage = "done" =>
    LET laid == Laid!Encode("view", [y |-> 0, x |-> 0], view)
    IN  \A p \in Path :
          /\ Len(rows[p]) = Len(laid)
          /\ \A n \in 1 .. Len(laid) :
               IF laid[n].kind = "view"
                 THEN /\ rows[p][n].kind = "token"
                      /\ laid[n].y * view + laid[n].x \in
                           field[p][rows[p][n].of] \cap clip[p][rows[p][n].clip]
                      /\ rows[p][n].of = Cardinality({m \in 1 .. n - 1 : laid[m].kind = "view"})
                 ELSE rows[p][n].kind = laid[n].kind
==============================================================================
