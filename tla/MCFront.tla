------------------------------- MODULE MCFront -------------------------------
(***************************************************************************)
(* Bounds for what comes before the decoder: Tokenizer (the text of the    *)
(* prompt), ImageLayout (the image and its place in the prompt) and        *)
(* Encoder (one view of the image), one of them in a behaviour as `part`   *)
(* says.  None keeps state that another reads.  The bounds of the text are *)
(* in MCTokenizer.                                                         *)
(*                                                                         *)
(* Images: every size up to 19 by 19, local views of 5 and a global view   *)
(* of 9 pixels.  Views: grids of one to nine patches of two pixels, with a *)
(* pixel to spare, in windows of three; one window, several, whole and     *)
(* broken ones; tables stored for a grid of five and, for CLIP, of two; up *)
(* to six blocks, of which the third and the sixth are global; CLIP with   *)
(* up to two layers, its two to ten rows in tiles of three queries and     *)
(* four keys, whole and broken.                                            *)
(***************************************************************************)
EXTENDS MCTokenizer, EncodedView

MCViews == 2 .. 19
MCDepths == 0 .. 6
MCClipDepths == 0 .. 2

VARIABLE part

\* No image, no text, no view.
ImageIdle ==
  /\ call = [w |-> 1, h |-> 1, crop |-> FALSE, before |-> 0, after |-> 0, ties |-> "equal"]
  /\ Init

TokIdle ==
  /\ text = <<>> /\ merges = <<>> /\ added = {}
  /\ i = 1 /\ normal = <<>> /\ tokens = <<>> /\ ended = TRUE

EncIdle == view = Patch /\ depth = 0 /\ clipDepth = 0 /\ EncInit

FrontInit ==
  \/ part = "text" /\ ImageIdle /\ TokInit /\ EncIdle
  \/ part = "image" /\ Init /\ TokIdle /\ EncIdle
  \/ part = "view" /\ ImageIdle /\ TokIdle /\ EncInit

FrontNext ==
  /\ UNCHANGED part
  /\ \/ part = "text" /\ TokNext /\ UNCHANGED <<vars, encVars>>
     \/ part = "image" /\ Next /\ UNCHANGED <<tokVars, encVars>>
     \/ part = "view" /\ EncNext /\ UNCHANGED <<vars, tokVars>>

FrontSpec == FrontInit /\ [][FrontNext]_<<part, vars, tokVars, encVars>>
==============================================================================
