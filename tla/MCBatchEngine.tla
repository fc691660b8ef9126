--------------------------- MODULE MCBatchEngine ---------------------------
(***************************************************************************)
(* Bounds for BatchEngine: up to four prompts over one or two slots, so    *)
(* that several requests wait while slots are handed on in any order;      *)
(* prompts of different lengths, and an empty one, which aborts the call;  *)
(* a limit of three tokens, so that a request decodes more than once, and  *)
(* 0, an EngineConfig::max_new_tokens that the first token already meets.  *)
(***************************************************************************)
EXTENDS BatchEngine

MCPromptLens == {0, 1, 2}
MCBatchSizes == {1, 2}
MCLimits == {0, 3}
=============================================================================
