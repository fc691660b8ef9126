--------------------------- MODULE SlidingWindow ---------------------------
(***************************************************************************)
(* What R-SWA attention promises, independent of how a cache stores it     *)
(* (src/include/uocr/kv_cache.h:5-14).  Every layer attends to all         *)
(* reference tokens of the request and to the last W decoded tokens.       *)
(* Tokens are named by their position: 0 .. refLen-1 is the prefill, and   *)
(* position refLen+n is the n-th decoded token.                            *)
(***************************************************************************)
EXTENDS Naturals

CONSTANTS
  Layer,     \* the decoder layers
  Windows    \* the windows W the model may be configured with

VARIABLES
  window,    \* W, chosen once
  refLen,    \* number of reference tokens of the current request
  next,      \* next[l]: position of the next token layer l will see
  context    \* context[l]: positions that layer l attends to

vars == <<window, refLen, next, context>>

Init ==
  /\ window \in Windows
  /\ refLen = 0
  /\ next = [l \in Layer |-> 0]
  /\ context = [l \in Layer |-> {}]

\* A new request starts from nothing: no token of an earlier one survives.
NewRequest ==
  /\ refLen' \in Nat \ {0}
  /\ next' = [l \in Layer |-> 0]
  /\ context' = [l \in Layer |-> {}]
  /\ UNCHANGED window

\* The prefill shows layer l the whole reference.
Prefill(l) ==
  /\ next[l] = 0
  /\ next' = [next EXCEPT ![l] = refLen]
  /\ context' = [context EXCEPT ![l] = 0 .. refLen - 1]
  /\ UNCHANGED <<window, refLen>>

\* The token at position p joins the reference and the W-1 tokens before it.
WindowAt(p) == {q \in refLen .. p : q + window > p}

Decode(l) ==
  /\ next[l] >= refLen
  /\ next' = [next EXCEPT ![l] = next[l] + 1]
  /\ context' = [context EXCEPT ![l] = (0 .. refLen - 1) \cup WindowAt(next[l])]
  /\ UNCHANGED <<window, refLen>>

Next == NewRequest \/ \E l \in Layer : Prefill(l) \/ Decode(l)

Spec == Init /\ [][Next]_vars
=============================================================================
