--------------------------- MODULE BatchContract ---------------------------
(***************************************************************************)
(* What a caller of Engine::generate_batch is promised                     *)
(* (src/include/uocr/continuous_batch.h:3-8, src/include/uocr/engine.h):   *)
(* requests are taken up in the order they were passed, at most `slots` of *)
(* them are served at a time, each is given tokens one by one until its    *)
(* limit or an end-of-sequence token, and nothing after that.              *)
(***************************************************************************)
EXTENDS Naturals, FiniteSets

CONSTANTS
  MaxRequests,  \* bound on the requests of one call
  BatchSizes,   \* the values of max_batch_size
  Limits        \* the values of the token limit

VARIABLES
  asked,  \* number of requests of the current call, 0 before the first
  slots,  \* how many may be served together
  limit,  \* tokens a request may be given
  phase,  \* phase[r]: "queued", "served" or "done"
  given   \* given[r]: tokens request r was given

vars == <<asked, slots, limit, phase, given>>

Request == 0 .. asked - 1
In(p) == {r \in Request : phase[r] = p}

Init ==
  /\ asked = 0
  /\ slots = 0
  /\ limit = 0
  /\ phase = [r \in {} |-> "queued"]
  /\ given = [r \in {} |-> 0]

Call ==
  /\ asked' \in 1 .. MaxRequests
  /\ slots' \in 1 .. asked'
  /\ limit' \in Limits
  /\ phase' = [r \in 0 .. asked' - 1 |-> "queued"]
  /\ given' = [r \in 0 .. asked' - 1 |-> 0]

\* Some of the queued requests, the oldest first, fill free places.
Admit(R) ==
  /\ R \subseteq In("queued") /\ R # {}
  /\ \A r \in R, q \in In("queued") \ R : r < q
  /\ Cardinality(In("served") \cup R) <= slots
  /\ phase' = [r \in Request |-> IF r \in R THEN "served" ELSE phase[r]]
  /\ UNCHANGED <<asked, slots, limit, given>>

\* One more token; the one that reaches the limit is the last.
Give(r) ==
  /\ r \in In("served")
  /\ given' = [given EXCEPT ![r] = @ + 1]
  /\ phase' = [phase EXCEPT ![r] = IF given[r] + 1 >= limit THEN "done" ELSE @]
  /\ UNCHANGED <<asked, slots, limit>>

\* The end-of-sequence token is not handed out.
Stop(r) ==
  /\ r \in In("served")
  /\ phase' = [phase EXCEPT ![r] = "done"]
  /\ UNCHANGED <<asked, slots, limit, given>>

Next ==
  \/ Call
  \/ \E R \in SUBSET Request : Admit(R)
  \/ \E r \in Request : Give(r) \/ Stop(r)

Spec == Init /\ [][Next]_vars
=============================================================================
