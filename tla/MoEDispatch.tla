---------------------------- MODULE MoEDispatch ----------------------------
(***************************************************************************)
(* The routed experts of one mixture-of-experts layer after another on the *)
(* device (GpuDecoder::mlp_block): the router gives each row of the layer  *)
(* TopK experts, the rows are grouped by expert, and every expert adds its *)
(* weighted result to the rows it was given.                               *)
(*                                                                         *)
(* Three paths do this.  "masked" and "grouped" group on the device: one   *)
(* block per row claims a place in the list of each of its experts by      *)
(* atomicAdd, and one block per expert reads the list twice, for gate/up   *)
(* and for down.  "host" groups on the host and adds without atomics.      *)
(*                                                                         *)
(* Numbers are left out: a value of a row is named by the row, a weight by *)
(* its row and rank, and the output is the set of additions made to it.    *)
(* Blocks that differ only in the features they compute are one.           *)
(***************************************************************************)
EXTENDS Integers, FiniteSets

CONSTANTS
  NumExperts,   \* n_routed_experts
  TopK,         \* num_experts_per_tok
  MaxSeq,       \* bound: rows of one layer
  Half,         \* rows of half a tensor-core fragment (8 in the kernels)
  BlockWarps,   \* warps of a grouped block (4 or 8, as grouped_bm_ selects)
  Garbage       \* what memory holds that nothing has written since its reuse

ASSUME MoEAssumption ==
  /\ NumExperts \in Nat \ {0}
  /\ TopK \in 1 .. NumExperts
  /\ MaxSeq \in Nat
  /\ Half \in Nat \ {0}
  /\ BlockWarps \subseteq Nat \ {0}
  /\ Garbage \notin Int

VARIABLES
  aligned,   \* hidden and inter sizes are multiples of 4 (a model's shape)
  warps,     \* grouped_bm_ / 16
  cap,       \* router_cap_, 0 before the first allocation
  pc,        \* the kernel (or the host loop) the layer is in
  path,      \* how the layer is computed
  seq,       \* rows of the layer
  ids,       \* ids[t]: the experts of row t, best first
  claimed,   \* claimed[t]: ranks of row t that have a place in a list
  count,     \* d_count_
  assign,    \* d_assign_token_ and d_assign_w_
  act,       \* d_act_: the row a place was computed from
  left,      \* experts whose block has not run in this kernel
  out        \* the additions made to moe_out

shape == <<aligned, warps>>
request == <<path, seq, ids>>
vars == <<shape, cap, pc, request, claimed, count, assign, act, left, out>>

Expert == 0 .. NumExperts - 1
Rank == 1 .. TopK
Token == 0 .. seq - 1
Place == 0 .. cap - 1

Weight == [token : Nat, rank : Rank]
Entry == [token : Nat, weight : Weight]
Addition == [to : Nat, by : Expert, via : Int \X Int \X Int \X Int,
             row : Nat \cup {Garbage}, weight : Weight]

TypeOK ==
  /\ aligned \in BOOLEAN /\ warps \in BlockWarps
  /\ cap \in Nat
  /\ pc \in {"idle", "router", "gate_up", "down", "host"}
  /\ path \in {"masked", "grouped", "host"}
  /\ seq \in 0 .. MaxSeq
  /\ ids \in [Token -> [Rank -> Expert]]
  /\ claimed \in [Token -> 0 .. TopK]
  /\ count \in [Expert -> 0 .. cap]
  /\ assign \in [Expert -> [Place -> Entry \cup {Garbage}]]
  /\ act \in [Expert -> [Place -> Token \cup {Garbage}]]
  /\ left \subseteq Expert
  /\ out \subseteq Addition

Init ==
  /\ aligned \in BOOLEAN /\ warps \in BlockWarps
  /\ cap = 0 /\ pc = "idle" /\ path = "masked" /\ seq = 0
  /\ ids \in [Token -> [Rank -> Expert]]
  /\ claimed = [t \in Token |-> 0]
  /\ count = [e \in Expert |-> 0]
  /\ assign = [e \in Expert |-> [s \in Place |-> Garbage]]
  /\ act = [e \in Expert |-> [s \in Place |-> Garbage]]
  /\ left = {} /\ out = {}

----------------------------------------------------------------------------
(* A call of mlp_block. *)

\* set_use_graph and set_prefill_device_moe may be called between two passes,
\* so a decode and a prefill of one request take either path.
PathsOf(pass, n) ==
  CASE pass \in {"prefill", "decode"} -> {"masked", "host"}
    [] pass = "batch" -> {"masked"}
    [] pass = "ragged" -> IF aligned THEN {"grouped"}
                          ELSE IF n <= 2 * NumExperts THEN {"masked"} ELSE {"host"}

\* ensure_router_scratch grows the lists to the rows of the pass and never
\* shrinks them; passes of one request skip it when they group on the host.
MutRouterCap(pass, p, n) == IF cap = 0 THEN n ELSE cap
RouterCap(pass, p, n) ==
  IF (pass \in {"batch", "ragged"} \/ p = "masked") /\ n > cap THEN n ELSE cap

\* The router picks the best expert left TopK times, and overwrites the score
\* of each one it picks.
Routes == {r \in [Rank -> Expert] : \A i, j \in Rank : i # j => r[i] # r[j]}

\* The counters and moe_out are zeroed; the lists keep what they hold, which
\* nothing may read.
Layer(pass, n) ==
  /\ pc = "idle"
  /\ pass = "decode" => n = 1
  /\ path' \in PathsOf(pass, n)
  /\ seq' = n
  /\ ids' \in [0 .. n - 1 -> Routes]
  /\ cap' = RouterCap(pass, path', n)
  /\ claimed' = [t \in 0 .. n - 1 |-> 0]
  /\ count' = [e \in Expert |-> 0]
  /\ assign' = [e \in Expert |-> [s \in 0 .. cap' - 1 |-> Garbage]]
  /\ act' = [e \in Expert |-> [s \in 0 .. cap' - 1 |-> Garbage]]
  /\ out' = {}
  /\ IF path' = "host" THEN pc' = "host" /\ left' = Expert
                       ELSE pc' = "router" /\ left' = {}
  /\ UNCHANGED shape

----------------------------------------------------------------------------
(* Grouping and computing on the device.  A kernel starts when the one before *)
(* it in the stream has ended; its blocks run in any order.                   *)

\* The block of row t claims a place for its next rank; a place beyond the
\* list is counted and not stored.
Claim(t) ==
  LET j == claimed[t] + 1
      e == ids[t][j]
      place == count[e]
      entry == [token |-> t, weight |-> [token |-> t, rank |-> j]]
  IN  /\ pc = "router"
      /\ claimed[t] < TopK
      /\ claimed' = [claimed EXCEPT ![t] = j]
      /\ count' = [count EXCEPT ![e] = place + 1]
      /\ assign' = IF place < cap THEN [assign EXCEPT ![e][place] = entry]
                                  ELSE assign
      /\ IF \A u \in Token : claimed'[u] = TopK
           THEN pc' = "gate_up" /\ left' = Expert
           ELSE UNCHANGED <<pc, left>>
      /\ UNCHANGED <<shape, cap, request, act, out>>

\* The rows a block goes through for an expert with n rows, each named by tile,
\* warp, lane group and half.  A masked block takes one row after another; a
\* grouped one takes tiles of 2 * Half rows per warp, of which a lane holds
\* the rows g and g + Half.
BlockRows == warps * (2 * Half)
RowOf(v) == v[1] + v[2] * (2 * Half) + v[3] + v[4] * Half
RowsIn(n, tile) == IF n - tile < BlockRows THEN n - tile ELSE BlockRows
InTile(v, rows) == v[2] * (2 * Half) < rows /\ RowOf(v) - v[1] < rows
MutGroupedVisits(n) ==
  {v \in {0} \X (0 .. warps - 1) \X (0 .. Half - 1) \X {0, 1} :
     InTile(v, RowsIn(n, v[1]))}
GroupedVisits(n) ==
  {v \in {i * BlockRows : i \in 0 .. n - 1} \X (0 .. warps - 1)
           \X (0 .. Half - 1) \X {0, 1} :
     v[1] < n /\ InTile(v, RowsIn(n, v[1]))}
Visits(n) == IF path = "grouped" THEN GroupedVisits(n)
                                 ELSE (0 .. n - 1) \X {0} \X {0} \X {0}

\* The block of expert e reads its list and stages the result of each row.
GateUp(e) ==
  LET read == {RowOf(v) : v \in Visits(count[e])}
  IN  /\ pc = "gate_up"
      /\ e \in left
      /\ act' = [act EXCEPT ![e] = [s \in Place |->
                   IF s \in read THEN assign[e][s].token ELSE act[e][s]]]
      /\ IF left = {e} THEN pc' = "down" /\ left' = Expert
                       ELSE left' = left \ {e} /\ UNCHANGED pc
      /\ UNCHANGED <<shape, cap, request, claimed, count, assign, out>>

\* The block of expert e adds the staged results to the rows of its list.
\* The additions are atomic.
Down(e) ==
  LET AddOf(v) == [to |-> assign[e][RowOf(v)].token, by |-> e, via |-> v,
                   row |-> act[e][RowOf(v)],
                   weight |-> assign[e][RowOf(v)].weight]
  IN  /\ pc = "down"
      /\ e \in left
      /\ out' = out \cup {AddOf(v) : v \in Visits(count[e])}
      /\ left' = left \ {e}
      /\ pc' = IF left = {e} THEN "idle" ELSE pc
      /\ UNCHANGED <<shape, cap, request, claimed, count, assign, act>>

----------------------------------------------------------------------------
(* Grouping on the host: one expert after another. *)

\* e_tokens[e] and e_weights[e], gathered, computed and scattered.
HostAdds(e) ==
  {[to |-> p[1], by |-> e, via |-> <<p[1], p[2], 0, 0>>, row |-> p[1],
    weight |-> [token |-> p[1], rank |-> p[2]]]
     : p \in {q \in Token \X Rank : ids[q[1]][q[2]] = e}}

\* scatter_add reads and writes a row without atomics: of several additions of
\* one launch to one row all but one may be lost.
Clash(adds) == {a \in adds : \E b \in adds : a # b /\ a.to = b.to}
HostExpert(e) ==
  /\ pc = "host"
  /\ e \in left /\ \A f \in left : e <= f
  /\ \E lost \in SUBSET Clash(HostAdds(e)) :
       /\ \A a \in lost : \E b \in HostAdds(e) \ lost : a.to = b.to
       /\ out' = out \cup (HostAdds(e) \ lost)
  /\ left' = left \ {e}
  /\ pc' = IF left = {e} THEN "idle" ELSE pc
  /\ UNCHANGED <<shape, cap, request, claimed, count, assign, act>>

----------------------------------------------------------------------------
Next ==
  \/ \E pass \in {"prefill", "decode", "batch", "ragged"}, n \in 1 .. MaxSeq :
       Layer(pass, n)
  \/ \E t \in Token : Claim(t)
  \/ \E e \in Expert : GateUp(e) \/ Down(e) \/ HostExpert(e)

Spec == Init /\ [][Next]_vars

----------------------------------------------------------------------------
(* When a layer is done, every row has received the result of each of its
   experts once, computed from that row and weighted with its own weight for
   that expert, and nothing else (mlp_block, moe_device.cu, moe_gemm_int4.cu,
   moe_gemm_bf16.cu): no addition is lost, made twice, or made to another row,
   whatever the order in which the rows claimed their places. *)
Received(t, e) == {a \in out : a.to = t /\ a.by = e}
Combined ==
  pc = "idle" =>
    /\ \A a \in out : a.to \in Token
    /\ \A t \in Token, e \in Expert :
         IF \E j \in Rank : ids[t][j] = e
         THEN \E a \in out :
                /\ Received(t, e) = {a}
                /\ a.row = t
                /\ a.weight.token = t /\ ids[t][a.weight.rank] = e
         ELSE Received(t, e) = {}

(* Every row keeps the place it claimed in the list of each of its experts, and
   the place is among those the expert kernels will read: none is overwritten
   by another row, and none is dropped for lack of room, as the router does
   without a word (moe_device.cu:91). *)
ListsComplete ==
  path # "host" =>
    \A t \in Token, j \in Rank :
      j <= claimed[t] =>
        \E s \in Place : /\ s < count[ids[t][j]]
                         /\ assign[ids[t][j]][s] =
                              [token |-> t, weight |-> [token |-> t, rank |-> j]]
============================================================================
