---------------------------- MODULE KernelProofs ----------------------------
(***************************************************************************)
(* Proofs about the kernels.                                               *)
(*                                                                         *)
(* AppendKernel, for any number of warps, any reference and any window:    *)
(* the race between the warps never leaves the ring region.                *)
(*                                                                         *)
(* PanelPipeline, for any number of warps, of stages and of panels: no     *)
(* warp reads a slot of shared memory that another has begun to overwrite  *)
(* or has not finished to fill.  The barriers keep the warps within one    *)
(* barrier interval of each other (Together), and what each warp has done  *)
(* to its own share is a function of where it is (SlotShare).  The last        *)
(* `stages` panels a warp issued are the ones its slots hold.              *)
(* A warp with rows has then summed up the panels it has been through, and *)
(* at the end the whole row (SumInv).                                      *)
(*                                                                         *)
(* BlockKernels, for any number of threads, columns, heads, rows and       *)
(* tiles: what a thread reads of a reduction is the whole row, and what it *)
(* reads of a shared array is whole.  The threads part from each other by  *)
(* no barrier (Barred); after each halving the threads that are left hold  *)
(* the row between them (Held, Wanted).  That rests on how a kernel's      *)
(* steps and barriers follow each other (Fits), which is proved of every   *)
(* kernel the host launches from the steps it is put together from         *)
(* (Leads).                                                                *)
(***************************************************************************)
EXTENDS AppendKernel, PanelPipeline, BlockKernels, WellFoundedInduction, TLAPS

RingRow == PrefillLen .. PrefillLen + Window - 1

\* A warp about to write the length saw room for one more row; from there on,
\* and once it has read the cursor, it holds a row of the ring region.
IWarp(w) ==
  /\ pc[w] = "grow" => len[w] \in RingRow
  /\ pc[w] \in {"grow", "wrap", "advance", "done"} => row[w] \in RingRow

AppendInv == TypeOK /\ \A w \in Warp : IWarp(w)

\* What remainders give, for the one division of the kernel.
LEMMA AdvancedInRing ==
  ASSUME NEW r \in Nat
  PROVE  Advanced(r) \in 0 .. Window - 1
<1>1. Window \in Nat /\ Window > 0
  BY KernelAssumption
<1>2. (r + 1) % Window \in 0 .. Window - 1
  BY <1>1
<1> QED
  BY <1>2 DEF Advanced

LEMMA AppendInitInv == Init => AppendInv
<1>1. ASSUME Init PROVE TypeOK
  BY <1>1, KernelAssumption DEF Init, TypeOK
<1>2. ASSUME Init, NEW w \in Warp PROVE IWarp(w)
  BY <1>2 DEF Init, IWarp
<1> QED
  BY <1>1, <1>2 DEF AppendInv

\* A step of warp w leaves the registers of the other warps alone.
LEMMA OtherWarps ==
  ASSUME AppendInv, NEW w \in Warp, NEW v \in Warp, v # w,
         pc'[v] = pc[v], len'[v] = len[v], row'[v] = row[v]
  PROVE  IWarp(v)'
  BY DEF AppendInv, IWarp, RingRow

LEMMA LaunchInv == AppendInv /\ Launch => AppendInv'
<1> SUFFICES ASSUME AppendInv, Launch PROVE AppendInv'
  OBVIOUS
<1>1. TypeOK'
  BY DEF AppendInv, TypeOK, Launch
<1>2. ASSUME NEW w \in Warp PROVE IWarp(w)'
  BY <1>2 DEF Launch, IWarp
<1> QED
  BY <1>1, <1>2 DEF AppendInv

\* The length read is at most PrefillLen + Window, and less when there is room.
LEMMA ReadLenInv ==
  ASSUME AppendInv, NEW w \in Warp, ReadLen(w)
  PROVE  AppendInv'
<1>1. TypeOK /\ dLen \in PrefillLen .. PrefillLen + Window
      /\ PrefillLen \in Nat /\ Window \in Nat
  BY KernelAssumption DEF AppendInv, TypeOK
<1>2. TypeOK'
  BY <1>1 DEF TypeOK, ReadLen, Goto
<1>3. IWarp(w)'
  BY <1>1 DEF IWarp, RingRow, ReadLen, Goto, HasRoom, TypeOK
<1>4. ASSUME NEW v \in Warp, v # w PROVE IWarp(v)'
  <2>1. pc'[v] = pc[v] /\ len'[v] = len[v] /\ row'[v] = row[v]
    BY <1>1, <1>4 DEF ReadLen, Goto, TypeOK
  <2> QED
    BY <1>4, <2>1, OtherWarps
<1> QED
  BY <1>2, <1>3, <1>4 DEF AppendInv

LEMMA GrowLenInv ==
  ASSUME AppendInv, NEW w \in Warp, GrowLen(w)
  PROVE  AppendInv'
<1>1. TypeOK /\ IWarp(w) /\ PrefillLen \in Nat /\ Window \in Nat
  BY KernelAssumption DEF AppendInv
<1>2. len[w] \in RingRow /\ row[w] \in RingRow
  BY <1>1 DEF IWarp, GrowLen
<1>3. TypeOK'
  BY <1>1, <1>2 DEF TypeOK, GrowLen, Goto, RingRow
<1>4. IWarp(w)'
  BY <1>1, <1>2 DEF IWarp, GrowLen, Goto, TypeOK, RingRow
<1>5. ASSUME NEW v \in Warp, v # w PROVE IWarp(v)'
  <2>1. pc'[v] = pc[v] /\ len'[v] = len[v] /\ row'[v] = row[v]
    BY <1>1, <1>5 DEF GrowLen, Goto, TypeOK
  <2> QED
    BY <1>5, <2>1, OtherWarps
<1> QED
  BY <1>3, <1>4, <1>5 DEF AppendInv

LEMMA ResetRingInv ==
  ASSUME AppendInv, NEW w \in Warp, ResetRing(w)
  PROVE  AppendInv'
<1>1. TypeOK /\ IWarp(w) /\ Window \in Nat /\ Window > 0
  BY KernelAssumption DEF AppendInv
<1>2. TypeOK'
  BY <1>1 DEF TypeOK, ResetRing, Goto
<1>3. IWarp(w)'
  BY <1>1 DEF IWarp, ResetRing, Goto, TypeOK, RingRow
<1>4. ASSUME NEW v \in Warp, v # w PROVE IWarp(v)'
  <2>1. pc'[v] = pc[v] /\ len'[v] = len[v] /\ row'[v] = row[v]
    BY <1>1, <1>4 DEF ResetRing, Goto, TypeOK
  <2> QED
    BY <1>4, <2>1, OtherWarps
<1> QED
  BY <1>2, <1>3, <1>4 DEF AppendInv

LEMMA ReadSlotInv ==
  ASSUME AppendInv, NEW w \in Warp, ReadSlot(w)
  PROVE  AppendInv'
<1>1. TypeOK /\ PrefillLen \in Nat /\ Window \in Nat
  BY KernelAssumption DEF AppendInv
<1>2. RingSlot \in RingRow /\ RingSlot \in Nat
  BY <1>1 DEF RingSlot, RingRow, TypeOK
<1>3. TypeOK'
  BY <1>1, <1>2 DEF TypeOK, ReadSlot, Goto
<1>4. IWarp(w)'
  BY <1>1, <1>2 DEF IWarp, ReadSlot, Goto, TypeOK, RingRow
<1>5. ASSUME NEW v \in Warp, v # w PROVE IWarp(v)'
  <2>1. pc'[v] = pc[v] /\ len'[v] = len[v] /\ row'[v] = row[v]
    BY <1>1, <1>5 DEF ReadSlot, Goto, TypeOK
  <2> QED
    BY <1>5, <2>1, OtherWarps
<1> QED
  BY <1>3, <1>4, <1>5 DEF AppendInv

LEMMA AdvanceRingInv ==
  ASSUME AppendInv, NEW w \in Warp, AdvanceRing(w)
  PROVE  AppendInv'
<1>1. TypeOK /\ IWarp(w) /\ PrefillLen \in Nat /\ Window \in Nat
  BY KernelAssumption DEF AppendInv
<1>2. row[w] \in RingRow /\ row[w] - PrefillLen \in Nat /\ dRingPos \in Nat
  BY <1>1 DEF IWarp, AdvanceRing, RingRow, TypeOK
<1>3. dRingPos' \in 0 .. Window - 1
  BY <1>2, AdvancedInRing DEF AdvanceRing
<1>4. TypeOK'
  BY <1>1, <1>3 DEF TypeOK, AdvanceRing, Goto
<1>5. IWarp(w)'
  BY <1>1, <1>2 DEF IWarp, AdvanceRing, Goto, TypeOK, RingRow
<1>6. ASSUME NEW v \in Warp, v # w PROVE IWarp(v)'
  <2>1. pc'[v] = pc[v] /\ len'[v] = len[v] /\ row'[v] = row[v]
    BY <1>1, <1>6 DEF AdvanceRing, Goto, TypeOK
  <2> QED
    BY <1>6, <2>1, OtherWarps
<1> QED
  BY <1>4, <1>5, <1>6 DEF AppendInv

\* The registers and the two shared words stay in range, and every row a warp
\* holds is in the ring region.
THEOREM KernelInvariant == Spec => []AppendInv
<1>1. AppendInv /\ [Next]_vars => AppendInv'
  <2> SUFFICES ASSUME AppendInv, [Next]_vars PROVE AppendInv'
    OBVIOUS
  <2>1. CASE Launch
    BY <2>1, LaunchInv
  <2>2. ASSUME NEW w \in Warp, ReadLen(w) PROVE AppendInv'
    BY <2>2, ReadLenInv
  <2>3. ASSUME NEW w \in Warp, GrowLen(w) PROVE AppendInv'
    BY <2>3, GrowLenInv
  <2>4. ASSUME NEW w \in Warp, ResetRing(w) PROVE AppendInv'
    BY <2>4, ResetRingInv
  <2>5. ASSUME NEW w \in Warp, ReadSlot(w) PROVE AppendInv'
    BY <2>5, ReadSlotInv
  <2>6. ASSUME NEW w \in Warp, AdvanceRing(w) PROVE AppendInv'
    BY <2>6, AdvanceRingInv
  <2>7. CASE UNCHANGED vars
    BY <2>7 DEF AppendInv, TypeOK, IWarp, vars
  <2> QED
    BY <2>1, <2>2, <2>3, <2>4, <2>5, <2>6, <2>7 DEF Next
<1> QED
  BY <1>1, AppendInitInv, PTL DEF Spec

\* However many warps race on the length and the cursor, the rows they write
\* are in the ring region of their own slot (rswa_attention.cu:320-333, 462-475).
THEOREM AppendStaysInRing == Spec => []StaysInRing
<1>1. AppendInv => StaysInRing
  BY DEF AppendInv, TypeOK, IWarp, RingRow, StaysInRing
<1> QED
  BY <1>1, KernelInvariant, PTL

-----------------------------------------------------------------------------
\* The locations of each kernel.
LocationsOf(k) ==
  IF k = "tiled" THEN {"fill", "arrive", "multiply", "regroup", "done"}
  ELSE IF k = "pipe"
    THEN {"prologue", "wait", "arrive", "stage", "feed", "multiply", "done"}
    ELSE {"prologue", "wait", "arrive", "dequant", "stage", "regroup", "multiply", "done"}

\* Barriers warp w has passed.
Passed(w) ==
  IF kernel = "pipe"
    THEN step[w] + (IF at[w] \in {"stage", "feed", "multiply"} THEN 1 ELSE 0)
    ELSE 2 * step[w] + (IF kernel = "tiled"
                          THEN (IF at[w] \in {"multiply", "regroup"} THEN 1 ELSE 0)
                          ELSE (IF at[w] \in {"dequant", "stage", "regroup"} THEN 1
                                ELSE IF at[w] = "multiply" THEN 2 ELSE 0))

Together == \A v, w \in GemmWarp : Passed(v) = Passed(w)

Least(a, b) == IF a < b THEN a ELSE b

\* Groups warp w has issued, from where it is.
Issued(w) ==
  IF kernel = "tiled"
    THEN step[w] + (IF at[w] \in {"arrive", "multiply", "regroup"} THEN 1 ELSE 0)
    ELSE IF at[w] = "prologue" THEN 0
    ELSE Least(panels, step[w] + stages
                 - (IF at[w] \in {"feed", "multiply", "regroup"} THEN 0 ELSE 1))

\* Where warp w stands in the loop.
InLoop(w) ==
  /\ at[w] \in LocationsOf(kernel)
  /\ at[w] = "done" => step[w] = panels
  /\ at[w] # "done" => step[w] < panels
  /\ at[w] = "prologue" => step[w] = 0

\* Its slots hold the last panels it issued, and a wait covers this step's.
RingShare(w) ==
  /\ committed[w] = Issued(w)
  /\ \A p \in Nat : p < committed[w] /\ committed[w] <= p + stages => ring[w][Slot(p)] = p
  /\ complete[w] <= committed[w]
  /\ complete[w] >= step[w]
  /\ at[w] \notin {"prologue", "fill", "wait", "done"} => complete[w] > step[w]

\* Its half holds this step's panel as soon as it stored it, and the one before
\* until the barrier.
PairShare(w) ==
  /\ at[w] \in {"wait", "arrive", "done"} /\ kernel # "tiled" /\ step[w] > 0 =>
       pair[w][Half(step[w] - 1)] = step[w] - 1
  /\ kernel = "pipe" /\ at[w] \notin {"prologue", "done"} =>
       pair[w][Half(step[w])] = step[w]
  /\ kernel = "pipe" /\ at[w] = "multiply" /\ step[w] + 1 < panels =>
       pair[w][Half(step[w] + 1)] = step[w] + 1
  /\ kernel = "raw" /\ at[w] \in {"stage", "regroup", "multiply"} =>
       pair[w][Half(step[w])] = step[w]
  /\ kernel = "tiled" /\ at[w] \in {"arrive", "multiply", "regroup"} =>
       pair[w][0] = step[w]

FragShare(w) ==
  kernel = "raw" /\ w \in active /\ at[w] \notin {"prologue", "done"} => frag[w] = step[w]

SlotShare(w) == InLoop(w) /\ RingShare(w) /\ PairShare(w) /\ FragShare(w)

GemmInv == PanelTypeOK /\ panels > 0 /\ Together /\ \A w \in GemmWarp : SlotShare(w)

-----------------------------------------------------------------------------
\* A remainder is below the divisor, and it is the number itself if that is.
LEMMA Remainder ==
  ASSUME NEW n \in Nat, NEW d \in Nat \ {0}
  PROVE  n % d \in 0 .. d - 1 /\ (n < d => n % d = n)
OBVIOUS

\* Numbers less than d apart leave different remainders.
LEMMA RemaindersDiffer ==
  ASSUME NEW d \in Nat \ {0}, NEW p \in Nat, NEW q \in Nat, q < p, p < q + d
  PROVE  p % d # q % d
<1>1. p = (p \div d) * d + (p % d)
  OBVIOUS
<1>2. q = (q \div d) * d + (q % d)
  OBVIOUS
<1>0. p \div d \in Nat /\ q \div d \in Nat /\ p % d \in Nat /\ q % d \in Nat
  OBVIOUS
<1> DEFINE a == p \div d  b == q \div d
<1>3. SUFFICES ASSUME p % d = q % d PROVE FALSE
  OBVIOUS
<1>4. p - q = a * d - b * d
  BY <1>0, <1>1, <1>2, <1>3
<1>5. a * d - b * d = d * (a - b)
  BY <1>0
<1>6. a - b \in Int /\ d * (a - b) > 0 /\ d * (a - b) < d
  BY <1>0, <1>4, <1>5
<1> HIDE DEF a, b
<1>7. CASE a - b <= 0
  BY <1>6, <1>7
<1>8. CASE a - b >= 1
  BY <1>6, <1>8
<1>9. QED
  BY <1>6, <1>7, <1>8

\* c chunks need a panel at least, and a whole number of them.
LEMMA PanelsPositive ==
  ASSUME NEW c \in Nat \ {0}
  PROVE  PanelsOf(c) \in Nat \ {0}
<1> DEFINE n == c + PanelChunks - 1
<1>1. n \in Nat /\ n >= PanelChunks /\ PanelChunks \in Nat \ {0}
  BY PanelAssumption
<1> HIDE DEF n
<1>2. n = (n \div PanelChunks) * PanelChunks + (n % PanelChunks)
  BY <1>1
<1>20. (n % PanelChunks) \in 0 .. PanelChunks - 1 /\ (n \div PanelChunks) \in Nat
  BY <1>1
<1> DEFINE d == n \div PanelChunks
<1>3. d * PanelChunks > 0 /\ d \in Nat
  BY <1>1, <1>2, <1>20
<1> HIDE DEF d
<1>4. d > 0
  BY <1>1, <1>3
<1>5. QED
  BY <1>3, <1>4 DEF PanelsOf, d, n

\* What PanelTypeOK says of the launch.
LEMMA LaunchType ==
  ASSUME PanelTypeOK
  PROVE  /\ kernel \in {"tiled", "pipe", "raw"}
         /\ stages \in Nat \ {0}
         /\ kernel = "tiled" => stages = 1
         /\ kernel # "tiled" => stages > 1
         /\ panels \in Nat
<1> DEFINE l == [kernel |-> kernel, stages |-> stages]
<1>1. l \in Launches /\ l.kernel = kernel /\ l.stages = stages
  BY DEF PanelTypeOK
<1>2. QED
  BY <1>1, PanelAssumption DEF PanelTypeOK

\* The next location, kernel by kernel.
LEMMA Routes ==
  /\ /\ Route["tiled"]["fill"] = "arrive" /\ Route["tiled"]["arrive"] = "multiply"
     /\ Route["tiled"]["multiply"] = "regroup"
  /\ /\ Route["pipe"]["prologue"] = "wait" /\ Route["pipe"]["wait"] = "arrive"
     /\ Route["pipe"]["arrive"] = "stage" /\ Route["pipe"]["stage"] = "feed"
     /\ Route["pipe"]["feed"] = "multiply"
  /\ /\ Route["raw"]["prologue"] = "wait" /\ Route["raw"]["wait"] = "arrive"
     /\ Route["raw"]["arrive"] = "dequant" /\ Route["raw"]["dequant"] = "stage"
     /\ Route["raw"]["stage"] = "regroup" /\ Route["raw"]["regroup"] = "multiply"
BY DEF Route, TiledRoute, PipeRoute, RawRoute

\* One cell of a table of tables.
LEMMA StoreCell ==
  ASSUME NEW S, NEW D, NEW V, NEW f \in [S -> [D -> V]], NEW g, NEW w \in S, NEW d \in D,
         NEW e \in V, g = [f EXCEPT ![w][d] = e]
  PROVE  /\ g \in [S -> [D -> V]]
         /\ g[w][d] = e
         /\ \A c \in D \ {d} : g[w][c] = f[w][c]
         /\ \A u \in S \ {w} : g[u] = f[u]
OBVIOUS

-----------------------------------------------------------------------------
(* What a step of warp w leaves alone: the launch and the other warps. *)

SameFor(v) ==
  /\ at'[v] = at[v] /\ step'[v] = step[v] /\ ring'[v] = ring[v]
  /\ committed'[v] = committed[v] /\ complete'[v] = complete[v]
  /\ pair'[v] = pair[v] /\ frag'[v] = frag[v]

LEMMA OthersKeep ==
  ASSUME GemmInv, NEW v \in GemmWarp, UNCHANGED launchVars, SameFor(v)
  PROVE  SlotShare(v)' /\ Passed(v)' = Passed(v)
<1>1. SlotShare(v)
  BY DEF GemmInv
<1>2. QED
  BY <1>1 DEF SameFor, launchVars, SlotShare, InLoop, RingShare, PairShare, FragShare, Passed,
              Issued, Least, Slot, Half

\* Slots and halves exist, and neighbours have different halves.
LEMMA SlotsAndHalves ==
  ASSUME PanelTypeOK
  PROVE  /\ \A p \in Nat : Slot(p) \in 0 .. stages - 1 /\ Half(p) \in 0 .. 1
         /\ kernel # "tiled" => \A p \in Nat : Half(p) # Half(p + 1)
         /\ kernel = "tiled" => \A p \in Nat : Half(p) = 0
         /\ \A p, q \in Nat : q < p /\ p < q + stages => Slot(p) # Slot(q)
         /\ \A p \in 0 .. stages - 1 : Slot(p) = p
<1>1. stages \in Nat \ {0} /\ kernel \in {"tiled", "pipe", "raw"}
  BY LaunchType
<1>2. ASSUME NEW p \in Nat PROVE Slot(p) \in 0 .. stages - 1 /\ Half(p) \in 0 .. 1
  BY <1>1, Remainder DEF Slot, Half
<1>3. ASSUME NEW p \in Nat, kernel # "tiled" PROVE Half(p) # Half(p + 1)
  BY <1>3 DEF Half
<1>4. ASSUME NEW p \in Nat, NEW q \in Nat, q < p, p < q + stages PROVE Slot(p) # Slot(q)
  BY <1>1, <1>4, RemaindersDiffer DEF Slot
<1>5. ASSUME NEW p \in 0 .. stages - 1 PROVE Slot(p) = p
  BY <1>1, Remainder DEF Slot
<1>6. QED
  BY <1>2, <1>3, <1>4, <1>5 DEF Half

\* Own(w): what remains to show of an action of warp w.
Own(w) == PanelTypeOK' /\ UNCHANGED launchVars /\ SlotShare(w)' /\ Passed(w)' = Passed(w)
          /\ \A v \in GemmWarp \ {w} : SameFor(v)

LEMMA PrologueOwn ==
  ASSUME GemmInv, NEW w \in GemmWarp, Prologue(w)
  PROVE  Own(w)
<1> USE DEF GemmInv
<1>0. PanelTypeOK /\ SlotShare(w) /\ at[w] = "prologue" /\ step[w] = 0 /\ panels > 0
  BY DEF Prologue, SlotShare, InLoop
<1>1. kernel \in {"pipe", "raw"} /\ stages \in Nat /\ stages > 1 /\ panels \in Nat
  BY <1>0, LaunchType DEF SlotShare, InLoop, LocationsOf
<1>2. Lead \in 0 .. panels /\ Lead \in 0 .. stages - 1 /\ Lead = Least(panels, stages - 1)
  BY <1>1 DEF Lead, Least
<1>3. Half(0) \in 0 .. 1
  BY <1>0, SlotsAndHalves
<1>4. /\ at' = [at EXCEPT ![w] = "wait"] /\ UNCHANGED <<launchVars, step, complete, acc>>
      /\ ring' = [ring EXCEPT ![w] = [s \in 0 .. stages - 1 |-> IF s < Lead THEN s ELSE NoPanel]]
      /\ committed' = [committed EXCEPT ![w] = Lead]
  BY <1>0, <1>1, Routes DEF Prologue, GoOn
<1>5. /\ pair' = pair \/ pair' = [pair EXCEPT ![w][Half(0)] = 0]
      /\ frag' = frag \/ frag' = [frag EXCEPT ![w] = 0]
      /\ kernel = "pipe" => pair' = [pair EXCEPT ![w][Half(0)] = 0]
      /\ kernel = "raw" /\ w \in active => frag' = [frag EXCEPT ![w] = 0]
  BY <1>0, <1>1 DEF Prologue
<1>6. PanelTypeOK'
  <2>1. pair' \in [GemmWarp -> [0 .. 1 -> {NoPanel} \cup Nat]]
    <3>1. CASE pair' = pair
      BY <1>0, <3>1 DEF PanelTypeOK
    <3>2. CASE pair' = [pair EXCEPT ![w][Half(0)] = 0]
      BY <1>0, <1>3, <3>2 DEF PanelTypeOK
    <3>3. QED
      BY <1>5, <3>1, <3>2
  <2>2. frag' \in [GemmWarp -> {NoPanel} \cup Nat]
    BY <1>0, <1>5 DEF PanelTypeOK
  <2>3. [s \in 0 .. stages - 1 |-> IF s < Lead THEN s ELSE NoPanel]
          \in [0 .. stages - 1 -> {NoPanel} \cup Nat]
    BY <1>1, <1>2
  <2>4. ring' \in [GemmWarp -> [0 .. stages - 1 -> {NoPanel} \cup Nat]]
    BY <1>0, <1>4, <2>3 DEF PanelTypeOK
  <2>5. QED
    BY <1>0, <1>1, <1>2, <1>4, <2>1, <2>2, <2>4 DEF PanelTypeOK, Locations, launchVars
<1>7. \A v \in GemmWarp \ {w} : SameFor(v)
  BY <1>0, <1>4, <1>5 DEF SameFor, PanelTypeOK
<1>8. at'[w] = "wait" /\ step'[w] = 0 /\ committed'[w] = Lead /\ complete'[w] = complete[w]
  BY <1>0, <1>4 DEF PanelTypeOK
<1>9. InLoop(w)' /\ Passed(w)' = Passed(w)
  BY <1>0, <1>1, <1>4, <1>8 DEF InLoop, LocationsOf, launchVars, Passed
<1>10. \A p \in Nat : p < Lead => ring'[w][Slot(p)] = p
  <2> SUFFICES ASSUME NEW p \in Nat, p < Lead PROVE ring'[w][Slot(p)] = p
    OBVIOUS
  <2>1. p \in 0 .. stages - 1 /\ Slot(p) = p
    BY <1>0, <1>1, <1>2, SlotsAndHalves
  <2>2. QED
    BY <1>0, <1>4, <2>1 DEF PanelTypeOK
<1>11. complete[w] = 0
  BY <1>0, <1>1 DEF SlotShare, RingShare, Issued, PanelTypeOK
<1>12. RingShare(w)'
  <2>1. stages' = stages /\ panels' = panels /\ kernel' = kernel
    BY <1>4 DEF launchVars
  <2>2. (\A p \in Nat : p < committed[w] /\ committed[w] <= p + stages => ring[w][Slot(p)] = p)'
    BY <1>8, <1>10, <2>1 DEF Slot
  <2>3. Issued(w)' = Lead
    BY <1>1, <1>2, <1>8, <2>1 DEF Issued
  <2>4. QED
    BY <1>2, <1>8, <1>11, <2>2, <2>3 DEF RingShare
<1>13. PairShare(w)'
  BY <1>0, <1>1, <1>3, <1>4, <1>5, <1>8 DEF PairShare, launchVars, PanelTypeOK, Half
<1>14. FragShare(w)'
  BY <1>0, <1>1, <1>4, <1>5, <1>8 DEF FragShare, launchVars, PanelTypeOK
<1>15. QED
  BY <1>4, <1>6, <1>7, <1>9, <1>12, <1>13, <1>14 DEF Own, SlotShare

LEMMA FillOwn ==
  ASSUME GemmInv, NEW w \in GemmWarp, Fill(w)
  PROVE  Own(w)
<1> USE DEF GemmInv
<1>0. PanelTypeOK /\ SlotShare(w) /\ at[w] = "fill"
  BY DEF Fill
<1>1. kernel = "tiled" /\ stages = 1 /\ panels \in Nat /\ step[w] < panels /\ step[w] \in Nat
  BY <1>0, LaunchType DEF SlotShare, InLoop, LocationsOf, PanelTypeOK
<1>2. Half(step[w]) = 0 /\ Slot(step[w]) = 0
  BY <1>0, <1>1, SlotsAndHalves
<1>3. /\ at' = [at EXCEPT ![w] = "arrive"] /\ UNCHANGED <<launchVars, step, frag, acc>>
      /\ ring' = [ring EXCEPT ![w][0] = step[w]]
      /\ committed' = [committed EXCEPT ![w] = step[w] + 1]
      /\ complete' = [complete EXCEPT ![w] = step[w] + 1]
      /\ pair' = [pair EXCEPT ![w][0] = step[w]]
  BY <1>0, <1>1, <1>2, Routes DEF Fill, GoOn
<1>4. PanelTypeOK'
  BY <1>0, <1>1, <1>3 DEF PanelTypeOK, Locations, launchVars, Barriers
<1>5. \A v \in GemmWarp \ {w} : SameFor(v)
  BY <1>0, <1>3 DEF SameFor, PanelTypeOK
<1>6. /\ at'[w] = "arrive" /\ step'[w] = step[w] /\ committed'[w] = step[w] + 1
      /\ complete'[w] = step[w] + 1 /\ ring'[w][0] = step[w] /\ pair'[w][0] = step[w]
  BY <1>0, <1>1, <1>3 DEF PanelTypeOK
<1>7. InLoop(w)' /\ Passed(w)' = Passed(w)
  BY <1>0, <1>1, <1>3, <1>6 DEF InLoop, LocationsOf, launchVars, Passed
<1>8. RingShare(w)'
  BY <1>1, <1>2, <1>3, <1>6 DEF RingShare, Issued, launchVars, Slot
<1>9. PairShare(w)' /\ FragShare(w)'
  BY <1>1, <1>3, <1>6 DEF PairShare, FragShare, launchVars
<1>10. QED
  BY <1>3, <1>4, <1>5, <1>7, <1>8, <1>9 DEF Own, SlotShare

LEMMA WaitOwn ==
  ASSUME GemmInv, NEW w \in GemmWarp, Wait(w)
  PROVE  Own(w)
<1> USE DEF GemmInv
<1>0. PanelTypeOK /\ SlotShare(w) /\ at[w] = "wait"
  BY DEF Wait
<1>1. /\ kernel \in {"pipe", "raw"} /\ stages \in Nat /\ stages > 1 /\ panels \in Nat
      /\ step[w] < panels /\ step[w] \in Nat
  BY <1>0, LaunchType DEF SlotShare, InLoop, LocationsOf, PanelTypeOK
<1>2. /\ committed[w] = Least(panels, step[w] + stages - 1)
      /\ complete[w] \in Nat /\ complete[w] <= committed[w] /\ committed[w] \in 0 .. panels
  BY <1>0, <1>1 DEF SlotShare, RingShare, Issued, PanelTypeOK, Least
<1> DEFINE c == IF committed[w] - InFlight(w) > complete[w] THEN committed[w] - InFlight(w)
                                                            ELSE complete[w]
<1>3. c \in 0 .. panels /\ c <= committed[w] /\ c > step[w]
  BY <1>1, <1>2 DEF InFlight, Least
<1>4. /\ at' = [at EXCEPT ![w] = "arrive"] /\ complete' = [complete EXCEPT ![w] = c]
      /\ UNCHANGED <<launchVars, step, ring, committed, pair, frag, acc>>
  BY <1>0, <1>1, Routes DEF Wait, GoOn
<1> HIDE DEF c
<1>5. PanelTypeOK'
  BY <1>0, <1>3, <1>4 DEF PanelTypeOK, Locations, launchVars, Barriers
<1>6. \A v \in GemmWarp \ {w} : SameFor(v)
  BY <1>0, <1>4 DEF SameFor, PanelTypeOK
<1>7. at'[w] = "arrive" /\ complete'[w] = c
  BY <1>0, <1>4 DEF PanelTypeOK
<1>8. InLoop(w)' /\ Passed(w)' = Passed(w)
  BY <1>0, <1>1, <1>4, <1>7 DEF SlotShare, InLoop, LocationsOf, launchVars, Passed
<1>9. RingShare(w)'
  <2>1. stages' = stages /\ panels' = panels /\ kernel' = kernel /\ step' = step
        /\ committed' = committed /\ ring' = ring
    BY <1>4 DEF launchVars
  <2>2. (\A p \in Nat : p < committed[w] /\ committed[w] <= p + stages => ring[w][Slot(p)] = p)'
    BY <1>0, <2>1 DEF Slot, SlotShare, RingShare
  <2>3. Issued(w)' = Issued(w)
    BY <1>0, <1>1, <1>7, <2>1 DEF Issued
  <2>4. QED
    BY <1>0, <1>1, <1>2, <1>3, <1>7, <2>1, <2>2, <2>3 DEF RingShare, SlotShare
<1>10. PairShare(w)' /\ FragShare(w)'
  BY <1>0, <1>1, <1>4, <1>7 DEF SlotShare, PairShare, FragShare, launchVars, Half
<1>11. QED
  BY <1>4, <1>5, <1>6, <1>8, <1>9, <1>10 DEF Own, SlotShare

-----------------------------------------------------------------------------
(* The invariant implies what is to be shown. *)

\* A warp that has passed barrier interval of panel p has all of p in its slots,
\* as long as it is not `stages` panels further.
LEMMA ShareInRing ==
  ASSUME GemmInv, NEW v \in GemmWarp, NEW p \in Nat,
         p < committed[v], committed[v] <= p + stages, p < complete[v]
  PROVE  ring[v][Slot(p)] = p /\ p < complete[v]
BY DEF GemmInv, SlotShare, RingShare

LEMMA ReadsRing ==
  ASSUME GemmInv, NEW w \in GemmWarp,
         \/ kernel # "raw" /\ at[w] = "multiply"
         \/ at[w] = "dequant"
  PROVE  InRing(step[w])
<1> USE DEF GemmInv
<1>1. /\ kernel \in {"tiled", "pipe", "raw"} /\ stages \in Nat /\ panels \in Nat
      /\ stages > 0 /\ (kernel # "tiled" => stages > 1) /\ (kernel = "tiled" => stages = 1)
  BY LaunchType
<1>2. step[w] \in Nat /\ step[w] < panels /\ SlotShare(w)
  BY <1>1 DEF SlotShare, InLoop, PanelTypeOK
<1> SUFFICES ASSUME NEW v \in GemmWarp
             PROVE  ring[v][Slot(step[w])] = step[w] /\ step[w] < complete[v]
  BY DEF InRing
<1>3. SlotShare(v) /\ Passed(v) = Passed(w) /\ step[v] \in 0 .. panels
  BY DEF Together, PanelTypeOK
<1>4. /\ committed[v] = Issued(v) /\ complete[v] >= step[v] /\ complete[v] \in Nat
      /\ committed[v] \in Nat
      /\ at[v] \notin {"prologue", "fill", "wait", "done"} => complete[v] > step[v]
      /\ at[v] \in LocationsOf(kernel) /\ at[w] \in LocationsOf(kernel)
      /\ at[v] = "done" => step[v] = panels
      /\ at[v] # "done" => step[v] < panels
      /\ at[v] = "prologue" => step[v] = 0
  BY <1>2, <1>3 DEF SlotShare, InLoop, RingShare, PanelTypeOK
<1>5. CASE kernel = "pipe"
  <2>1. Passed(w) = step[w] + 1
    BY <1>4, <1>5 DEF Passed, LocationsOf
  <2>2. \/ at[v] \in {"stage", "feed", "multiply"} /\ step[v] = step[w]
        \/ at[v] \in {"wait", "arrive", "done"} /\ step[v] = step[w] + 1
    BY <1>2, <1>3, <1>4, <1>5, <2>1 DEF Passed, LocationsOf
  <2>3. step[w] < committed[v] /\ committed[v] <= step[w] + stages /\ step[w] < complete[v]
    BY <1>1, <1>2, <1>3, <1>4, <1>5, <2>2 DEF Issued, Least
  <2>4. QED
    BY <1>2, <2>3, ShareInRing
<1>6. CASE kernel = "raw"
  <2>1. Passed(w) = 2 * step[w] + 1
    BY <1>4, <1>6 DEF Passed
  <2>2. at[v] \in {"dequant", "stage", "regroup"} /\ step[v] = step[w]
    BY <1>2, <1>3, <1>4, <1>6, <2>1 DEF Passed, LocationsOf
  <2>3. step[w] < committed[v] /\ committed[v] <= step[w] + stages /\ step[w] < complete[v]
    BY <1>1, <1>2, <1>3, <1>4, <1>6, <2>2 DEF Issued, Least
  <2>4. QED
    BY <1>2, <2>3, ShareInRing
<1>7. CASE kernel = "tiled"
  <2>1. Passed(w) = 2 * step[w] + 1
    BY <1>4, <1>7 DEF Passed, LocationsOf
  <2>2. at[v] \in {"multiply", "regroup"} /\ step[v] = step[w]
    BY <1>2, <1>3, <1>4, <1>7, <2>1 DEF Passed, LocationsOf
  <2>3. step[w] < committed[v] /\ committed[v] <= step[w] + stages /\ step[w] < complete[v]
    BY <1>1, <1>2, <1>3, <1>4, <1>7, <2>2 DEF Issued
  <2>4. QED
    BY <1>2, <2>3, ShareInRing
<1>8. QED
  BY <1>1, <1>5, <1>6, <1>7

LEMMA ReadsPair ==
  ASSUME GemmInv, NEW w \in GemmWarp, at[w] = "multiply"
  PROVE  InPair(step[w])
<1> USE DEF GemmInv
<1>1. kernel \in {"tiled", "pipe", "raw"} /\ panels \in Nat
  BY LaunchType
<1>2. step[w] \in Nat /\ step[w] < panels /\ SlotShare(w) /\ at[w] \in LocationsOf(kernel)
  BY <1>1 DEF SlotShare, InLoop, PanelTypeOK
<1> SUFFICES ASSUME NEW v \in GemmWarp PROVE pair[v][Half(step[w])] = step[w]
  BY DEF InPair
<1>3. /\ SlotShare(v) /\ Passed(v) = Passed(w) /\ step[v] \in 0 .. panels
      /\ PairShare(v) /\ at[v] \in LocationsOf(kernel)
  BY DEF Together, PanelTypeOK, SlotShare, InLoop
<1>5. CASE kernel = "pipe"
  <2>2. \/ at[v] \in {"stage", "feed", "multiply"} /\ step[v] = step[w]
        \/ at[v] \in {"wait", "arrive", "done"} /\ step[v] = step[w] + 1
    <3>1. Passed(w) = step[w] + 1
      BY <1>5 DEF Passed
    <3>2. step[v] = 0 \/ at[v] # "prologue"
      BY <1>3 DEF SlotShare, InLoop
    <3>3. QED
      BY <1>2, <1>3, <1>5, <3>1, <3>2 DEF Passed, LocationsOf
  <2>3. QED
    BY <1>2, <1>3, <1>5, <2>2 DEF PairShare
<1>6. CASE kernel = "raw"
  <2>2. \/ at[v] = "multiply" /\ step[v] = step[w]
        \/ at[v] \in {"wait", "arrive", "done"} /\ step[v] = step[w] + 1
    <3>1. Passed(w) = 2 * step[w] + 2
      BY <1>6 DEF Passed
    <3>2. step[v] = 0 \/ at[v] # "prologue"
      BY <1>3 DEF SlotShare, InLoop
    <3>3. /\ at[v] \in {"dequant", "stage", "regroup"} => Passed(v) = 2 * step[v] + 1
          /\ at[v] = "multiply" => Passed(v) = 2 * step[v] + 2
          /\ at[v] \in {"prologue", "wait", "arrive", "done"} => Passed(v) = 2 * step[v]
      BY <1>3, <1>6 DEF Passed
    <3>4. at[v] \in {"prologue", "wait", "arrive", "dequant", "stage", "regroup",
                     "multiply", "done"}
      BY <1>3, <1>6 DEF LocationsOf
    <3>5. step[v] \in Nat /\ Passed(v) = 2 * step[w] + 2
      BY <1>1, <1>3, <3>1
    <3>6. QED
      BY <1>2, <3>2, <3>3, <3>4, <3>5
  <2>3. QED
    BY <1>2, <1>3, <1>6, <2>2 DEF PairShare
<1>7. CASE kernel = "tiled"
  <2>1. Passed(w) = 2 * step[w] + 1
    BY <1>7 DEF Passed
  <2>2. at[v] \in {"multiply", "regroup"} /\ step[v] = step[w]
    BY <1>2, <1>3, <1>7, <2>1 DEF Passed, LocationsOf
  <2>3. QED
    BY <1>2, <1>3, <1>7, <2>2 DEF PairShare, Half
<1>8. QED
  BY <1>1, <1>5, <1>6, <1>7

LEMMA InvReads == GemmInv => ReadsItsPanel
<1> SUFFICES ASSUME GemmInv, NEW w \in GemmWarp
             PROVE  /\ at[w] = "dequant" => InRing(step[w])
                    /\ at[w] = "multiply" /\ w \in active => OperandsInPlace(w)
  BY DEF ReadsItsPanel
<1>1. at[w] = "dequant" => InRing(step[w])
  BY ReadsRing
<1>2. ASSUME at[w] = "multiply", w \in active PROVE OperandsInPlace(w)
  <2>1. kernel = "raw" => frag[w] = step[w]
    BY <1>2 DEF GemmInv, SlotShare, FragShare
  <2>2. QED
    BY <1>2, <2>1, ReadsRing, ReadsPair DEF OperandsInPlace
<1>3. QED
  BY <1>1, <1>2

LEMMA InvBarriers == GemmInv => BarriersMatch
<1> SUFFICES ASSUME GemmInv, NEW v \in GemmWarp, NEW w \in GemmWarp, at[w] \in Barriers
             PROVE  /\ at[v] # "done"
                    /\ at[v] \in Barriers => at[v] = at[w] /\ step[v] = step[w]
  BY DEF BarriersMatch
<1>1. kernel \in {"tiled", "pipe", "raw"} /\ panels \in Nat
  BY LaunchType DEF GemmInv
<1>2. /\ step[w] \in Nat /\ step[v] \in Nat /\ Passed(v) = Passed(w)
      /\ at[v] \in LocationsOf(kernel) /\ at[w] \in LocationsOf(kernel)
      /\ step[w] < panels /\ (at[v] = "done" => step[v] = panels)
  BY <1>1 DEF GemmInv, Together, SlotShare, InLoop, PanelTypeOK, Barriers
<1>3. CASE kernel = "pipe"
  BY <1>2, <1>3 DEF Passed, LocationsOf, Barriers
<1>4. CASE kernel = "raw"
  BY <1>2, <1>4 DEF Passed, LocationsOf, Barriers
<1>5. CASE kernel = "tiled"
  BY <1>2, <1>5 DEF Passed, LocationsOf, Barriers
<1>6. QED
  BY <1>1, <1>3, <1>4, <1>5

-----------------------------------------------------------------------------
(* The rest of the warp's actions. *)

LEMMA DequantizeOwn ==
  ASSUME GemmInv, NEW w \in GemmWarp, Dequantize(w)
  PROVE  Own(w)
<1> USE DEF GemmInv
<1>0. PanelTypeOK /\ SlotShare(w) /\ at[w] = "dequant"
  BY DEF Dequantize
<1>1. /\ kernel = "raw" /\ stages \in Nat /\ stages > 1 /\ panels \in Nat
      /\ step[w] < panels /\ step[w] \in Nat
  BY <1>0, LaunchType DEF SlotShare, InLoop, LocationsOf, PanelTypeOK
<1>2. InRing(step[w]) /\ Half(step[w]) \in 0 .. 1
  BY <1>0, <1>1, ReadsRing, SlotsAndHalves
<1>3. /\ at' = [at EXCEPT ![w] = "stage"]
      /\ pair' = [pair EXCEPT ![w][Half(step[w])] = step[w]]
      /\ UNCHANGED <<launchVars, step, ring, committed, complete, frag, acc>>
  BY <1>0, <1>1, <1>2, Routes DEF Dequantize, GoOn
<1>4. PanelTypeOK'
  <2>1. pair' \in [GemmWarp -> [0 .. 1 -> {NoPanel} \cup Nat]]
    BY <1>0, <1>1, <1>2, <1>3 DEF PanelTypeOK
  <2>2. at' \in [GemmWarp -> Locations]
    BY <1>0, <1>3 DEF PanelTypeOK, Locations
  <2>3. QED
    BY <1>0, <1>3, <2>1, <2>2 DEF PanelTypeOK, launchVars
<1>5. \A v \in GemmWarp \ {w} : SameFor(v)
  BY <1>0, <1>3 DEF SameFor, PanelTypeOK
<1>6. at'[w] = "stage" /\ pair'[w][Half(step[w])] = step[w]
  BY <1>0, <1>2, <1>3 DEF PanelTypeOK
<1>7. InLoop(w)' /\ Passed(w)' = Passed(w)
  BY <1>0, <1>1, <1>3, <1>6 DEF SlotShare, InLoop, LocationsOf, launchVars, Passed
<1>8. RingShare(w)'
  BY <1>0, <1>1, <1>3, <1>6 DEF SlotShare, RingShare, Issued, Least, launchVars, Slot
<1>9. PairShare(w)' /\ FragShare(w)'
  BY <1>0, <1>1, <1>3, <1>6 DEF SlotShare, PairShare, FragShare, launchVars, Half
<1>10. QED
  BY <1>3, <1>4, <1>5, <1>7, <1>8, <1>9 DEF Own, SlotShare

LEMMA StageAheadOwn ==
  ASSUME GemmInv, NEW w \in GemmWarp, StageAhead(w)
  PROVE  Own(w)
<1> USE DEF GemmInv
<1> DEFINE p == step[w] + stages - 1  next == IF kernel = "pipe" THEN "feed" ELSE "regroup"
<1>0. PanelTypeOK /\ SlotShare(w) /\ at[w] = "stage"
  BY DEF StageAhead
<1>1. /\ kernel \in {"pipe", "raw"} /\ stages \in Nat /\ stages > 1 /\ panels \in Nat
      /\ step[w] < panels /\ step[w] \in Nat
  BY <1>0, LaunchType DEF SlotShare, InLoop, LocationsOf, PanelTypeOK
<1>2. committed[w] = Least(panels, p) /\ complete[w] \in Nat /\ complete[w] > step[w]
      /\ complete[w] <= committed[w]
  BY <1>0, <1>1 DEF SlotShare, RingShare, Issued, PanelTypeOK
<1>3. /\ at' = [at EXCEPT ![w] = next]
      /\ UNCHANGED <<launchVars, step, complete, pair, frag, acc>>
      /\ p < panels => /\ ring' = [ring EXCEPT ![w][Slot(p)] = p]
                       /\ committed' = [committed EXCEPT ![w] = p + 1]
      /\ p >= panels => ring' = ring /\ committed' = committed
  <2>1. at' = [at EXCEPT ![w] = next]
    BY <1>0, <1>1, Routes DEF StageAhead, GoOn
  <2>2. UNCHANGED <<launchVars, step, complete, pair, frag, acc>>
    BY DEF StageAhead
  <2>3. ASSUME p < panels
        PROVE  /\ ring' = [ring EXCEPT ![w][Slot(p)] = p]
               /\ committed' = [committed EXCEPT ![w] = committed[w] + 1]
    BY <2>3 DEF StageAhead
  <2>4. p < panels => committed[w] = p
    BY <1>1, <1>2 DEF Least
  <2>5. ASSUME p >= panels PROVE ring' = ring /\ committed' = committed
    BY <1>1, <2>5 DEF StageAhead
  <2>6. QED
    BY <2>1, <2>2, <2>3, <2>4, <2>5
<1>4. p \in Nat /\ Slot(p) \in 0 .. stages - 1 /\ next \in {"feed", "regroup"}
  BY <1>0, <1>1, SlotsAndHalves
<1>41. ASSUME p < panels
       PROVE  /\ ring' \in [GemmWarp -> [0 .. stages - 1 -> {NoPanel} \cup Nat]]
              /\ ring'[w][Slot(p)] = p
              /\ \A s \in 0 .. stages - 1 : s # Slot(p) => ring'[w][s] = ring[w][s]
              /\ \A v \in GemmWarp \ {w} : ring'[v] = ring[v]
  <2> HIDE DEF p
  <2>1. ring \in [GemmWarp -> [0 .. stages - 1 -> {NoPanel} \cup Nat]]
        /\ ring' = [ring EXCEPT ![w][Slot(p)] = p] /\ p \in {NoPanel} \cup Nat
    BY <1>0, <1>3, <1>4, <1>41 DEF PanelTypeOK
  <2> DEFINE d == Slot(p)  D == 0 .. stages - 1  V == {NoPanel} \cup Nat
  <2>2. ring \in [GemmWarp -> [D -> V]] /\ d \in D /\ p \in V
        /\ ring' = [ring EXCEPT ![w][d] = p]
    BY <1>4, <2>1
  <2> HIDE DEF d, D, V
  <2>3. /\ ring' \in [GemmWarp -> [D -> V]]
        /\ ring'[w][d] = p
        /\ \A s \in D \ {d} : ring'[w][s] = ring[w][s]
        /\ \A v \in GemmWarp \ {w} : ring'[v] = ring[v]
    BY <2>2, StoreCell
  <2>4. QED
    BY <2>3 DEF d, D, V
<1>42. committed'[w] = Least(panels, p + 1) /\ committed' \in [GemmWarp -> 0 .. panels]
       /\ \A v \in GemmWarp \ {w} : committed'[v] = committed[v]
  <2> HIDE DEF p
  <2>1. committed \in [GemmWarp -> 0 .. panels]
    BY <1>0 DEF PanelTypeOK
  <2>2. CASE p < panels
    <3>1. p + 1 \in 0 .. panels /\ Least(panels, p + 1) = p + 1
      BY <1>1, <1>4, <2>2 DEF Least
    <3>2. QED
      BY <1>3, <2>1, <2>2, <3>1
  <2>3. CASE p >= panels
    <3>1. Least(panels, p + 1) = panels /\ Least(panels, p) = panels
      BY <1>1, <1>4, <2>3 DEF Least
    <3>2. QED
      BY <1>2, <1>3, <2>1, <2>3, <3>1
  <2>4. QED
    BY <1>1, <1>4, <2>2, <2>3
<1>40. p = step[w] + stages - 1 /\ next = IF kernel = "pipe" THEN "feed" ELSE "regroup"
  OBVIOUS
<1> HIDE DEF p, next
<1>5. at'[w] = next /\ committed'[w] = Least(panels, p + 1)
      /\ launchVars' = launchVars /\ step' = step /\ complete' = complete
  BY <1>0, <1>3, <1>42 DEF PanelTypeOK
<1>6. PanelTypeOK'
  <2>1. ring' \in [GemmWarp -> [0 .. stages - 1 -> {NoPanel} \cup Nat]]
    <3>1. CASE p < panels
      BY <1>41, <3>1
    <3>2. CASE p >= panels
      BY <1>0, <1>3, <3>2 DEF PanelTypeOK
    <3>3. QED
      BY <1>1, <1>4, <3>1, <3>2
  <2>2. committed' \in [GemmWarp -> 0 .. panels]
    BY <1>42
  <2>3. at' \in [GemmWarp -> Locations]
    BY <1>0, <1>3, <1>4 DEF PanelTypeOK, Locations, Barriers
  <2>4. QED
    BY <1>0, <1>3, <2>1, <2>2, <2>3 DEF PanelTypeOK, launchVars
<1>7. \A v \in GemmWarp \ {w} : SameFor(v)
  <2>1. \A v \in GemmWarp \ {w} : ring'[v] = ring[v]
    BY <1>1, <1>3, <1>4, <1>41
  <2>2. QED
    BY <1>0, <1>3, <1>42, <2>1 DEF SameFor, PanelTypeOK
<1>8. \A q \in Nat : q < committed'[w] /\ committed'[w] <= q + stages => ring'[w][Slot(q)] = q
  <2> SUFFICES ASSUME NEW q \in Nat, q < committed'[w], committed'[w] <= q + stages
               PROVE  ring'[w][Slot(q)] = q
    OBVIOUS
  <2>1. CASE p < panels /\ q = p
    BY <1>41, <2>1
  <2>2. CASE p < panels /\ q # p
    <3>1. q < committed[w] /\ committed[w] <= q + stages /\ q < p /\ p < q + stages
      BY <1>1, <1>2, <1>4, <1>40, <1>5, <2>2 DEF Least
    <3>2. Slot(q) # Slot(p)
      BY <1>0, <1>4, <3>1, SlotsAndHalves
    <3>3. ring[w][Slot(q)] = q
      BY <1>0, <3>1 DEF SlotShare, RingShare
    <3>4. QED
      BY <1>0, <1>41, <2>2, <3>2, <3>3, SlotsAndHalves
  <2>3. CASE p >= panels
    BY <1>0, <1>1, <1>2, <1>3, <2>3 DEF SlotShare, RingShare
  <2>4. QED
    BY <1>1, <1>4, <2>1, <2>2, <2>3
<1>9. InLoop(w)' /\ Passed(w)' = Passed(w)
  BY <1>0, <1>1, <1>40, <1>5 DEF SlotShare, InLoop, LocationsOf, launchVars, Passed
<1>10. RingShare(w)'
  <2>1. stages' = stages /\ panels' = panels /\ kernel' = kernel
    BY <1>5 DEF launchVars
  <2>2. (\A q \in Nat : q < committed[w] /\ committed[w] <= q + stages => ring[w][Slot(q)] = q)'
    BY <1>8, <2>1 DEF Slot
  <2>3. Issued(w)' = Least(panels, p + 1)
    BY <1>1, <1>4, <1>40, <1>5, <2>1 DEF Issued
  <2>4. QED
    BY <1>1, <1>2, <1>4, <1>40, <1>5, <2>2, <2>3 DEF RingShare, Least
<1>11. PairShare(w)' /\ FragShare(w)'
  BY <1>0, <1>1, <1>3, <1>40, <1>5 DEF SlotShare, PairShare, FragShare, launchVars, Half
<1>12. QED
  BY <1>5, <1>6, <1>7, <1>9, <1>10, <1>11 DEF Own, SlotShare

LEMMA FeedNextOwn ==
  ASSUME GemmInv, NEW w \in GemmWarp, FeedNext(w)
  PROVE  Own(w)
<1> USE DEF GemmInv
<1> DEFINE h == Half(step[w] + 1)
<1>0. PanelTypeOK /\ SlotShare(w) /\ at[w] = "feed"
  BY DEF FeedNext
<1>1. /\ kernel = "pipe" /\ stages \in Nat /\ stages > 1 /\ panels \in Nat
      /\ step[w] < panels /\ step[w] \in Nat
  BY <1>0, LaunchType DEF SlotShare, InLoop, LocationsOf, PanelTypeOK
<1>2. h \in 0 .. 1 /\ h # Half(step[w])
  BY <1>0, <1>1, SlotsAndHalves
<1>3. /\ at' = [at EXCEPT ![w] = "multiply"]
      /\ UNCHANGED <<launchVars, step, ring, committed, complete, frag, acc>>
      /\ step[w] + 1 < panels => pair' = [pair EXCEPT ![w][h] = step[w] + 1]
      /\ ~(step[w] + 1 < panels) => pair' = pair
  BY <1>0, <1>1, Routes DEF FeedNext, GoOn
<1>31. ASSUME step[w] + 1 < panels
       PROVE  /\ pair' \in [GemmWarp -> [0 .. 1 -> {NoPanel} \cup Nat]]
              /\ pair'[w][h] = step[w] + 1
              /\ \A c \in 0 .. 1 : c # h => pair'[w][c] = pair[w][c]
              /\ \A v \in GemmWarp \ {w} : pair'[v] = pair[v]
  <2> DEFINE e == step[w] + 1
  <2>1. pair \in [GemmWarp -> [0 .. 1 -> {NoPanel} \cup Nat]]
        /\ pair' = [pair EXCEPT ![w][h] = e] /\ e \in {NoPanel} \cup Nat
    BY <1>0, <1>1, <1>3, <1>31 DEF PanelTypeOK
  <2> HIDE DEF e, h
  <2>2. /\ pair' \in [GemmWarp -> [0 .. 1 -> {NoPanel} \cup Nat]]
        /\ pair'[w][h] = e
        /\ \A c \in (0 .. 1) \ {h} : pair'[w][c] = pair[w][c]
        /\ \A v \in GemmWarp \ {w} : pair'[v] = pair[v]
    BY <1>2, <2>1, StoreCell
  <2>3. QED
    BY <2>2 DEF e
<1>30. h = Half(step[w] + 1)
  OBVIOUS
<1> HIDE DEF h
<1>4. PanelTypeOK'
  <2>1. pair' \in [GemmWarp -> [0 .. 1 -> {NoPanel} \cup Nat]]
    <3>1. CASE step[w] + 1 < panels
      BY <1>31, <3>1
    <3>2. CASE ~(step[w] + 1 < panels)
      BY <1>0, <1>3, <3>2 DEF PanelTypeOK
    <3>3. QED
      BY <3>1, <3>2
  <2>2. at' \in [GemmWarp -> Locations]
    BY <1>0, <1>3 DEF PanelTypeOK, Locations
  <2>3. QED
    BY <1>0, <1>3, <2>1, <2>2 DEF PanelTypeOK, launchVars
<1>5. \A v \in GemmWarp \ {w} : SameFor(v)
  <2>1. \A v \in GemmWarp \ {w} : pair'[v] = pair[v]
    BY <1>3, <1>31
  <2>2. QED
    BY <1>0, <1>3, <2>1 DEF SameFor, PanelTypeOK
<1>6. /\ at'[w] = "multiply"
      /\ step[w] + 1 < panels => pair'[w][h] = step[w] + 1
      /\ pair'[w][Half(step[w])] = pair[w][Half(step[w])]
  <2>1. CASE step[w] + 1 < panels
    <3>1. Half(step[w]) \in 0 .. 1
      BY <1>0, <1>1, SlotsAndHalves
    <3>2. QED
      BY <1>0, <1>2, <1>3, <1>31, <2>1, <3>1 DEF PanelTypeOK
  <2>2. CASE ~(step[w] + 1 < panels)
    BY <1>0, <1>3, <2>2 DEF PanelTypeOK
  <2>3. QED
    BY <2>1, <2>2
<1>7. InLoop(w)' /\ Passed(w)' = Passed(w)
  BY <1>0, <1>1, <1>3, <1>6 DEF SlotShare, InLoop, LocationsOf, launchVars, Passed
<1>8. RingShare(w)'
  BY <1>0, <1>1, <1>3, <1>6 DEF SlotShare, RingShare, Issued, Least, launchVars, Slot
<1>9. PairShare(w)' /\ FragShare(w)'
  <2>1. pair[w][Half(step[w])] = step[w]
    BY <1>0, <1>1 DEF SlotShare, PairShare
  <2>2. QED
    BY <1>0, <1>1, <1>3, <1>30, <1>6, <2>1 DEF PairShare, FragShare, launchVars, Half
<1>10. QED
  BY <1>3, <1>4, <1>5, <1>7, <1>8, <1>9 DEF Own, SlotShare

LEMMA MultiplyOwn ==
  ASSUME GemmInv, NEW w \in GemmWarp, Multiply(w)
  PROVE  Own(w)
<1> USE DEF GemmInv
<1>0. PanelTypeOK /\ SlotShare(w) /\ at[w] = "multiply"
  BY DEF Multiply
<1>1. /\ kernel \in {"tiled", "pipe", "raw"} /\ stages \in Nat /\ panels \in Nat
      /\ (kernel # "tiled" => stages > 1) /\ step[w] < panels /\ step[w] \in Nat
      /\ PanelChunks \in Nat /\ chunks \in Int
  BY <1>0, LaunchType, PanelAssumption DEF SlotShare, InLoop, PanelTypeOK
<1>2. UNCHANGED <<launchVars, ring, committed, complete, pair>>
  BY DEF Multiply
<1>3. acc' \in [GemmWarp -> Int]
  <2> DEFINE e == IF OperandsInPlace(w) /\ acc[w] # Wrong THEN acc[w] + ChunksOf(step[w]) ELSE Wrong
  <2>1. ChunksOf(step[w]) \in Int
    BY <1>1 DEF ChunksOf
  <2>2. e \in Int
    BY <1>0, <2>1 DEF PanelTypeOK, Wrong
  <2>3. acc' = acc \/ acc' = [acc EXCEPT ![w] = e]
    BY DEF Multiply
  <2> HIDE DEF e
  <2>4. QED
    BY <1>0, <2>2, <2>3 DEF PanelTypeOK
<1>4. /\ kernel = "raw" /\ w \in active /\ step[w] + 1 < panels =>
           frag' = [frag EXCEPT ![w] = step[w] + 1]
      /\ ~(kernel = "raw" /\ w \in active /\ step[w] + 1 < panels) => frag' = frag
  BY DEF Multiply
<1>5. /\ frag' \in [GemmWarp -> {NoPanel} \cup Nat]
      /\ \A v \in GemmWarp \ {w} : frag'[v] = frag[v]
      /\ kernel = "raw" /\ w \in active /\ step[w] + 1 < panels => frag'[w] = step[w] + 1
  BY <1>0, <1>1, <1>4 DEF PanelTypeOK
<1>6. CASE kernel = "tiled"
  <2>1. at' = [at EXCEPT ![w] = "regroup"] /\ step' = step
    BY <1>0, <1>6, Routes DEF Multiply, GoOn
  <2>2. PanelTypeOK'
    BY <1>0, <1>2, <1>3, <1>5, <2>1 DEF PanelTypeOK, Locations, Barriers, launchVars
  <2>3. \A v \in GemmWarp \ {w} : SameFor(v)
    BY <1>0, <1>2, <1>5, <2>1 DEF SameFor, PanelTypeOK
  <2>4. at'[w] = "regroup"
    BY <1>0, <2>1 DEF PanelTypeOK
  <2>5. SlotShare(w)' /\ Passed(w)' = Passed(w)
    BY <1>0, <1>2, <1>6, <2>1, <2>4
       DEF SlotShare, InLoop, LocationsOf, RingShare, Issued, PairShare, FragShare, Passed,
           launchVars, Slot, Half
  <2>6. QED
    BY <1>2, <2>2, <2>3, <2>5 DEF Own
<1>7. CASE kernel # "tiled"
  <2> DEFINE next == IF step[w] + 1 < panels THEN "wait" ELSE "done"
  <2>1. at' = [at EXCEPT ![w] = next] /\ step' = [step EXCEPT ![w] = step[w] + 1]
    BY <1>7 DEF Multiply, LoopTo, StepStart
  <2>2. next \in {"wait", "done"} /\ step[w] + 1 \in 0 .. panels
    BY <1>1
  <2>3. PanelTypeOK'
    BY <1>0, <1>2, <1>3, <1>5, <2>1, <2>2 DEF PanelTypeOK, Locations, launchVars
  <2>4. \A v \in GemmWarp \ {w} : SameFor(v)
    BY <1>0, <1>2, <1>5, <2>1 DEF SameFor, PanelTypeOK
  <2>5. at'[w] = next /\ step'[w] = step[w] + 1
    BY <1>0, <2>1 DEF PanelTypeOK
  <2>6. stages' = stages /\ panels' = panels /\ kernel' = kernel /\ active' = active
        /\ ring' = ring /\ committed' = committed /\ complete' = complete /\ pair' = pair
    BY <1>2 DEF launchVars
  <2>7. SlotShare(w) /\ committed[w] \in Nat /\ complete[w] \in Nat
    BY <1>0 DEF PanelTypeOK
  <2>8. InLoop(w)'
    BY <1>1, <1>7, <2>2, <2>5, <2>6 DEF InLoop, LocationsOf
  <2>9. Passed(w)' = Passed(w)
    BY <1>0, <1>1, <1>7, <2>2, <2>5, <2>6 DEF Passed
  <2>10. RingShare(w)'
    <3>1. Issued(w)' = Issued(w)
      BY <1>0, <1>1, <1>7, <2>2, <2>5, <2>6 DEF Issued, Least
    <3>2. (\A p \in Nat : p < committed[w] /\ committed[w] <= p + stages => ring[w][Slot(p)] = p)'
      BY <2>6, <2>7 DEF SlotShare, RingShare, Slot
    <3>3. complete[w] > step[w]
      BY <1>0, <2>7 DEF SlotShare, RingShare
    <3>4. QED
      BY <1>1, <2>2, <2>5, <2>6, <2>7, <3>1, <3>2, <3>3 DEF RingShare, SlotShare
  <2>11. PairShare(w)'
    <3>1. pair[w][Half(step[w])] = step[w] /\ step[w] + 1 - 1 = step[w]
      BY <1>0, <1>1, <1>7 DEF SlotShare, PairShare
    <3>2. kernel = "pipe" /\ step[w] + 1 < panels => pair[w][Half(step[w] + 1)] = step[w] + 1
      BY <1>0 DEF SlotShare, PairShare
    <3>3. QED
      BY <1>1, <1>7, <2>2, <2>5, <2>6, <3>1, <3>2 DEF PairShare, Half
  <2>12. FragShare(w)'
    BY <1>5, <2>5, <2>6 DEF FragShare
  <2>13. QED
    BY <1>2, <2>3, <2>4, <2>8, <2>9, <2>10, <2>11, <2>12 DEF Own, SlotShare
<1>8. QED
  BY <1>6, <1>7

LEMMA StepInv ==
  ASSUME GemmInv, NEW w \in GemmWarp, GemmStep(w)
  PROVE  GemmInv'
<1>1. Own(w)
  BY PrologueOwn, FillOwn, WaitOwn, DequantizeOwn, StageAheadOwn, FeedNextOwn, MultiplyOwn
     DEF GemmStep
<1>2. \A v \in GemmWarp : SlotShare(v)' /\ Passed(v)' = Passed(v)
  BY <1>1, OthersKeep DEF Own
<1>3. Together'
  BY <1>2 DEF GemmInv, Together
<1>4. QED
  BY <1>1, <1>2, <1>3 DEF GemmInv, Own, launchVars

-----------------------------------------------------------------------------
(* A barrier, and the start. *)

LEMMA SynchronizeInv ==
  ASSUME GemmInv, Synchronize
  PROVE  GemmInv'
<1> USE DEF GemmInv
<1>0. PICK b \in Barriers :
        /\ \A w \in GemmWarp : at[w] = b
        /\ IF kernel = "tiled" /\ b = "regroup"
             THEN /\ at' = [w \in GemmWarp |-> LoopTo(w)]
                  /\ step' = [w \in GemmWarp |-> step[w] + 1]
             ELSE /\ at' = [w \in GemmWarp |-> Route[kernel][b]]
                  /\ UNCHANGED step
        /\ UNCHANGED <<launchVars, ring, committed, complete, pair, frag, acc>>
  BY DEF Synchronize
<1>1. /\ kernel \in {"tiled", "pipe", "raw"} /\ stages \in Nat /\ panels \in Nat
      /\ (kernel = "tiled" => stages = 1) /\ (kernel # "tiled" => stages > 1)
  BY LaunchType
<1>2. stages' = stages /\ panels' = panels /\ kernel' = kernel /\ active' = active
      /\ chunks' = chunks /\ ring' = ring /\ committed' = committed
      /\ complete' = complete /\ pair' = pair /\ frag' = frag /\ acc' = acc
  BY <1>0 DEF launchVars
<1>3. \A w \in GemmWarp : /\ SlotShare(w) /\ step[w] \in Nat /\ step[w] < panels
                          /\ committed[w] \in Nat /\ complete[w] \in Nat
                          /\ at[w] = b /\ b \in LocationsOf(kernel)
  BY <1>0 DEF SlotShare, InLoop, PanelTypeOK, Barriers
<1>4. CASE kernel = "tiled" /\ b = "regroup"
  <2>1. \A w \in GemmWarp : /\ step'[w] = step[w] + 1 /\ step[w] + 1 \in 0 .. panels
                            /\ at'[w] \in {"fill", "done"}
                            /\ at'[w] = "done" <=> step[w] + 1 = panels
    BY <1>0, <1>1, <1>3, <1>4 DEF LoopTo, StepStart
  <2>2. PanelTypeOK'
    BY <1>0, <1>2, <1>4, <2>1 DEF PanelTypeOK, Locations, LoopTo, StepStart
  <2>3. \A w \in GemmWarp : Passed(w) = 2 * step[w] + 1 /\ Passed(w)' = 2 * (step[w] + 1)
    BY <1>2, <1>3, <1>4, <2>1 DEF Passed
  <2>4. Together'
    <3> SUFFICES ASSUME NEW v \in GemmWarp, NEW w \in GemmWarp
                 PROVE  Passed(v)' = Passed(w)'
      BY DEF Together
    <3>1. Passed(v) = Passed(w)
      BY DEF Together
    <3>2. /\ Passed(v) = 2 * step[v] + 1 /\ Passed(v)' = 2 * (step[v] + 1)
          /\ Passed(w) = 2 * step[w] + 1 /\ Passed(w)' = 2 * (step[w] + 1)
      BY <2>3
    <3>3. step[v] \in Nat /\ step[w] \in Nat
      BY <1>3
    <3>4. step[v] = step[w]
      <4>1. 2 * step[v] + 1 = 2 * step[w] + 1
        BY <3>1, <3>2, Zenon
      <4>2. \A x, y \in Nat : 2 * x + 1 = 2 * y + 1 => x = y
        OBVIOUS
      <4>3. QED
        BY ONLY <3>3, <4>1, <4>2, Zenon
    <3>5. QED
      BY <3>2, <3>4
  <2>5. ASSUME NEW w \in GemmWarp PROVE SlotShare(w)'
    <3>1. InLoop(w)'
      BY <1>1, <1>2, <1>3, <1>4, <2>1 DEF InLoop, LocationsOf
    <3>2. RingShare(w)'
      BY <1>1, <1>2, <1>3, <1>4, <2>1 DEF SlotShare, RingShare, Issued, Slot
    <3>3. PairShare(w)' /\ FragShare(w)'
      BY <1>2, <1>4, <2>1 DEF PairShare, FragShare
    <3>4. QED
      BY <3>1, <3>2, <3>3 DEF SlotShare
  <2>6. QED
    BY <1>2, <2>2, <2>4, <2>5
<1>5. CASE ~(kernel = "tiled" /\ b = "regroup")
  <2> DEFINE l == IF kernel = "pipe" THEN "stage"
                  ELSE IF kernel = "raw" /\ b = "arrive" THEN "dequant" ELSE "multiply"
  <2>1. CASE GemmWarp = {}
    BY <1>0, <1>1, <1>2, <1>5, <2>1 DEF PanelTypeOK, Together
  <2>2. CASE GemmWarp # {}
    <3>1. b \in {"arrive", "regroup"} /\ b \in LocationsOf(kernel)
      BY <1>3, <2>2 DEF Barriers
    <3>2. Route[kernel][b] = l
      <4>1. CASE kernel = "tiled"
        BY <1>5, <3>1, <4>1, Routes
      <4>2. CASE kernel = "pipe"
        BY <3>1, <4>2, Routes DEF LocationsOf
      <4>3. CASE kernel = "raw"
        BY <3>1, <4>3, Routes
      <4>4. QED
        BY <1>1, <4>1, <4>2, <4>3
    <3>3. at' = [w \in GemmWarp |-> l] /\ step' = step
      BY <1>0, <1>5, <3>2
    <3>4. l \in {"stage", "dequant", "multiply"}
      OBVIOUS
    <3>5. PanelTypeOK'
      BY <1>2, <3>3, <3>4 DEF PanelTypeOK, Locations
    <3>6. \A w \in GemmWarp : Passed(w)' = Passed(w) + 1
      BY <1>1, <1>2, <1>3, <1>5, <3>1, <3>3 DEF Passed, LocationsOf
    <3>7. Together'
      BY <3>6 DEF Together
    <3>8. ASSUME NEW w \in GemmWarp PROVE SlotShare(w)'
      <4>0. at'[w] = l /\ step'[w] = step[w] /\ at[w] = b /\ SlotShare(w)
        BY <1>3, <3>3
      <4>1. InLoop(w)'
        BY <1>1, <1>2, <1>3, <1>5, <3>1, <4>0 DEF InLoop, LocationsOf
      <4>2. RingShare(w)'
        <5>1. Issued(w)' = Issued(w)
          BY <1>1, <1>2, <1>5, <3>1, <4>0 DEF Issued, LocationsOf, Least
        <5>2. (\A p \in Nat : p < committed[w] /\ committed[w] <= p + stages
                                => ring[w][Slot(p)] = p)'
          BY <1>2, <4>0 DEF SlotShare, RingShare, Slot
        <5>3. QED
          BY <1>2, <3>1, <4>0, <5>1, <5>2 DEF SlotShare, RingShare
      <4>3. PairShare(w)'
        BY <1>1, <1>2, <1>5, <3>1, <4>0 DEF SlotShare, PairShare, Half, LocationsOf
      <4>4. FragShare(w)'
        BY <1>2, <3>1, <4>0 DEF SlotShare, FragShare
      <4>5. QED
        BY <4>1, <4>2, <4>3, <4>4 DEF SlotShare
    <3>9. QED
      BY <1>2, <3>5, <3>7, <3>8
  <2>3. QED
    BY <2>1, <2>2
<1>6. QED
  BY <1>4, <1>5

LEMMA GemmInitInv == GemmInit => GemmInv
<1> SUFFICES ASSUME GemmInit PROVE GemmInv
  OBVIOUS
<1>1. PICK l \in Launches : kernel = l.kernel /\ stages = l.stages
  BY DEF GemmInit
<1>2. /\ kernel \in {"tiled", "pipe", "raw"} /\ stages \in Nat
      /\ (kernel = "tiled" => stages = 1) /\ (kernel # "tiled" => stages > 1)
  BY <1>1, PanelAssumption
<1>3. chunks \in Nat \ {0} /\ panels \in Nat \ {0}
  BY PanelAssumption, PanelsPositive DEF GemmInit
<1>4. PanelTypeOK
  <2>1. [kernel |-> kernel, stages |-> stages] \in Launches
    BY <1>1, PanelAssumption
  <2>2. QED
    BY <1>1, <1>2, <1>3, <2>1 DEF PanelTypeOK, GemmInit, Locations, NoPanel
<1>5. Together
  BY <1>2 DEF Together, Passed, GemmInit
<1>6. ASSUME NEW w \in GemmWarp PROVE SlotShare(w)
  <2>1. /\ at[w] = (IF kernel = "tiled" THEN "fill" ELSE "prologue")
        /\ step[w] = 0 /\ committed[w] = 0 /\ complete[w] = 0
    BY DEF GemmInit
  <2>2. InLoop(w) /\ PairShare(w) /\ FragShare(w)
    BY <1>2, <1>3, <2>1 DEF InLoop, LocationsOf, PairShare, FragShare
  <2>3. RingShare(w)
    BY <1>2, <1>3, <2>1 DEF RingShare, Issued
  <2>4. QED
    BY <2>2, <2>3 DEF SlotShare
<1>7. QED
  BY <1>3, <1>4, <1>5, <1>6 DEF GemmInv

LEMMA NextInv == GemmInv /\ [GemmNext]_gemmVars => GemmInv'
<1>1. ASSUME GemmInv, UNCHANGED gemmVars PROVE GemmInv'
  <2>1. \A v \in GemmWarp : SameFor(v)
    BY <1>1 DEF gemmVars, SameFor
  <2>2. \A v \in GemmWarp : SlotShare(v)' /\ Passed(v)' = Passed(v)
    BY <1>1, <2>1, OthersKeep DEF gemmVars
  <2>3. PanelTypeOK'
    BY <1>1 DEF GemmInv, PanelTypeOK, gemmVars, launchVars
  <2>4. QED
    BY <1>1, <2>2, <2>3 DEF GemmInv, Together, gemmVars, launchVars
<1>2. QED
  BY <1>1, StepInv, SynchronizeInv DEF GemmNext

-----------------------------------------------------------------------------
\* The types of the variables, for any launch.
THEOREM PanelTypeCorrect == GemmSpec => []PanelTypeOK
<1>1. GemmInv => PanelTypeOK
  BY DEF GemmInv
<1>2. QED
  BY <1>1, GemmInitInv, NextInv, PTL DEF GemmSpec

\* No warp of matmul_t_bf16_tc_pipe_kernel, matmul_t_split_bf16_tc_kernel,
\* moe_gemm_int4_tc_pipe_kernel or a tiled kernel reads a slot that another has
\* overwritten or not yet filled, for any number of warps, stages and panels.
THEOREM ReadsAreSafe == GemmSpec => []ReadsItsPanel
<1>1. QED
  BY InvReads, GemmInitInv, NextInv, PTL DEF GemmSpec

\* The warps of a block never part at a barrier.
THEOREM BarriersAreSafe == GemmSpec => []BarriersMatch
<1>1. QED
  BY InvBarriers, GemmInitInv, NextInv, PTL DEF GemmSpec

-----------------------------------------------------------------------------
(* The sum of an active warp. *)

\* Chunks in the first n panels, and the panels warp w has multiplied.
SumOf(n) == Least(n * PanelChunks, chunks)
Multiplied(w) == step[w] + (IF kernel = "tiled" /\ at[w] = "regroup" THEN 1 ELSE 0)

SumInv ==
  /\ panels = PanelsOf(chunks) /\ chunks \in Nat \ {0}
  /\ \A w \in active : acc[w] = SumOf(Multiplied(w))

\* The panels cover the row, and each has a chunk of it.
LEMMA PanelsCover ==
  ASSUME chunks \in Nat \ {0}, panels = PanelsOf(chunks)
  PROVE  /\ panels * PanelChunks >= chunks
         /\ \A p \in Nat : p < panels => p * PanelChunks < chunks
<1> DEFINE n == chunks + PanelChunks - 1
<1>1. n \in Nat /\ PanelChunks \in Nat \ {0}
  BY PanelAssumption
<1>2. /\ n = (n \div PanelChunks) * PanelChunks + (n % PanelChunks)
      /\ (n % PanelChunks) \in 0 .. PanelChunks - 1 /\ (n \div PanelChunks) \in Nat
  BY <1>1
<1>3. panels = n \div PanelChunks
  BY DEF PanelsOf
<1>4. panels * PanelChunks \in Nat /\ panels \in Nat
      /\ panels * PanelChunks >= n - PanelChunks + 1 /\ panels * PanelChunks <= n
  BY <1>1, <1>2, <1>3
<1>5. ASSUME NEW p \in Nat, p < panels  PROVE p * PanelChunks < chunks
  <2>1. (panels - p - 1) * PanelChunks >= 0
    BY <1>1, <1>4, <1>5
  <2>2. (panels - p - 1) * PanelChunks = panels * PanelChunks - p * PanelChunks - PanelChunks
    BY <1>1, <1>4
  <2>3. p * PanelChunks \in Nat
    BY <1>1
  <2> HIDE DEF n
  <2>4. p * PanelChunks + PanelChunks <= n
    BY <1>1, <1>4, <2>1, <2>2, <2>3
  <2> QED
    BY <1>1, <2>3, <2>4 DEF n
<1> QED
  BY <1>1, <1>4, <1>5

\* One panel more; with the last, the whole row.
LEMMA SumGrows ==
  ASSUME chunks \in Nat \ {0}, panels = PanelsOf(chunks)
  PROVE  /\ SumOf(0) = 0 /\ SumOf(panels) = chunks
         /\ \A p \in Nat : p < panels =>
              SumOf(p) # Wrong /\ SumOf(p + 1) = SumOf(p) + ChunksOf(p)
<1>1. PanelChunks \in Nat \ {0} /\ panels \in Nat
  BY PanelAssumption, PanelsPositive
<1>2. SumOf(0) = 0 /\ SumOf(panels) = chunks
  <2>1. 0 * PanelChunks = 0 /\ panels * PanelChunks \in Nat /\ panels * PanelChunks >= chunks
    BY <1>1, PanelsCover
  <2> QED
    BY <2>1 DEF SumOf, Least
<1>3. ASSUME NEW p \in Nat, p < panels
      PROVE  SumOf(p) # Wrong /\ SumOf(p + 1) = SumOf(p) + ChunksOf(p)
  <2> DEFINE m == p * PanelChunks
  <2>1. m \in Nat /\ m < chunks
    BY <1>1, <1>3, PanelsCover
  <2>2. (p + 1) * PanelChunks = m + PanelChunks
    BY <1>1
  <2>3. SumOf(p) = m
    BY <2>1 DEF SumOf, Least
  <2>4. SumOf(p + 1) = IF m + PanelChunks < chunks THEN m + PanelChunks ELSE chunks
    BY <2>2 DEF SumOf, Least
  <2>5. ChunksOf(p) = IF chunks - m < PanelChunks THEN chunks - m ELSE PanelChunks
    BY DEF ChunksOf
  <2> HIDE DEF m
  <2> QED
    BY <1>1, <2>1, <2>3, <2>4, <2>5 DEF Wrong
<1> QED
  BY <1>2, <1>3

LEMMA SumInitInv == GemmInit => SumInv
<1> SUFFICES ASSUME GemmInit PROVE SumInv
  OBVIOUS
<1>1. chunks \in Nat \ {0} /\ panels = PanelsOf(chunks) /\ active \subseteq GemmWarp
  BY PanelAssumption DEF GemmInit
<1>2. \A w \in active : acc[w] = 0 /\ Multiplied(w) = 0
  BY <1>1 DEF GemmInit, Multiplied
<1> QED
  BY <1>1, <1>2, SumGrows DEF SumInv

LEMMA SumStepInv ==
  ASSUME GemmInv, SumInv, NEW w \in GemmWarp, GemmStep(w)
  PROVE  SumInv'
<1>1. /\ PanelTypeOK /\ panels' = panels /\ chunks' = chunks /\ active' = active
      /\ kernel' = kernel
      /\ \A v \in GemmWarp \ {w} : at'[v] = at[v] /\ step'[v] = step[v]
  <2>1. Own(w)
    BY PrologueOwn, FillOwn, WaitOwn, DequantizeOwn, StageAheadOwn, FeedNextOwn, MultiplyOwn
       DEF GemmStep
  <2> QED
    BY <2>1 DEF GemmInv, Own, SameFor, launchVars
<1>2. /\ acc \in [GemmWarp -> Int] /\ step \in [GemmWarp -> 0 .. panels] /\ panels \in Nat
      /\ at \in [GemmWarp -> Locations] /\ active \subseteq GemmWarp
      /\ at[w] \in LocationsOf(kernel) /\ kernel \in {"tiled", "pipe", "raw"}
  BY <1>1, LaunchType DEF PanelTypeOK, GemmInv, SlotShare, InLoop
<1>3. \A v \in GemmWarp \ {w} : Multiplied(v)' = Multiplied(v)
  BY <1>1 DEF Multiplied
<1>4. \A n : SumOf(n)' = SumOf(n)
  BY <1>1 DEF SumOf, Least
<1>5. CASE Multiply(w)
  <2>1. \A v \in GemmWarp \ {w} : acc'[v] = acc[v]
    BY <1>2, <1>5 DEF Multiply
  <2>2. ASSUME w \in active  PROVE acc'[w] = SumOf(Multiplied(w)')
    <3>1. at[w] = "multiply" /\ OperandsInPlace(w) /\ step[w] < panels /\ step[w] \in Nat
      BY <1>2, <1>5, <2>2, InvReads DEF Multiply, ReadsItsPanel, GemmInv, SlotShare, InLoop
    <3>2. Multiplied(w) = step[w] /\ acc[w] = SumOf(step[w])
      BY <2>2, <3>1 DEF Multiplied, SumInv
    <3>3. acc[w] # Wrong /\ SumOf(step[w] + 1) = SumOf(step[w]) + ChunksOf(step[w])
      BY <3>1, <3>2, SumGrows DEF SumInv
    <3>4. acc' = [acc EXCEPT ![w] = acc[w] + ChunksOf(step[w])]
      BY <1>5, <2>2, <3>1, <3>3 DEF Multiply
    <3>5. acc'[w] = SumOf(step[w] + 1)
      BY <1>2, <3>2, <3>3, <3>4
    <3>6. Multiplied(w)' = step[w] + 1
      <4>1. CASE kernel = "tiled"
        <5>1. at' = [at EXCEPT ![w] = "regroup"] /\ step' = step
          BY <1>5, <3>1, <4>1, Routes DEF Multiply, GoOn
        <5> QED
          BY <1>1, <1>2, <4>1, <5>1 DEF Multiplied
      <4>2. CASE kernel # "tiled"
        <5>1. step' = [step EXCEPT ![w] = step[w] + 1]
          BY <1>5, <4>2 DEF Multiply
        <5>2. step'[w] = step[w] + 1
          BY <1>2, <5>1
        <5> QED
          BY <1>1, <3>1, <4>2, <5>2 DEF Multiplied
      <4> QED
        BY <4>1, <4>2
    <3> QED
      BY <3>5, <3>6
  <2> QED
    BY <1>1, <1>2, <1>3, <1>4, <2>1, <2>2 DEF SumInv
<1>6. CASE ~ Multiply(w)
  <2>1. acc' = acc /\ step' = step /\ (kernel = "tiled" => Fill(w))
    BY <1>2, <1>6 DEF GemmStep, Prologue, Fill, Wait, Dequantize, StageAhead, FeedNext,
         LocationsOf
  <2>2. Multiplied(w)' = Multiplied(w)
    <3>1. CASE kernel = "tiled"
      <4>1. at[w] = "fill" /\ at' = [at EXCEPT ![w] = "arrive"]
        BY <2>1, <3>1, Routes DEF Fill, GoOn
      <4> QED
        BY <1>1, <1>2, <2>1, <4>1 DEF Multiplied
    <3>2. CASE kernel # "tiled"
      BY <1>1, <2>1, <3>2 DEF Multiplied
    <3> QED
      BY <3>1, <3>2
  <2> QED
    BY <1>1, <1>2, <1>3, <1>4, <2>1, <2>2 DEF SumInv
<1> QED
  BY <1>5, <1>6

LEMMA SumSyncInv ==
  ASSUME GemmInv, SumInv, Synchronize
  PROVE  SumInv'
<1>1. PICK b \in Barriers :
        /\ \A w \in GemmWarp : at[w] = b
        /\ IF kernel = "tiled" /\ b = "regroup"
             THEN /\ at' = [w \in GemmWarp |-> LoopTo(w)]
                  /\ step' = [w \in GemmWarp |-> step[w] + 1]
             ELSE /\ at' = [w \in GemmWarp |-> Route[kernel][b]]
                  /\ UNCHANGED step
        /\ UNCHANGED <<launchVars, ring, committed, complete, pair, frag, acc>>
  BY DEF Synchronize
<1>2. /\ panels' = panels /\ chunks' = chunks /\ active' = active
      /\ kernel' = kernel /\ acc' = acc
  BY <1>1 DEF launchVars
<1>3. /\ active \subseteq GemmWarp /\ \A w \in GemmWarp : step[w] \in Nat
      /\ kernel \in {"tiled", "pipe", "raw"}
  BY LaunchType DEF GemmInv, PanelTypeOK
<1>4. \A w \in GemmWarp : Multiplied(w)' = Multiplied(w)
  <2>1. CASE kernel = "tiled" /\ b = "regroup"
    BY <1>1, <1>2, <1>3, <2>1 DEF Multiplied, LoopTo, StepStart
  <2>2. CASE kernel = "tiled" /\ b # "regroup"
    <3>1. b = "arrive" /\ at' = [w \in GemmWarp |-> "multiply"] /\ step' = step
      BY <1>1, <2>2, Routes DEF Barriers
    <3> QED
      BY <1>1, <1>2, <2>2, <3>1 DEF Multiplied
  <2>3. CASE kernel # "tiled"
    BY <1>1, <1>2, <2>3 DEF Multiplied
  <2> QED
    BY <2>1, <2>2, <2>3
<1>5. \A n : SumOf(n)' = SumOf(n)
  BY <1>2 DEF SumOf, Least
<1> QED
  BY <1>2, <1>3, <1>4, <1>5 DEF SumInv

\* An active warp of a matrix product ends with the sum over the whole row, for
\* any number of warps, stages and chunks and any size of a panel.
THEOREM RowsSummedUp == GemmSpec => []SumsWholeRow
<1> DEFINE Inv == GemmInv /\ SumInv
<1>1. Inv /\ [GemmNext]_gemmVars => Inv'
  <2>1. ASSUME GemmInv, SumInv, UNCHANGED gemmVars  PROVE SumInv'
    BY <2>1 DEF SumInv, SumOf, Least, Multiplied, gemmVars, launchVars
  <2> QED
    BY <2>1, NextInv, SumStepInv, SumSyncInv DEF GemmNext
<1>2. Inv => SumsWholeRow
  <2> SUFFICES ASSUME GemmInv, SumInv, NEW w \in active, at[w] = "done"
               PROVE  acc[w] = chunks
    BY DEF SumsWholeRow
  <2>1. step[w] = panels /\ w \in GemmWarp /\ panels \in Nat
    BY DEF GemmInv, PanelTypeOK, SlotShare, InLoop
  <2>2. Multiplied(w) = panels
    BY <2>1 DEF Multiplied
  <2> QED
    BY <2>2, SumGrows DEF SumInv
<1>3. GemmInit => Inv
  BY GemmInitInv, SumInitInv
<1> QED
  BY <1>1, <1>2, <1>3, PTL DEF GemmSpec

-----------------------------------------------------------------------------
(* BlockKernels. *)

Ops == {"publish", "fold", "take", "factors", "combine", "store", "load", "select", "sync"}
Steps == [op : Ops, round : Int, array : Arrays \cup {""}, stride : Nat]

\* What is asked of a program, whatever its threads do.  A step that writes red
\* stands alone between two barriers.
Writes(st) == st.op \in {"publish", "fold", "factors"}
Fenced(p, i) ==
  /\ i > 1 => p[i - 1].op = "sync"
  /\ i < Len(p) => p[i + 1].op = "sync"

\* After the step at i the threads below w hold the row of round r between them.
Threads == TwoTo[Levels]
Width(st) == IF st.op = "publish" THEN Threads ELSE st.stride
Reduced(p, i, r, w) ==
  i > 0 /\ p[i].op \in {"publish", "fold"} /\ p[i].round = r /\ Width(p[i]) = w

RedStep(p, i) ==
  /\ Writes(p[i]) => Fenced(p, i)
  /\ p[i].op \in {"fold", "take", "factors", "combine"} => i > 2 /\ p[i - 1].op = "sync"
  /\ p[i].op = "fold" => /\ Reduced(p, i - 2, p[i].round, 2 * p[i].stride)
                         /\ p[i].stride > 0 /\ 2 * p[i].stride <= Threads
  /\ p[i].op \in {"take", "factors"} => Reduced(p, i - 2, p[i].round, 1)
  /\ p[i].op = "combine" => p[i - 2].op = "factors" /\ p[i - 2].round = p[i].round

\* What is read of another array was stored before a barrier, is not stored again
\* since, and not before the next one.
Reads(st) == st.op \in {"load", "select"}
ReadArray(st) == IF st.op = "select" THEN "probs" ELSE st.array
Stores(st, a) == st.op = "store" /\ st.array = a
Parted(p, i, j) == \E k \in i + 1 .. j - 1 : p[k].op = "sync"
LoadStep(p, i) ==
  Reads(p[i]) =>
    LET a == ReadArray(p[i])
    IN  /\ a \in Arrays
        /\ \E j \in 1 .. i - 1 :
             /\ Stores(p[j], a) /\ p[j].round = p[i].round /\ Parted(p, j, i)
             /\ \A k \in j + 1 .. i - 1 : ~Stores(p[k], a)
        /\ \A m \in i + 1 .. Len(p) : Stores(p[m], a) => Parted(p, i, m)

Fits(p) ==
  /\ p \in Seq(Steps)
  /\ \A i \in 1 .. Len(p) : RedStep(p, i) /\ LoadStep(p, i)
  /\ \A i \in 1 .. Len(p) : p[i].op = "store" => p[i].array \in Arrays

\* What the threads do.
Part(r, w, t) == {r} \X {c \in 0 .. cols - 1 : c % w = t}

BlockTypeOK ==
  /\ cols \in Nat \ {0}
  /\ Fits(program)
  /\ done \in [Thread -> 0 .. Len(program)]
  /\ DOMAIN red = Thread
  /\ shared \in [Arrays -> [Thread -> Int]]

\* No barrier lies between two threads.
Barred ==
  \A t, u \in Thread : \A i \in done[t] + 1 .. done[u] : program[i].op # "sync"

\* What a thread that has just written left in red, and what it finds there when
\* it is about to read.
Held(t) ==
  LET i == done[t]
  IN  i > 0 =>
        /\ Reduced(program, i, program[i].round, Width(program[i])) /\ t < Width(program[i]) =>
             red[t] = Part(program[i].round, Width(program[i]), t)
        /\ program[i].op = "fold" /\ program[i].stride <= t /\ t < 2 * program[i].stride =>
             red[t] = Part(program[i].round, 2 * program[i].stride, t)
        /\ program[i].op = "factors" /\ t = 0 => red[0] = Factors(program[i].round)
Wanted(t) ==
  LET i == done[t] + 1
  IN  i <= Len(program) =>
        /\ program[i].op = "fold" /\ t < 2 * program[i].stride =>
             red[t] = Part(program[i].round, 2 * program[i].stride, t)
        /\ program[i].op = "take" \/ (program[i].op = "factors" /\ t = 0) =>
             red[0] = Part(program[i].round, 1, 0)
        /\ program[i].op = "combine" => red[0] = Factors(program[i].round)

\* The last store of a thread is what the array holds of it.
Stored(a, v) ==
  \A j \in 1 .. done[v] :
    Stores(program[j], a) /\ (\A k \in j + 1 .. done[v] : ~Stores(program[k], a)) =>
      shared[a][v] = program[j].round

BlockInv ==
  /\ BlockTypeOK /\ Barred
  /\ \A t \in Thread : Held(t) /\ Wanted(t)
  /\ \A a \in Arrays, v \in Thread : Stored(a, v)

-----------------------------------------------------------------------------
\* Induction up to a bound, as a property of a set.
LEMMA InductionUpTo ==
  ASSUME NEW n \in Nat, NEW S, 0 \in S,
         \A i \in 0 .. n - 1 : i \in S => i + 1 \in S
  PROVE  0 .. n \subseteq S
<1> DEFINE R == {ss \in Nat \X Nat : ss[1] < ss[2]}
           T == (0 .. n) \ S
<1>1. IsWellFoundedOn(R, Nat)
  BY NatLessThanWellFounded DEF OpToRel
<1>2. SUFFICES ASSUME T # {}  PROVE FALSE
  OBVIOUS
<1>3. PICK x \in T : \A y \in T : <<y, x>> \notin R
  <2>1. T \subseteq Nat
    OBVIOUS
  <2> HIDE DEF R, T
  <2> QED
    BY <1>1, <1>2, <2>1, WFMin
<1>4. x # 0 /\ x \in 0 .. n
  OBVIOUS
<1>5. x - 1 \in 0 .. n - 1 /\ x - 1 \notin T
  <2>1. x - 1 \in 0 .. n - 1 /\ x \in Nat /\ x - 1 \in Nat
    BY <1>4
  <2>2. <<x - 1, x>> \in R
    BY <2>1
  <2> HIDE DEF R, T
  <2> QED
    BY <1>3, <2>1, <2>2
<1>6. x - 1 \in S
  BY <1>5
<1>7. (x - 1) + 1 \in S
  BY <1>5, <1>6
<1> QED
  BY <1>4, <1>7

\* TwoTo is what its definition says: a function that doubles exists.
Doubles(g, n) == g = [k \in 0 .. n |-> IF k = 0 THEN 1 ELSE 2 * g[k - 1]]

LEMMA DoublesValue ==
  ASSUME NEW n \in Nat, NEW g, Doubles(g, n)
  PROVE  g[0] = 1 /\ \A k \in 1 .. n : g[k] = 2 * g[k - 1]
<1> DEFINE h == [k \in 0 .. n |-> IF k = 0 THEN 1 ELSE 2 * g[k - 1]]
<1>1. h[0] = 1 /\ \A k \in 1 .. n : h[k] = 2 * g[k - 1]
  OBVIOUS
<1>2. g = h
  BY DEF Doubles
<1> HIDE DEF h
<1> QED
  BY <1>1, <1>2

LEMMA DoublesExists ==
  ASSUME NEW n \in Nat
  PROVE  \E g : Doubles(g, n)
<1> DEFINE P == {k \in Nat : \E g : Doubles(g, k)}
<1>1. 0 \in P
  <2>1. Doubles([i \in 0 .. 0 |-> 1], 0)
    BY DEF Doubles
  <2> QED
    BY <2>1
<1>2. \A k \in 0 .. n - 1 : k \in P => k + 1 \in P
  <2> SUFFICES ASSUME NEW k \in Nat, NEW g, Doubles(g, k)
               PROVE  \E h : Doubles(h, k + 1)
    OBVIOUS
  <2> DEFINE h == [i \in 0 .. k + 1 |-> IF i <= k THEN g[i] ELSE 2 * g[k]]
  <2>1. g[0] = 1 /\ \A i \in 1 .. k : g[i] = 2 * g[i - 1]
    BY DoublesValue
  <2>2. \A i \in 0 .. k : h[i] = g[i]
    OBVIOUS
  <2>3. \A i \in 0 .. k + 1 : h[i] = IF i = 0 THEN 1 ELSE 2 * h[i - 1]
    <3> TAKE i \in 0 .. k + 1
    <3>1. CASE i = 0
      BY <3>1, <2>1, <2>2
    <3>2. CASE i \in 1 .. k
      <4>1. i - 1 \in 0 .. k /\ i \in 0 .. k /\ i # 0
        BY <3>2
      <4> HIDE DEF h
      <4> QED
        BY <3>2, <4>1, <2>1, <2>2
    <3>3. CASE i = k + 1
      <4>1. h[i] = 2 * g[k] /\ h[i - 1] = g[k] /\ i # 0
        BY <3>3
      <4> HIDE DEF h
      <4> QED
        BY <4>1
    <3> QED
      BY <3>1, <3>2, <3>3
  <2>4. Doubles(h, k + 1)
    <3> HIDE DEF h
    <3>1. h = [i \in 0 .. k + 1 |-> h[i]]
      BY DEF h
    <3> QED
      BY <3>1, <2>3 DEF Doubles
  <2> QED
    BY <2>4
<1>3. 0 .. n \subseteq P
  <2> HIDE DEF P
  <2> QED
    BY <1>1, <1>2, InductionUpTo
<1> QED
  BY <1>3

LEMMA PowersOfTwo ==
  /\ TwoTo[0] = 1 /\ \A k \in 1 .. Levels : TwoTo[k] = 2 * TwoTo[k - 1]
  /\ \A k \in 0 .. Levels : TwoTo[k] \in Nat \ {0} /\ TwoTo[k] <= Threads
<1>0. Levels \in Nat
  BY BlockAssumption
<1>1. Doubles(TwoTo, Levels)
  <2>1. TwoTo = CHOOSE g : Doubles(g, Levels)
    BY Zenon DEF TwoTo, Doubles
  <2> QED
    BY <2>1, <1>0, DoublesExists
<1>2. TwoTo[0] = 1 /\ \A k \in 1 .. Levels : TwoTo[k] = 2 * TwoTo[k - 1]
  BY <1>0, <1>1, DoublesValue
<1> DEFINE P == {k \in 0 .. Levels : TwoTo[k] \in Nat \ {0}}
           Q == {k \in 0 .. Levels : TwoTo[Levels - k] <= Threads}
<1>3. 0 .. Levels \subseteq P
  <2>1. 0 \in P
    BY <1>0, <1>2
  <2>2. \A k \in 0 .. Levels - 1 : k \in P => k + 1 \in P
    <3> SUFFICES ASSUME NEW k \in 0 .. Levels - 1, TwoTo[k] \in Nat \ {0}
                 PROVE  TwoTo[k + 1] \in Nat \ {0}
      BY <1>0
    <3>1. k + 1 \in 1 .. Levels /\ (k + 1) - 1 = k
      BY <1>0
    <3> QED
      BY <3>1, <1>2
  <2> HIDE DEF P
  <2> QED
    BY <1>0, <2>1, <2>2, InductionUpTo
<1>4. 0 .. Levels \subseteq Q
  <2>1. 0 \in Q
    BY <1>0, <1>3 DEF Threads
  <2>2. \A k \in 0 .. Levels - 1 : k \in Q => k + 1 \in Q
    <3> SUFFICES ASSUME NEW k \in 0 .. Levels - 1, TwoTo[Levels - k] <= Threads
                 PROVE  TwoTo[Levels - (k + 1)] <= Threads
      BY <1>0
    <3>1. Levels - k \in 1 .. Levels /\ (Levels - k) - 1 = Levels - (k + 1)
          /\ Levels - (k + 1) \in 0 .. Levels /\ Levels \in 0 .. Levels
      BY <1>0
    <3>2. TwoTo[Levels - k] = 2 * TwoTo[Levels - (k + 1)]
      BY <3>1, <1>2
    <3>3. TwoTo[Levels - (k + 1)] \in Nat /\ Threads \in Nat
      BY <3>1, <1>3 DEF Threads
    <3> QED
      BY <3>2, <3>3
  <2> HIDE DEF Q
  <2> QED
    BY <1>0, <2>1, <2>2, InductionUpTo
<1>5. ASSUME NEW k \in 0 .. Levels PROVE TwoTo[k] <= Threads
  <2>1. Levels - k \in 0 .. Levels /\ Levels - (Levels - k) = k
    BY <1>0
  <2> QED
    BY <2>1, <1>4
<1> QED
  BY <1>2, <1>3, <1>5

LEMMA ThreadsPositive == Threads \in Nat \ {0} /\ Thread = 0 .. Threads - 1
BY PowersOfTwo, BlockAssumption DEF Threads, Thread

-----------------------------------------------------------------------------
(* Parts of a row. *)

LEMMA Division ==
  ASSUME NEW n \in Nat, NEW d \in Nat \ {0}
  PROVE  /\ n = (n \div d) * d + (n % d)
         /\ n \div d \in Nat /\ n % d \in 0 .. d - 1
<1>1. n = (n \div d) * d + (n % d)
  OBVIOUS
<1>2. n \div d \in Nat /\ n % d \in 0 .. d - 1
  OBVIOUS
<1> QED
  BY <1>1, <1>2

LEMMA DivideUnique ==
  ASSUME NEW p \in Int, NEW q \in Int, NEW d \in Nat \ {0},
         NEW r \in 0 .. d - 1, NEW s \in 0 .. d - 1,
         p * d + r = q * d + s
  PROVE  p = q /\ r = s
<1>1. CASE p < q
  <2>1. (q - p - 1) * d >= 0
    BY <1>1, SMT
  <2>2. (q - p - 1) * d = q * d - p * d - d
    BY SMT
  <2> QED
    BY <2>1, <2>2, SMT
<1>2. CASE q < p
  <2>1. (p - q - 1) * d >= 0
    BY <1>2, SMT
  <2>2. (p - q - 1) * d = p * d - q * d - d
    BY SMT
  <2> QED
    BY <2>1, <2>2, SMT
<1> QED
  BY <1>1, <1>2, SMT

\* The columns of a thread among w are those it and a second one have among 2 w.
LEMMA HalvesOfShare ==
  ASSUME NEW w \in Nat \ {0}, NEW t \in 0 .. w - 1, NEW c \in Nat
  PROVE  c % w = t <=> c % (2 * w) = t \/ c % (2 * w) = t + w
<1> DEFINE q == c \div (2 * w)  m == c % (2 * w)
<1>1. c = q * (2 * w) + m /\ q \in Nat /\ m \in 0 .. 2 * w - 1
  <2>1. 2 * w \in Nat \ {0}
    OBVIOUS
  <2> QED
    BY <2>1, Division
<1>2. c = (c \div w) * w + (c % w) /\ c \div w \in Nat /\ c % w \in 0 .. w - 1
  BY Division
<1>3. q * (2 * w) = (2 * q) * w
  BY <1>1
<1> HIDE DEF q, m
<1>4. CASE m < w
  <2>1. (2 * q) * w + m = (c \div w) * w + (c % w)
    BY <1>1, <1>2, <1>3
  <2>2. m = c % w
    BY <2>1, <1>1, <1>2, <1>4, DivideUnique
  <2> QED
    BY <2>2, <1>1, <1>4 DEF m
<1>5. CASE m >= w
  <2>1. (2 * q) * w + w = (2 * q + 1) * w
    BY <1>1
  <2>2. (2 * q + 1) * w + (m - w) = (c \div w) * w + (c % w)
    BY <1>1, <1>2, <1>3, <2>1
  <2>0. 2 * q + 1 \in Int /\ c \div w \in Int /\ m - w \in 0 .. w - 1
    BY <1>1, <1>2, <1>5
  <2>3. m - w = c % w
    <3> DEFINE a == 2 * q + 1  b == c \div w  x == m - w  y == c % w
    <3>1. a \in Int /\ b \in Int /\ x \in 0 .. w - 1 /\ y \in 0 .. w - 1
      BY <2>0, <1>2
    <3>2. a * w + x = b * w + y
      BY <2>2
    <3> HIDE DEF a, b, x, y
    <3>3. x = y
      BY <3>1, <3>2, DivideUnique
    <3> QED
      BY <3>3 DEF x, y
  <2> QED
    BY <2>3, <1>1, <1>5 DEF m
<1> QED
  BY <1>1, <1>4, <1>5

LEMMA SumOfHalves ==
  ASSUME cols \in Nat, NEW r, NEW w \in Nat \ {0}, NEW t \in 0 .. w - 1
  PROVE  Sum(Part(r, 2 * w, t), Part(r, 2 * w, t + w)) = Part(r, w, t)
<1>1. Part(r, 2 * w, t) \cap Part(r, 2 * w, t + w) = {}
  BY DEF Part
<1>2. ASSUME NEW c \in 0 .. cols - 1
      PROVE  c % w = t <=> c % (2 * w) = t \/ c % (2 * w) = t + w
  <2>1. c \in Nat
    OBVIOUS
  <2> QED
    BY <2>1, HalvesOfShare
<1>3. Part(r, 2 * w, t) \cup Part(r, 2 * w, t + w) = Part(r, w, t)
  BY <1>2 DEF Part
<1> QED
  BY <1>1, <1>3 DEF Sum

LEMMA WholeIsPart ==
  ASSUME cols \in Nat, NEW r
  PROVE  Part(r, 1, 0) = WholeRow(r)
<1>1. \A c \in 0 .. cols - 1 : c % 1 = 0
  OBVIOUS
<1> QED
  BY <1>1 DEF Part, WholeRow

-----------------------------------------------------------------------------
(* The threads of a block. *)

LEMMA StepTyped ==
  ASSUME BlockTypeOK, NEW t \in Thread, Running(t)
  PROVE  /\ done[t] + 1 \in 1 .. Len(program) /\ done[t] \in Nat
         /\ Step(t) = program[done[t] + 1] /\ Step(t) \in Steps
         /\ RedStep(program, done[t] + 1) /\ LoadStep(program, done[t] + 1)
         /\ Step(t).op = "store" => Step(t).array \in Arrays
<1>1. done[t] \in 0 .. Len(program) /\ Len(program) \in Nat /\ done[t] < Len(program)
  BY DEF BlockTypeOK, Fits, Running
<1>2. done[t] + 1 \in 1 .. Len(program)
  BY <1>1
<1> QED
  BY <1>1, <1>2 DEF BlockTypeOK, Fits, Step

\* A thread that stands before a step alone between two barriers sees all others
\* there, before or after it.
LEMMA AroundFence ==
  ASSUME BlockTypeOK, Barred, NEW t \in Thread, Running(t),
         Fenced(program, done[t] + 1), NEW u \in Thread
  PROVE  done[u] = done[t] \/ done[u] = done[t] + 1
<1>1. done[t] \in 0 .. Len(program) /\ done[u] \in 0 .. Len(program) /\ Len(program) \in Nat
  BY DEF BlockTypeOK, Fits
<1>2. CASE done[u] < done[t]
  <2>1. done[t] \in done[u] + 1 .. done[t] /\ done[t] + 1 > 1
    BY <1>1, <1>2
  <2>2. program[done[t]].op = "sync"
    BY <2>1, <1>1 DEF Fenced
  <2> QED
    BY <2>1, <2>2 DEF Barred
<1>3. CASE done[u] > done[t] + 1
  <2>1. /\ done[t] + 2 \in done[t] + 1 .. done[u] /\ (done[t] + 1) + 1 = done[t] + 2
        /\ done[t] + 1 < Len(program)
    BY <1>1, <1>3
  <2>2. program[done[t] + 2].op = "sync"
    BY <2>1 DEF Fenced
  <2> QED
    BY <2>1, <2>2 DEF Barred
<1> QED
  BY <1>1, <1>2, <1>3

\* A step of one thread that is no barrier.
LEMMA BarredStep ==
  ASSUME BlockTypeOK, Barred, NEW t \in Thread, Running(t), Step(t).op # "sync",
         Finish(t), UNCHANGED program
  PROVE  Barred' /\ done' \in [Thread -> 0 .. Len(program)]
<1>1. done[t] + 1 \in 1 .. Len(program) /\ Step(t) = program[done[t] + 1]
  BY StepTyped
<1>2. done \in [Thread -> 0 .. Len(program)]
  BY DEF BlockTypeOK
<1>3. done' \in [Thread -> 0 .. Len(program)]
  BY <1>1, <1>2 DEF Finish
<1>4. ASSUME NEW u \in Thread, NEW v \in Thread, NEW i \in done'[u] + 1 .. done'[v]
      PROVE  program[i].op # "sync"
  <2>1. done'[t] = done[t] + 1 /\ \A w \in Thread \ {t} : done'[w] = done[w]
    BY <1>2 DEF Finish
  <2>2. done[u] \in Nat /\ done[v] \in Nat /\ done[t] \in Nat /\ Len(program) \in Nat
    BY <1>2 DEF BlockTypeOK, Fits
  <2>3. CASE i = done[t] + 1
    BY <2>3, <1>1
  <2>4. CASE i # done[t] + 1
    <3>1. i \in done[u] + 1 .. done[v]
      BY <2>1, <2>2, <2>4
    <3> QED
      BY <3>1 DEF Barred
  <2> QED
    BY <2>3, <2>4
<1> QED
  BY <1>3, <1>4 DEF Barred

\* What a step leaves as it was, seen by the thread that does not take it.
LEMMA OthersHold ==
  ASSUME NEW t \in Thread, Held(t), done'[t] = done[t], red'[t] = red[t],
         UNCHANGED <<cols, program>>, t = 0 => red'[0] = red[0]
  PROVE  Held(t)'
BY DEF Held, Part, Reduced, Width, Factors

LEMMA OthersWant ==
  ASSUME NEW t \in Thread, Wanted(t), done'[t] = done[t], red'[t] = red[t],
         UNCHANGED <<cols, program>>,
         \/ red'[0] = red[0] \/ ~(done[t] + 1 <= Len(program))
         \/ program[done[t] + 1].op \notin {"take", "factors", "combine"}
         \/ (program[done[t] + 1].op = "factors" /\ t # 0)
  PROVE  Wanted(t)'
BY DEF Wanted, Part, Factors

\* Before a step of its own that is no barrier a thread waits for nothing after it.
LEMMA NextWants ==
  ASSUME BlockTypeOK, NEW t \in Thread, Running(t), Step(t).op # "sync",
         done'[t] = done[t] + 1, UNCHANGED program
  PROVE  Wanted(t)'
<1>1. /\ done[t] + 1 \in 1 .. Len(program) /\ done[t] \in Nat
      /\ Step(t) = program[done[t] + 1]
  BY StepTyped
<1> DEFINE i == done[t] + 2
<1>2. i - 1 = done[t] + 1 /\ done'[t] + 1 = i /\ i \in Nat
  BY <1>1
<1>3. CASE i > Len(program)
  <2>1. Len(program) \in Nat
    BY DEF BlockTypeOK, Fits
  <2> QED
    BY <1>2, <1>3, <2>1 DEF Wanted
<1>4. CASE i <= Len(program)
  <2>1. i \in 1 .. Len(program) /\ RedStep(program, i)
    BY <1>1, <1>4 DEF BlockTypeOK, Fits
  <2>2. program[i].op \notin {"fold", "take", "factors", "combine"}
    BY <2>1, <1>1, <1>2 DEF RedStep
  <2> HIDE DEF i
  <2> QED
    BY <1>2, <2>2 DEF Wanted
<1> QED
  BY <1>1, <1>3, <1>4 DEF BlockTypeOK, Fits

LEMMA StoredStep ==
  ASSUME BlockTypeOK, NEW t \in Thread, Running(t), Step(t).op # "store",
         Finish(t), UNCHANGED <<program, shared>>,
         NEW a \in Arrays, NEW v \in Thread, Stored(a, v)
  PROVE  Stored(a, v)'
<1>1. /\ done[t] + 1 \in 1 .. Len(program) /\ done[t] \in Nat
      /\ Step(t) = program[done[t] + 1]
  BY StepTyped
<1>2. done'[v] = IF v = t THEN done[t] + 1 ELSE done[v]
  BY DEF BlockTypeOK, Finish
<1>3. CASE v # t
  BY <1>2, <1>3 DEF Stored
<1>4. CASE v = t
  <2> SUFFICES ASSUME NEW j \in 1 .. done[t] + 1, Stores(program[j], a),
                      \A k \in j + 1 .. done[t] + 1 : ~Stores(program[k], a)
               PROVE  shared[a][v] = program[j].round
    BY <1>2, <1>4 DEF Stored
  <2>1. j # done[t] + 1
    BY <1>1 DEF Stores
  <2>2. j \in 1 .. done[t] /\ \A k \in j + 1 .. done[t] : k \in j + 1 .. done[t] + 1
    BY <2>1, <1>1
  <2> QED
    BY <2>2, <1>4 DEF Stored
<1> QED
  BY <1>3, <1>4

-----------------------------------------------------------------------------
(* One lemma per action. *)

LEMMA PublishInv ==
  ASSUME BlockInv, NEW t \in Thread, Publish(t)
  PROVE  BlockInv'
<1> DEFINE i == done[t] + 1
<1>1. BlockTypeOK /\ Barred /\ Running(t) /\ Step(t).op = "publish" /\ Finish(t)
      /\ UNCHANGED <<cols, program, shared>>
      /\ red' = [red EXCEPT ![t] = {Step(t).round} \X Share(t)]
  BY DEF BlockInv, Publish, At
<1>2. /\ i \in 1 .. Len(program) /\ Step(t) = program[i] /\ Fenced(program, i)
      /\ done[t] \in Nat
  <2>1. i \in 1 .. Len(program) /\ Step(t) = program[i] /\ RedStep(program, i)
        /\ done[t] \in Nat
    BY <1>1, StepTyped
  <2> QED
    BY <2>1, <1>1 DEF RedStep, Writes
<1>3. /\ done'[t] = i /\ \A u \in Thread \ {t} : done'[u] = done[u]
      /\ red'[t] = {Step(t).round} \X Share(t) /\ \A u \in Thread \ {t} : red'[u] = red[u]
      /\ DOMAIN red' = Thread
  BY <1>1 DEF BlockTypeOK, Finish
<1>4. Barred' /\ done' \in [Thread -> 0 .. Len(program)]
  BY <1>1, BarredStep
<1>5. BlockTypeOK'
  BY <1>1, <1>3, <1>4 DEF BlockTypeOK
<1>6. ASSUME NEW u \in Thread \ {t} PROVE Held(u)' /\ Wanted(u)'
  <2>1. Held(u) /\ Wanted(u) /\ done'[u] = done[u] /\ red'[u] = red[u]
    BY <1>3 DEF BlockInv
  <2>2. done[u] = done[t] \/ done[u] = i
    BY <1>1, <1>2, AroundFence
  <2>3. done[u] + 1 = i \/ done[u] + 1 = i + 1
    BY <2>2
  <2>4. ~(done[u] + 1 <= Len(program))
        \/ program[done[u] + 1].op \notin {"take", "factors", "combine"}
    BY <2>3, <1>1, <1>2 DEF Fenced, BlockTypeOK, Fits
  <2>5. Held(u)'
    BY <1>1, <2>1, OthersHold
  <2>6. Wanted(u)'
    BY <1>1, <2>1, <2>4, OthersWant
  <2> QED
    BY <2>5, <2>6
<1>7. Held(t)'
  <2>1. Share(t) = {c \in 0 .. cols - 1 : c % Threads = t}
    BY DEF Share, Threads
  <2>2. red'[t] = Part(program[i].round, Threads, t)
    BY <1>2, <1>3, <2>1 DEF Part
  <2> QED
    BY <1>1, <1>2, <1>3, <2>2 DEF Held, Width, Part, Factors
<1>8. Wanted(t)'
  BY <1>1, <1>3, NextWants
<1>9. \A a \in Arrays, v \in Thread : Stored(a, v)'
  BY <1>1, StoredStep DEF BlockInv
<1> QED
  BY <1>4, <1>5, <1>6, <1>7, <1>8, <1>9 DEF BlockInv

LEMMA FoldHalfInv ==
  ASSUME BlockInv, NEW t \in Thread, FoldHalf(t)
  PROVE  BlockInv'
<1> DEFINE i == done[t] + 1  s == Step(t).stride  r == Step(t).round
<1>1. /\ BlockTypeOK /\ Barred /\ Running(t) /\ Step(t).op = "fold" /\ Finish(t)
      /\ UNCHANGED <<cols, program, shared>>
      /\ red' = IF t < s THEN [red EXCEPT ![t] = Sum(@, red[t + s])] ELSE red
  BY DEF BlockInv, FoldHalf, At
<1>2. /\ i \in 1 .. Len(program) /\ Step(t) = program[i] /\ Fenced(program, i)
      /\ done[t] \in Nat /\ s \in Nat \ {0} /\ 2 * s <= Threads
  <2>1. i \in 1 .. Len(program) /\ Step(t) = program[i] /\ RedStep(program, i)
        /\ done[t] \in Nat /\ Step(t) \in Steps
    BY <1>1, StepTyped
  <2>2. s \in Nat
    BY <2>1 DEF Steps
  <2> QED
    BY <2>1, <2>2, <1>1 DEF RedStep, Writes
<1>3. /\ done'[t] = i /\ \A u \in Thread \ {t} : done'[u] = done[u]
      /\ red'[t] = IF t < s THEN Sum(red[t], red[t + s]) ELSE red[t]
      /\ \A u \in Thread \ {t} : red'[u] = red[u]
      /\ DOMAIN red' = Thread
  BY <1>1 DEF BlockTypeOK, Finish
<1>4. Barred' /\ done' \in [Thread -> 0 .. Len(program)]
  BY <1>1, BarredStep
<1>5. BlockTypeOK'
  BY <1>1, <1>3, <1>4 DEF BlockTypeOK
<1>0. /\ \A u \in Thread : done[u] = done[t] \/ done[u] = i
      /\ t \in Nat /\ Thread = 0 .. Threads - 1 /\ Threads \in Nat \ {0} /\ cols \in Nat
  BY <1>1, <1>2, AroundFence, ThreadsPositive DEF BlockTypeOK
<1>6. ASSUME NEW u \in Thread \ {t} PROVE Held(u)' /\ Wanted(u)'
  <2>1. Held(u) /\ Wanted(u) /\ done'[u] = done[u] /\ red'[u] = red[u]
    BY <1>3 DEF BlockInv
  <2>2. done[u] = done[t] \/ done[u] = i
    BY <1>0
  <2>3. done[u] + 1 = i \/ done[u] + 1 = i + 1
    BY <2>2
  <2>4. ~(done[u] + 1 <= Len(program))
        \/ program[done[u] + 1].op \notin {"take", "factors", "combine"}
    BY <2>3, <1>1, <1>2 DEF Fenced, BlockTypeOK, Fits
  <2>5. Held(u)'
    BY <1>1, <2>1, OthersHold
  <2>6. Wanted(u)'
    BY <1>1, <2>1, <2>4, OthersWant
  <2> QED
    BY <2>5, <2>6
<1>7. Held(t)'
  <2>0. program[i].op = "fold" /\ program[i].stride = s /\ program[i].round = r /\ i > 0
    BY <1>1, <1>2
  <2>1. t < 2 * s => red[t] = Part(r, 2 * s, t)
    BY <2>0, <1>2 DEF BlockInv, Wanted
  <2>2. CASE t < s
    <3>1. t + s \in Thread /\ s <= t + s /\ t + s < 2 * s /\ t \in 0 .. s - 1
      BY <2>2, <1>2, <1>0
    <3>2. red[t + s] = Part(r, 2 * s, t + s)
      <4>1. CASE done[t + s] = done[t]
        BY <4>1, <3>1, <2>0, <1>2 DEF BlockInv, Wanted
      <4>2. CASE done[t + s] = i
        BY <4>2, <3>1, <2>0 DEF BlockInv, Held
      <4> QED
        BY <4>1, <4>2, <3>1, <1>0
    <3>3. red[t] = Part(r, 2 * s, t)
      BY <2>1, <2>2, <1>2, <1>0
    <3>4. Sum(red[t], red[t + s]) = Part(r, s, t)
      BY <3>1, <3>2, <3>3, <1>0, <1>2, SumOfHalves
    <3>5. red'[t] = Part(r, s, t) /\ ~(s <= t)
      BY <3>4, <2>2, <1>2, <1>3, <1>0
    <3> HIDE DEF s, r, i
    <3> QED
      BY <1>1, <1>3, <2>0, <3>5 DEF Held, Width, Part, Factors
  <2>3. CASE ~(t < s)
    <3>1. red'[t] = red[t]
      BY <2>3, <1>3
    <3> HIDE DEF s, r, i
    <3> QED
      BY <1>1, <1>3, <2>0, <2>1, <2>3, <3>1 DEF Held, Width, Part, Factors
  <2> QED
    BY <2>2, <2>3
<1>8. Wanted(t)'
  BY <1>1, <1>3, NextWants
<1>9. \A a \in Arrays, v \in Thread : Stored(a, v)'
  BY <1>1, StoredStep DEF BlockInv
<1> QED
  BY <1>4, <1>5, <1>6, <1>7, <1>8, <1>9 DEF BlockInv

LEMMA FactorsInv ==
  ASSUME BlockInv, NEW t \in Thread, ReplaceByFactors(t)
  PROVE  BlockInv'
<1> DEFINE i == done[t] + 1
<1>1. /\ BlockTypeOK /\ Barred /\ Running(t) /\ Step(t).op = "factors" /\ Finish(t)
      /\ UNCHANGED <<cols, program, shared>>
      /\ red' = IF t = 0 THEN [red EXCEPT ![0] = Factors(Step(t).round)] ELSE red
  BY DEF BlockInv, ReplaceByFactors, At
<1>2. /\ i \in 1 .. Len(program) /\ Step(t) = program[i] /\ Fenced(program, i)
      /\ done[t] \in Nat
  <2>1. i \in 1 .. Len(program) /\ Step(t) = program[i] /\ RedStep(program, i)
        /\ done[t] \in Nat
    BY <1>1, StepTyped
  <2> QED
    BY <2>1, <1>1 DEF RedStep, Writes
<1>3. /\ done'[t] = i /\ \A u \in Thread \ {t} : done'[u] = done[u]
      /\ t = 0 => red'[0] = Factors(Step(t).round)
      /\ \A u \in Thread \ {t} : red'[u] = red[u]
      /\ DOMAIN red' = Thread
  BY <1>1 DEF BlockTypeOK, Finish
<1>4. Barred' /\ done' \in [Thread -> 0 .. Len(program)]
  BY <1>1, BarredStep
<1>5. BlockTypeOK'
  BY <1>1, <1>3, <1>4 DEF BlockTypeOK
<1>6. ASSUME NEW u \in Thread \ {t} PROVE Held(u)' /\ Wanted(u)'
  <2>1. Held(u) /\ Wanted(u) /\ done'[u] = done[u] /\ red'[u] = red[u]
    BY <1>3 DEF BlockInv
  <2>2. done[u] = done[t] \/ done[u] = i
    BY <1>1, <1>2, AroundFence
  <2>3. done[u] + 1 = i \/ done[u] + 1 = i + 1
    BY <2>2
  <2>5. Held(u)'
    BY <1>1, <2>1, OthersHold
  <2>6. CASE t = 0
    <3>1. /\ u # 0
          /\ \/ ~(done[u] + 1 <= Len(program))
             \/ program[done[u] + 1].op \in {"factors", "sync"}
      BY <2>3, <2>6, <1>1, <1>2 DEF Fenced, BlockTypeOK, Fits
    <3>2. Wanted(u)'
      BY <1>1, <2>1, <3>1, OthersWant
    <3> QED
      BY <2>5, <3>2
  <2>7. CASE t # 0
    <3>1. red'[0] = red[0]
      BY <2>7, <1>1
    <3>2. Wanted(u)'
      BY <1>1, <2>1, <3>1, OthersWant
    <3> QED
      BY <2>5, <3>2
  <2> QED
    BY <2>6, <2>7
<1>7. Held(t)'
  BY <1>1, <1>2, <1>3 DEF Held, Reduced, Factors
<1>8. Wanted(t)'
  BY <1>1, <1>3, NextWants
<1>9. \A a \in Arrays, v \in Thread : Stored(a, v)'
  BY <1>1, StoredStep DEF BlockInv
<1> QED
  BY <1>4, <1>5, <1>6, <1>7, <1>8, <1>9 DEF BlockInv

\* A step that leaves red alone.
LEMMA QuietStep ==
  ASSUME BlockInv, NEW t \in Thread, Running(t), Finish(t), UNCHANGED <<cols, program, red>>,
         Step(t).op \notin {"publish", "fold", "factors", "sync"}
  PROVE  /\ Barred' /\ done' \in [Thread -> 0 .. Len(program)]
         /\ \A u \in Thread : Held(u)' /\ Wanted(u)'
<1> DEFINE i == done[t] + 1
<1>1. BlockTypeOK /\ Barred
  BY DEF BlockInv
<1>2. i \in 1 .. Len(program) /\ Step(t) = program[i] /\ done[t] \in Nat
  BY <1>1, StepTyped
<1>3. done'[t] = i /\ \A u \in Thread \ {t} : done'[u] = done[u]
  BY <1>1 DEF BlockTypeOK, Finish
<1>4. Barred' /\ done' \in [Thread -> 0 .. Len(program)]
  BY <1>1, BarredStep
<1>5. ASSUME NEW u \in Thread \ {t} PROVE Held(u)' /\ Wanted(u)'
  <2>1. Held(u) /\ Wanted(u) /\ done'[u] = done[u] /\ red'[u] = red[u] /\ red'[0] = red[0]
    BY <1>3 DEF BlockInv
  <2>2. Held(u)'
    BY <2>1, OthersHold
  <2>3. Wanted(u)'
    BY <2>1, OthersWant
  <2> QED
    BY <2>2, <2>3
<1>6. Held(t)'
  BY <1>2, <1>3 DEF Held, Reduced
<1>7. Wanted(t)'
  BY <1>1, <1>3, NextWants
<1> QED
  BY <1>4, <1>5, <1>6, <1>7

LEMMA StorePartInv ==
  ASSUME BlockInv, NEW t \in Thread, StorePart(t)
  PROVE  BlockInv'
<1> DEFINE i == done[t] + 1  b == Step(t).array
<1>1. /\ BlockTypeOK /\ Barred /\ Running(t) /\ Step(t).op = "store" /\ Finish(t)
      /\ UNCHANGED <<cols, program, red>>
      /\ shared' = [shared EXCEPT ![b][t] = Step(t).round]
  BY DEF BlockInv, StorePart, At
<1>2. /\ i \in 1 .. Len(program) /\ Step(t) = program[i] /\ done[t] \in Nat
      /\ b \in Arrays /\ Step(t).round \in Int
  BY <1>1, StepTyped DEF Steps
<1>3. Barred' /\ done' \in [Thread -> 0 .. Len(program)]
      /\ \A u \in Thread : Held(u)' /\ Wanted(u)'
  BY <1>1, QuietStep
<1>4. /\ shared' \in [Arrays -> [Thread -> Int]]
      /\ \A a \in Arrays, v \in Thread :
           shared'[a][v] = IF a = b /\ v = t THEN Step(t).round ELSE shared[a][v]
  <2>1. shared \in [Arrays -> [Thread -> Int]]
    BY <1>1 DEF BlockTypeOK
  <2> HIDE DEF b
  <2> QED
    BY <1>1, <1>2, <2>1
<1>5. BlockTypeOK'
  BY <1>1, <1>3, <1>4 DEF BlockTypeOK
<1>6. ASSUME NEW a \in Arrays, NEW v \in Thread PROVE Stored(a, v)'
  <2>1. done'[v] = IF v = t THEN i ELSE done[v]
    BY <1>1 DEF BlockTypeOK, Finish
  <2>2. Stored(a, v)
    BY DEF BlockInv
  <2>3. CASE v # t
    BY <2>1, <2>2, <2>3, <1>1, <1>4 DEF Stored
  <2>4. CASE v = t
    <3> SUFFICES ASSUME NEW j \in 1 .. i, Stores(program[j], a),
                        \A k \in j + 1 .. i : ~Stores(program[k], a)
                 PROVE  shared'[a][v] = program[j].round
      BY <2>1, <2>4, <1>1 DEF Stored
    <3>1. CASE j = i
      BY <3>1, <2>4, <1>2, <1>4 DEF Stores
    <3>2. CASE j # i
      <4>1. i \in j + 1 .. i
        BY <3>2, <1>2
      <4>2. a # b
        BY <4>1, <1>1, <1>2 DEF Stores
      <4>3. j \in 1 .. done[t] /\ \A k \in j + 1 .. done[t] : k \in j + 1 .. i
        BY <3>2, <1>2
      <4>4. shared[a][v] = program[j].round
        BY <4>3, <2>2, <2>4 DEF Stored
      <4> QED
        BY <4>2, <4>4, <1>4
    <3> QED
      BY <3>1, <3>2
  <2> QED
    BY <2>3, <2>4
<1> QED
  BY <1>3, <1>5, <1>6 DEF BlockInv

LEMMA ReadInv ==
  ASSUME BlockInv, NEW t \in Thread, Read(t)
  PROVE  BlockInv'
<1>1. /\ BlockTypeOK /\ Barred /\ Running(t) /\ Finish(t)
      /\ Step(t).op \in {"take", "combine", "load", "select"}
      /\ UNCHANGED <<cols, program, red, shared>>
  BY DEF BlockInv, Read, At
<1>2. Barred' /\ done' \in [Thread -> 0 .. Len(program)]
      /\ \A u \in Thread : Held(u)' /\ Wanted(u)'
  BY <1>1, QuietStep
<1>3. BlockTypeOK'
  BY <1>1, <1>2 DEF BlockTypeOK
<1>4. \A a \in Arrays, v \in Thread : Stored(a, v)'
  BY <1>1, StoredStep DEF BlockInv
<1> QED
  BY <1>2, <1>3, <1>4 DEF BlockInv

\* The barrier: all threads stand before it, with what they hold.
LEMMA BlockSyncInv ==
  ASSUME BlockInv, BlockSync
  PROVE  BlockInv'
<1> DEFINE i == done[0] + 1
<1>0. Thread = 0 .. Threads - 1 /\ Threads \in Nat \ {0} /\ 0 \in Thread
  BY ThreadsPositive
<1>1. /\ BlockTypeOK /\ Barred
      /\ \A t \in Thread : Running(t) /\ Step(t).op = "sync" /\ done[t] = done[0]
      /\ done' = [t \in Thread |-> done[t] + 1]
      /\ UNCHANGED <<cols, program, red, shared>>
  BY DEF BlockInv, BlockSync, At
<1>2. i \in 1 .. Len(program) /\ program[i].op = "sync" /\ done[0] \in Nat
  BY <1>0, <1>1, StepTyped
<1>3. \A t \in Thread : done'[t] = i
  BY <1>1
<1>4. done' \in [Thread -> 0 .. Len(program)]
  BY <1>1, <1>2
<1>5. BlockTypeOK'
  BY <1>1, <1>4 DEF BlockTypeOK
<1>6. Barred'
  <2>1. \A t, u \in Thread : done'[t] + 1 .. done'[u] = {}
    BY <1>2, <1>3
  <2> QED
    BY <2>1, <1>1 DEF Barred
<1>7. \A t \in Thread : Held(t)'
  BY <1>1, <1>2, <1>3 DEF Held, Reduced
<1>8. ASSUME NEW t \in Thread PROVE Wanted(t)'
  <2> SUFFICES ASSUME i + 1 <= Len(program)
               PROVE  /\ program[i + 1].op = "fold" /\ t < 2 * program[i + 1].stride =>
                           red[t] = Part(program[i + 1].round, 2 * program[i + 1].stride, t)
                      /\ program[i + 1].op = "take" \/ (program[i + 1].op = "factors" /\ t = 0) =>
                           red[0] = Part(program[i + 1].round, 1, 0)
                      /\ program[i + 1].op = "combine" => red[0] = Factors(program[i + 1].round)
    BY <1>1, <1>3 DEF Wanted, Part, Factors
  <2>1. RedStep(program, i + 1) /\ (i + 1) - 2 = done[0]
    <3>1. i + 1 \in 1 .. Len(program) /\ (i + 1) - 2 = done[0]
      BY <1>2
    <3> QED
      BY <3>1, <1>1 DEF BlockTypeOK, Fits
  <2>2. \A u \in Thread : Held(u) /\ done[u] = done[0]
    BY <1>1 DEF BlockInv
  <2>3. ASSUME NEW u \in Thread, NEW r, NEW w, Reduced(program, done[0], r, w), u < w
        PROVE  red[u] = Part(r, w, u)
    BY <2>2, <2>3 DEF Held, Reduced
  <2>4. program[i + 1].op = "fold" /\ t < 2 * program[i + 1].stride =>
          red[t] = Part(program[i + 1].round, 2 * program[i + 1].stride, t)
    BY <2>1, <2>3 DEF RedStep
  <2>5. program[i + 1].op \in {"take", "factors"} =>
          red[0] = Part(program[i + 1].round, 1, 0)
    BY <2>1, <2>3, <1>0 DEF RedStep
  <2>6. program[i + 1].op = "combine" => red[0] = Factors(program[i + 1].round)
    <3> SUFFICES ASSUME program[i + 1].op = "combine"
                 PROVE  red[0] = Factors(program[i + 1].round)
      OBVIOUS
    <3>1. /\ program[done[0]].op = "factors" /\ done[0] > 0
          /\ program[done[0]].round = program[i + 1].round
      BY <2>1, <1>2 DEF RedStep
    <3> QED
      BY <3>1, <2>2, <1>0 DEF Held
  <2> QED
    BY <2>4, <2>5, <2>6
<1>9. ASSUME NEW a \in Arrays, NEW v \in Thread PROVE Stored(a, v)'
  <2>1. Stored(a, v) /\ done'[v] = i /\ done[v] = done[0]
    BY <1>1, <1>3 DEF BlockInv
  <2> SUFFICES ASSUME NEW j \in 1 .. i, Stores(program[j], a),
                      \A k \in j + 1 .. i : ~Stores(program[k], a)
               PROVE  shared[a][v] = program[j].round
    BY <2>1, <1>1 DEF Stored
  <2>2. j # i
    BY <1>2 DEF Stores
  <2>3. j \in 1 .. done[v] /\ \A k \in j + 1 .. done[v] : k \in j + 1 .. i
    BY <2>1, <2>2, <1>2
  <2> QED
    BY <2>1, <2>3 DEF Stored
<1> QED
  BY <1>5, <1>6, <1>7, <1>8, <1>9 DEF BlockInv

LEMMA BlockStep == BlockInv /\ [BlockNext]_blockVars => BlockInv'
<1> SUFFICES ASSUME BlockInv, [BlockNext]_blockVars PROVE BlockInv'
  OBVIOUS
<1>1. CASE BlockSync
  BY <1>1, BlockSyncInv
<1>2. ASSUME NEW t \in Thread, Publish(t) PROVE BlockInv'
  BY <1>2, PublishInv
<1>3. ASSUME NEW t \in Thread, FoldHalf(t) PROVE BlockInv'
  BY <1>3, FoldHalfInv
<1>4. ASSUME NEW t \in Thread, ReplaceByFactors(t) PROVE BlockInv'
  BY <1>4, FactorsInv
<1>5. ASSUME NEW t \in Thread, StorePart(t) PROVE BlockInv'
  BY <1>5, StorePartInv
<1>6. ASSUME NEW t \in Thread, Read(t) PROVE BlockInv'
  BY <1>6, ReadInv
<1>7. CASE UNCHANGED blockVars
  BY <1>7 DEF blockVars, BlockInv, BlockTypeOK, Barred, Held, Wanted, Stored, Part, Factors
<1> QED
  BY <1>1, <1>2, <1>3, <1>4, <1>5, <1>6, <1>7 DEF BlockNext, ThreadStep

\* What the invariant says of the moment of reading.
LEMMA BlockInvReduces == BlockInv => ReducesWholeRow
<1> SUFFICES ASSUME BlockInv, NEW t \in Thread
             PROVE  /\ At(t, "take") \/ (At(t, "factors") /\ t = 0) => red[0] = WholeRow(Step(t).round)
                    /\ At(t, "combine") => red[0] = Factors(Step(t).round)
  BY DEF ReducesWholeRow
<1> SUFFICES ASSUME Running(t)
             PROVE  /\ Step(t).op = "take" \/ (Step(t).op = "factors" /\ t = 0) =>
                         red[0] = WholeRow(Step(t).round)
                    /\ Step(t).op = "combine" => red[0] = Factors(Step(t).round)
  BY DEF At
<1>1. /\ done[t] + 1 \in 1 .. Len(program) /\ done[t] \in Nat
      /\ Step(t) = program[done[t] + 1]
  BY StepTyped DEF BlockInv
<1>2. Wanted(t) /\ cols \in Nat
  BY DEF BlockInv, BlockTypeOK
<1> QED
  BY <1>1, <1>2, WholeIsPart DEF Wanted

LEMMA BlockInvReads == BlockInv => ReadsWholeTile
<1>1. ASSUME BlockInv, NEW t \in Thread, Running(t), Reads(Step(t)), NEW v \in Thread
      PROVE  shared[ReadArray(Step(t))][v] = Step(t).round
  <2> DEFINE i == done[t] + 1  a == ReadArray(Step(t))
  <2>1. /\ i \in 1 .. Len(program) /\ done[t] \in Nat /\ done[v] \in 0 .. Len(program)
        /\ Step(t) = program[i] /\ LoadStep(program, i) /\ Len(program) \in Nat
    BY <1>1, StepTyped DEF BlockInv, BlockTypeOK, Fits
  <2>2. /\ a \in Arrays
        /\ \A m \in i + 1 .. Len(program) : Stores(program[m], a) => Parted(program, i, m)
    BY <2>1, <1>1 DEF LoadStep
  <2>3. PICK j \in 1 .. i - 1 :
          /\ Stores(program[j], a) /\ program[j].round = Step(t).round /\ Parted(program, j, i)
          /\ \A k \in j + 1 .. i - 1 : ~Stores(program[k], a)
    BY <2>1, <1>1 DEF LoadStep
  <2>4. Barred /\ Stored(a, v)
    BY <2>2, <1>1 DEF BlockInv
  <2> HIDE DEF a
  <2>5. j \in 1 .. done[v]
    <3>1. PICK k \in j + 1 .. i - 1 : program[k].op = "sync"
      BY <2>3 DEF Parted
    <3>2. k \notin done[v] + 1 .. done[t]
      BY <3>1, <2>4 DEF Barred
    <3> QED
      BY <3>2, <2>1
  <2>6. ASSUME NEW k \in j + 1 .. done[v] PROVE ~Stores(program[k], a)
    <3>1. CASE k <= i - 1
      BY <3>1, <2>1, <2>3
    <3>2. CASE k = i
      BY <3>2, <2>1, <1>1 DEF Stores, Reads
    <3>3. CASE k > i
      <4> SUFFICES ASSUME Stores(program[k], a) PROVE FALSE
        OBVIOUS
      <4>1. PICK m \in i + 1 .. k - 1 : program[m].op = "sync"
        <5>1. k \in i + 1 .. Len(program)
          BY <3>3, <2>1
        <5> QED
          BY <5>1, <2>2 DEF Parted
      <4>2. m \in done[t] + 1 .. done[v]
        BY <2>1
      <4> QED
        BY <4>1, <4>2, <2>4 DEF Barred
    <3> QED
      BY <3>1, <3>2, <3>3, <2>1
  <2>7. shared[a][v] = program[j].round
    BY <2>3, <2>4, <2>5, <2>6 DEF Stored
  <2> QED
    BY <2>3, <2>7 DEF a
<1>2. ASSUME BlockInv, NEW t \in Thread
      PROVE  /\ At(t, "load") => \A v \in Thread : shared[Step(t).array][v] = Step(t).round
             /\ At(t, "select") /\ t = 0 => \A v \in Thread : shared["probs"][v] = Step(t).round
  BY <1>1, <1>2 DEF At, Reads, ReadArray
<1> QED
  BY <1>2 DEF ReadsWholeTile

-----------------------------------------------------------------------------
(* Programs: what FlattenSeq puts together. *)

Flattens(g, ss, n) == g = [i \in 1 .. n |-> IF i = 1 THEN ss[i] ELSE g[i - 1] \o ss[i]]

LEMMA FlattensValue ==
  ASSUME NEW ss, NEW n \in Nat \ {0}, NEW g, Flattens(g, ss, n)
  PROVE  g[1] = ss[1] /\ \A i \in 1 .. n - 1 : g[i + 1] = g[i] \o ss[i + 1]
<1> DEFINE h == [i \in 1 .. n |-> IF i = 1 THEN ss[i] ELSE g[i - 1] \o ss[i]]
<1>1. h[1] = ss[1]
  OBVIOUS
<1>2. ASSUME NEW i \in 1 .. n - 1 PROVE h[i + 1] = g[i] \o ss[i + 1]
  <2>1. i + 1 \in 1 .. n /\ i + 1 # 1 /\ (i + 1) - 1 = i
    OBVIOUS
  <2> QED
    BY <2>1
<1>3. g = h
  BY DEF Flattens
<1> HIDE DEF h
<1> QED
  BY <1>1, <1>2, <1>3

LEMMA FlattensExists ==
  ASSUME NEW ss, NEW n \in Nat \ {0}
  PROVE  \E g : Flattens(g, ss, n)
<1> DEFINE P == {k \in Nat : \E g : Flattens(g, ss, k + 1)}
<1>1. 0 \in P
  <2>1. Flattens([i \in 1 .. 1 |-> ss[1]], ss, 1)
    BY DEF Flattens
  <2> QED
    BY <2>1
<1>2. \A k \in 0 .. n - 2 : k \in P => k + 1 \in P
  <2> SUFFICES ASSUME NEW k \in Nat, NEW g, Flattens(g, ss, k + 1)
               PROVE  \E h : Flattens(h, ss, k + 2)
    OBVIOUS
  <2> DEFINE m == k + 1
             h == [i \in 1 .. m + 1 |-> IF i <= m THEN g[i] ELSE g[m] \o ss[i]]
  <2>0. m \in Nat \ {0} /\ m + 1 = k + 2
    OBVIOUS
  <2>1. g[1] = ss[1] /\ \A i \in 1 .. m - 1 : g[i + 1] = g[i] \o ss[i + 1]
    <3>1. Flattens(g, ss, m)
      OBVIOUS
    <3> HIDE DEF m
    <3> QED
      BY <2>0, <3>1, FlattensValue
  <2> HIDE DEF m
  <2>2. \A i \in 1 .. m : h[i] = g[i]
    BY <2>0
  <2>3. \A i \in 1 .. m + 1 : h[i] = IF i = 1 THEN ss[i] ELSE h[i - 1] \o ss[i]
    <3> TAKE i \in 1 .. m + 1
    <3>1. CASE i = 1
      BY <3>1, <2>0, <2>1, <2>2
    <3>2. CASE i \in 2 .. m
      <4>1. i - 1 \in 1 .. m - 1 /\ i \in 1 .. m /\ i # 1 /\ (i - 1) + 1 = i /\ i - 1 \in 1 .. m
        BY <2>0, <3>2
      <4>2. g[i] = g[i - 1] \o ss[i]
        BY <4>1, <2>1
      <4> HIDE DEF h
      <4> QED
        BY <4>1, <4>2, <2>2
    <3>3. CASE i = m + 1
      <4>0. i \in 1 .. m + 1 /\ ~(i <= m) /\ i - 1 = m /\ m \in 1 .. m + 1 /\ m <= m /\ i # 1
        BY <2>0, <3>3
      <4>1. h[i] = g[m] \o ss[i] /\ h[m] = g[m]
        BY <4>0
      <4> HIDE DEF h
      <4> QED
        BY <4>0, <4>1
    <3> QED
      BY <2>0, <3>1, <3>2, <3>3
  <2>4. Flattens(h, ss, m + 1)
    <3> HIDE DEF h
    <3>1. h = [i \in 1 .. m + 1 |-> h[i]]
      BY DEF h
    <3> QED
      BY <3>1, <2>3 DEF Flattens
  <2> QED
    BY <2>0, <2>4
<1>3. 0 .. n - 1 \subseteq P
  <2> HIDE DEF P
  <2>1. n - 1 \in Nat /\ (n - 1) - 1 = n - 2
    OBVIOUS
  <2> QED
    BY <2>1, <1>1, <1>2, InductionUpTo
<1>4. n - 1 \in P /\ (n - 1) + 1 = n
  BY <1>3
<1> QED
  BY <1>4

\* Programs put together one after another behind a first one: what holds of each
\* beginning, P[i] of the first i, holds of the whole.
LEMMA FlattenedAfter ==
  ASSUME NEW S, NEW n \in Nat, NEW ss \in [1 .. n -> Seq(S)], NEW pro \in Seq(S),
         NEW P, pro \in P[0],
         \A i \in 0 .. n - 1 : \A x \in P[i] : x \in Seq(S) => x \o ss[i + 1] \in P[i + 1]
  PROVE  /\ pro \o FlattenSeq(ss) \in P[n]
         /\ pro \o FlattenSeq(ss) \in Seq(S) /\ FlattenSeq(ss) \in Seq(S)
<1>0. Len(ss) = n
  OBVIOUS
<1>3. ASSUME NEW a \in Seq(S), NEW b \in Seq(S)
      PROVE  pro \o (a \o b) = (pro \o a) \o b
  OBVIOUS
<1>1. CASE n = 0
  <2>1. FlattenSeq(ss) = <<>>
    BY <1>0, <1>1 DEF FlattenSeq
  <2>2. pro \o <<>> = pro
    OBVIOUS
  <2> QED
    BY <2>1, <2>2, <1>1
<1>2. CASE n # 0
  <2> DEFINE g == CHOOSE g : Flattens(g, ss, n)
  <2>1. FlattenSeq(ss) = g[n]
    BY <1>0, <1>2, Zenon DEF FlattenSeq, Flattens
  <2>2. Flattens(g, ss, n)
    BY <1>2, FlattensExists
  <2> HIDE DEF g
  <2>3. g[1] = ss[1] /\ \A i \in 1 .. n - 1 : g[i + 1] = g[i] \o ss[i + 1]
    BY <1>2, <2>2, FlattensValue
  <2> DEFINE Q == {k \in 0 .. n - 1 : g[k + 1] \in Seq(S) /\ pro \o g[k + 1] \in P[k + 1]}
  <2>4. 0 \in Q
    <3>1. ss[1] \in Seq(S) /\ pro \o ss[1] \in P[0 + 1] /\ 0 \in 0 .. n - 1
      BY <1>2
    <3> QED
      BY <3>1, <2>3
  <2>5. \A k \in 0 .. n - 2 : k \in Q => k + 1 \in Q
    <3> SUFFICES ASSUME NEW k \in 0 .. n - 2, g[k + 1] \in Seq(S), pro \o g[k + 1] \in P[k + 1]
                 PROVE  k + 1 \in 0 .. n - 1 /\ g[(k + 1) + 1] \in Seq(S)
                        /\ pro \o g[(k + 1) + 1] \in P[(k + 1) + 1]
      OBVIOUS
    <3>1. k + 1 \in 1 .. n - 1 /\ k + 1 \in 0 .. n - 1 /\ (k + 1) + 1 \in 1 .. n
      BY <1>2
    <3>2. g[(k + 1) + 1] = g[k + 1] \o ss[(k + 1) + 1] /\ ss[(k + 1) + 1] \in Seq(S)
      BY <3>1, <2>3
    <3>3. pro \o (g[k + 1] \o ss[(k + 1) + 1]) = (pro \o g[k + 1]) \o ss[(k + 1) + 1]
      BY <3>2, <1>3
    <3>4. pro \o g[k + 1] \in Seq(S)
      OBVIOUS
    <3>5. (pro \o g[k + 1]) \o ss[(k + 1) + 1] \in P[(k + 1) + 1]
      BY <3>1, <3>4
    <3> QED
      BY <3>1, <3>2, <3>3, <3>5
  <2>6. 0 .. n - 1 \subseteq Q
    <3> HIDE DEF Q
    <3>1. n - 1 \in Nat /\ (n - 1) - 1 = n - 2
      BY <1>2
    <3> QED
      BY <3>1, <2>4, <2>5, InductionUpTo
  <2>7. n - 1 \in Q /\ (n - 1) + 1 = n
    <3> HIDE DEF Q
    <3>1. n - 1 \in 0 .. n - 1 /\ (n - 1) + 1 = n
      BY <1>2
    <3> QED
      BY <3>1, <2>6
  <2> QED
    BY <2>1, <2>7
<1> QED
  BY <1>1, <1>2

-----------------------------------------------------------------------------
(* Programs: what is asked of them is kept from step to step. *)

\* What was read of array a was read before the last barrier; a thread may store it.
Clean(p, a) ==
  \A i \in 1 .. Len(p) : Reads(p[i]) /\ ReadArray(p[i]) = a => Parted(p, i, Len(p) + 1)

\* What was last stored of array a is of round r; it was stored before a barrier.
Put(p, a, r) ==
  \E j \in 1 .. Len(p) :
    /\ Stores(p[j], a) /\ p[j].round = r
    /\ \A k \in j + 1 .. Len(p) : ~Stores(p[k], a)
There(p, a, r) ==
  \E j \in 1 .. Len(p) :
    /\ Stores(p[j], a) /\ p[j].round = r /\ Parted(p, j, Len(p) + 1)
    /\ \A k \in j + 1 .. Len(p) : ~Stores(p[k], a)

EndsSynced(p) == Len(p) > 0 => p[Len(p)].op = "sync"
EndsQuiet(p) == Len(p) > 0 => ~Writes(p[Len(p)])

\* A step that may follow program p.
Follows(p, s) ==
  /\ Writes(s) => EndsSynced(p)
  /\ s.op # "sync" => EndsQuiet(p)
  /\ s.op \in {"fold", "take", "factors", "combine"} => Len(p) > 1 /\ p[Len(p)].op = "sync"
  /\ s.op = "fold" => /\ Reduced(p, Len(p) - 1, s.round, 2 * s.stride)
                      /\ s.stride > 0 /\ 2 * s.stride <= Threads
  /\ s.op \in {"take", "factors"} => Reduced(p, Len(p) - 1, s.round, 1)
  /\ s.op = "combine" => p[Len(p) - 1].op = "factors" /\ p[Len(p) - 1].round = s.round
  /\ Reads(s) => ReadArray(s) \in Arrays /\ There(p, ReadArray(s), s.round)
  /\ s.op = "store" => s.array \in Arrays /\ Clean(p, s.array)

LEMMA StepsOf ==
  ASSUME NEW p \in Seq(Steps), NEW s \in Steps
  PROVE  /\ p \o <<s>> \in Seq(Steps) /\ Len(p) \in Nat
         /\ Len(p \o <<s>>) = Len(p) + 1
         /\ \A i \in 1 .. Len(p) : (p \o <<s>>)[i] = p[i]
         /\ (p \o <<s>>)[Len(p) + 1] = s
OBVIOUS

LEMMA FollowFits ==
  ASSUME NEW p, Fits(p), NEW s \in Steps, Follows(p, s)
  PROVE  Fits(p \o <<s>>)
<1> DEFINE c == p \o <<s>>  n == Len(p)
<1>1. /\ c \in Seq(Steps) /\ n \in Nat /\ Len(c) = n + 1
      /\ \A i \in 1 .. n : c[i] = p[i]
      /\ c[n + 1] = s
  BY StepsOf DEF Fits
<1>2. \A i \in 1 .. n : RedStep(p, i) /\ LoadStep(p, i) /\ (p[i].op = "store" => p[i].array \in Arrays)
  BY DEF Fits
<1>3. Follows(p, s)
  OBVIOUS
<1> HIDE DEF c
<1>4. ASSUME NEW i \in 1 .. n PROVE RedStep(c, i)
  <2>1. c[i] = p[i] /\ (i > 1 => c[i - 1] = p[i - 1]) /\ (i > 2 => c[i - 2] = p[i - 2])
        /\ (i < n => c[i + 1] = p[i + 1])
    BY <1>1
  <2>2. Writes(p[i]) => Fenced(c, i)
    <3> SUFFICES ASSUME Writes(p[i]) PROVE Fenced(c, i)
      OBVIOUS
    <3>1. Fenced(p, i)
      BY <1>2 DEF RedStep
    <3>2. CASE i < n
      BY <3>1, <3>2, <2>1, <1>1 DEF Fenced
    <3>3. CASE i = n
      <4>1. c[i + 1].op = "sync"
        BY <3>3, <1>1, <1>3 DEF Follows, EndsQuiet
      <4> QED
        BY <4>1, <3>1, <3>3, <2>1, <1>1 DEF Fenced
    <3> QED
      BY <3>2, <3>3
  <2>3. RedStep(p, i)
    BY <1>2
  <2> QED
    BY <2>1, <2>2, <2>3 DEF RedStep, Reduced, Writes
<1>5. ASSUME NEW i \in 1 .. n PROVE LoadStep(c, i)
  <2>1. c[i] = p[i] /\ LoadStep(p, i)
    BY <1>1, <1>2
  <2> SUFFICES ASSUME Reads(p[i]) PROVE LoadStep(c, i)
    BY <2>1 DEF LoadStep
  <2> DEFINE a == ReadArray(p[i])
  <2>2. a \in Arrays /\ \A m \in i + 1 .. n : Stores(p[m], a) => Parted(p, i, m)
    BY <2>1 DEF LoadStep
  <2>3. PICK j \in 1 .. i - 1 :
          /\ Stores(p[j], a) /\ p[j].round = p[i].round /\ Parted(p, j, i)
          /\ \A k \in j + 1 .. i - 1 : ~Stores(p[k], a)
    BY <2>1 DEF LoadStep
  <2> HIDE DEF a
  <2>4. /\ Stores(c[j], a) /\ c[j].round = c[i].round
        /\ \A k \in j + 1 .. i - 1 : ~Stores(c[k], a)
    BY <1>1, <2>1, <2>3
  <2>5. Parted(c, j, i)
    BY <1>1, <2>3 DEF Parted
  <2>6. ASSUME NEW m \in i + 1 .. Len(c), Stores(c[m], a) PROVE Parted(c, i, m)
    <3>1. CASE m <= n
      <4>1. Parted(p, i, m)
        BY <3>1, <2>2, <2>6, <1>1
      <4> QED
        BY <4>1, <3>1, <1>1 DEF Parted
    <3>2. CASE m = n + 1
      <4>1. Clean(p, a)
        BY <3>2, <2>6, <1>1, <1>3 DEF Follows, Stores
      <4>2. Parted(p, i, n + 1)
        BY <4>1 DEF Clean, a
      <4> QED
        BY <4>2, <3>2, <1>1 DEF Parted
    <3> QED
      BY <3>1, <3>2, <1>1
  <2>7. ReadArray(c[i]) = a
    BY <2>1 DEF a
  <2> QED
    BY <2>2, <2>4, <2>5, <2>6, <2>7, Zenon DEF LoadStep
<1>6. RedStep(c, n + 1)
  <2>1. c[n + 1] = s /\ (n > 0 => c[(n + 1) - 1] = p[n]) /\ (n > 1 => c[(n + 1) - 2] = p[n - 1])
        /\ ((n + 1) - 1 = n) /\ (n + 1) - 2 = n - 1
    BY <1>1
  <2>2. Writes(s) => Fenced(c, n + 1)
    BY <1>1, <1>3, <2>1 DEF Follows, EndsSynced, Fenced
  <2>3. \A r, w : n > 1 /\ Reduced(p, n - 1, r, w) => Reduced(c, (n + 1) - 2, r, w)
    BY <2>1, <1>1 DEF Reduced
  <2>4. s.op \in {"fold", "take", "factors", "combine"} => n > 1 /\ n + 1 > 2 /\ c[(n + 1) - 1].op = "sync"
    BY <2>1, <1>1, <1>3 DEF Follows
  <2> QED
    BY <2>1, <2>2, <2>3, <2>4, <1>3 DEF RedStep, Follows
<1>7. LoadStep(c, n + 1)
  <2> SUFFICES ASSUME Reads(s) PROVE LoadStep(c, n + 1)
    BY <1>1 DEF LoadStep
  <2> DEFINE a == ReadArray(s)
  <2>1. a \in Arrays /\ There(p, a, s.round)
    BY <1>3 DEF Follows
  <2>2. ReadArray(c[n + 1]) = a /\ c[n + 1].round = s.round
    BY <1>1
  <2> HIDE DEF a
  <2>3. PICK j \in 1 .. n :
          /\ Stores(p[j], a) /\ p[j].round = s.round /\ Parted(p, j, n + 1)
          /\ \A k \in j + 1 .. n : ~Stores(p[k], a)
    BY <2>1 DEF There
  <2>4. /\ Stores(c[j], a) /\ c[j].round = s.round /\ j \in 1 .. (n + 1) - 1
        /\ \A k \in j + 1 .. (n + 1) - 1 : ~Stores(c[k], a)
    BY <1>1, <2>3
  <2>5. Parted(c, j, n + 1)
    BY <1>1, <2>3 DEF Parted
  <2>6. \A m \in (n + 1) + 1 .. Len(c) : FALSE
    BY <1>1
  <2> QED
    BY <2>1, <2>2, <2>4, <2>5, <2>6, Zenon DEF LoadStep
<1>8. ASSUME NEW i \in 1 .. Len(c)
      PROVE  RedStep(c, i) /\ LoadStep(c, i) /\ (c[i].op = "store" => c[i].array \in Arrays)
  <2>1. CASE i \in 1 .. n
    BY <2>1, <1>1, <1>2, <1>4, <1>5
  <2>2. CASE i = n + 1
    BY <2>2, <1>1, <1>3, <1>6, <1>7 DEF Follows
  <2> QED
    BY <2>1, <2>2, <1>1
<1> QED
  BY <1>1, <1>8 DEF Fits, c

\* What a further step leaves of what is known of the arrays, and what it adds.
LEMMA FollowKeeps ==
  ASSUME NEW p \in Seq(Steps), NEW s \in Steps, NEW a
  PROVE  /\ Clean(p, a) /\ ~(Reads(s) /\ ReadArray(s) = a) => Clean(p \o <<s>>, a)
         /\ s.op = "sync" => Clean(p \o <<s>>, a)
         /\ \A r : There(p, a, r) /\ ~Stores(s, a) => There(p \o <<s>>, a, r)
         /\ \A r : Put(p, a, r) /\ s.op = "sync" => There(p \o <<s>>, a, r)
         /\ Stores(s, a) => Put(p \o <<s>>, a, s.round)
<1> DEFINE c == p \o <<s>>  n == Len(p)
<1>1. /\ c \in Seq(Steps) /\ n \in Nat /\ Len(c) = n + 1
      /\ \A i \in 1 .. n : c[i] = p[i]
      /\ c[n + 1] = s
  BY StepsOf
<1> HIDE DEF c, n
<1>2. ASSUME NEW i \in 1 .. n, Parted(p, i, n + 1) PROVE Parted(c, i, Len(c) + 1)
  <2>1. PICK k \in i + 1 .. (n + 1) - 1 : p[k].op = "sync"
    BY <1>2 DEF Parted
  <2>2. k \in 1 .. n /\ k \in i + 1 .. (Len(c) + 1) - 1 /\ c[k] = p[k]
    BY <1>1
  <2> QED
    BY <2>1, <2>2 DEF Parted
<1>3. ASSUME NEW i \in 1 .. n, s.op = "sync" PROVE Parted(c, i, Len(c) + 1)
  <2>1. n + 1 \in i + 1 .. (Len(c) + 1) - 1
    BY <1>1
  <2> QED
    BY <2>1, <1>1, <1>3 DEF Parted
<1>4. ASSUME Clean(p, a), ~(Reads(s) /\ ReadArray(s) = a) PROVE Clean(c, a)
  <2> SUFFICES ASSUME NEW i \in 1 .. Len(c), Reads(c[i]), ReadArray(c[i]) = a
               PROVE  Parted(c, i, Len(c) + 1)
    BY DEF Clean
  <2>1. i \in 1 .. n /\ c[i] = p[i]
    BY <1>1, <1>4
  <2>2. Parted(p, i, n + 1)
    BY <2>1, <1>4 DEF Clean, n
  <2> QED
    BY <2>1, <2>2, <1>2
<1>5. ASSUME s.op = "sync" PROVE Clean(c, a)
  <2> SUFFICES ASSUME NEW i \in 1 .. Len(c), Reads(c[i])
               PROVE  Parted(c, i, Len(c) + 1)
    BY DEF Clean
  <2>1. i \in 1 .. n
    BY <1>1, <1>5 DEF Reads
  <2> QED
    BY <2>1, <1>3, <1>5
<1>6. ASSUME NEW r, There(p, a, r), ~Stores(s, a) PROVE There(c, a, r)
  <2>1. PICK j \in 1 .. n :
          /\ Stores(p[j], a) /\ p[j].round = r /\ Parted(p, j, n + 1)
          /\ \A k \in j + 1 .. n : ~Stores(p[k], a)
    BY <1>6 DEF There, n
  <2>2. j \in 1 .. Len(c) /\ c[j] = p[j] /\ \A k \in j + 1 .. Len(c) : ~Stores(c[k], a)
    BY <1>1, <1>6, <2>1
  <2>3. Parted(c, j, Len(c) + 1)
    BY <2>1, <1>2
  <2> QED
    BY <2>1, <2>2, <2>3 DEF There
<1>7. ASSUME NEW r, Put(p, a, r), s.op = "sync" PROVE There(c, a, r)
  <2>1. PICK j \in 1 .. n :
          /\ Stores(p[j], a) /\ p[j].round = r
          /\ \A k \in j + 1 .. n : ~Stores(p[k], a)
    BY <1>7 DEF Put, n
  <2>2. ~Stores(s, a)
    BY <1>7 DEF Stores
  <2>3. j \in 1 .. Len(c) /\ c[j] = p[j] /\ \A k \in j + 1 .. Len(c) : ~Stores(c[k], a)
    BY <1>1, <2>1, <2>2
  <2>4. Parted(c, j, Len(c) + 1)
    BY <1>3, <1>7
  <2> QED
    BY <2>1, <2>3, <2>4 DEF There
<1>8. ASSUME Stores(s, a) PROVE Put(c, a, s.round)
  <2>1. n + 1 \in 1 .. Len(c) /\ \A k \in (n + 1) + 1 .. Len(c) : FALSE
    BY <1>1
  <2> QED
    BY <2>1, <1>1, <1>8 DEF Put
<1> QED
  BY <1>4, <1>5, <1>6, <1>7, <1>8 DEF c

\* A program that ends with a barrier has read everything before it.
LEMMA SyncedClean ==
  ASSUME NEW p \in Seq(Steps), EndsSynced(p), NEW a
  PROVE  Clean(p, a) /\ EndsQuiet(p)
<1>1. Len(p) \in Nat
  OBVIOUS
<1>2. ASSUME NEW i \in 1 .. Len(p), Reads(p[i]) PROVE Parted(p, i, Len(p) + 1)
  <2>1. p[Len(p)].op = "sync" /\ i # Len(p)
    BY <1>2 DEF EndsSynced, Reads
  <2>2. Len(p) \in i + 1 .. (Len(p) + 1) - 1
    BY <2>1, <1>1
  <2> QED
    BY <2>1, <2>2 DEF Parted
<1> QED
  BY <1>2 DEF Clean, EndsSynced, EndsQuiet, Writes

-----------------------------------------------------------------------------
(* What is known of a program so far.  K holds the arrays stored before a        *)
(* barrier and not since, each with its round.                                   *)

Keeps(p, K) == \A x \in K : There(p, x[1], x[2])

\* Its last step is a barrier, or it has none.
Synced(K) == {p \in Seq(Steps) : Fits(p) /\ EndsSynced(p) /\ Keeps(p, K)}

\* Its last step leaves red alone; only arrays of U were read since the last barrier.
Quiet(K, U) ==
  {p \in Seq(Steps) : /\ Fits(p) /\ EndsQuiet(p) /\ Keeps(p, K)
                      /\ \A a \in Arrays \ U : Clean(p, a)}

\* Its last step stored array a.
Written(K, a, r) ==
  {p \in Seq(Steps) : Fits(p) /\ EndsQuiet(p) /\ Keeps(p, K) /\ Put(p, a, r)}

\* Its last step, or the one before the last barrier, reduced row r to w sums.
Summed(r, w) == {p \in Seq(Steps) : Fits(p) /\ Reduced(p, Len(p), r, w)}
Whole(r, w) ==
  {p \in Seq(Steps) : /\ Fits(p) /\ Len(p) > 1 /\ p[Len(p)].op = "sync"
                      /\ Reduced(p, Len(p) - 1, r, w)}

\* Its last step, or the one before the last barrier, left the factors of row r.
IsFactors(st, r) == st.op = "factors" /\ st.round = r
Scaled(r) == {p \in Seq(Steps) : Fits(p) /\ Len(p) > 0 /\ IsFactors(p[Len(p)], r)}
Scaling(r) ==
  {p \in Seq(Steps) : /\ Fits(p) /\ Len(p) > 1 /\ p[Len(p)].op = "sync"
                      /\ IsFactors(p[Len(p) - 1], r)}

\* The steps q lead a program of A to one of B.
Leads(q, A, B) == q \in Seq(Steps) /\ \A p \in A : p \o q \in B

St(op, r) == [op |-> op, round |-> r, array |-> "", stride |-> 0]
Ac(op, a, r) == [op |-> op, round |-> r, array |-> a, stride |-> 0]
Fo(r, l) == [op |-> "fold", round |-> r, array |-> "", stride |-> TwoTo[Levels - l]]

LEMMA StepsTyped ==
  ASSUME NEW r \in Int
  PROVE  /\ \A op \in Ops : St(op, r) \in Steps /\ Does(op, r) = <<St(op, r)>>
         /\ \A a \in Arrays : /\ Ac("store", a, r) \in Steps /\ Store(a, r) = <<Ac("store", a, r)>>
                              /\ Ac("load", a, r) \in Steps /\ Load(a, r) = <<Ac("load", a, r)>>
         /\ \A l \in 0 .. Levels : Fo(r, l) \in Steps /\ Fold(r, l) = <<Fo(r, l)>>
         /\ St("sync", 0) \in Steps /\ Sync = <<St("sync", 0)>>
<1>1. \A op \in Ops : St(op, r) \in Steps /\ Does(op, r) = <<St(op, r)>>
  BY DEF St, Does, Steps
<1>2. \A a \in Arrays : /\ Ac("store", a, r) \in Steps /\ Store(a, r) = <<Ac("store", a, r)>>
                        /\ Ac("load", a, r) \in Steps /\ Load(a, r) = <<Ac("load", a, r)>>
  BY DEF Ac, Store, Load, Steps, Ops
<1>3. ASSUME NEW l \in 0 .. Levels PROVE Fo(r, l) \in Steps /\ Fold(r, l) = <<Fo(r, l)>>
  <2>1. Levels - l \in 0 .. Levels
    BY BlockAssumption
  <2>2. TwoTo[Levels - l] \in Nat
    BY <2>1, PowersOfTwo
  <2> QED
    BY <2>2 DEF Fo, Fold, Steps, Ops
<1>4. St("sync", 0) \in Steps /\ Sync = <<St("sync", 0)>>
  BY DEF St, Does, Sync, Steps, Ops
<1> QED
  BY <1>1, <1>2, <1>3, <1>4

LEMMA OneStep ==
  ASSUME NEW s \in Steps
  PROVE  <<s>> \in Seq(Steps)
OBVIOUS

\* Steps one after another, and what may be forgotten between them.
LEMMA LeadsOn ==
  ASSUME NEW q, NEW x, NEW A, NEW B, NEW C, A \subseteq Seq(Steps),
         Leads(q, A, B), Leads(x, B, C)
  PROVE  Leads(q \o x, A, C)
<1>1. ASSUME NEW p \in Seq(Steps), NEW a \in Seq(Steps), NEW b \in Seq(Steps)
      PROVE  p \o (a \o b) = (p \o a) \o b /\ a \o b \in Seq(Steps)
  OBVIOUS
<1>2. q \in Seq(Steps) /\ x \in Seq(Steps)
  BY DEF Leads
<1>3. q \o x \in Seq(Steps)
  BY <1>1, <1>2
<1>4. ASSUME NEW p \in A PROVE p \o (q \o x) \in C
  <2>1. p \o (q \o x) = (p \o q) \o x
    BY <1>1, <1>2
  <2>2. (p \o q) \o x \in C
    BY DEF Leads
  <2> QED
    BY <2>1, <2>2
<1> QED
  BY <1>3, <1>4, Zenon DEF Leads

LEMMA SyncedQuiet ==
  ASSUME NEW K, NEW U
  PROVE  Synced(K) \subseteq Quiet(K, U)
BY SyncedClean DEF Synced, Quiet

\* A barrier.
LEMMA SyncStep ==
  ASSUME NEW p, Fits(p)
  PROVE  LET c == p \o Sync
         IN  /\ c \in Seq(Steps) /\ Fits(c) /\ EndsSynced(c) /\ Len(p) \in Nat
             /\ Len(c) = Len(p) + 1 /\ c[Len(c)].op = "sync"
             /\ \A i \in 1 .. Len(p) : c[i] = p[i]
             /\ \A a, r : There(p, a, r) \/ Put(p, a, r) => There(c, a, r)
<1> DEFINE s == St("sync", 0)  c == p \o <<s>>
<1>1. s \in Steps /\ Sync = <<s>> /\ p \in Seq(Steps)
  BY StepsTyped DEF Fits
<1>2. s.op = "sync"
  BY DEF St
<1> HIDE DEF s
<1>3. Follows(p, s)
  BY <1>2 DEF Follows, Writes, Reads
<1>4. Fits(c)
  BY <1>1, <1>3, FollowFits
<1>5. /\ c \in Seq(Steps) /\ Len(p) \in Nat /\ Len(c) = Len(p) + 1
      /\ \A i \in 1 .. Len(p) : c[i] = p[i]
      /\ c[Len(p) + 1] = s
  BY <1>1, StepsOf
<1>6. ~\E a : Stores(s, a)
  BY <1>2 DEF Stores
<1>7. \A a, r : There(p, a, r) \/ Put(p, a, r) => There(c, a, r)
  BY <1>1, <1>2, <1>6, FollowKeeps
<1> HIDE DEF c
<1>8. EndsSynced(c) /\ c[Len(c)].op = "sync"
  BY <1>2, <1>5 DEF EndsSynced
<1> QED
  BY <1>1, <1>4, <1>5, <1>7, <1>8 DEF c

LEMMA SyncLeads ==
  /\ \A K, U : Leads(Sync, Quiet(K, U), Synced(K))
  /\ \A K, a, r : Leads(Sync, Written(K, a, r), Synced(K \cup {<<a, r>>}))
  /\ \A r, w : Leads(Sync, Summed(r, w), Whole(r, w))
  /\ \A r : Leads(Sync, Scaled(r), Scaling(r))
<1>0. Sync \in Seq(Steps)
  <2>1. 0 \in Int
    OBVIOUS
  <2> QED
    BY <2>1, StepsTyped, OneStep
<1>1. ASSUME NEW K, NEW U, NEW p \in Quiet(K, U) PROVE p \o Sync \in Synced(K)
  BY SyncStep DEF Quiet, Synced, Keeps
<1>2. ASSUME NEW K, NEW a, NEW r, NEW p \in Written(K, a, r)
      PROVE  p \o Sync \in Synced(K \cup {<<a, r>>})
  <2>1. Fits(p) /\ Keeps(p, K) /\ Put(p, a, r)
    BY DEF Written
  <2>2. Keeps(p \o Sync, K \cup {<<a, r>>})
    <3> SUFFICES ASSUME NEW x \in K \cup {<<a, r>>} PROVE There(p \o Sync, x[1], x[2])
      BY DEF Keeps
    <3>1. CASE x \in K
      BY <3>1, <2>1, SyncStep DEF Keeps
    <3>2. CASE x = <<a, r>>
      <4>1. x[1] = a /\ x[2] = r
        BY <3>2
      <4> QED
        BY <4>1, <2>1, SyncStep
    <3> QED
      BY <3>1, <3>2
  <2> QED
    BY <2>1, <2>2, SyncStep DEF Synced
<1>3. ASSUME NEW r, NEW w, NEW p \in Summed(r, w) PROVE p \o Sync \in Whole(r, w)
  <2>1. Fits(p) /\ Reduced(p, Len(p), r, w)
    BY DEF Summed
  <2> DEFINE c == p \o Sync
  <2>2. /\ c \in Seq(Steps) /\ Fits(c) /\ Len(p) \in Nat
        /\ Len(c) = Len(p) + 1 /\ c[Len(c)].op = "sync"
        /\ \A i \in 1 .. Len(p) : c[i] = p[i]
    BY <2>1, SyncStep
  <2> HIDE DEF c
  <2>3. Len(p) > 0 /\ Len(c) - 1 = Len(p) /\ c[Len(p)] = p[Len(p)]
    BY <2>1, <2>2 DEF Reduced
  <2>4. c \in Whole(r, w)
    BY <2>1, <2>2, <2>3 DEF Whole, Reduced
  <2> QED
    BY <2>4 DEF c
<1>4. ASSUME NEW r, NEW p \in Scaled(r) PROVE p \o Sync \in Scaling(r)
  <2>1. Fits(p) /\ Len(p) > 0 /\ IsFactors(p[Len(p)], r)
    BY DEF Scaled
  <2> DEFINE c == p \o Sync
  <2>2. /\ c \in Seq(Steps) /\ Fits(c) /\ Len(p) \in Nat
        /\ Len(c) = Len(p) + 1 /\ c[Len(c)].op = "sync"
        /\ \A i \in 1 .. Len(p) : c[i] = p[i]
    BY <2>1, SyncStep
  <2> HIDE DEF c
  <2>3. Len(c) - 1 = Len(p) /\ c[Len(p)] = p[Len(p)]
    BY <2>1, <2>2
  <2>4. c \in Scaling(r)
    BY <2>1, <2>2, <2>3 DEF Scaling
  <2> QED
    BY <2>4 DEF c
<1> QED
  BY <1>0, <1>1, <1>2, <1>3, <1>4 DEF Leads

\* Any other step: what it asks of the program and where it leads.
LEMMA OtherStep ==
  ASSUME NEW p, Fits(p), NEW s \in Steps, Follows(p, s)
  PROVE  LET c == p \o <<s>>
         IN  /\ c \in Seq(Steps) /\ Fits(c) /\ Len(p) \in Nat
             /\ Len(c) = Len(p) + 1 /\ c[Len(c)] = s
             /\ ~Writes(s) => EndsQuiet(c)
             /\ \A a : Clean(p, a) /\ ~(Reads(s) /\ ReadArray(s) = a) => Clean(c, a)
             /\ \A a, r : There(p, a, r) /\ ~Stores(s, a) => There(c, a, r)
             /\ \A a : Stores(s, a) => Put(c, a, s.round)
<1> DEFINE c == p \o <<s>>
<1>1. p \in Seq(Steps)
  BY DEF Fits
<1>2. Fits(c)
  BY FollowFits
<1>3. c \in Seq(Steps) /\ Len(p) \in Nat /\ Len(c) = Len(p) + 1 /\ c[Len(c)] = s
  BY <1>1, StepsOf
<1>4. /\ \A a : Clean(p, a) /\ ~(Reads(s) /\ ReadArray(s) = a) => Clean(c, a)
      /\ \A a, r : There(p, a, r) /\ ~Stores(s, a) => There(c, a, r)
      /\ \A a : Stores(s, a) => Put(c, a, s.round)
  BY <1>1, FollowKeeps
<1> HIDE DEF c
<1>5. ~Writes(s) => EndsQuiet(c)
  BY <1>3 DEF EndsQuiet
<1> QED
  BY <1>2, <1>3, <1>4, <1>5 DEF c

LEMMA StoreLeads ==
  ASSUME NEW K, NEW U, NEW a \in Arrays \ U, NEW r \in Int, \A x \in K : x[1] # a
  PROVE  Leads(Store(a, r), Quiet(K, U), Written(K, a, r))
<1> DEFINE s == Ac("store", a, r)
<1>1. s \in Steps /\ Store(a, r) = <<s>> /\ <<s>> \in Seq(Steps)
  BY StepsTyped, OneStep
<1>2. s.op = "store" /\ s.array = a /\ s.round = r
  BY DEF Ac
<1> HIDE DEF s
<1>3. ~Writes(s) /\ ~Reads(s) /\ Stores(s, a) /\ \A b : b # a => ~Stores(s, b)
  BY <1>2 DEF Writes, Reads, Stores
<1>4. ASSUME NEW p \in Quiet(K, U) PROVE p \o <<s>> \in Written(K, a, r)
  <2>1. Fits(p) /\ EndsQuiet(p) /\ Keeps(p, K) /\ Clean(p, a)
    BY DEF Quiet
  <2>2. Follows(p, s)
    BY <1>2, <1>3, <2>1 DEF Follows
  <2>3. /\ p \o <<s>> \in Seq(Steps) /\ Fits(p \o <<s>>) /\ EndsQuiet(p \o <<s>>)
        /\ \A b, x : There(p, b, x) /\ ~Stores(s, b) => There(p \o <<s>>, b, x)
        /\ Put(p \o <<s>>, a, r)
    BY <1>1, <1>2, <1>3, <2>1, <2>2, OtherStep
  <2>4. Keeps(p \o <<s>>, K)
    BY <1>3, <2>1, <2>3 DEF Keeps
  <2> QED
    BY <2>3, <2>4 DEF Written
<1> QED
  BY <1>1, <1>4 DEF Leads

\* A step that reads array a.
LEMMA ReadLeads ==
  ASSUME NEW K, NEW U, NEW s \in Steps, Reads(s), ReadArray(s) \in Arrays,
         <<ReadArray(s), s.round>> \in K
  PROVE  Leads(<<s>>, Quiet(K, U), Quiet(K, U \cup {ReadArray(s)}))
<1> DEFINE a == ReadArray(s)
<1>2. s.op \in {"load", "select"}
  BY DEF Reads
<1>3. ~Writes(s) /\ \A b : ~Stores(s, b)
  BY <1>2 DEF Writes, Stores
<1> HIDE DEF a
<1>4. ASSUME NEW p \in Quiet(K, U) PROVE p \o <<s>> \in Quiet(K, U \cup {a})
  <2>1. Fits(p) /\ EndsQuiet(p) /\ Keeps(p, K) /\ \A b \in Arrays \ U : Clean(p, b)
    BY DEF Quiet
  <2>0. There(p, ReadArray(s), s.round)
    <3> DEFINE x == <<ReadArray(s), s.round>>
    <3>1. x \in K /\ x[1] = ReadArray(s) /\ x[2] = s.round
      OBVIOUS
    <3> HIDE DEF x
    <3> QED
      BY <3>1, <2>1 DEF Keeps
  <2>2. Follows(p, s)
    BY <1>2, <1>3, <2>0, <2>1 DEF Follows
  <2>3. /\ p \o <<s>> \in Seq(Steps) /\ Fits(p \o <<s>>) /\ EndsQuiet(p \o <<s>>)
        /\ \A b, x : There(p, b, x) /\ ~Stores(s, b) => There(p \o <<s>>, b, x)
        /\ \A b : Clean(p, b) /\ a # b => Clean(p \o <<s>>, b)
    BY <1>3, <2>1, <2>2, OtherStep DEF a
  <2>4. Keeps(p \o <<s>>, K)
    BY <1>3, <2>1, <2>3 DEF Keeps
  <2> QED
    BY <2>1, <2>3, <2>4 DEF Quiet
<1> QED
  BY <1>4, OneStep DEF Leads, a

LEMMA LoadLeads ==
  ASSUME NEW K, NEW U, NEW a \in Arrays, NEW r \in Int, <<a, r>> \in K
  PROVE  Leads(Load(a, r), Quiet(K, U), Quiet(K, U \cup {a}))
<1>1. Ac("load", a, r) \in Steps /\ Load(a, r) = <<Ac("load", a, r)>>
  BY StepsTyped
<1>2. Reads(Ac("load", a, r)) /\ ReadArray(Ac("load", a, r)) = a /\ Ac("load", a, r).round = r
  BY DEF Reads, ReadArray, Ac
<1> QED
  BY <1>1, <1>2, ReadLeads

LEMMA SelectLeads ==
  ASSUME NEW K, NEW U, NEW r \in Int, <<"probs", r>> \in K
  PROVE  Leads(Does("select", r), Quiet(K, U), Quiet(K, U \cup {"probs"}))
<1>1. St("select", r) \in Steps /\ Does("select", r) = <<St("select", r)>>
  BY StepsTyped DEF Ops
<1>2. Reads(St("select", r)) /\ ReadArray(St("select", r)) = "probs" /\ St("select", r).round = r
  BY DEF Reads, ReadArray, St
<1> QED
  BY <1>1, <1>2, ReadLeads DEF Arrays

LEMMA PublishLeads ==
  ASSUME NEW r \in Int
  PROVE  Leads(Does("publish", r), Synced({}), Summed(r, Threads))
<1> DEFINE s == St("publish", r)
<1>1. s \in Steps /\ Does("publish", r) = <<s>> /\ <<s>> \in Seq(Steps)
  BY StepsTyped, OneStep DEF Ops
<1>2. s.op = "publish" /\ s.round = r
  BY DEF St
<1> HIDE DEF s
<1>3. ASSUME NEW p \in Synced({}) PROVE p \o <<s>> \in Summed(r, Threads)
  <2>1. Fits(p) /\ EndsSynced(p) /\ EndsQuiet(p)
    BY SyncedClean DEF Synced
  <2>2. Follows(p, s)
    BY <1>2, <2>1 DEF Follows, Reads
  <2> DEFINE c == p \o <<s>>
  <2>3. c \in Seq(Steps) /\ Fits(c) /\ Len(c) = Len(p) + 1 /\ Len(p) \in Nat /\ c[Len(c)] = s
    BY <1>1, <2>1, <2>2, OtherStep
  <2> HIDE DEF c
  <2>4. c \in Summed(r, Threads)
    BY <1>2, <2>3 DEF Summed, Reduced, Width
  <2> QED
    BY <2>4 DEF c
<1> QED
  BY <1>1, <1>3 DEF Leads

LEMMA FoldLeads ==
  ASSUME NEW r \in Int, NEW l \in 0 .. Levels - 1
  PROVE  Leads(Fold(r, l + 1), Whole(r, TwoTo[Levels - l]), Summed(r, TwoTo[Levels - (l + 1)]))
<1> DEFINE s == Fo(r, l + 1)  w == TwoTo[Levels - (l + 1)]
<1>0. /\ Levels - (l + 1) \in 0 .. Levels /\ Levels - l \in 1 .. Levels
      /\ (Levels - l) - 1 = Levels - (l + 1) /\ l + 1 \in 0 .. Levels /\ Levels - l \in 0 .. Levels
  BY BlockAssumption
<1>1. w \in Nat \ {0} /\ TwoTo[Levels - l] = 2 * w /\ 2 * w <= Threads
  BY <1>0, PowersOfTwo
<1>2. s \in Steps /\ Fold(r, l + 1) = <<s>> /\ <<s>> \in Seq(Steps)
  BY <1>0, StepsTyped, OneStep
<1>3. s.op = "fold" /\ s.round = r /\ s.stride = w
  BY DEF Fo
<1> HIDE DEF s, w
<1>4. ASSUME NEW p \in Whole(r, 2 * w) PROVE p \o <<s>> \in Summed(r, w)
  <2>1. Fits(p) /\ Len(p) > 1 /\ p[Len(p)].op = "sync" /\ Reduced(p, Len(p) - 1, r, 2 * w)
    BY DEF Whole
  <2>2. Follows(p, s)
    BY <1>1, <1>3, <2>1 DEF Follows, Reads, EndsSynced, EndsQuiet, Writes
  <2> DEFINE c == p \o <<s>>
  <2>3. c \in Seq(Steps) /\ Fits(c) /\ Len(c) = Len(p) + 1 /\ Len(p) \in Nat /\ c[Len(c)] = s
    BY <1>2, <2>1, <2>2, OtherStep
  <2> HIDE DEF c
  <2>4. c \in Summed(r, w)
    BY <1>3, <2>3 DEF Summed, Reduced, Width
  <2> QED
    BY <2>4 DEF c
<1> QED
  BY <1>1, <1>2, <1>4 DEF Leads, w

LEMMA TakeLeads ==
  ASSUME NEW r \in Int
  PROVE  /\ Leads(Does("take", r), Whole(r, 1), Quiet({}, {}))
         /\ Leads(Does("factors", r), Whole(r, 1), Scaled(r))
<1>0. ASSUME NEW p \in Whole(r, 1)
      PROVE  /\ Fits(p) /\ Len(p) > 1 /\ p[Len(p)].op = "sync" /\ Reduced(p, Len(p) - 1, r, 1)
             /\ p \in Seq(Steps) /\ EndsSynced(p) /\ EndsQuiet(p) /\ \A a : Clean(p, a)
  <2>1. /\ Fits(p) /\ Len(p) > 1 /\ p[Len(p)].op = "sync" /\ Reduced(p, Len(p) - 1, r, 1)
        /\ p \in Seq(Steps)
    BY DEF Whole
  <2>2. EndsSynced(p)
    BY <2>1 DEF EndsSynced
  <2> QED
    BY <2>1, <2>2, SyncedClean
<1>1. Leads(Does("take", r), Whole(r, 1), Quiet({}, {}))
  <2> DEFINE s == St("take", r)
  <2>1. s \in Steps /\ Does("take", r) = <<s>> /\ <<s>> \in Seq(Steps)
    BY StepsTyped, OneStep DEF Ops
  <2>2. s.op = "take" /\ s.round = r /\ ~Writes(s) /\ ~Reads(s)
    BY DEF St, Writes, Reads
  <2> HIDE DEF s
  <2>3. ASSUME NEW p \in Whole(r, 1) PROVE p \o <<s>> \in Quiet({}, {})
    <3>1. Follows(p, s)
      BY <1>0, <2>2 DEF Follows
    <3>2. /\ p \o <<s>> \in Seq(Steps) /\ Fits(p \o <<s>>) /\ EndsQuiet(p \o <<s>>)
          /\ \A a : Clean(p \o <<s>>, a)
      BY <1>0, <2>1, <2>2, <3>1, OtherStep
    <3> QED
      BY <3>2 DEF Quiet, Keeps
  <2> QED
    BY <2>1, <2>3 DEF Leads
<1>2. Leads(Does("factors", r), Whole(r, 1), Scaled(r))
  <2> DEFINE s == St("factors", r)
  <2>1. s \in Steps /\ Does("factors", r) = <<s>> /\ <<s>> \in Seq(Steps)
    BY StepsTyped, OneStep DEF Ops
  <2>2. s.op = "factors" /\ s.round = r /\ ~Reads(s)
    BY DEF St, Reads
  <2> HIDE DEF s
  <2>3. ASSUME NEW p \in Whole(r, 1) PROVE p \o <<s>> \in Scaled(r)
    <3>1. Follows(p, s)
      BY <1>0, <2>2 DEF Follows
    <3> DEFINE c == p \o <<s>>
    <3>2. c \in Seq(Steps) /\ Fits(c) /\ Len(c) = Len(p) + 1 /\ Len(p) \in Nat /\ c[Len(c)] = s
      BY <1>0, <2>1, <3>1, OtherStep
    <3> HIDE DEF c
    <3>3. c \in Scaled(r)
      BY <2>2, <3>2 DEF Scaled, IsFactors
    <3> QED
      BY <3>3 DEF c
  <2> QED
    BY <2>1, <2>3 DEF Leads
<1> QED
  BY <1>1, <1>2

LEMMA CombineLeads ==
  ASSUME NEW r \in Int
  PROVE  Leads(Does("combine", r), Scaling(r), Quiet({}, {}))
<1> DEFINE s == St("combine", r)
<1>1. s \in Steps /\ Does("combine", r) = <<s>> /\ <<s>> \in Seq(Steps)
  BY StepsTyped, OneStep DEF Ops
<1>2. s.op = "combine" /\ s.round = r /\ ~Writes(s) /\ ~Reads(s)
  BY DEF St, Writes, Reads
<1> HIDE DEF s
<1>3. ASSUME NEW p \in Scaling(r) PROVE p \o <<s>> \in Quiet({}, {})
  <2>1. Fits(p) /\ Len(p) > 1 /\ p[Len(p)].op = "sync" /\ IsFactors(p[Len(p) - 1], r)
        /\ p \in Seq(Steps)
    BY DEF Scaling
  <2>2. EndsSynced(p)
    BY <2>1 DEF EndsSynced
  <2>3. EndsQuiet(p) /\ \A a : Clean(p, a)
    BY <2>1, <2>2, SyncedClean
  <2>4. Follows(p, s)
    BY <1>2, <2>1, <2>3 DEF Follows, IsFactors
  <2>5. /\ p \o <<s>> \in Seq(Steps) /\ Fits(p \o <<s>>) /\ EndsQuiet(p \o <<s>>)
        /\ \A a : Clean(p \o <<s>>, a)
    BY <1>1, <1>2, <2>1, <2>3, <2>4, OtherStep
  <2> QED
    BY <2>5 DEF Quiet, Keeps
<1> QED
  BY <1>1, <1>3 DEF Leads

\* Programs one after another.
LEMMA TimesLead ==
  ASSUME NEW n \in Nat, NEW ss \in [1 .. n -> Seq(Steps)], NEW P,
         \A i \in 0 .. n : P[i] \subseteq Seq(Steps),
         \A i \in 0 .. n - 1 : Leads(ss[i + 1], P[i], P[i + 1])
  PROVE  Leads(FlattenSeq(ss), P[0], P[n])
<1>1. FlattenSeq(ss) \in Seq(Steps)
  <2> DEFINE Q == [i \in 0 .. n |-> Seq(Steps)]
  <2>1. <<>> \in Q[0] /\ <<>> \in Seq(Steps)
    OBVIOUS
  <2>2. ASSUME NEW i \in 0 .. n - 1, NEW x \in Q[i] PROVE x \o ss[i + 1] \in Q[i + 1]
    <3>1. i + 1 \in 1 .. n /\ i + 1 \in 0 .. n /\ i \in 0 .. n
      OBVIOUS
    <3>2. ss[i + 1] \in Seq(Steps) /\ x \in Seq(Steps)
      BY <3>1
    <3> QED
      BY <3>1, <3>2
  <2> HIDE DEF Q
  <2> QED
    BY <2>1, <2>2, FlattenedAfter
<1>2. ASSUME NEW p \in P[0] PROVE p \o FlattenSeq(ss) \in P[n]
  <2>1. p \in Seq(Steps)
    OBVIOUS
  <2>2. \A i \in 0 .. n - 1 : \A x \in P[i] : x \in Seq(Steps) => x \o ss[i + 1] \in P[i + 1]
    BY DEF Leads
  <2> QED
    BY <2>1, <2>2, FlattenedAfter
<1> QED
  BY <1>1, <1>2 DEF Leads

-----------------------------------------------------------------------------
(* The kernels. *)

LEMMA SyncedOn ==
  ASSUME NEW K, NEW q, NEW x, NEW B, NEW C, Leads(q, Synced(K), B), Leads(x, B, C)
  PROVE  Leads(q \o x, Synced(K), C)
<1>1. Synced(K) \subseteq Seq(Steps)
  BY DEF Synced
<1> QED
  BY <1>1, LeadsOn

LEMMA Weaker ==
  ASSUME NEW q, NEW A, NEW B, NEW C, Leads(q, A, B), B \subseteq C
  PROVE  Leads(q, A, C)
BY DEF Leads

LEMMA Stronger ==
  ASSUME NEW q, NEW A, NEW B, NEW C, Leads(q, B, C), A \subseteq B
  PROVE  Leads(q, A, C)
BY DEF Leads

LEMMA SyncedForgets ==
  ASSUME NEW K, NEW L, K \subseteq L
  PROVE  Synced(L) \subseteq Synced(K)
BY DEF Synced, Keeps

LEMMA NoSteps ==
  /\ <<>> \in Synced({})
  /\ \A K : Leads(<<>>, Synced(K), Synced(K))
<1>1. <<>> \in Seq(Steps) /\ Len(<<>>) = 0
  OBVIOUS
<1>2. <<>> \in Synced({})
  BY <1>1 DEF Synced, Fits, EndsSynced, Keeps
<1>3. \A p \in Seq(Steps) : p \o <<>> = p
  OBVIOUS
<1>4. \A K : Leads(<<>>, Synced(K), Synced(K))
  BY <1>1, <1>3 DEF Leads, Synced
<1> QED
  BY <1>2, <1>4

LEMMA LeadsFits ==
  ASSUME NEW q, NEW B, Leads(q, Synced({}), B), \A p \in B : Fits(p)
  PROVE  Fits(q)
<1>1. <<>> \o q \in B
  BY NoSteps DEF Leads
<1>2. q \in Seq(Steps) /\ \A s \in Seq(Steps) : <<>> \o s = s
  BY DEF Leads
<1> QED
  BY <1>1, <1>2

LEMMA TreeLeads ==
  ASSUME NEW r \in Int
  PROVE  Leads(Tree(r), Synced({}), Whole(r, 1))
<1> DEFINE ss == [l \in 1 .. Levels |-> Fold(r, l) \o Sync]
           P == [l \in 0 .. Levels |-> Whole(r, TwoTo[Levels - l])]
<1>0. Levels \in Nat /\ Levels - 0 = Levels /\ Levels - Levels = 0 /\ TwoTo[0] = 1
  BY BlockAssumption, PowersOfTwo
<1>1. Leads(Does("publish", r) \o Sync, Synced({}), P[0])
  <2>1. Leads(Does("publish", r) \o Sync, Synced({}), Whole(r, Threads))
    BY PublishLeads, SyncLeads, SyncedOn
  <2> QED
    BY <2>1, <1>0 DEF Threads
<1>2. ASSUME NEW l \in 0 .. Levels - 1
      PROVE  Leads(Fold(r, l + 1) \o Sync, Whole(r, TwoTo[Levels - l]),
                   Whole(r, TwoTo[Levels - (l + 1)]))
  <2>1. Whole(r, TwoTo[Levels - l]) \subseteq Seq(Steps)
    BY DEF Whole
  <2> QED
    BY <2>1, FoldLeads, SyncLeads, LeadsOn
<1>3. \A l \in 1 .. Levels : ss[l] \in Seq(Steps)
  <2> TAKE l \in 1 .. Levels
  <2>1. l - 1 \in 0 .. Levels - 1 /\ (l - 1) + 1 = l
    BY <1>0
  <2>2. Fold(r, (l - 1) + 1) \o Sync \in Seq(Steps)
    BY <1>2, <2>1 DEF Leads
  <2> QED
    BY <2>1, <2>2
<1>4. ss \in [1 .. Levels -> Seq(Steps)]
  BY <1>3
<1>5. \A l \in 0 .. Levels : P[l] \subseteq Seq(Steps)
  BY DEF Whole
<1>6. \A l \in 0 .. Levels - 1 : Leads(ss[l + 1], P[l], P[l + 1])
  <2> TAKE l \in 0 .. Levels - 1
  <2>1. l \in 0 .. Levels /\ l + 1 \in 0 .. Levels /\ l + 1 \in 1 .. Levels
    BY <1>0
  <2>2. ss[l + 1] = Fold(r, l + 1) \o Sync /\ P[l] = Whole(r, TwoTo[Levels - l])
        /\ P[l + 1] = Whole(r, TwoTo[Levels - (l + 1)])
    BY <2>1
  <2> HIDE DEF ss, P
  <2> QED
    BY <2>2, <1>2
<1>8. P[Levels] = Whole(r, 1)
  BY <1>0
<1>9. Tree(r) = (Does("publish", r) \o Sync) \o FlattenSeq(ss)
  BY DEF Tree
<1> HIDE DEF ss, P
<1>7. Leads(FlattenSeq(ss), P[0], P[Levels])
  BY <1>0, <1>4, <1>5, <1>6, TimesLead
<1> QED
  BY <1>1, <1>7, <1>8, <1>9, SyncedOn

\* A reduction, what is taken of it, and the barrier that lets red be used again.
LEMMA TakenLeads ==
  ASSUME NEW r \in Int
  PROVE  /\ Leads(Tree(r) \o Does("take", r), Synced({}), Quiet({}, {}))
         /\ Leads(Tree(r) \o Does("take", r) \o Sync, Synced({}), Synced({}))
<1>1. Leads(Tree(r) \o Does("take", r), Synced({}), Quiet({}, {}))
  BY TreeLeads, TakeLeads, SyncedOn
<1> QED
  BY <1>1, SyncLeads, SyncedOn

\* A loop each of whose rounds leads from a barrier to a barrier.
LEMMA LoopLeads ==
  ASSUME NEW n \in Nat, NEW K, NEW ss, ss = [r \in 1 .. n |-> ss[r]],
         \A r \in 1 .. n : Leads(ss[r], Synced(K), Synced(K))
  PROVE  Leads(FlattenSeq(ss), Synced(K), Synced(K))
<1> DEFINE P == [i \in 0 .. n |-> Synced(K)]
<1>1. ss \in [1 .. n -> Seq(Steps)]
  BY DEF Leads
<1>2. \A i \in 0 .. n : P[i] \subseteq Seq(Steps)
  BY DEF Synced
<1>3. \A i \in 0 .. n - 1 : Leads(ss[i + 1], P[i], P[i + 1])
  <2> TAKE i \in 0 .. n - 1
  <2>1. i \in 0 .. n /\ i + 1 \in 0 .. n /\ i + 1 \in 1 .. n
    OBVIOUS
  <2> QED
    BY <2>1
<1>4. P[0] = Synced(K) /\ P[n] = Synced(K)
  OBVIOUS
<1> HIDE DEF P
<1> QED
  BY <1>1, <1>2, <1>3, <1>4, TimesLead

\* Every thread stores its part of an array, after a barrier or after what was read
\* of other arrays.
LEMMA StoredLeads ==
  ASSUME NEW K, NEW U, NEW a \in Arrays \ U, NEW r \in Int, \A x \in K : x[1] # a,
         NEW q, NEW L, Leads(q, Synced(L), Quiet(K, U))
  PROVE  Leads(q \o Store(a, r) \o Sync, Synced(L), Synced(K \cup {<<a, r>>}))
<1>1. Leads(q \o Store(a, r), Synced(L), Written(K, a, r))
  BY StoreLeads, SyncedOn
<1> QED
  BY <1>1, SyncLeads, SyncedOn

LEMMA LoadedLeads ==
  ASSUME NEW K, NEW U, NEW a \in Arrays, NEW r \in Int, <<a, r>> \in K,
         NEW q, NEW L, Leads(q, Synced(L), Quiet(K, U))
  PROVE  Leads(q \o Load(a, r), Synced(L), Quiet(K, U \cup {a}))
BY LoadLeads, SyncedOn

LEMMA SyncedLeads ==
  ASSUME NEW K, NEW U, NEW q, NEW L, Leads(q, Synced(L), Quiet(K, U))
  PROVE  Leads(q \o Sync, Synced(L), Synced(K))
BY SyncLeads, SyncedOn

LEMMA RmsNormFits == Fits(RmsNorm)
<1>1. Leads(RmsNorm, Synced({}), Quiet({}, {}))
  <2>1. 1 \in Int
    OBVIOUS
  <2> QED
    BY <2>1, TakenLeads DEF RmsNorm
<1> QED
  BY <1>1, LeadsFits DEF Quiet

LEMMA LayerNormFits == Fits(LayerNorm)
<1> DEFINE q == Tree(1) \o Does("take", 1) \o Sync
<1>1. Leads(q, Synced({}), Synced({}))
  <2>1. 1 \in Int
    OBVIOUS
  <2> QED
    BY <2>1, TakenLeads
<1> HIDE DEF q
<1>2. Leads(q \o Tree(2), Synced({}), Whole(2, 1))
  <2>1. 2 \in Int
    OBVIOUS
  <2> QED
    BY <2>1, <1>1, TreeLeads, SyncedOn
<1>3. Leads(q \o Tree(2) \o Does("take", 2), Synced({}), Quiet({}, {}))
  <2>1. 2 \in Int
    OBVIOUS
  <2> QED
    BY <2>1, <1>2, TakeLeads, SyncedOn
<1>4. LayerNorm = q \o Tree(2) \o Does("take", 2)
  BY DEF LayerNorm, q
<1> QED
  BY <1>3, <1>4, LeadsFits DEF Quiet

LEMMA HeadNormFits ==
  ASSUME NEW n \in Nat
  PROVE  Fits(HeadNorm(n))
<1> DEFINE Body(r) == Tree(r) \o Does("take", r) \o Store("cells", r) \o Sync
                        \o Load("cells", r) \o Sync
           ss == [r \in 1 .. n |-> Body(r)]
<1>1. ASSUME NEW r \in Int PROVE Leads(Body(r), Synced({}), Synced({}))
  <2> DEFINE K == {} \cup {<<"cells", r>>}
             q == Tree(r) \o Does("take", r)
  <2>0. "cells" \in Arrays \ {} /\ "cells" \in Arrays /\ <<"cells", r>> \in K
    BY DEF Arrays
  <2>1. Leads(q, Synced({}), Quiet({}, {}))
    BY TakenLeads
  <2> HIDE DEF q
  <2>2. Leads(q \o Store("cells", r) \o Sync, Synced({}), Synced(K))
    BY <2>0, <2>1, StoredLeads
  <2> HIDE DEF K
  <2>3. Leads(q \o Store("cells", r) \o Sync, Synced({}), Quiet(K, {}))
    BY <2>2, SyncedQuiet, Weaker
  <2>4. Leads(q \o Store("cells", r) \o Sync \o Load("cells", r), Synced({}),
              Quiet(K, {} \cup {"cells"}))
    BY <2>0, <2>3, LoadedLeads
  <2>5. Leads(q \o Store("cells", r) \o Sync \o Load("cells", r) \o Sync, Synced({}), Synced(K))
    BY <2>4, SyncedLeads
  <2>6. Synced(K) \subseteq Synced({})
    BY SyncedForgets
  <2>7. Leads(q \o Store("cells", r) \o Sync \o Load("cells", r) \o Sync, Synced({}), Synced({}))
    BY <2>5, <2>6, Weaker
  <2> QED
    BY <2>7 DEF q
<1>2. HeadNorm(n) = FlattenSeq(ss)
  BY DEF HeadNorm, Times
<1>3. ss = [r \in 1 .. n |-> ss[r]] /\ \A r \in 1 .. n : ss[r] = Body(r) /\ r \in Int
  OBVIOUS
<1> HIDE DEF ss, Body
<1>4. Leads(FlattenSeq(ss), Synced({}), Synced({}))
  BY <1>1, <1>3, LoopLeads
<1> QED
  BY <1>2, <1>4, LeadsFits DEF Synced

LEMMA RouterFits ==
  ASSUME NEW sigmoid \in BOOLEAN
  PROVE  Fits(Router(sigmoid))
<1> DEFINE K == {} \cup {<<"probs", 1>>}
           q == IF sigmoid THEN Store("probs", 1)
                ELSE Tree(1) \o Does("take", 1) \o Sync
                       \o Tree(2) \o Does("take", 2) \o Sync \o Store("probs", 1)
<1>0. "probs" \in Arrays \ {} /\ "probs" \in Arrays /\ <<"probs", 1>> \in K /\ 1 \in Int /\ 2 \in Int
  BY DEF Arrays
<1>1. Leads(q, Synced({}), Written({}, "probs", 1))
  <2>1. Leads(Store("probs", 1), Quiet({}, {}), Written({}, "probs", 1))
    BY <1>0, StoreLeads
  <2>2. Leads(Store("probs", 1), Synced({}), Written({}, "probs", 1))
    BY <2>1, SyncedQuiet, Stronger
  <2> DEFINE x == Tree(1) \o Does("take", 1) \o Sync
  <2>3. Leads(x, Synced({}), Synced({}))
    BY <1>0, TakenLeads
  <2> HIDE DEF x
  <2>4. Leads(x \o Tree(2), Synced({}), Whole(2, 1))
    BY <1>0, <2>3, TreeLeads, SyncedOn
  <2>5. Leads(x \o Tree(2) \o Does("take", 2), Synced({}), Quiet({}, {}))
    BY <1>0, <2>4, TakeLeads, SyncedOn
  <2>6. Leads(x \o Tree(2) \o Does("take", 2) \o Sync, Synced({}), Synced({}))
    BY <2>5, SyncedLeads
  <2>7. Leads(x \o Tree(2) \o Does("take", 2) \o Sync \o Store("probs", 1),
              Synced({}), Written({}, "probs", 1))
    BY <2>2, <2>6, SyncedOn
  <2> QED
    BY <2>2, <2>7 DEF x
<1> HIDE DEF q
<1>2. Leads(q \o Sync, Synced({}), Synced(K))
  BY <1>1, SyncLeads, SyncedOn
<1> HIDE DEF K
<1>3. Leads(q \o Sync, Synced({}), Quiet(K, {}))
  BY <1>2, SyncedQuiet, Weaker
<1>4. Leads(q \o Sync \o Does("select", 1), Synced({}), Quiet(K, {} \cup {"probs"}))
  BY <1>0, <1>3, SelectLeads, SyncedOn
<1>5. Router(sigmoid) = q \o Sync \o Does("select", 1)
  BY DEF Router, q
<1> QED
  BY <1>4, <1>5, LeadsFits DEF Quiet

LEMMA AttentionFits ==
  ASSUME NEW n \in Nat
  PROVE  Fits(Attention(n))
<1> DEFINE Body(r) == Tree(r) \o Does("factors", r) \o Sync \o Does("combine", r) \o Sync
           ss == [r \in 1 .. n |-> Body(r)]
<1>1. ASSUME NEW r \in Int PROVE Leads(Body(r), Synced({}), Synced({}))
  <2>1. Leads(Tree(r) \o Does("factors", r), Synced({}), Scaled(r))
    BY TreeLeads, TakeLeads, SyncedOn
  <2>2. Leads(Tree(r) \o Does("factors", r) \o Sync, Synced({}), Scaling(r))
    BY <2>1, SyncLeads, SyncedOn
  <2>3. Leads(Tree(r) \o Does("factors", r) \o Sync \o Does("combine", r), Synced({}), Quiet({}, {}))
    BY <2>2, CombineLeads, SyncedOn
  <2> QED
    BY <2>3, SyncedLeads
<1>2. Attention(n) = FlattenSeq(ss)
  BY DEF Attention, Times
<1>3. ss = [r \in 1 .. n |-> ss[r]] /\ \A r \in 1 .. n : ss[r] = Body(r) /\ r \in Int
  OBVIOUS
<1> HIDE DEF ss, Body
<1>4. Leads(FlattenSeq(ss), Synced({}), Synced({}))
  BY <1>1, <1>3, LoopLeads
<1> QED
  BY <1>2, <1>4, LeadsFits DEF Synced

LEMMA FlashAttentionFits ==
  ASSUME NEW n \in Nat, NEW relpos \in BOOLEAN
  PROVE  Fits(FlashAttention(n, relpos))
<1> DEFINE Body(r) == Store("tile", r) \o Sync \o Load("tile", r) \o Sync
           ss == [r \in 1 .. n |-> Body(r)]
           pro == IF relpos THEN Store("table", 0) \o Sync ELSE <<>>
<1>1. ASSUME NEW a \in Arrays, NEW r \in Int
      PROVE  Leads(Store(a, r) \o Sync, Synced({}), Synced({} \cup {<<a, r>>}))
  <2>1. Leads(Store(a, r), Quiet({}, {}), Written({}, a, r))
    BY StoreLeads
  <2>2. Leads(Store(a, r), Synced({}), Written({}, a, r))
    BY <2>1, SyncedQuiet, Stronger
  <2> QED
    BY <2>2, SyncLeads, SyncedOn
<1>2. "table" \in Arrays /\ "tile" \in Arrays /\ 0 \in Int
  BY DEF Arrays
<1>3. Leads(pro, Synced({}), Synced({}))
  <2>1. Leads(Store("table", 0) \o Sync, Synced({}), Synced({} \cup {<<"table", 0>>}))
    BY <1>1, <1>2
  <2>2. Synced({} \cup {<<"table", 0>>}) \subseteq Synced({})
    BY SyncedForgets
  <2>3. Leads(Store("table", 0) \o Sync, Synced({}), Synced({}))
    BY <2>1, <2>2, Weaker
  <2> QED
    BY <2>3, NoSteps
<1>4. ASSUME NEW r \in Int PROVE Leads(Body(r), Synced({}), Synced({}))
  <2> DEFINE K == {} \cup {<<"tile", r>>}
  <2>0. <<"tile", r>> \in K
    OBVIOUS
  <2>1. Leads(Store("tile", r) \o Sync, Synced({}), Synced(K))
    BY <1>1, <1>2
  <2> HIDE DEF K
  <2>2. Leads(Store("tile", r) \o Sync, Synced({}), Quiet(K, {}))
    BY <2>1, SyncedQuiet, Weaker
  <2>3. Leads(Store("tile", r) \o Sync \o Load("tile", r), Synced({}), Quiet(K, {} \cup {"tile"}))
    BY <1>2, <2>0, <2>2, LoadedLeads
  <2>4. Leads(Body(r), Synced({}), Synced(K))
    BY <2>3, SyncedLeads
  <2>5. Synced(K) \subseteq Synced({})
    BY SyncedForgets
  <2> HIDE DEF Body
  <2> QED
    BY <2>4, <2>5, Weaker
<1>5. FlashAttention(n, relpos) = pro \o FlattenSeq(ss)
  BY DEF FlashAttention, Times
<1>6. ss = [r \in 1 .. n |-> ss[r]] /\ \A r \in 1 .. n : ss[r] = Body(r) /\ r \in Int
  OBVIOUS
<1> HIDE DEF ss, Body, pro
<1>7. Leads(FlattenSeq(ss), Synced({}), Synced({}))
  BY <1>4, <1>6, LoopLeads
<1>8. Leads(pro \o FlattenSeq(ss), Synced({}), Synced({}))
  BY <1>3, <1>7, SyncedOn
<1> QED
  BY <1>5, <1>8, LeadsFits DEF Synced

\* One tile on the tensor cores: the table of the whole block is read beside it.
LEMMA TileLeads ==
  ASSUME NEW r \in Int
  PROVE  Leads(Store("tile", r) \o Sync
                 \o Load("tile", r) \o Load("table", 0) \o Store("scores", r) \o Sync
                 \o Load("scores", r) \o Store("probs", r) \o Sync
                 \o Load("probs", r) \o Load("tile", r) \o Sync,
               Synced({<<"table", 0>>}), Synced({<<"table", 0>>}))
<1> DEFINE K == {<<"table", 0>>}
           K1 == K \cup {<<"tile", r>>}
           K2 == K1 \cup {<<"scores", r>>}
           K3 == K2 \cup {<<"probs", r>>}
           q1 == Store("tile", r) \o Sync
           q2 == q1 \o Load("tile", r) \o Load("table", 0)
           q3 == q2 \o Store("scores", r) \o Sync
           q4 == q3 \o Load("scores", r)
           q5 == q4 \o Store("probs", r) \o Sync
           q6 == q5 \o Load("probs", r) \o Load("tile", r)
<1>0. {"tile", "table", "scores", "probs"} \subseteq Arrays /\ 0 \in Int
  BY DEF Arrays
<1>a. /\ \A x \in K : x[1] # "tile"
      /\ \A x \in K1 : x[1] # "scores"
      /\ \A x \in K2 : x[1] # "probs"
      /\ <<"tile", r>> \in K1 /\ <<"table", 0>> \in K1 /\ <<"scores", r>> \in K2
      /\ <<"probs", r>> \in K3 /\ <<"tile", r>> \in K3 /\ K \subseteq K3
  OBVIOUS
<1>1. Leads(q1, Synced(K), Quiet(K1, {}))
  <2> HIDE DEF K
  <2>1. Leads(Store("tile", r), Quiet(K, {}), Written(K, "tile", r))
    BY <1>0, <1>a, StoreLeads
  <2>2. Leads(Store("tile", r), Synced(K), Written(K, "tile", r))
    BY <2>1, SyncedQuiet, Stronger
  <2>3. Leads(q1, Synced(K), Synced(K1))
    BY <2>2, SyncLeads, SyncedOn
  <2> HIDE DEF K1, q1
  <2> QED
    BY <2>3, SyncedQuiet, Weaker
<1> HIDE DEF q1
<1>2. Leads(q2, Synced(K), Quiet(K1, {"tile", "table"}))
  <2> HIDE DEF K, K1
  <2>1. Leads(q1 \o Load("tile", r), Synced(K), Quiet(K1, {} \cup {"tile"}))
    BY <1>0, <1>a, <1>1, LoadedLeads
  <2>2. Leads(q2, Synced(K), Quiet(K1, ({} \cup {"tile"}) \cup {"table"}))
    BY <1>0, <1>a, <2>1, LoadedLeads
  <2>3. ({} \cup {"tile"}) \cup {"table"} = {"tile", "table"}
    OBVIOUS
  <2> QED
    BY <2>2, <2>3
<1> HIDE DEF q2
<1>3. Leads(q3, Synced(K), Quiet(K2, {}))
  <2> HIDE DEF K, K1
  <2>1. "scores" \in Arrays \ {"tile", "table"}
    BY <1>0
  <2>2. Leads(q3, Synced(K), Synced(K2))
    BY <1>a, <1>2, <2>1, StoredLeads
  <2> HIDE DEF K2, q3
  <2> QED
    BY <2>2, SyncedQuiet, Weaker
<1> HIDE DEF q3
<1>4. Leads(q4, Synced(K), Quiet(K2, {} \cup {"scores"}))
  <2> HIDE DEF K, K2
  <2> QED
    BY <1>0, <1>a, <1>3, LoadedLeads
<1> HIDE DEF q4
<1>5. Leads(q5, Synced(K), Quiet(K3, {}))
  <2> HIDE DEF K, K2
  <2>1. "probs" \in Arrays \ ({} \cup {"scores"})
    BY <1>0
  <2>2. Leads(q5, Synced(K), Synced(K3))
    BY <1>a, <1>4, <2>1, StoredLeads
  <2> HIDE DEF K3, q5
  <2> QED
    BY <2>2, SyncedQuiet, Weaker
<1> HIDE DEF q5
<1>6. Leads(q6 \o Sync, Synced(K), Synced(K3))
  <2> HIDE DEF K, K3
  <2>1. Leads(q5 \o Load("probs", r), Synced(K), Quiet(K3, {} \cup {"probs"}))
    BY <1>0, <1>a, <1>5, LoadedLeads
  <2>2. Leads(q6, Synced(K), Quiet(K3, ({} \cup {"probs"}) \cup {"tile"}))
    BY <1>0, <1>a, <2>1, LoadedLeads
  <2> HIDE DEF q6
  <2> QED
    BY <2>2, SyncedLeads
<1>7. Leads(q6 \o Sync, Synced(K), Synced(K))
  <2>1. Synced(K3) \subseteq Synced(K)
    <3> HIDE DEF K, K3
    <3> QED
      BY <1>a, SyncedForgets
  <2> HIDE DEF K, K3, q6
  <2> QED
    BY <1>6, <2>1, Weaker
<1> QED
  BY <1>7 DEF q1, q2, q3, q4, q5

LEMMA FlashAttentionTcFits ==
  ASSUME NEW n \in Nat
  PROVE  Fits(FlashAttentionTc(n))
<1> DEFINE Body(r) == Store("tile", r) \o Sync
                        \o Load("tile", r) \o Load("table", 0) \o Store("scores", r) \o Sync
                        \o Load("scores", r) \o Store("probs", r) \o Sync
                        \o Load("probs", r) \o Load("tile", r) \o Sync
           ss == [r \in 1 .. n |-> Body(r)]
           K == {<<"table", 0>>}
           K1 == {} \cup {<<"query", 0>>}
           K2 == K1 \cup {<<"table", 0>>}
           q1 == Store("query", 0) \o Sync
           q2 == q1 \o Load("query", 0)
           pro == q2 \o Store("table", 0) \o Sync
<1>0. /\ "query" \in Arrays /\ "table" \in Arrays \ ({} \cup {"query"}) /\ 0 \in Int
      /\ \A x \in K1 : x[1] # "table"
      /\ <<"query", 0>> \in K1 /\ K \subseteq K2
  BY DEF Arrays
<1>1. Leads(q1, Synced({}), Quiet(K1, {}))
  <2>1. Leads(Store("query", 0), Quiet({}, {}), Written({}, "query", 0))
    BY <1>0, StoreLeads
  <2>2. Leads(Store("query", 0), Synced({}), Written({}, "query", 0))
    BY <2>1, SyncedQuiet, Stronger
  <2>3. Leads(q1, Synced({}), Synced(K1))
    BY <2>2, SyncLeads, SyncedOn
  <2> HIDE DEF K1, q1
  <2> QED
    BY <2>3, SyncedQuiet, Weaker
<1> HIDE DEF q1
<1>2. Leads(q2, Synced({}), Quiet(K1, {} \cup {"query"}))
  <2> HIDE DEF K1
  <2> QED
    BY <1>0, <1>1, LoadedLeads
<1> HIDE DEF q2
<1>3. Leads(pro, Synced({}), Synced(K2))
  <2> HIDE DEF K1
  <2> QED
    BY <1>0, <1>2, StoredLeads
<1> HIDE DEF pro
<1>4. Leads(pro, Synced({}), Synced(K))
  <2> HIDE DEF K, K2
  <2>1. Synced(K2) \subseteq Synced(K)
    BY <1>0, SyncedForgets
  <2> QED
    BY <1>3, <2>1, Weaker
<1>5. ss = [r \in 1 .. n |-> ss[r]] /\ \A r \in 1 .. n : Leads(ss[r], Synced(K), Synced(K))
  <2>2. \A r \in Int : Leads(Body(r), Synced(K), Synced(K))
    BY TileLeads
  <2> HIDE DEF Body
  <2>1. ss = [r \in 1 .. n |-> ss[r]] /\ \A r \in 1 .. n : ss[r] = Body(r) /\ r \in Int
    OBVIOUS
  <2> HIDE DEF ss
  <2> QED
    BY <2>1, <2>2
<1>6. FlashAttentionTc(n) = pro \o FlattenSeq(ss)
  BY DEF FlashAttentionTc, Times, pro, q2, q1
<1> HIDE DEF ss, K
<1>7. Leads(FlattenSeq(ss), Synced(K), Synced(K))
  BY <1>5, LoopLeads
<1>8. Leads(pro \o FlattenSeq(ss), Synced({}), Synced(K))
  BY <1>4, <1>7, SyncedOn
<1> QED
  BY <1>6, <1>8, LeadsFits DEF Synced

\* Every kernel the host launches.
LEMMA ProgramsFit ==
  ASSUME NEW n \in Nat, NEW p \in Programs(n) \cup AttentionPrograms(n)
  PROVE  Fits(p)
<1>1. \A relpos, large, fits \in BOOLEAN : Fits(VisionAttention(n, relpos, large, fits))
  BY FlashAttentionFits, FlashAttentionTcFits DEF VisionAttention
<1>2. CASE p \in Programs(n)
  BY <1>1, <1>2, RmsNormFits, LayerNormFits, HeadNormFits, RouterFits DEF Programs
<1>3. CASE p \in AttentionPrograms(n)
  <2>1. Fits(BatchAttention([slot \in {"a"} |-> n], "a"))
    BY AttentionFits DEF BatchAttention
  <2>2. ASSUME NEW start \in 0 .. n, NEW causal \in BOOLEAN
        PROVE  Fits(CausalAttention(n, start, 0, causal))
    <3>1. (IF causal /\ start + 0 + 1 < n THEN start + 0 + 1 ELSE n) \in Nat
      OBVIOUS
    <3> QED
      BY <3>1, AttentionFits DEF CausalAttention
  <2>3. n > 0 => Fits(RaggedAttention(n - 1))
    <3>1. (n - 1) + 1 = n
      OBVIOUS
    <3> QED
      BY <3>1, AttentionFits DEF RaggedAttention
  <2> QED
    BY <1>3, <2>1, <2>2, <2>3, AttentionFits DEF AttentionPrograms
<1> QED
  BY <1>2, <1>3


LEMMA BlockStart == BlockInit => BlockInv
<1> SUFFICES ASSUME BlockInit PROVE BlockInv
  OBVIOUS
<1>1. Fits(program)
  BY ProgramsFit, BlockAssumption DEF BlockInit
<1>2. BlockTypeOK
  <2>1. Len(program) \in Nat
    BY <1>1 DEF Fits
  <2>2. cols \in Nat \ {0}
    BY BlockAssumption DEF BlockInit
  <2>3. done \in [Thread -> 0 .. Len(program)] /\ DOMAIN red = Thread
    BY <2>1 DEF BlockInit
  <2>4. shared \in [Arrays -> [Thread -> Int]]
    BY DEF BlockInit, Blank
  <2> QED
    BY <1>1, <2>2, <2>3, <2>4 DEF BlockTypeOK
<1>3. \A t \in Thread : done[t] = 0
  BY DEF BlockInit
<1>4. Barred
  BY <1>3 DEF Barred
<1>5. ASSUME NEW t \in Thread PROVE Held(t) /\ Wanted(t)
  <2>1. Held(t)
    BY <1>3 DEF Held
  <2>2. ASSUME 1 <= Len(program)
        PROVE  program[1].op \notin {"fold", "take", "factors", "combine"}
    <3>1. 1 \in 1 .. Len(program)
      BY <1>1, <2>2 DEF Fits
    <3>2. RedStep(program, 1)
      BY <1>1, <3>1 DEF Fits
    <3> QED
      BY <3>2 DEF RedStep
  <2>3. Wanted(t)
    BY <1>3, <2>2 DEF Wanted
  <2> QED
    BY <2>1, <2>3
<1>6. \A a \in Arrays, v \in Thread : Stored(a, v)
  BY <1>3 DEF Stored
<1> QED
  BY <1>2, <1>4, <1>5, <1>6 DEF BlockInv

\* The threads of a block stay within the barriers of their kernel, the parts of a
\* row the threads hold add up to it, and a shared array holds what each thread
\* stored last.
THEOREM BlockInvariant == BlockSpec => []BlockInv
<1>1. BlockInit => BlockInv
  BY BlockStart
<1>2. BlockInv /\ [BlockNext]_blockVars => BlockInv'
  BY BlockStep
<1> QED
  BY <1>1, <1>2, PTL DEF BlockSpec

\* Norms, router and attention: whatever the number of threads (a power of two), of
\* columns and of rounds, the value taken from red[0] is the sum over the whole row
\* of its round, each column once.
THEOREM ReductionsAreWhole == BlockSpec => []ReducesWholeRow
BY BlockInvariant, BlockInvReduces, PTL

\* Head norm, router and flash attention: what is read of a tile, a table, scores,
\* probabilities or cells is what every thread stored for that round.
THEOREM TilesAreWhole == BlockSpec => []ReadsWholeTile
BY BlockInvariant, BlockInvReads, PTL
=============================================================================
