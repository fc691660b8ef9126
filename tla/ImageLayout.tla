---------------------------- MODULE ImageLayout ----------------------------
(***************************************************************************)
(* From an image to the rows the decoder is given: the padded global view  *)
(* and the grid of local crops (image.cpp), the <image> tokens of the      *)
(* prompt (prompt.cpp), the visual embeddings (Engine::image_embeddings)   *)
(* and their scatter into the prompt (Engine::generate_from_image), in the *)
(* order tools/ocr_image.cpp calls them.  The grid is computed twice and   *)
(* the number of tokens three times, by code that must stay in step.       *)
(*                                                                         *)
(* Pixels and embeddings are left out: a visual row is named by the view   *)
(* and the pixel where its patch starts, a text row by its number.         *)
(***************************************************************************)
EXTENDS Integers, FiniteSets, Sequences

CONSTANTS
  ImageSize,     \* candidate_image_size, the side of a local view
  BaseSize,      \* base_size, the side of the global view
  PatchSize,     \* patch_size
  MinCrops, MaxCrops,   \* min_num and max_num of dynamic_preprocess
  MaxSide,       \* bound: sides of an image
  MaxText        \* bound: text tokens on each side of <image>

Downsample == 4  \* downsample_ratio; the encoder halves its grid twice

ASSUME LayoutAssumption ==
  /\ {ImageSize, BaseSize, PatchSize, MaxSide} \subseteq Nat \ {0}
  /\ PatchSize <= ImageSize /\ PatchSize <= BaseSize
  /\ MinCrops \in 2 .. MaxCrops /\ MaxCrops \in Nat
  /\ MaxText \in Nat

VARIABLES
  pc,      \* the step the call is in, "failed" when a UOCR_CHECK threw
  call,    \* the image, crop_mode, the text around <image>, and `ties`
  grid,    \* what image_crops returned: columns and rows
  ids,     \* PromptLayout: the kind of each input id
  local,   \* the grid image_embeddings chose: columns and rows
  paste,   \* the rectangle pad_square copied into the global view
  global,  \* the encoded global view
  merged,  \* merged: the local rows at their places, zero until their crop is encoded
  next,    \* index of the next crop to encode
  visual,  \* what image_embeddings returned
  inputs   \* the rows generate_from_image hands to the decoder

vars == <<pc, call, grid, ids, local, paste, global, merged, next, visual, inputs>>

Row(kind, y, x) == [kind |-> kind, y |-> y, x |-> x]
Newline == Row("newline", 0, 0)
Separator == Row("separator", 0, 0)
Zero == Row("zero", 0, 0)
NoPaste == [x |-> 0, y |-> 0, w |-> 0, h |-> 0]
Kinds == {"bos", "text", "image"}

\* How doubles order two quotients that are equally far from the aspect ratio,
\* one on each side: as equal, or either of them nearer.
Ties == {"equal", "below", "above"}

Call == [w : 1 .. MaxSide, h : 1 .. MaxSide, crop : BOOLEAN,
         before : 0 .. MaxText, after : 0 .. MaxText, ties : Ties]

TypeOK ==
  /\ pc \in {"open", "crops", "prompt", "views", "stitch", "scatter",
             "ready", "failed"}
  /\ call \in Call
  /\ grid \in (1 .. MaxCrops) \X (1 .. MaxCrops) /\ grid[1] * grid[2] <= MaxCrops
  /\ local \in (1 .. MaxCrops) \X (1 .. MaxCrops)
  /\ ids \in Seq(Kinds)
  /\ paste \in [x : Int, y : Int, w : Nat, h : Nat]
  /\ next \in 0 .. MaxCrops
  /\ \A q \in {global, visual, inputs, merged} :
       \A i \in DOMAIN q :
         q[i] \in [kind : {"bos", "text", "newline", "separator", "zero", "view", "local"},
                   y : 0 .. MaxCrops * ImageSize + BaseSize,
                   x : 0 .. MaxCrops * ImageSize + BaseSize]

Init ==
  /\ pc = "open" /\ call \in Call
  /\ grid = <<1, 1>> /\ local = <<1, 1>>
  /\ ids = <<>> /\ paste = NoPaste
  /\ global = <<>> /\ merged = <<>> /\ next = 0
  /\ visual = <<>> /\ inputs = <<>>

----------------------------------------------------------------------------
(* dynamic_preprocess: the grid of crops. *)

Candidates ==
  {r \in (1 .. MaxCrops) \X (1 .. MaxCrops) : r[1] * r[2] \in MinCrops .. MaxCrops}

\* |w / h - r[1] / r[2]|, times h * r[2].
Off(r) == LET d == call.w * r[2] - r[1] * call.h IN IF d < 0 THEN -d ELSE d
Nearer(r, s) == Off(r) * s[2] < Off(s) * r[2]
Nearest == {r \in Candidates : \A s \in Candidates : ~Nearer(s, r)}

\* The ratios the loop sees as equally near and none nearer.
Tied ==
  LET below == {r \in Nearest : r[1] * call.h <= call.w * r[2]}
      above == {r \in Nearest : r[1] * call.h >= call.w * r[2]}
  IN  CASE call.ties = "below" /\ below # {} -> below
        [] call.ties = "above" /\ above # {} -> above
        [] OTHER -> Nearest

\* The order of target_ratios.
Before(r, s) == \/ r[1] * r[2] < s[1] * s[2]
                \/ r[1] * r[2] = s[1] * s[2] /\ r[1] < s[1]

\* A later ratio replaces an equal one if the image has more than half the
\* pixels of its grid.
Covers(r) == 2 * call.w * call.h > ImageSize * ImageSize * r[1] * r[2]
MutClosestRatio == CHOOSE r \in Tied : \A s \in Tied \ {r} : Before(r, s)
ClosestRatio ==
  LET first == CHOOSE r \in Tied : \A s \in Tied \ {r} : Before(r, s)
      larger == {r \in Tied \ {first} : Covers(r)}
  IN  IF larger = {} THEN first
      ELSE CHOOSE r \in larger : \A s \in larger \ {r} : Before(s, r)

Fits == call.w <= ImageSize /\ call.h <= ImageSize

\* Column and row of crop i, and the pixel of the scaled image it starts at.
CropAt(i, columns) == [y |-> (i \div columns) * ImageSize,
                       x |-> (i % columns) * ImageSize]

----------------------------------------------------------------------------
(* pad_square. *)

\* double(short) / long * size is exact in a tie if size is a sum of two powers
\* of two, as 640 and 1024 are (powers of an int).
ExactTies(size) == \E a, b \in 0 .. 30 : 2^a + 2^b = size

\* The integers nearest to short / long * size.  In a tie the even one, which
\* nearbyint takes, or if the double may be off the tie either of the two.
Nearby(short, long, size) ==
  LET n == short * size
  IN  {k \in 0 .. n \div long + 1 :
         /\ 2 * n - long <= 2 * k * long /\ 2 * k * long <= 2 * n + long
         /\ ExactTies(size) /\ 2 * k * long \in {2 * n - long, 2 * n + long} => k % 2 = 0}

\* n / 2 to the nearest even integer; exact for a double.
HalfEven(n) == LET q == n \div 2 IN IF n % 2 = 0 \/ q % 2 = 0 THEN q ELSE q + 1

\* contain(): the sizes the image may be scaled to for a square of side `size`.
\* A side that rounds to `size` leaves the image as it is.
Contain(size) ==
  LET w == call.w
      h == call.h
  IN  CASE w = h -> {<<size, size>>}
        [] w > h -> {IF n # size THEN <<size, n>> ELSE <<w, h>> : n \in Nearby(h, w, size)}
        [] w < h -> {IF n # size THEN <<n, size>> ELSE <<w, h>> : n \in Nearby(w, h, size)}

MutCentre(r, size) == [x |-> IF r[1] # size THEN size - r[1] ELSE 0,
                       y |-> IF r[1] # size THEN 0 ELSE size - r[2],
                       w |-> r[1], h |-> r[2]]
Centre(r, size) == [x |-> IF r[1] # size THEN HalfEven(size - r[1]) ELSE 0,
                    y |-> IF r[1] # size THEN 0 ELSE HalfEven(size - r[2]),
                    w |-> r[1], h |-> r[2]]

----------------------------------------------------------------------------
(* Token counts and encoded views. *)

CeilDiv(n, d) == (n + d - 1) \div d
NumQueries(size) == CeilDiv(size \div PatchSize, Downsample)

ImageTokenCount(g) ==
  LET nq == NumQueries(ImageSize)
      nqb == NumQueries(BaseSize)
  IN  IF ~call.crop THEN nq * (nq + 1) + 1
      ELSE nqb * (nqb + 1) + 1
             + (IF g[1] > 1 \/ g[2] > 1 THEN (nq * g[1] + 1) * (nq * g[2]) ELSE 0)

\* encode: two convolutions of stride 2 over the patches of the view, a newline
\* after each row, and the separator.
Side(size) == CeilDiv(CeilDiv(size \div PatchSize, 2), 2)
Encode(kind, at, size) ==
  LET n == Side(size)
      token(i) == Row(kind, at.y + (i \div (n + 1)) * PatchSize * Downsample,
                            at.x + (i % (n + 1)) * PatchSize * Downsample)
  IN  [j \in 1 .. n * (n + 1) + 1 |->
        IF j - 1 = n * (n + 1) THEN Separator
        ELSE IF (j - 1) % (n + 1) = n THEN Newline
        ELSE token(j - 1)]

Repeated(x, n) == [i \in 1 .. n |-> x]

----------------------------------------------------------------------------
(* The steps of a call. *)

\* image_crops.
MutChosenGrid == IF call.crop THEN ClosestRatio ELSE <<1, 1>>
ChosenGrid == IF call.crop /\ ~Fits THEN ClosestRatio ELSE <<1, 1>>
ImageCrops ==
  /\ pc = "open"
  /\ pc' = "crops"
  /\ grid' = ChosenGrid
  /\ UNCHANGED <<call, ids, local, paste, global, merged, next, visual, inputs>>

\* build_ocr_prompt, with its own count and the check against the formula.
ImageTokens(g) ==
  LET nq == NumQueries(ImageSize)
      nqb == NumQueries(BaseSize)
      view(n) == n * (n + 1) + 1
      crops == IF g[1] > 1 \/ g[2] > 1 THEN nq * g[2] * (nq * g[1] + 1) ELSE 0
  IN  IF call.crop THEN view(nqb) + crops ELSE view(nq)
BuildPrompt ==
  /\ pc = "crops"
  /\ ids' = <<"bos">> \o Repeated("text", call.before)
              \o Repeated("image", ImageTokens(grid)) \o Repeated("text", call.after)
  /\ pc' = IF ImageTokens(grid) = ImageTokenCount(grid) THEN "prompt" ELSE "failed"
  /\ UNCHANGED <<call, grid, local, paste, global, merged, next, visual, inputs>>

\* image_embeddings without crop_mode: the image is scaled to the square first.
SingleView ==
  /\ pc = "prompt"
  /\ ~call.crop
  /\ visual' = Encode("view", [y |-> 0, x |-> 0], ImageSize)
  /\ pc' = IF Len(visual') = NumQueries(ImageSize) * (NumQueries(ImageSize) + 1) + 1
             THEN "scatter" ELSE "failed"
  /\ UNCHANGED <<call, grid, ids, local, paste, global, merged, next, inputs>>

\* The global view and, when the image does not fit a local view, its crops.
\* A paste outside the view is undefined; here it goes on.
MergedRows(g) == g[2] * NumQueries(ImageSize)
MergedCols(g) == g[1] * NumQueries(ImageSize)
LocalGrid == IF Fits THEN <<1, 1>> ELSE ClosestRatio
GlobalView ==
  /\ pc = "prompt"
  /\ call.crop
  /\ \E r \in Contain(BaseSize) : paste' = Centre(r, BaseSize)
  /\ global' = Encode("view", [y |-> 0, x |-> 0], BaseSize)
  /\ local' = LocalGrid
  /\ IF local' = <<1, 1>>
       THEN /\ visual' = global'
            /\ pc' = IF Len(visual') = NumQueries(BaseSize) * (NumQueries(BaseSize) + 1) + 1
                       THEN "scatter" ELSE "failed"
            /\ UNCHANGED merged
       ELSE /\ merged' = [p \in 0 .. MergedRows(local') * MergedCols(local') - 1 |-> Zero]
            /\ pc' = "views"
            /\ UNCHANGED visual
  /\ UNCHANGED <<call, grid, ids, next, inputs>>

\* One round of the loop over the crops: its rows, without their newlines, go
\* to their places among the rows of the whole grid.
MutCropIndex(r, c) == c * local[2] + r
CropIndex(r, c) == r * local[1] + c
EncodeCrop ==
  LET nq == NumQueries(ImageSize)
      r == next \div local[1]
      c == next % local[1]
      lf == Encode("local", CropAt(CropIndex(r, c), local[1]), ImageSize)
      ry(p) == p \div MergedCols(local) - r * nq
      cx(p) == (p % MergedCols(local)) - c * nq
  IN  /\ pc = "views"
      /\ IF Len(lf) # nq * (nq + 1) + 1
           THEN pc' = "failed" /\ UNCHANGED <<merged, next>>
           ELSE /\ merged' = [p \in DOMAIN merged |->
                     IF ry(p) \in 0 .. nq - 1 /\ cx(p) \in 0 .. nq - 1
                       THEN lf[ry(p) * (nq + 1) + cx(p) + 1] ELSE merged[p]]
                /\ IF next + 1 = local[1] * local[2]
                     THEN pc' = "stitch" /\ next' = 0
                     ELSE next' = next + 1 /\ UNCHANGED pc
      /\ UNCHANGED <<call, grid, ids, local, paste, global, visual, inputs>>

\* The merged rows, each with a newline, the global view without its separator,
\* and the separator.
Stitch ==
  LET nq == NumQueries(ImageSize)
      nqb == NumQueries(BaseSize)
      cols == MergedCols(local)
      lines == MergedRows(local) * (cols + 1)
      row(i) == IF i % (cols + 1) = cols THEN Newline
                ELSE merged[(i \div (cols + 1)) * cols + (i % (cols + 1))]
  IN  /\ pc = "stitch"
      /\ visual' = [j \in 1 .. lines + Len(global) |->
                      IF j - 1 < lines THEN row(j - 1)
                      ELSE IF j < lines + Len(global) THEN global[j - lines]
                      ELSE Separator]
      /\ pc' = IF /\ Len(global) = nqb * (nqb + 1) + 1
                  /\ Len(visual') = nqb * (nqb + 1) + 1
                       + (nq * local[1] + 1) * (nq * local[2])
                 THEN "scatter" ELSE "failed"
      /\ UNCHANGED <<call, grid, ids, local, paste, global, merged, next, inputs>>

\* generate_from_image: the i-th masked position gets the i-th visual row.
Masked(i) == ids[i] = "image"
MaskedUpTo(i) == Cardinality({j \in 1 .. i : Masked(j)})
Scatter ==
  /\ pc = "scatter"
  /\ IF MaskedUpTo(Len(ids)) = Len(visual)
       THEN /\ inputs' = [i \in 1 .. Len(ids) |->
                 IF Masked(i) THEN visual[MaskedUpTo(i)] ELSE Row(ids[i], 0, 0)]
            /\ pc' = "ready"
       ELSE pc' = "failed" /\ UNCHANGED inputs
  /\ UNCHANGED <<call, grid, ids, local, paste, global, merged, next, visual>>

Next ==
  \/ ImageCrops \/ BuildPrompt \/ SingleView \/ GlobalView
  \/ EncodeCrop \/ Stitch \/ Scatter

Spec == Init /\ [][Next]_vars

----------------------------------------------------------------------------
(* No check of the prompt, the embeddings or the scatter ever fires: the grid
   of the prompt is the grid of the vision path, and the three counts agree,
   for every image in either mode (prompt.h: the layout and the vision path are
   kept in lock-step).  And what is laid out is of its type. *)
LayoutsAgree == TypeOK /\ pc # "failed"

(* The decoder reads the picture as a page is read: the local rows it is given
   come in raster order of the scaled image across the borders of the crops,
   with one newline at the end of each line of patches and nowhere else, every
   patch of every crop once; then the global view, then one separator
   (engine.cpp:505). *)
Patches ==
  {Row("local", a[1] * ImageSize + b[1] * PatchSize * Downsample,
                a[2] * ImageSize + b[2] * PatchSize * Downsample) :
     a \in (0 .. grid[2] - 1) \X (0 .. grid[1] - 1),
     b \in (0 .. NumQueries(ImageSize) - 1) \X (0 .. NumQueries(ImageSize) - 1)}
EndsLine(q) == \A s \in Patches : s.y = q.y => s.x <= q.x
LocalOrder ==
  /\ \A i \in DOMAIN inputs : inputs[i].kind = "local" =>
       \/ /\ inputs[i + 1].kind = "local"
          /\ inputs[i + 1].y = inputs[i].y /\ inputs[i + 1].x > inputs[i].x
       \/ /\ EndsLine(inputs[i]) /\ inputs[i + 1] = Newline
          /\ \/ inputs[i + 2].kind = "local" /\ inputs[i + 2].y > inputs[i].y
             \/ inputs[i + 2].kind = "view"
  /\ {inputs[i] : i \in {j \in DOMAIN inputs : inputs[j].kind = "local"}} = Patches
PageOrder ==
  pc = "ready" =>
    /\ \A i \in DOMAIN inputs :
         /\ inputs[i].kind = "view" =>
              \A j \in i + 1 .. Len(inputs) : inputs[j].kind # "local"
         /\ inputs[i].kind = "separator" =>
              \A j \in i + 1 .. Len(inputs) : inputs[j].kind = "text"
    /\ call.crop /\ ~Fits => LocalOrder

(* The crops keep the proportions of the image as well as any grid allowed
   does, and among grids of the same proportions the one used is the largest
   that does not need more than twice the pixels the image has, or the smallest
   (dynamic_preprocess, find_closest_aspect_ratio). *)
SameShape(r, s) == r[1] * s[2] = r[2] * s[1]
GridSuitsImage ==
  (pc \notin {"open", "failed"} /\ call.crop /\ ~Fits) =>
    /\ grid \in Candidates
    /\ \A s \in Candidates :
         /\ ~Nearer(s, grid)
         /\ SameShape(s, grid) /\ s[1] > grid[1] => ~Covers(s)
         /\ SameShape(s, grid) /\ s[1] < grid[1] => Covers(grid)

(* pad_square centres the scaled image in the global view, touching two opposite
   sides of it, unless the image is not square and its shorter side rounds to
   the side of the view (image.cpp:254). *)
InView == /\ paste.x >= 0 /\ paste.x + paste.w <= BaseSize
          /\ paste.y >= 0 /\ paste.y + paste.h <= BaseSize
RoundsToSquare ==
  LET long == IF call.w > call.h THEN call.w ELSE call.h
      short == IF call.w > call.h THEN call.h ELSE call.w
  IN  short < long /\ BaseSize \in Nearby(short, long, BaseSize)
PastedCentred ==
  (paste # NoPaste /\ ~RoundsToSquare) =>
    /\ InView
    /\ paste.w = BaseSize \/ paste.h = BaseSize
    /\ (BaseSize - paste.w) - 2 * paste.x \in -1 .. 1
    /\ (BaseSize - paste.h) - 2 * paste.y \in -1 .. 1

(* What the comment at image.cpp:247 says of every image: the scaled image fits
   inside the square it is pasted into.  The code breaks it for nearly square
   images larger than the view. *)
FitsInside == InView
============================================================================
