---------------------------- MODULE FrontProofs ----------------------------
(***************************************************************************)
(* Proofs about what comes before the decoder: Encoder, for every size of  *)
(* view, patch, window and stored tables, and ImageLayout, for every image *)
(* and every size of the views, the patches and the grids.                 *)
(*                                                                         *)
(* Encoder.  The host walks coordinates, the device divides the number of  *)
(* a thread or of an element by the extents.  Both go through the same     *)
(* cells, because the quotients and remainders of a number written in the  *)
(* extents are its digits: for the elements of im2col, and for the places  *)
(* of the windows, where a cell has one place.                             *)
(* SeenInv says what a cell of every stage was computed from: the pixels   *)
(* of the patches whose row is in From(row) and whose column is in         *)
(* From(column), as every stage reads a rectangle of cells, the product of *)
(* the rows and the columns it reads.  The convolutions widen what a row   *)
(* stands for, the blocks mix it.  The rows returned are then those that   *)
(* ImageLayout names.                                                      *)
(*                                                                         *)
(* ImageLayout.  The ratios of the grid are finitely many and ordered, so  *)
(* that the nearest ones, the first and the last of them exist; all the    *)
(* nearest of one shape are tied, and a larger grid of a shape comes later *)
(* in the order.  ImageInv says what each step has laid out: the image     *)
(* positions of the prompt, the crops encoded so far, the page of visual   *)
(* rows and the decoder's input.  Line and column k of the local rows      *)
(* start at pixel Edge(k), which grows across the borders of the crops.    *)
(***************************************************************************)
EXTENDS EncodedView, FiniteSetTheorems, TLAPS

-----------------------------------------------------------------------------
(* Quotients and remainders. *)

LEMMA Division ==
  ASSUME NEW n \in Nat, NEW d \in Nat \ {0}
  PROVE  /\ n = (n \div d) * d + (n % d)
         /\ n \div d \in Nat /\ n % d \in 0 .. d - 1
<1>1. n = (n \div d) * d + (n % d)
  OBVIOUS
<1>2. n \div d \in Nat /\ n % d \in 0 .. d - 1
  OBVIOUS
<1> QED
  BY <1>1, <1>2

LEMMA DivideUnique ==
  ASSUME NEW p \in Int, NEW q \in Int, NEW d \in Nat \ {0},
         NEW r \in 0 .. d - 1, NEW s \in 0 .. d - 1,
         p * d + r = q * d + s
  PROVE  p = q /\ r = s
<1>1. CASE p < q
  <2>1. (q - p - 1) * d >= 0
    BY <1>1, SMT
  <2>2. (q - p - 1) * d = q * d - p * d - d
    BY SMT
  <2> QED
    BY <2>1, <2>2, SMT
<1>2. CASE q < p
  <2>1. (p - q - 1) * d >= 0
    BY <1>2, SMT
  <2>2. (p - q - 1) * d = p * d - q * d - d
    BY SMT
  <2> QED
    BY <2>1, <2>2, SMT
<1> QED
  BY <1>1, <1>2, SMT

\* A quotient is what the multiple below a number is of.
LEMMA QuotientUnique ==
  ASSUME NEW d \in Nat \ {0}, NEW q \in Nat, NEW x \in 0 .. d - 1
  PROVE  (q * d + x) \div d = q /\ (q * d + x) % d = x
<1> DEFINE n == q * d + x
<1>1. n \in Nat
  OBVIOUS
<1>2. (n \div d) * d + (n % d) = q * d + x /\ n \div d \in Nat /\ n % d \in 0 .. d - 1
  BY <1>1, Division
<1> QED
  BY <1>2, DivideUnique

\* Place x of row r of d places, in n rows.
LEMMA PlaceBelow ==
  ASSUME NEW d \in Nat \ {0}, NEW n \in Nat, NEW r \in Below(n), NEW x \in Below(d)
  PROVE  r * d + x \in Below(n * d)
<1>1. r * d \in Nat /\ n * d \in Nat
  BY DEF Below
<1>2. n * d - r * d = (n - r) * d
  BY DEF Below
<1>3. (n - r) * d >= d
  <2> DEFINE k == n - r
  <2>1. k \in Nat /\ k >= 1
    BY DEF Below
  <2> HIDE DEF k
  <2>2. k * d >= d
    BY <2>1
  <2> QED
    BY <2>2 DEF k
<1> QED
  BY <1>1, <1>2, <1>3 DEF Below

\* A place of n rows of d places, by row and column.
LEMMA RowAndColumn ==
  ASSUME NEW d \in Nat \ {0}, NEW n \in Nat, NEW p \in Below(n * d)
  PROVE  p \div d \in Below(n) /\ p % d \in Below(d) /\ p = (p \div d) * d + (p % d)
<1> DEFINE q == p \div d
           x == p % d
<1>1. n * d \in Nat /\ p \in Nat /\ p < n * d
  BY DEF Below
<1>2. p = q * d + x /\ q \in Nat /\ x \in 0 .. d - 1
  BY <1>1, Division
<1>3. q < n
  <2> SUFFICES ASSUME q >= n PROVE FALSE
    BY <1>2
  <2> HIDE DEF q, x
  <2> DEFINE k == q - n
  <2>1. k \in Nat
    BY <1>2
  <2>2. q * d = n * d + k * d
    BY <1>2
  <2> HIDE DEF k
  <2>3. k * d >= 0
    BY <2>1
  <2> QED
    BY <1>1, <1>2, <2>2, <2>3
<1> QED
  BY <1>2, <1>3 DEF Below

-----------------------------------------------------------------------------
(* Convolutions. *)

\* What a kernel has: an extent, a step between cells and a border.
Kernel == [k : Nat \ {0}, stride : Nat, pad : Nat]

LEMMA ConvKernels ==
  \A s \in DOMAIN Conv : Conv[s] \in Kernel
BY EncoderAssumption DEF Conv, Kernel

\* Element t of row o of the matrix im2col makes is the tap it stands for.
LEMMA MatrixElement ==
  ASSUME NEW c \in Kernel, NEW n \in Nat \ {0}, NEW m \in Nat \ {0},
         NEW o \in Cells(m), NEW a \in Below(c.k), NEW b \in Below(c.k)
  PROVE  LET ih == (o \div m) * c.stride - c.pad + a
             iw == (o % m) * c.stride - c.pad + b
         IN  /\ a * c.k + b \in Below(c.k * c.k)
             /\ Im2col(c, n, m)[o * c.k * c.k + (a * c.k + b)]
                  = IF ih \in Below(n) /\ iw \in Below(n) THEN ih * n + iw ELSE Pad
<1> DEFINE k == c.k
           t == a * k + b
           idx == o * k * k + t
<1>1. k \in Nat \ {0} /\ o \in Nat /\ a \in Nat /\ b \in Nat /\ b \in 0 .. k - 1
      /\ a \in 0 .. k - 1
  BY DEF Kernel, Cells, Below
<1>2. t \in Below(k * k)
  BY <1>1, PlaceBelow
<1> HIDE DEF k
<1>3. k * k \in Nat \ {0} /\ m * m \in Nat
  <2>1. \A x, y \in Nat \ {0} : x * y \in Nat \ {0}
    OBVIOUS
  <2> QED
    BY <2>1, <1>1
<1>4. o * k * k = o * (k * k) /\ m * m * k * k = (m * m) * (k * k)
  <2>1. \A x, y \in Nat : x * y * y = x * (y * y)
    OBVIOUS
  <2> QED
    BY <2>1, <1>1, <1>3
<1>5. idx \in Below(m * m * k * k)
  BY <1>2, <1>3, <1>4, PlaceBelow DEF Cells
<1>6. idx \div (k * k) = o
  <2>1. t \in 0 .. k * k - 1
    BY <1>2 DEF Below
  <2>2. (o * (k * k) + t) \div (k * k) = o
    BY <1>1, <1>3, <2>1, QuotientUnique
  <2> QED
    BY <1>4, <2>2
<1>7. idx \div k = o * k + a /\ idx % k = b
  <2>1. idx = (o * k + a) * k + b
    <3>1. \A x, y, z, w \in Nat : x * y * y + (z * y + w) = (x * y + z) * y + w
      OBVIOUS
    <3> QED
      BY <3>1, <1>1
  <2>2. o * k + a \in Nat
    BY <1>1
  <2> DEFINE r == o * k + a
  <2> HIDE DEF r
  <2>3. (r * k + b) \div k = r /\ (r * k + b) % k = b
    BY <1>1, <2>2, QuotientUnique DEF r
  <2> QED
    BY <2>1, <2>3 DEF r
<1>8. (o * k + a) % k = a
  BY <1>1, QuotientUnique
<1> HIDE DEF idx, t
<1>9. Im2col(c, n, m)[idx]
        = LET p  == idx \div (c.k * c.k)
              ih == (p \div m) * c.stride - c.pad + ((idx \div c.k) % c.k)
              iw == (p % m) * c.stride - c.pad + (idx % c.k)
          IN  IF ih \in Below(n) /\ iw \in Below(n) THEN ih * n + iw ELSE Pad
  BY <1>5 DEF Im2col, k
<1> QED
  BY <1>2, <1>6, <1>7, <1>8, <1>9 DEF k, t, idx

\* im2col and the product read what conv2d reads.
LEMMA ConvolutionsAgree ==
  ASSUME NEW c \in Kernel, NEW n \in Nat \ {0}, NEW m \in Nat \ {0}
  PROVE  Conv2d(c, n, m) = ConvByRows(c, n, m)
<1> DEFINE ih(o, a) == (o \div m) * c.stride - c.pad + a
           iw(o, b) == (o % m) * c.stride - c.pad + b
           Taps(o) == {t \in Below(c.k) \X Below(c.k) :
                         ih(o, t[1]) \in Below(n) /\ iw(o, t[2]) \in Below(n)}
           from(x) == x * c.stride - c.pad
           A(o) == {<<ih(o, t[1]) * n + from(o % m) + t[2], t[1] * c.k + t[2]>> : t \in Taps(o)}
           col == Im2col(c, n, m)
           B(o) == {r \in {<<col[o * c.k * c.k + t], t>> : t \in Below(c.k * c.k)} :
                      r[1] # Pad}
<1>1. Conv2d(c, n, m) = [o \in Cells(m) |-> A(o)]
  BY DEF Conv2d
<1>2. ConvByRows(c, n, m) = [o \in Cells(m) |-> B(o)]
  BY Zenon DEF ConvByRows
<1>3. ASSUME NEW o \in Cells(m)
      PROVE  A(o) = B(o)
  <2>1. c.k \in Nat \ {0}
    BY DEF Kernel
  <2>2. \A a, b \in Below(c.k) :
          /\ a * c.k + b \in Below(c.k * c.k)
          /\ col[o * c.k * c.k + (a * c.k + b)]
               = IF ih(o, a) \in Below(n) /\ iw(o, b) \in Below(n)
                   THEN ih(o, a) * n + iw(o, b) ELSE Pad
    BY MatrixElement
  <2>3. \A y, x \in Below(n) : y * n + x # Pad
    <3>1. \A y, x \in Nat : y * n + x \in Nat
      OBVIOUS
    <3> QED
      BY <3>1 DEF Below, Pad
  <2>4. \A t \in Below(c.k * c.k) : \E a, b \in Below(c.k) : t = a * c.k + b
    <3>1. \A t \in Below(c.k * c.k) :
            /\ t \div c.k \in Below(c.k) /\ t % c.k \in Below(c.k)
            /\ t = (t \div c.k) * c.k + (t % c.k)
      BY <2>1, RowAndColumn
    <3> QED
      BY <3>1, Zenon
  <2>7. \A a, b \in Below(c.k) : ih(o, a) * n + from(o % m) + b = ih(o, a) * n + iw(o, b)
    <3>1. \A x, y, z \in Int : x + y + z = x + (y + z)
      OBVIOUS
    <3>2. o \in Nat /\ o \div m \in Int /\ o % m \in Int
      BY DEF Cells, Below
    <3>3. from(o % m) \in Int /\ from(o \div m) \in Int
      BY <3>2 DEF Kernel
    <3> HIDE DEF from
    <3>4. \A a \in Below(c.k) : a \in Int /\ from(o \div m) + a \in Int
      BY <3>3 DEF Below
    <3>5. \A a \in Below(c.k) : ih(o, a) \in Int /\ ih(o, a) * n \in Int
      BY <3>4 DEF from
    <3> HIDE DEF ih
    <3>6. \A b \in Below(c.k) : iw(o, b) = from(o % m) + b
      BY DEF from
    <3> HIDE DEF iw
    <3> QED
      BY <3>1, <3>3, <3>4, <3>5, <3>6
  <2> HIDE DEF col, ih, iw, from
  <2>5. ASSUME NEW r \in A(o)
        PROVE  r \in B(o)
    <3>1. PICK t \in Taps(o) : r = <<ih(o, t[1]) * n + from(o % m) + t[2], t[1] * c.k + t[2]>>
      OBVIOUS
    <3>2. t[1] \in Below(c.k) /\ t[2] \in Below(c.k)
          /\ ih(o, t[1]) \in Below(n) /\ iw(o, t[2]) \in Below(n)
      OBVIOUS
    <3>3. /\ t[1] * c.k + t[2] \in Below(c.k * c.k)
          /\ col[o * c.k * c.k + (t[1] * c.k + t[2])] = ih(o, t[1]) * n + iw(o, t[2])
          /\ ih(o, t[1]) * n + iw(o, t[2]) # Pad
      BY <3>2, <2>2, <2>3
    <3> QED
      BY <2>7, <3>1, <3>2, <3>3
  <2>6. ASSUME NEW r \in B(o)
        PROVE  r \in A(o)
    <3>1. PICK t \in Below(c.k * c.k) : r = <<col[o * c.k * c.k + t], t>>
      OBVIOUS
    <3>2. col[o * c.k * c.k + t] # Pad
      BY <3>1
    <3>3. PICK a \in Below(c.k), b \in Below(c.k) : t = a * c.k + b
      BY <2>4
    <3>4. /\ ih(o, a) \in Below(n) /\ iw(o, b) \in Below(n)
          /\ col[o * c.k * c.k + t] = ih(o, a) * n + iw(o, b)
      BY <2>2, <3>2, <3>3
    <3>5. <<a, b>> \in Taps(o)
      BY <3>4
    <3> QED
      BY <2>7, <3>1, <3>3, <3>4, <3>5
  <2> QED
    BY <2>5, <2>6
<1> QED
  BY <1>1, <1>2, <1>3

-----------------------------------------------------------------------------
(* Windows. *)

LEMMA WindowsAgree ==
  ASSUME NEW n \in Nat \ {0}
  PROVE  CpuWindows(n) = GpuWindows(n) /\ GpuWindows(n) \in Nat \ {0}
<1> DEFINE a == n \div Window
           r == n % Window
<1>1. Window \in Nat \ {0}
  BY EncoderAssumption
<1>2. n = a * Window + r /\ a \in Nat /\ r \in 0 .. Window - 1
  BY <1>1, Division
<1> HIDE DEF a
<1>0. /\ \A q \in Nat, x \in 0 .. Window - 1 :
           (q * Window + x) \div Window = q /\ (q * Window + x) % Window = x
      /\ 0 \in 0 .. Window - 1 /\ Window - 1 \in 0 .. Window - 1
  BY <1>1, QuotientUnique
<1>3. CASE r = 0
  <2>1. (Window - r) % Window = 0
    <3>1. (1 * Window + 0) % Window = 0
      BY <1>0
    <3> QED
      BY <1>1, <1>3, <3>1
  <2>2. CpuWindows(n) = a
    <3>1. (a * Window + 0) \div Window = a
      BY <1>0, <1>2, Zenon
    <3> QED
      BY <1>1, <1>2, <1>3, <2>1, <3>1 DEF CpuWindows
  <2>3. GpuWindows(n) = a
    <3>1. (a * Window + (Window - 1)) \div Window = a
      BY <1>0, <1>2, Zenon
    <3>2. n + Window - 1 = a * Window + (Window - 1)
      BY <1>1, <1>2, <1>3
    <3> QED
      BY <3>1, <3>2 DEF GpuWindows
  <2>4. a # 0
    BY <1>1, <1>2, <1>3
  <2> QED
    BY <1>2, <2>2, <2>3, <2>4
<1>4. CASE r # 0
  <2> DEFINE b == a + 1
  <2>1. b \in Nat \ {0} /\ b * Window = a * Window + Window
    BY <1>1, <1>2
  <2>2. (Window - r) % Window = Window - r
    <3>0. Window - r \in 0 .. Window - 1 /\ 0 \in Nat
      BY <1>1, <1>2, <1>4
    <3>1. (0 * Window + (Window - r)) % Window = Window - r
      BY <1>0, <3>0, Zenon
    <3> QED
      BY <1>1, <1>2, <3>1
  <2> HIDE DEF b
  <2>3. CpuWindows(n) = b
    <3>1. (b * Window + 0) \div Window = b
      BY <1>0, <2>1, Zenon
    <3>2. n + (Window - r) = b * Window + 0
      BY <1>1, <1>2, <2>1
    <3> QED
      BY <2>2, <3>1, <3>2 DEF CpuWindows
  <2>4. GpuWindows(n) = b
    <3>1. (b * Window + (r - 1)) \div Window = b
      <4>1. r - 1 \in 0 .. Window - 1 /\ b \in Nat
        BY <1>1, <1>2, <1>4, <2>1
      <4> QED
        BY <1>0, <4>1, Zenon
    <3>2. n + Window - 1 = b * Window + (r - 1)
      BY <1>1, <1>2, <2>1
    <3> QED
      BY <3>1, <3>2 DEF GpuWindows
  <2> QED
    BY <2>1, <2>3, <2>4
<1> QED
  BY <1>3, <1>4

\* The places of the windows, and the cell at row i and column j of a window.
Places(n) == Below(GpuWindows(n) * GpuWindows(n) * Window * Window)
PlaceOf(n, wi, wj, i, j) == ((wi * GpuWindows(n) + wj) * Window + i) * Window + j
CellAt(n, y, x) == IF y < n /\ x < n THEN y * n + x ELSE Pad

LEMMA PlaceRead ==
  ASSUME NEW n \in Nat \ {0},
         NEW wi \in Below(GpuWindows(n)), NEW wj \in Below(GpuWindows(n)),
         NEW i \in Below(Window), NEW j \in Below(Window)
  PROVE  /\ PlaceOf(n, wi, wj, i, j) \in Places(n)
         /\ GpuCell(n, PlaceOf(n, wi, wj, i, j))
              = CellAt(n, wi * Window + i, wj * Window + j)
<1> DEFINE W == Window
           nw == GpuWindows(n)
           win == wi * nw + wj
           line == win * W + i
           idx == line * W + j
<1>1. W \in Nat \ {0} /\ nw \in Nat \ {0}
  BY EncoderAssumption, WindowsAgree
<1>2. wi \in Nat /\ wj \in 0 .. nw - 1 /\ i \in 0 .. W - 1 /\ j \in 0 .. W - 1
  BY <1>1 DEF Below
<1> HIDE DEF W, nw
<1>3. nw * nw \in Nat /\ nw * nw * W \in Nat /\ win \in Nat /\ line \in Nat
  <2>1. \A x, y \in Nat : x * y \in Nat
    OBVIOUS
  <2>2. nw * nw \in Nat /\ win \in Nat
    BY <1>1, <1>2, <2>1
  <2>3. nw * nw * W \in Nat /\ win * W \in Nat
    BY <1>1, <2>1, <2>2
  <2> QED
    BY <1>2, <2>2, <2>3
<1>4. win \in Below(nw * nw)
  BY <1>1, PlaceBelow DEF nw
<1> HIDE DEF win
<1>5. line \in Below(nw * nw * W)
  BY <1>1, <1>3, <1>4, PlaceBelow DEF W
<1> HIDE DEF line
<1>6. idx \in Below(nw * nw * W * W)
  BY <1>1, <1>3, <1>5, PlaceBelow DEF W
<1>7. win \div nw = wi /\ win % nw = wj
  BY <1>1, <1>2, QuotientUnique DEF win
<1>8. idx \div W = line /\ idx % W = j /\ line % W = i
  BY <1>1, <1>2, <1>3, QuotientUnique DEF line
<1>9. idx \div (W * W) = win
  <2>1. W * W \in Nat \ {0}
    BY <1>1
  <2>2. i * W + j \in Below(W * W)
    BY <1>1, PlaceBelow DEF W
  <2>3. idx = win * (W * W) + (i * W + j)
    <3>1. \A x, y, z, w \in Nat : (x * y + z) * y + w = x * (y * y) + (z * y + w)
      OBVIOUS
    <3> QED
      BY <1>1, <1>2, <1>3, <3>1 DEF line
  <2>4. i * W + j \in 0 .. W * W - 1
    BY <2>2 DEF Below
  <2>5. (win * (W * W) + (i * W + j)) \div (W * W) = win
    BY <1>3, <2>1, <2>4, QuotientUnique
  <2> QED
    BY <2>3, <2>5
<1>10. idx = PlaceOf(n, wi, wj, i, j)
  BY DEF PlaceOf, line, win, nw, W
<1> HIDE DEF idx
<1>11. idx \in Places(n)
  BY <1>6 DEF Places, nw, W
<1>12. GpuCell(n, idx)
         = LET p  == idx \div (Window * Window)
               ih == (p \div GpuWindows(n)) * Window + ((idx \div Window) % Window)
               iw == (p % GpuWindows(n)) * Window + (idx % Window)
           IN  IF ih < n /\ iw < n THEN ih * n + iw ELSE Pad
  BY DEF GpuCell
<1> QED
  BY <1>7, <1>8, <1>9, <1>10, <1>11, <1>12 DEF CellAt, nw, W

LEMMA PlaceHas ==
  ASSUME NEW n \in Nat \ {0}, NEW p \in Places(n)
  PROVE  \E wi, wj \in Below(GpuWindows(n)), i, j \in Below(Window) :
           p = PlaceOf(n, wi, wj, i, j)
<1> DEFINE W == Window
           nw == GpuWindows(n)
           line == p \div W
           win == line \div W
<1>1. W \in Nat \ {0} /\ nw \in Nat \ {0}
  BY EncoderAssumption, WindowsAgree
<1>2. p \in Below(nw * nw * W * W)
  BY DEF Places
<1> HIDE DEF W, nw
<1>3. nw * nw \in Nat /\ nw * nw * W \in Nat
  <2>1. \A x, y \in Nat : x * y \in Nat
    OBVIOUS
  <2> QED
    BY <1>1, <2>1
<1>4. line \in Below(nw * nw * W) /\ p % W \in Below(W) /\ p = line * W + (p % W)
  BY <1>1, <1>2, <1>3, RowAndColumn, Zenon
<1> HIDE DEF line
<1>5. win \in Below(nw * nw) /\ line % W \in Below(W) /\ line = win * W + (line % W)
  BY <1>1, <1>3, <1>4, RowAndColumn, Zenon
<1> HIDE DEF win
<1>6. win \div nw \in Below(nw) /\ win % nw \in Below(nw)
      /\ win = (win \div nw) * nw + (win % nw)
  <2>1. nw \in Nat
    BY <1>1
  <2> QED
    BY <1>1, <1>5, <2>1, RowAndColumn, Zenon
<1>7. p = PlaceOf(n, win \div nw, win % nw, line % W, p % W)
  <2>1. PlaceOf(n, win \div nw, win % nw, line % W, p % W)
          = (((win \div nw) * nw + (win % nw)) * W + (line % W)) * W + (p % W)
    BY DEF PlaceOf, nw, W
  <2> QED
    BY <1>4, <1>5, <1>6, <2>1, Zenon
<1> QED
  BY <1>4, <1>5, <1>6, <1>7 DEF nw, W

\* A cell has one place.
LEMMA CellPlacedOnce ==
  ASSUME NEW n \in Nat \ {0}, NEW p \in Places(n), NEW q \in Places(n),
         GpuCell(n, p) = GpuCell(n, q), GpuCell(n, p) # Pad
  PROVE  p = q
<1>1. PICK pwi \in Below(GpuWindows(n)), pwj \in Below(GpuWindows(n)),
           pi \in Below(Window), pj \in Below(Window) : p = PlaceOf(n, pwi, pwj, pi, pj)
  BY PlaceHas
<1>2. PICK qwi \in Below(GpuWindows(n)), qwj \in Below(GpuWindows(n)),
           qi \in Below(Window), qj \in Below(Window) : q = PlaceOf(n, qwi, qwj, qi, qj)
  BY PlaceHas
<1> DEFINE py == pwi * Window + pi
           px == pwj * Window + pj
           qy == qwi * Window + qi
           qx == qwj * Window + qj
<1>3. GpuCell(n, p) = CellAt(n, py, px) /\ GpuCell(n, q) = CellAt(n, qy, qx)
  BY <1>1, <1>2, PlaceRead
<1>4. /\ Window \in Nat \ {0}
      /\ pwi \in Nat /\ pwj \in Nat /\ qwi \in Nat /\ qwj \in Nat
      /\ pi \in 0 .. Window - 1 /\ pj \in 0 .. Window - 1
      /\ qi \in 0 .. Window - 1 /\ qj \in 0 .. Window - 1
  BY EncoderAssumption DEF Below
<1>5. py \in Nat /\ px \in Nat /\ qy \in Nat /\ qx \in Nat
  <2>1. \A x, y, z \in Nat : x * y + z \in Nat
    OBVIOUS
  <2> QED
    BY <1>4, <2>1
<1> HIDE DEF py, px, qy, qx
<1>6. py < n /\ px < n /\ qy < n /\ qx < n /\ py * n + px = qy * n + qx
  BY <1>3 DEF CellAt
<1>7. py = qy /\ px = qx
  BY <1>5, <1>6, DivideUnique
<1>8. pwi = qwi /\ pi = qi
  BY <1>4, <1>7, DivideUnique DEF py, qy
<1>9. pwj = qwj /\ pj = qj
  BY <1>4, <1>7, DivideUnique DEF px, qx
<1> QED
  BY <1>1, <1>2, <1>8, <1>9

\* window_partition of the host fills the places the device reads cells for.
LEMMA PlacesAgree ==
  ASSUME NEW n \in Nat \ {0}
  PROVE  /\ \A pl \in CpuPlaces(n) :
              \E p \in Places(n) : GpuCell(n, p) # Pad /\ pl = <<p, GpuCell(n, p)>>
         /\ \A p \in Places(n) :
              GpuCell(n, p) # Pad => <<p, GpuCell(n, p)>> \in CpuPlaces(n)
<1> DEFINE nw == CpuWindows(n)
           at(wi, wj, i, j) == <<((wi * nw + wj) * Window + i) * Window + j,
                                 (wi * Window + i) * n + wj * Window + j>>
           Digits == Below(nw) \X Below(nw) \X Below(Window) \X Below(Window)
           Inside == {v \in Digits :
                        v[1] * Window + v[3] < n /\ v[2] * Window + v[4] < n}
<1>1. CpuPlaces(n) = {at(w[1], w[2], w[3], w[4]) : w \in Inside}
  BY DEF CpuPlaces
<1>2. nw = GpuWindows(n)
  BY WindowsAgree
<1>3. Window \in Nat \ {0}
  BY EncoderAssumption
<1>4. ASSUME NEW wi \in Below(nw), NEW wj \in Below(nw),
             NEW i \in Below(Window), NEW j \in Below(Window)
      PROVE  /\ wi * Window + i \in Nat /\ wj * Window + j \in Nat
             /\ (wi * Window + i) * n + wj * Window + j
                  = (wi * Window + i) * n + (wj * Window + j)
             /\ (wi * Window + i) * n + (wj * Window + j) # Pad
  <2>1. wi \in Nat /\ wj \in Nat /\ i \in Nat /\ j \in Nat
    BY <1>2, <1>3 DEF Below
  <2>2. \A x, y, z \in Nat : x * y + z \in Nat
    OBVIOUS
  <2>3. wi * Window + i \in Nat /\ wj * Window + j \in Nat
    BY <1>3, <2>1, <2>2
  <2> DEFINE y == wi * Window + i
  <2> HIDE DEF y
  <2>4. y * n \in Nat /\ wj * Window \in Nat
    BY <1>3, <2>1, <2>3 DEF y
  <2> QED
    BY <2>1, <2>3, <2>4 DEF y, Pad
<1>5. \A wi, wj \in Below(nw), i, j \in Below(Window) :
        /\ PlaceOf(n, wi, wj, i, j) \in Places(n)
        /\ at(wi, wj, i, j) = <<PlaceOf(n, wi, wj, i, j),
                                (wi * Window + i) * n + (wj * Window + j)>>
        /\ GpuCell(n, PlaceOf(n, wi, wj, i, j))
             = CellAt(n, wi * Window + i, wj * Window + j)
  BY <1>2, <1>4, PlaceRead DEF PlaceOf
<1> HIDE DEF at, nw
<1>6. ASSUME NEW pl \in CpuPlaces(n)
      PROVE  \E p \in Places(n) : GpuCell(n, p) # Pad /\ pl = <<p, GpuCell(n, p)>>
  <2>1. PICK w \in Inside : pl = at(w[1], w[2], w[3], w[4])
    BY <1>1
  <2>2. /\ w[1] \in Below(nw) /\ w[2] \in Below(nw)
        /\ w[3] \in Below(Window) /\ w[4] \in Below(Window)
        /\ w[1] * Window + w[3] < n /\ w[2] * Window + w[4] < n
    OBVIOUS
  <2> QED
    BY <1>4, <1>5, <2>1, <2>2 DEF CellAt
<1>7. ASSUME NEW p \in Places(n), GpuCell(n, p) # Pad
      PROVE  <<p, GpuCell(n, p)>> \in CpuPlaces(n)
  <2>1. PICK wi \in Below(nw), wj \in Below(nw), i \in Below(Window), j \in Below(Window) :
          p = PlaceOf(n, wi, wj, i, j)
    BY <1>2, PlaceHas
  <2>2. /\ wi * Window + i < n /\ wj * Window + j < n
        /\ GpuCell(n, p) = (wi * Window + i) * n + (wj * Window + j)
    BY <1>5, <1>7, <2>1 DEF CellAt
  <2> DEFINE w == <<wi, wj, i, j>>
  <2>3. w \in Inside
    BY <2>2
  <2>4. <<p, GpuCell(n, p)>> = at(w[1], w[2], w[3], w[4])
    BY <1>5, <2>1, <2>2
  <2> HIDE DEF w
  <2> QED
    BY <1>1, <2>3, <2>4
<1> QED
  BY <1>6, <1>7

LEMMA PartitionsAgree ==
  ASSUME NEW n \in Nat \ {0}
  PROVE  CpuPartition(n) = GpuPartition(n)
<1> DEFINE cells(i) == {pl[2] : pl \in {q \in CpuPlaces(n) : q[1] = i}}
<1>1. Places(n) = Below(CpuWindows(n) * CpuWindows(n) * Window * Window)
  BY WindowsAgree DEF Places
<1>2. CpuPartition(n) = [i \in Places(n) |->
                           IF cells(i) = {} THEN Pad ELSE CHOOSE cell \in cells(i) : TRUE]
  BY <1>1 DEF CpuPartition
<1>3. GpuPartition(n) = [i \in Places(n) |-> GpuCell(n, i)]
  BY DEF GpuPartition, Places
<1>4. ASSUME NEW i \in Places(n)
      PROVE  cells(i) = IF GpuCell(n, i) = Pad THEN {} ELSE {GpuCell(n, i)}
  <2>1. \A cell : cell \in cells(i) => cell = GpuCell(n, i) /\ GpuCell(n, i) # Pad
    BY PlacesAgree
  <2>2. GpuCell(n, i) # Pad => GpuCell(n, i) \in cells(i)
    <3>1. SUFFICES ASSUME GpuCell(n, i) # Pad PROVE GpuCell(n, i) \in cells(i)
      OBVIOUS
    <3> DEFINE pl == <<i, GpuCell(n, i)>>
    <3>2. pl \in {q \in CpuPlaces(n) : q[1] = i} /\ pl[2] = GpuCell(n, i)
      BY <3>1, PlacesAgree
    <3> HIDE DEF pl
    <3> QED
      BY <3>2
  <2> QED
    BY <2>1, <2>2
<1>5. ASSUME NEW i \in Places(n)
      PROVE  (IF cells(i) = {} THEN Pad ELSE CHOOSE cell \in cells(i) : TRUE) = GpuCell(n, i)
  BY <1>4
<1> QED
  BY <1>2, <1>3, <1>5

LEMMA UnpartitionsAgree ==
  ASSUME NEW n \in Nat \ {0}
  PROVE  /\ CpuUnpartition(n) = GpuUnpartition(n)
         /\ \A cell \in DOMAIN GpuUnpartition(n) : GpuUnpartition(n)[cell] \in Nat
<1> DEFINE places == CpuPlaces(n)
           part == GpuPartition(n)
           Back == {part[p] : p \in DOMAIN part} \ {Pad}
           place(cell) == CHOOSE p \in DOMAIN part : part[p] = cell
           taken(cell) == (CHOOSE pl \in places : pl[2] = cell)[1]
<1>1. DOMAIN part = Places(n) /\ \A p \in Places(n) : part[p] = GpuCell(n, p)
  BY DEF GpuPartition, Places
<1>2. GpuUnpartition(n) = [cell \in Back |-> place(cell)]
  BY DEF GpuUnpartition
<1>3. CpuUnpartition(n) = [cell \in {pl[2] : pl \in places} |-> taken(cell)]
  BY DEF CpuUnpartition
<1> HIDE DEF part, places
<1>4. {pl[2] : pl \in places} = Back
  <2>1. \A pl \in places : pl[2] \in Back
    BY <1>1, PlacesAgree DEF places
  <2>2. ASSUME NEW cell \in Back
        PROVE  cell \in {pl[2] : pl \in places}
    <3>1. PICK p \in Places(n) : cell = GpuCell(n, p) /\ cell # Pad
      BY <1>1
    <3> DEFINE pl == <<p, GpuCell(n, p)>>
    <3>2. pl \in places /\ pl[2] = cell
      BY <3>1, PlacesAgree DEF places
    <3> HIDE DEF pl
    <3> QED
      BY <3>2
  <2> QED
    BY <2>1, <2>2
<1>5. ASSUME NEW cell \in Back
      PROVE  /\ place(cell) \in Places(n)
             /\ (CHOOSE pl \in places : pl[2] = cell)[1] = place(cell)
  <2>1. cell # Pad /\ \E p \in DOMAIN part : part[p] = cell
    OBVIOUS
  <2>2. place(cell) \in DOMAIN part /\ part[place(cell)] = cell
    BY <2>1
  <2> DEFINE pl == CHOOSE pl \in places : pl[2] = cell
  <2>3. \E q \in places : q[2] = cell
    BY <1>4
  <2>4. pl \in places /\ pl[2] = cell
    BY <2>3
  <2> HIDE DEF pl
  <2>5. PICK p \in Places(n) : GpuCell(n, p) # Pad /\ pl = <<p, GpuCell(n, p)>>
    BY <2>4, PlacesAgree DEF places
  <2> DEFINE q == place(cell)
  <2> HIDE DEF q
  <2>6. q \in Places(n) /\ GpuCell(n, p) = cell /\ GpuCell(n, q) = cell
    BY <1>1, <2>2, <2>4, <2>5 DEF q
  <2>7. p = q
    BY <2>5, <2>6, CellPlacedOnce
  <2>8. pl[1] = q
    BY <2>5, <2>7
  <2> QED
    BY <2>6, <2>8 DEF pl, q
<1>6. Places(n) \subseteq Nat
  BY DEF Places, Below
<1>7. \A cell \in Back : place(cell) \in Nat /\ taken(cell) = place(cell)
  BY <1>5, <1>6
<1> HIDE DEF Back, place, taken
<1>8. CpuUnpartition(n) = GpuUnpartition(n)
  BY <1>2, <1>3, <1>4, <1>7
<1>9. \A cell \in DOMAIN GpuUnpartition(n) : GpuUnpartition(n)[cell] \in Nat
  BY <1>2, <1>7
<1> QED
  BY <1>8, <1>9

-----------------------------------------------------------------------------
(* Attention. *)

LEMMA RelAgrees ==
  ASSUME NEW w \in Nat \ {0}, NEW q \in Below(w), NEW k \in Below(w)
  PROVE  /\ Rel("cpu", TRUE, w, q, k) = Rel("gpu", TRUE, w, q, k)
         /\ w = Window => Rel("cpu", FALSE, w, q, k) = Rel("gpu", FALSE, w, q, k)
<1> DEFINE o == q - k + w - 1
<1>1. o \in Int /\ ~ (o < 0) /\ ~ (o >= 2 * w - 1)
  BY DEF Below
<1>2. Clamp(o, 2 * w - 1) = o
  BY <1>1 DEF Clamp
<1> HIDE DEF o
<1>3. Rel("cpu", TRUE, w, q, k) = LinearTaps(StoredRel(TRUE), 2 * w - 1, o)
  BY <1>2 DEF Rel, CpuRel, o
<1>4. Rel("gpu", TRUE, w, q, k) = LinearTaps(StoredRel(TRUE), 2 * w - 1, o)
  BY DEF Rel, GpuRel, o
<1>5. Rel("cpu", FALSE, w, q, k) = LinearTaps(StoredRel(FALSE), 2 * w - 1, o)
  BY <1>2 DEF Rel, CpuRel, o
<1>6. Rel("gpu", FALSE, w, q, k) = {o}
  BY DEF Rel, GpuRel, o
<1>7. w = Window => LinearTaps(StoredRel(FALSE), 2 * w - 1, o) = {o}
  BY DEF LinearTaps, StoredRel
<1> QED
  BY <1>3, <1>4, <1>5, <1>6, <1>7

LEMMA GridsAgree ==
  ASSUME NEW n \in Nat \ {0}
  PROVE  AttendGrid("cpu", n) = AttendGrid("gpu", n)
<1> DEFINE Read(p, q) == {<<k, Rel(p, TRUE, n, q \div n, k \div n),
                               Rel(p, TRUE, n, q % n, k % n)>> : k \in Cells(n)}
<1>1. \A p : AttendGrid(p, n) = [q \in Cells(n) |-> Read(p, q)]
  BY DEF AttendGrid
<1>2. \A q \in Cells(n) : q \div n \in Below(n) /\ q % n \in Below(n)
  BY RowAndColumn DEF Cells
<1>3. ASSUME NEW q \in Cells(n)
      PROVE  Read("cpu", q) = Read("gpu", q)
  <2>1. \A k \in Cells(n) :
          /\ Rel("cpu", TRUE, n, q \div n, k \div n) = Rel("gpu", TRUE, n, q \div n, k \div n)
          /\ Rel("cpu", TRUE, n, q % n, k % n) = Rel("gpu", TRUE, n, q % n, k % n)
    BY <1>2, RelAgrees
  <2> QED
    BY <2>1
<1> HIDE DEF Read
<1> QED
  BY <1>1, <1>3

LEMMA WindowsReadAlike ==
  ASSUME NEW part, NEW back, \A cell \in DOMAIN back : back[cell] \in Nat
  PROVE  AttendWindows("cpu", part, back) = AttendWindows("gpu", part, back)
<1> DEFINE w == Window
           Read(p, cell) ==
             LET q == back[cell] % (w * w)
                 first == back[cell] - q
             IN  {<<part[first + k], Rel(p, FALSE, w, q \div w, k \div w),
                                     Rel(p, FALSE, w, q % w, k % w)>> : k \in Cells(w)}
<1>1. \A p : AttendWindows(p, part, back) = [cell \in DOMAIN back |-> Read(p, cell)]
  BY DEF AttendWindows
<1>2. w \in Nat \ {0} /\ w * w \in Nat \ {0} /\ w = Window
  BY EncoderAssumption
<1>3. \A q \in Cells(w) : q \div w \in Below(w) /\ q % w \in Below(w)
  BY <1>2, RowAndColumn DEF Cells
<1>4. ASSUME NEW cell \in DOMAIN back
      PROVE  Read("cpu", cell) = Read("gpu", cell)
  <2> DEFINE q == back[cell] % (w * w)
             first == back[cell] - q
  <2>1. q \in Cells(w)
    BY <1>2, Division DEF Cells, Below
  <2>4. \A a, b \in Below(w) : Rel("cpu", FALSE, w, a, b) = Rel("gpu", FALSE, w, a, b)
    BY <1>2, RelAgrees
  <2> HIDE DEF q, w
  <2>2. \A k \in Cells(w) :
          /\ Rel("cpu", FALSE, w, q \div w, k \div w) = Rel("gpu", FALSE, w, q \div w, k \div w)
          /\ Rel("cpu", FALSE, w, q % w, k % w) = Rel("gpu", FALSE, w, q % w, k % w)
    BY <1>3, <2>1, <2>4
  <2> DEFINE Reads(p) == {<<part[first + k], Rel(p, FALSE, w, q \div w, k \div w),
                            Rel(p, FALSE, w, q % w, k % w)>> : k \in Cells(w)}
  <2>3. Reads("cpu") = Reads("gpu")
    BY <2>2
  <2> QED
    BY <2>3 DEF q, w
<1> HIDE DEF Read
<1> QED
  BY <1>1, <1>4

LEMMA AttentionsAgree ==
  ASSUME NEW n \in Nat \ {0}
  PROVE  CpuAttend(n) = GpuAttend(n)
<1>1. CASE IsGlobal(block)
  BY <1>1, GridsAgree DEF CpuAttend, GpuAttend
<1>2. CASE ~ IsGlobal(block)
  <2>1. CpuPartition(n) = GpuPartition(n) /\ CpuUnpartition(n) = GpuUnpartition(n)
    BY PartitionsAgree, UnpartitionsAgree
  <2>2. AttendWindows("cpu", GpuPartition(n), GpuUnpartition(n))
          = AttendWindows("gpu", GpuPartition(n), GpuUnpartition(n))
    BY UnpartitionsAgree, WindowsReadAlike
  <2> QED
    BY <1>2, <2>1, <2>2 DEF CpuAttend, GpuAttend
<1> QED
  BY <1>1, <1>2

-----------------------------------------------------------------------------
(* CLIP's layers. *)

\* The tiles hold every row once, the last one partly filled or not.
LEMMA TilesCover ==
  ASSUME NEW n \in Nat, NEW w \in Nat \ {0}
  PROVE  Tiled(n, w) = Below(n)
<1> DEFINE count == (n + w - 1) \div w
<1>1. \A i \in Tiled(n, w) : i \in Below(n)
  <2> SUFFICES ASSUME NEW tile \in Below(count), NEW j \in Below(w), tile * w + j < n
               PROVE  tile * w + j \in Below(n)
    BY DEF Tiled
  <2>1. \A a, b \in Nat : a * b \in Nat
    OBVIOUS
  <2>2. tile \in Nat /\ j \in Nat /\ w \in Nat
    BY DEF Below
  <2> HIDE DEF count
  <2> QED
    BY <2>1, <2>2 DEF Below
<1>2. ASSUME NEW i \in Below(n) PROVE i \in Tiled(n, w)
  <2> DEFINE t == i \div w
             j == i % w
  <2>1. i \in Nat /\ i < n
    BY DEF Below
  <2>2. i = t * w + j /\ t \in Nat /\ j \in 0 .. w - 1
    BY <2>1, Division
  <2>3. n + w - 1 = count * w + ((n + w - 1) % w) /\ count \in Nat /\ (n + w - 1) % w \in 0 .. w - 1
    <3>1. n + w - 1 \in Nat
      OBVIOUS
    <3> QED
      BY <3>1, Division
  <2> HIDE DEF t, j, count
  <2>4. t < count
    <3> SUFFICES ASSUME t >= count PROVE FALSE
      BY <2>2, <2>3
    <3> DEFINE d == t - count
    <3>1. d \in Nat /\ t = count + d
      BY <2>2, <2>3
    <3> HIDE DEF d
    <3>2. t * w = count * w + d * w /\ d * w \in Nat /\ count * w \in Nat
      <4>1. \A a, b \in Nat : a * b \in Nat
        OBVIOUS
      <4> QED
        BY <2>3, <3>1, <4>1
    <3>3. i >= count * w
      BY <2>2, <3>2
    <3> DEFINE x == (n + w - 1) % w
    <3>4. n + w - 1 = count * w + x /\ x <= w - 1 /\ x \in Nat
      BY <2>3
    <3> HIDE DEF x
    <3> QED
      BY <2>1, <3>2, <3>3, <3>4
  <2> QED
    BY <2>1, <2>2, <2>3, <2>4 DEF Tiled, Below, count
<1> QED
  BY <1>1, <1>2

LEMMA ClipReadsAgree ==
  ASSUME NEW n \in Nat
  PROVE  CpuClip(n) = GpuClip(n)
BY TilesCover, EncoderAssumption DEF CpuClip, GpuClip

LEMMA ClipRowsCount ==
  ASSUME NEW n \in Nat
  PROVE  ClipRows(n) \in Nat /\ ClipRows(n) >= 1
<1>1. n * n \in Nat
  OBVIOUS
<1> QED
  BY <1>1 DEF ClipRows

-----------------------------------------------------------------------------
(* The stages. *)

\* Every stage starts from a grid of at least one cell; the first one from the view.
EncInv ==
  /\ EncodersAgree
  /\ side["cpu"] \in Nat \ {0}
  /\ stage = "patch" => side["cpu"] >= Patch

LEMMA EncInitInv ==
  ASSUME EncInit
  PROVE  EncInv
<1>1. view \in Nat \ {0} /\ view >= Patch
  BY EncoderAssumption DEF EncInit
<1> QED
  BY <1>1 DEF EncInit, EncInv, EncodersAgree, Path

LEMMA SidesAgree ==
  ASSUME NEW n \in Nat \ {0}, NEW s \in DOMAIN Conv, s = "patch" => n >= Patch
  PROVE  CpuSide(s, n) = GpuSide(s, n) /\ GpuSide(s, n) \in Nat \ {0}
<1>0. s \in {"patch", "neck", "net2", "net3"}
  BY DEF Conv
<1>1. CASE s = "patch"
  <2> DEFINE a == n \div Patch
             r == n % Patch
  <2>1. Patch \in Nat \ {0} /\ n >= Patch
    BY <1>1, EncoderAssumption
  <2>2. n = a * Patch + r /\ a \in Nat /\ r \in 0 .. Patch - 1
    BY <2>1, Division
  <2>3. CpuSide(s, n) = (n + 2 * 0 - Patch) \div Patch + 1 /\ GpuSide(s, n) = a
    BY <1>1 DEF CpuSide, GpuSide, Conv
  <2> HIDE DEF a, r
  <2>4. a - 1 \in Nat
    BY <2>1, <2>2
  <2>5. n + 2 * 0 - Patch = (a - 1) * Patch + r
    BY <2>1, <2>2
  <2>6. ((a - 1) * Patch + r) \div Patch = a - 1
    BY <2>1, <2>2, <2>4, QuotientUnique, Zenon
  <2> QED
    BY <2>2, <2>3, <2>4, <2>5, <2>6
<1>2. CASE s = "neck"
  <2>1. CpuSide(s, n) = (n + 2 * 1 - 3) \div 1 + 1 /\ GpuSide(s, n) = n
    BY <1>2 DEF CpuSide, GpuSide, Conv
  <2> QED
    BY <2>1
<1>3. CASE s = "net2" \/ s = "net3"
  <2>1. /\ CpuSide(s, n) = (n + 2 * 1 - 3) \div 2 + 1
        /\ GpuSide(s, n) = (n + 2 - 3) \div 2 + 1
    BY <1>3 DEF CpuSide, GpuSide, Conv
  <2> QED
    BY <2>1
<1> QED
  BY <1>0, <1>1, <1>2, <1>3

\* What reaches a cell is alike if the fields are.
LEMMA ReachedAlike ==
  ASSUME field["cpu"] = field["gpu"]
  PROVE  \A r : Reached("cpu", r) = Reached("gpu", r)
BY DEF Reached

LEMMA ConvolveInv ==
  ASSUME EncInv, NEW s \in DOMAIN Conv, NEW then, then # "patch",
         Convolve(s, then)
  PROVE  EncInv'
<1> DEFINE n == side["cpu"]
           m == GpuSide(s, n)
<1>1. n \in Nat \ {0} /\ side["gpu"] = n /\ (s = "patch" => n >= Patch)
  BY DEF EncInv, EncodersAgree, Convolve
<1>2. CpuSide(s, n) = m /\ m \in Nat \ {0}
  BY <1>1, SidesAgree
<1>3. /\ side' = [cpu |-> CpuSide(s, n), gpu |-> GpuSide(s, side["gpu"])]
      /\ reads' = [cpu |-> Conv2d(Conv[s], n, CpuSide(s, n)),
                   gpu |-> ConvByRows(Conv[s], side["gpu"], GpuSide(s, side["gpu"]))]
      /\ rows' = rows /\ stage' = then /\ clip' = clip
  BY DEF Convolve
<1> HIDE DEF n
<1>4. side'["cpu"] = m /\ side'["gpu"] = m
  BY <1>1, <1>2, <1>3
<1>5. reads'["cpu"] = reads'["gpu"]
  <2>1. Conv2d(Conv[s], n, m) = ConvByRows(Conv[s], n, m)
    BY <1>1, <1>2, ConvKernels, ConvolutionsAgree
  <2> QED
    BY <1>1, <1>2, <1>3, <2>1
<1>6. field'["cpu"] = field'["gpu"]
  <2>1. field' = [p \in Path |-> [o \in DOMAIN reads'[p] |-> Reached(p, reads'[p][o])]]
    BY DEF Convolve
  <2>2. field["cpu"] = field["gpu"]
    BY DEF EncInv, EncodersAgree
  <2> QED
    BY <1>5, <2>1, <2>2, ReachedAlike DEF Path
<1>7. rows'["cpu"] = rows'["gpu"] /\ clip'["cpu"] = clip'["gpu"]
  BY <1>3 DEF EncInv, EncodersAgree
<1> QED
  BY <1>2, <1>3, <1>4, <1>5, <1>6, <1>7 DEF EncInv, EncodersAgree

LEMMA AttendInv ==
  ASSUME EncInv, Attend
  PROVE  EncInv'
<1>1. /\ side["cpu"] \in Nat \ {0} /\ side["gpu"] = side["cpu"]
      /\ field["cpu"] = field["gpu"] /\ rows["cpu"] = rows["gpu"]
      /\ clip["cpu"] = clip["gpu"]
  BY DEF EncInv, EncodersAgree
<1>2. /\ reads' = [cpu |-> CpuAttend(side["cpu"]), gpu |-> GpuAttend(side["gpu"])]
      /\ side' = side /\ rows' = rows /\ clip' = clip /\ stage' # "patch"
  BY DEF Attend
<1>3. reads'["cpu"] = reads'["gpu"]
  BY <1>1, <1>2, AttentionsAgree
<1>4. field'["cpu"] = field'["gpu"]
  <2>1. field' = [p \in Path |-> [cell \in DOMAIN field[p] |->
          field[p][cell] \cup (IF cell \in DOMAIN reads'[p] THEN Reached(p, reads'[p][cell]) ELSE {})]]
    BY DEF Attend
  <2> QED
    BY <1>1, <1>3, <2>1, ReachedAlike DEF Path
<1> QED
  BY <1>1, <1>2, <1>3, <1>4 DEF EncInv, EncodersAgree

LEMMA ClipAgrees ==
  ASSUME EncInv, Clip \/ ClipLayer
  PROVE  EncInv'
<1>1. /\ side["cpu"] \in Nat \ {0} /\ side["gpu"] = side["cpu"]
      /\ field["cpu"] = field["gpu"] /\ clip["cpu"] = clip["gpu"] /\ rows["cpu"] = rows["gpu"]
  BY DEF EncInv, EncodersAgree
<1>2. side' = side /\ field' = field /\ rows' = rows /\ stage' # "patch"
  BY DEF Clip, ClipLayer
<1>3. CASE Clip
  <2>1. reads'["cpu"] = reads'["gpu"]
    BY <1>1, <1>3 DEF Clip, Path
  <2>2. clip' = [p \in Path |-> [r \in DOMAIN reads'[p] |-> Reached(p, reads'[p][r])]]
    BY <1>3 DEF Clip
  <2>3. clip'["cpu"] = clip'["gpu"]
    BY <1>1, <2>1, <2>2, ReachedAlike DEF Path
  <2> QED
    BY <1>1, <1>2, <2>1, <2>3 DEF EncInv, EncodersAgree
<1>4. CASE ClipLayer
  <2>1. reads'["cpu"] = reads'["gpu"]
    <3>1. reads' = [cpu |-> CpuClip(ClipRows(side["cpu"])), gpu |-> GpuClip(ClipRows(side["gpu"]))]
      BY <1>4 DEF ClipLayer
    <3>2. CpuClip(ClipRows(side["cpu"])) = GpuClip(ClipRows(side["cpu"]))
      BY <1>1, ClipRowsCount, ClipReadsAgree
    <3> QED
      BY <1>1, <3>1, <3>2
  <2>2. clip' = [p \in Path |-> [q \in DOMAIN clip[p] |->
          clip[p][q] \cup (IF q \in DOMAIN reads'[p] THEN UNION {clip[p][k] : k \in reads'[p][q]}
                           ELSE {})]]
    BY <1>4 DEF ClipLayer
  <2>3. clip'["cpu"] = clip'["gpu"]
    BY <1>1, <2>1, <2>2 DEF Path
  <2> QED
    BY <1>1, <1>2, <2>1, <2>3 DEF EncInv, EncodersAgree
<1> QED
  BY <1>3, <1>4

\* The steps that change only what is read, or the rows.
LEMMA OthersInv ==
  ASSUME EncInv, Positions \/ Return2D
  PROVE  EncInv'
<1>1. /\ side["cpu"] \in Nat \ {0} /\ side["gpu"] = side["cpu"]
      /\ field["cpu"] = field["gpu"] /\ reads["cpu"] = reads["gpu"]
      /\ rows["cpu"] = rows["gpu"] /\ clip["cpu"] = clip["gpu"]
  BY DEF EncInv, EncodersAgree
<1>2. side' = side /\ field' = field /\ clip' = clip /\ stage' # "patch"
  BY DEF Positions, Return2D
<1>3. reads'["cpu"] = reads'["gpu"] /\ rows'["cpu"] = rows'["gpu"]
  <2>1. CASE Positions
    BY <1>1, <2>1 DEF Positions, Path
  <2>2. CASE Return2D
    BY <1>1, <2>2 DEF Return2D, Path
  <2> QED
    BY <2>1, <2>2
<1> QED
  BY <1>1, <1>2, <1>3 DEF EncInv, EncodersAgree

LEMMA EncStep ==
  ASSUME EncInv, [EncNext]_encVars
  PROVE  EncInv'
<1>1. CASE EncNext
  <2>1. DOMAIN Conv = {"patch", "neck", "net2", "net3"}
    BY DEF Conv
  <2>2. QED
    <3>1. CASE \E s \in DOMAIN Conv, then \in {"position", "net2", "net3", "clip"} : then # "patch" /\ Convolve(s, then)
      BY <3>1, ConvolveInv
    <3>2. CASE Attend
      BY <3>2, AttendInv
    <3>3. CASE Positions \/ Return2D
      BY <3>3, OthersInv
    <3>4. CASE Clip \/ ClipLayer
      BY <3>4, ClipAgrees
    <3> QED
      <4>1. /\ {"patch", "neck", "net2", "net3"} = DOMAIN Conv
            /\ "patch" \notin {"position", "net2", "net3", "clip"}
        BY <2>1
      <4>2. CASE \/ Convolve("patch", "position") \/ Convolve("neck", "net2")
                 \/ Convolve("net2", "net3") \/ Convolve("net3", "clip")
        BY <3>1, <4>1, <4>2
      <4> QED
        BY <1>1, <3>2, <3>3, <3>4, <4>2 DEF EncNext
<1>2. CASE UNCHANGED encVars
  BY <1>2 DEF encVars, EncInv, EncodersAgree
<1> QED
  BY <1>1, <1>2

\* The host and the device encoder compute every cell of every stage from the
\* same cells, with the same weights and positions, for every size of view,
\* patch and window, however the sides divide (gpu_encoder.h:7 "matches the CPU
\* DeepEncoder::encode exactly").
THEOREM EncodersComputeAlike == EncSpec => []EncodersAgree
<1>1. EncInit => EncInv
  BY EncInitInv
<1>2. EncInv /\ [EncNext]_encVars => EncInv'
  BY EncStep
<1>3. EncInv => EncodersAgree
  BY DEF EncInv
<1> QED
  BY <1>1, <1>2, <1>3, PTL DEF EncSpec

-----------------------------------------------------------------------------
(* pad_square. *)

LEMMA HalfOf ==
  ASSUME NEW n \in Nat
  PROVE  HalfEven(n) \in 0 .. n /\ n - 2 * HalfEven(n) \in -1 .. 1
<1>1. n \div 2 \in Nat /\ n - 2 * (n \div 2) \in 0 .. 1 /\ (n % 2 = 0 => n = 2 * (n \div 2))
  OBVIOUS
<1> DEFINE q == n \div 2
<1> HIDE DEF q
<1>2. q \in Nat /\ n - 2 * q \in 0 .. 1 /\ (n % 2 = 0 => n = 2 * q)
  BY <1>1 DEF q
<1>3. HalfEven(n) = q \/ (HalfEven(n) = q + 1 /\ n % 2 # 0 /\ q % 2 # 0)
  BY DEF HalfEven, q
<1>4. q % 2 # 0 => q >= 1
  BY <1>2
<1>5. n % 2 # 0 => n = 2 * q + 1
  BY <1>1, <1>2 DEF q
<1> QED
  BY <1>2, <1>3, <1>4, <1>5

\* A shorter side that is scaled does not come out longer than the square.
LEMMA ScaledWithin ==
  ASSUME NEW a \in Nat \ {0}, NEW b \in Nat \ {0}, NEW n, a < b,
         n \in Nearby(a, b, BaseSize)
  PROVE  n \in 0 .. BaseSize
<1>1. BaseSize \in Nat \ {0}
  BY LayoutAssumption
<1> DEFINE m == a * BaseSize
           q == m \div b
           x == m % b
<1>2. m \in Nat
  BY <1>1
<1>3. m = q * b + x /\ q \in Nat /\ x \in 0 .. b - 1
  BY <1>2, Division
<1>4. n \in 0 .. q + 1
  BY DEF Nearby
<1>5. q < BaseSize
  <2> SUFFICES ASSUME q >= BaseSize PROVE FALSE
    BY <1>1, <1>3
  <2> DEFINE k == q - BaseSize
             e == b - a
  <2> HIDE DEF q, x
  <2>1. k \in Nat /\ e \in Nat \ {0} /\ q = BaseSize + k /\ b = a + e
    BY <1>1, <1>3
  <2> HIDE DEF k, e
  <2>2. q * b = a * BaseSize + e * BaseSize + k * b
    BY <1>1, <2>1
  <2>3. e * BaseSize > 0 /\ k * b >= 0 /\ e * BaseSize \in Nat /\ k * b \in Nat
    <3>1. \A y, z \in Nat : y * z \in Nat
      OBVIOUS
    <3>2. \A y, z \in Nat \ {0} : y * z > 0
      OBVIOUS
    <3> QED
      BY <1>1, <2>1, <3>1, <3>2
  <2> HIDE DEF m
  <2>4. m = a * BaseSize
    BY DEF m
  <2>5. m = a * BaseSize + e * BaseSize + k * b + x
    BY <1>3, <2>2
  <2> QED
    BY <1>1, <1>2, <1>3, <2>3, <2>4, <2>5
<1> HIDE DEF q
<1> QED
  BY <1>1, <1>3, <1>4, <1>5

CentredIn(p) ==
  /\ p.x >= 0 /\ p.x + p.w <= BaseSize
  /\ p.y >= 0 /\ p.y + p.h <= BaseSize
  /\ p.w = BaseSize \/ p.h = BaseSize
  /\ (BaseSize - p.w) - 2 * p.x \in -1 .. 1
  /\ (BaseSize - p.h) - 2 * p.y \in -1 .. 1

\* A view that one side of the scaled image fills.
LEMMA CentreOf ==
  ASSUME NEW r, NEW n \in 0 .. BaseSize,
         r = <<BaseSize, n>> \/ r = <<n, BaseSize>>
  PROVE  CentredIn(Centre(r, BaseSize))
<1>1. BaseSize \in Nat \ {0} /\ BaseSize - n \in Nat
  BY LayoutAssumption
<1>2. HalfEven(BaseSize - n) \in 0 .. BaseSize - n
      /\ (BaseSize - n) - 2 * HalfEven(BaseSize - n) \in -1 .. 1
  BY <1>1, HalfOf
<1> DEFINE e == HalfEven(BaseSize - n)
<1>3. CASE r[1] = BaseSize
  <2>1. PICK m \in 0 .. BaseSize : r = <<BaseSize, m>>
    BY <1>3, <1>1
  <2>2. BaseSize - m \in Nat
    BY <2>1, <1>1
  <2>3. /\ HalfEven(BaseSize - m) \in 0 .. BaseSize - m
        /\ (BaseSize - m) - 2 * HalfEven(BaseSize - m) \in -1 .. 1
    BY <2>2, HalfOf
  <2>4. Centre(r, BaseSize) = [x |-> 0, y |-> HalfEven(BaseSize - m), w |-> BaseSize, h |-> m]
    BY <2>1 DEF Centre
  <2> QED
    BY <1>1, <2>1, <2>3, <2>4 DEF CentredIn
<1>4. CASE r[1] # BaseSize
  <2>1. r = <<n, BaseSize>>
    BY <1>4
  <2>2. Centre(r, BaseSize) = [x |-> e, y |-> 0, w |-> n, h |-> BaseSize]
    BY <1>4, <2>1 DEF Centre
  <2> QED
    BY <1>1, <1>2, <2>2 DEF CentredIn
<1> QED
  BY <1>3, <1>4

LEMMA PastesCentred ==
  ASSUME call \in Call, ~RoundsToSquare, NEW r \in Contain(BaseSize)
  PROVE  CentredIn(Centre(r, BaseSize))
<1>1. BaseSize \in Nat \ {0}
  BY LayoutAssumption
<1>2. call.w \in Nat \ {0} /\ call.h \in Nat \ {0}
  BY LayoutAssumption DEF Call
<1>3. CASE call.w = call.h
  <2>1. r = <<BaseSize, BaseSize>>
    BY <1>2, <1>3 DEF Contain
  <2>2. BaseSize \in 0 .. BaseSize
    BY <1>1
  <2> QED
    BY <2>1, <2>2, CentreOf
<1>4. CASE call.w > call.h
  <2>1. PICK n \in Nearby(call.h, call.w, BaseSize) :
          r = IF n # BaseSize THEN <<BaseSize, n>> ELSE <<call.w, call.h>>
    BY <1>2, <1>4 DEF Contain
  <2>2. n # BaseSize
    BY <1>2, <1>4 DEF RoundsToSquare
  <2>3. n \in 0 .. BaseSize
    BY <1>2, <1>4, ScaledWithin
  <2> QED
    BY <2>1, <2>2, <2>3, CentreOf
<1>5. CASE call.w < call.h
  <2>1. PICK n \in Nearby(call.w, call.h, BaseSize) :
          r = IF n # BaseSize THEN <<n, BaseSize>> ELSE <<call.w, call.h>>
    BY <1>2, <1>5 DEF Contain
  <2>2. n # BaseSize
    BY <1>2, <1>5 DEF RoundsToSquare
  <2>3. n \in 0 .. BaseSize
    BY <1>2, <1>5, ScaledWithin
  <2> QED
    BY <2>1, <2>2, <2>3, CentreOf
<1> QED
  BY <1>2, <1>3, <1>4, <1>5

-----------------------------------------------------------------------------
(* The grid of crops. *)

\* Induction over the subsets of a finite set, for a set of them.
LEMMA InductionOverSubsets ==
  ASSUME NEW S, IsFiniteSet(S), NEW P,
         \A U \in SUBSET S : (\A x \in U : U \ {x} \in P) => U \in P
  PROVE  SUBSET S \subseteq P
<1> DEFINE T == (SUBSET S) \ P
<1>1. SUFFICES ASSUME T # {}  PROVE FALSE
  OBVIOUS
<1>2. IsWellFoundedOn(StrictSubsetOrdering(S), SUBSET S)
  BY FS_StrictSubsetOrderingWellFounded, FS_FiniteSubsetsOfFinite
<1>3. PICK U \in T : \A V \in T : <<V, U>> \notin StrictSubsetOrdering(S)
  <2>1. T \subseteq SUBSET S
    OBVIOUS
  <2> HIDE DEF T
  <2> QED
    BY <1>1, <1>2, <2>1, WFMin
<1>4. \A x \in U : U \ {x} \in P
  <2> SUFFICES ASSUME NEW x \in U  PROVE U \ {x} \in P
    OBVIOUS
  <2>1. U \ {x} \in SUBSET S /\ U \ {x} \subseteq U /\ U \ {x} # U
    OBVIOUS
  <2>2. <<U \ {x}, U>> \in StrictSubsetOrdering(S)
    BY <2>1 DEF StrictSubsetOrdering
  <2> QED
    BY <1>3, <2>1, <2>2
<1> QED
  BY <1>4

\* A finite set has an element that no other comes before in a strict order.
LEMMA FirstOfFinite ==
  ASSUME NEW S, IsFiniteSet(S), S # {}, NEW R,
         \A x \in S : <<x, x>> \notin R,
         \A x, y, z \in S : <<x, y>> \in R /\ <<y, z>> \in R => <<x, z>> \in R
  PROVE  \E m \in S : \A y \in S : <<y, m>> \notin R
<1> DEFINE Has(U) == \E m \in U : \A y \in U : <<y, m>> \notin R
           P == {U \in SUBSET S : U = {} \/ Has(U)}
<1>1. ASSUME NEW U \in SUBSET S, \A x \in U : U \ {x} \in P
      PROVE  U \in P
  <2>1. SUFFICES ASSUME U # {}  PROVE Has(U)
    OBVIOUS
  <2>2. PICK x \in U : TRUE
    BY <2>1
  <2>3. U \ {x} \in P
    BY <1>1
  <2>4. CASE U \ {x} = {}
    BY <2>2, <2>4
  <2>5. CASE U \ {x} # {}
    <3>1. PICK m \in U \ {x} : \A y \in U \ {x} : <<y, m>> \notin R
      BY <2>3, <2>5
    <3>2. CASE <<x, m>> \in R
      <4>1. \A y \in U : <<y, x>> \notin R
        BY <3>1, <3>2
      <4> QED
        BY <4>1
    <3>3. CASE <<x, m>> \notin R
      BY <3>1, <3>3
    <3> QED
      BY <3>2, <3>3
  <2> QED
    BY <2>4, <2>5
<1>2. SUBSET S \subseteq P
  <2> HIDE DEF P
  <2> QED
    BY <1>1, InductionOverSubsets
<1> QED
  BY <1>2

\* Fractions a / x, b / y and c / z.
LEMMA FractionsOrdered ==
  ASSUME NEW a \in Nat, NEW b \in Nat, NEW c \in Nat,
         NEW x \in Nat \ {0}, NEW y \in Nat \ {0}, NEW z \in Nat \ {0},
         a * y < b * x, b * z <= c * y
  PROVE  a * z < c * x
<1>1. (a * y) * z < (b * x) * z
  <2> DEFINE p == a * y
             q == b * x
  <2>1. p \in Nat /\ q \in Nat /\ p < q
    OBVIOUS
  <2> HIDE DEF p, q
  <2>2. \A i, j \in Nat : i < j => i * z < j * z
    OBVIOUS
  <2> QED
    BY <2>1, <2>2 DEF p, q
<1>2. (b * z) * x <= (c * y) * x
  <2> DEFINE p == b * z
             q == c * y
  <2>1. p \in Nat /\ q \in Nat /\ p <= q
    OBVIOUS
  <2> HIDE DEF p, q
  <2>2. \A i, j \in Nat : i <= j => i * x <= j * x
    OBVIOUS
  <2> QED
    BY <2>1, <2>2 DEF p, q
<1>3. (a * y) * z = (a * z) * y /\ (b * x) * z = (b * z) * x /\ (c * y) * x = (c * x) * y
  OBVIOUS
<1> DEFINE p == a * z
           q == c * x
<1>4. p \in Nat /\ q \in Nat /\ p * y < q * y
  <2>1. p \in Nat /\ q \in Nat /\ (a * y) * z \in Nat /\ (b * x) * z \in Nat /\ (c * y) * x \in Nat
    OBVIOUS
  <2> QED
    BY <1>1, <1>2, <1>3, <2>1
<1> HIDE DEF p, q
<1>5. \A i, j \in Nat : i * y < j * y => i < j
  <2> SUFFICES ASSUME NEW i \in Nat, NEW j \in Nat, i * y < j * y, i >= j
               PROVE  FALSE
    OBVIOUS
  <2>1. i * y >= j * y
    OBVIOUS
  <2> QED
    BY <2>1
<1> QED
  BY <1>4, <1>5 DEF p, q

Pair == (1 .. MaxCrops) \X (1 .. MaxCrops)

LEMMA CandidatesFinite ==
  /\ IsFiniteSet(Candidates) /\ Candidates # {} /\ Candidates \subseteq Pair
  /\ \A r \in Candidates : r[1] * r[2] \in 2 .. MaxCrops
<1>1. MinCrops \in Nat /\ MinCrops >= 2 /\ MaxCrops \in Nat /\ MinCrops <= MaxCrops
  BY LayoutAssumption
<1>2. IsFiniteSet(Pair)
  <2>1. IsFiniteSet(1 .. MaxCrops)
    BY <1>1, FS_Interval
  <2> DEFINE D == 1 .. MaxCrops
  <2> HIDE DEF D
  <2>2. IsFiniteSet(D \X D)
    BY <2>1, FS_Product DEF D
  <2> QED
    BY <2>2 DEF D, Pair
<1>3. Candidates \subseteq Pair
  BY DEF Candidates, Pair
<1>4. <<MinCrops, 1>> \in Candidates
  BY <1>1 DEF Candidates
<1>5. \A r \in Candidates : r[1] * r[2] \in 2 .. MaxCrops
  BY <1>1 DEF Candidates
<1> QED
  BY <1>2, <1>3, <1>4, <1>5, FS_Subset

\* The parts of a grid are positive.
LEMMA PairParts ==
  ASSUME NEW r \in Pair
  PROVE  /\ r[1] \in Nat \ {0} /\ r[2] \in Nat \ {0} /\ r = <<r[1], r[2]>>
BY DEF Pair

LEMMA OffIsNat ==
  ASSUME call \in Call, NEW r \in Pair
  PROVE  Off(r) \in Nat
<1>1. call.w \in Nat /\ call.h \in Nat
  BY DEF Call
<1>2. r[1] \in Nat /\ r[2] \in Nat
  BY PairParts
<1> DEFINE d == call.w * r[2] - r[1] * call.h
<1>3. d \in Int
  BY <1>1, <1>2
<1> HIDE DEF d
<1>4. Off(r) = IF d < 0 THEN -d ELSE d
  BY DEF Off, d
<1> QED
  BY <1>3, <1>4

LEMMA NearestExists ==
  ASSUME call \in Call
  PROVE  Nearest # {}
<1> DEFINE R == {q \in Candidates \X Candidates : Nearer(q[1], q[2])}
<1>1. ASSUME NEW x \in Candidates
      PROVE  <<x, x>> \notin R
  <2>1. Off(x) * x[2] \in Nat
    BY CandidatesFinite, OffIsNat, PairParts
  <2> QED
    BY <2>1 DEF Nearer
<1>2. ASSUME NEW x \in Candidates, NEW y \in Candidates, NEW z \in Candidates,
             Nearer(x, y), Nearer(y, z)
      PROVE  Nearer(x, z)
  <2>1. /\ Off(x) \in Nat /\ Off(y) \in Nat /\ Off(z) \in Nat
        /\ x[2] \in Nat \ {0} /\ y[2] \in Nat \ {0} /\ z[2] \in Nat \ {0}
    BY CandidatesFinite, OffIsNat, PairParts
  <2>2. Off(y) * z[2] <= Off(z) * y[2]
    <3>1. Off(y) * z[2] \in Nat /\ Off(z) * y[2] \in Nat
      BY <2>1
    <3> QED
      BY <1>2, <3>1 DEF Nearer
  <2>3. Off(x) * y[2] < Off(y) * x[2]
    BY <1>2 DEF Nearer
  <2>4. Off(x) * z[2] < Off(z) * x[2]
    BY <2>1, <2>2, <2>3, FractionsOrdered, Zenon
  <2> QED
    BY <2>4 DEF Nearer
<1>3. \E m \in Candidates : \A y \in Candidates : <<y, m>> \notin R
  <2>1. /\ \A x \in Candidates : <<x, x>> \notin R
        /\ \A x, y, z \in Candidates : <<x, y>> \in R /\ <<y, z>> \in R => <<x, z>> \in R
    BY <1>1, <1>2
  <2> HIDE DEF R
  <2> QED
    BY <2>1, CandidatesFinite, FirstOfFinite, Zenon
<1> QED
  BY <1>3 DEF Nearest

LEMMA BeforeOrders ==
  /\ \A r \in Pair : ~ Before(r, r)
  /\ \A r, s, t \in Pair : Before(r, s) /\ Before(s, t) => Before(r, t)
  /\ \A r, s \in Pair : r # s => Before(r, s) \/ Before(s, r)
<1>1. \A r \in Pair : r[1] * r[2] \in Nat /\ r[1] \in Nat
  BY PairParts
<1>2. ASSUME NEW r \in Pair, NEW s \in Pair, r[1] * r[2] = s[1] * s[2], r[1] = s[1]
      PROVE  r = s
  <2>1. /\ r[1] \in Nat \ {0} /\ r[2] \in Nat \ {0} /\ s[2] \in Nat \ {0}
        /\ r = <<r[1], r[2]>> /\ s = <<s[1], s[2]>>
    BY PairParts
  <2>2. \A a, b, c \in Nat \ {0} : a * b = a * c => b = c
    <3> SUFFICES ASSUME NEW a \in Nat \ {0}, NEW b \in Nat \ {0}, NEW c \in Nat \ {0},
                        a * b = a * c
                 PROVE  b = c
      OBVIOUS
    <3>1. a * (b - c) = 0
      OBVIOUS
    <3> QED
      BY <3>1
  <2> QED
    BY <1>2, <2>1, <2>2
<1>3. ASSUME NEW r \in Pair, NEW s \in Pair, r # s
      PROVE  Before(r, s) \/ Before(s, r)
  BY <1>1, <1>2, <1>3 DEF Before
<1>4. \A r \in Pair : ~ Before(r, r)
  BY <1>1 DEF Before
<1>5. \A r, s, t \in Pair : Before(r, s) /\ Before(s, t) => Before(r, t)
  BY <1>1 DEF Before
<1> QED
  BY <1>3, <1>4, <1>5

\* Among some candidates there are a first and a last.
LEMMA FirstAndLast ==
  ASSUME NEW T \in SUBSET Candidates, T # {}
  PROVE  /\ \E r \in T : \A s \in T \ {r} : Before(r, s)
         /\ \E r \in T : \A s \in T \ {r} : Before(s, r)
<1>1. IsFiniteSet(T) /\ T \subseteq Pair
  BY CandidatesFinite, FS_Subset
<1> DEFINE R == {q \in T \X T : Before(q[1], q[2])}
           Q == {q \in T \X T : Before(q[2], q[1])}
<1>2. \E m \in T : \A y \in T : <<y, m>> \notin R
  <2>1. /\ \A x \in T : <<x, x>> \notin R
        /\ \A x, y, z \in T : <<x, y>> \in R /\ <<y, z>> \in R => <<x, z>> \in R
    BY <1>1, BeforeOrders
  <2> HIDE DEF R
  <2> QED
    BY <1>1, <2>1, FirstOfFinite, Zenon
<1>3. \E m \in T : \A y \in T : <<y, m>> \notin Q
  <2>1. /\ \A x \in T : <<x, x>> \notin Q
        /\ \A x, y, z \in T : <<x, y>> \in Q /\ <<y, z>> \in Q => <<x, z>> \in Q
    BY <1>1, BeforeOrders
  <2> HIDE DEF Q
  <2> QED
    BY <1>1, <2>1, FirstOfFinite, Zenon
<1> QED
  BY <1>1, <1>2, <1>3, BeforeOrders

LEMMA TiedIsNearest ==
  ASSUME call \in Call
  PROVE  Tied # {} /\ Tied \subseteq Nearest /\ Nearest \subseteq Candidates
<1> DEFINE below == {r \in Nearest : r[1] * call.h <= call.w * r[2]}
           above == {r \in Nearest : r[1] * call.h >= call.w * r[2]}
<1>1. Nearest # {}
  BY NearestExists
<1>2. CASE call.ties = "below" /\ below # {}
  <2>1. Tied = below
    BY <1>2 DEF Tied
  <2> QED
    BY <1>2, <2>1 DEF Nearest
<1>3. CASE call.ties = "above" /\ above # {}
  <2>1. Tied = above
    BY <1>3 DEF Tied
  <2> QED
    BY <1>3, <2>1 DEF Nearest
<1>4. CASE ~ (call.ties = "below" /\ below # {}) /\ ~ (call.ties = "above" /\ above # {})
  <2>1. Tied = Nearest
    BY <1>4 DEF Tied
  <2> QED
    BY <1>1, <2>1 DEF Nearest
<1> QED
  BY <1>2, <1>3, <1>4

\* A grid of the same proportions is as near, and on the same side.
LEMMA SameShapeTied ==
  ASSUME call \in Call, NEW g \in Tied, NEW s \in Candidates, SameShape(s, g)
  PROVE  s \in Tied
<1>1. g \in Candidates /\ g \in Nearest /\ Candidates \subseteq Pair
  BY TiedIsNearest, CandidatesFinite
<1>2. /\ g[1] \in Nat \ {0} /\ g[2] \in Nat \ {0} /\ s[1] \in Nat \ {0} /\ s[2] \in Nat \ {0}
      /\ call.w \in Nat /\ call.h \in Nat /\ s[1] * g[2] = g[1] * s[2]
  BY <1>1, PairParts DEF Call, SameShape
<1> DEFINE w == call.w
           h == call.h
           a == w * s[2] - s[1] * h
           b == w * g[2] - g[1] * h
<1>3. a \in Int /\ b \in Int /\ a * g[2] = b * s[2]
  <2>1. a \in Int /\ b \in Int
    BY <1>2
  <2>2. a * g[2] = (w * s[2]) * g[2] - (s[1] * g[2]) * h
    BY <1>2
  <2>3. b * s[2] = (w * s[2]) * g[2] - (g[1] * s[2]) * h
    BY <1>2
  <2> QED
    BY <1>2, <2>1, <2>2, <2>3
<1>4. /\ Off(s) = IF a < 0 THEN -a ELSE a
      /\ Off(g) = IF b < 0 THEN -b ELSE b
      /\ s[1] * h <= w * s[2] <=> a >= 0
      /\ s[1] * h >= w * s[2] <=> a <= 0
      /\ g[1] * h <= w * g[2] <=> b >= 0
      /\ g[1] * h >= w * g[2] <=> b <= 0
  <2>1. s[1] * h \in Nat /\ w * s[2] \in Nat /\ g[1] * h \in Nat /\ w * g[2] \in Nat
    BY <1>2
  <2> QED
    BY <2>1 DEF Off
<1> HIDE DEF a, b
<1>5. \A i \in Int, j \in Nat \ {0} : (i * j > 0 <=> i > 0) /\ (i * j < 0 <=> i < 0)
  <2>1. \A i, j \in Nat \ {0} : i * j > 0
    OBVIOUS
  <2>2. \A i \in Int, j \in Nat \ {0} : i < 0 => i * j < 0
    <3> SUFFICES ASSUME NEW i \in Int, NEW j \in Nat \ {0}, i < 0
                 PROVE  i * j < 0
      OBVIOUS
    <3> DEFINE k == -i
    <3>1. k \in Nat \ {0} /\ i = -k
      OBVIOUS
    <3> HIDE DEF k
    <3>2. k * j > 0 /\ i * j = -(k * j)
      BY <2>1, <3>1
    <3> QED
      BY <3>1, <3>2
  <2>3. \A j \in Nat \ {0} : 0 * j = 0
    OBVIOUS
  <2>4. \A i \in Int, j \in Nat \ {0} : i * j \in Int
    OBVIOUS
  <2> QED
    BY <2>1, <2>2, <2>3, <2>4
<1>6. (a > 0 <=> b > 0) /\ (a < 0 <=> b < 0)
  BY <1>2, <1>3, <1>5
<1>7. Off(s) * g[2] = Off(g) * s[2] /\ Off(s) \in Nat /\ Off(g) \in Nat
  <2>1. \A i \in Int, j \in Nat : (-i) * j = -(i * j)
    OBVIOUS
  <2> QED
    BY <1>2, <1>3, <1>4, <1>6, <2>1
<1>8. s \in Nearest
  <2> SUFFICES ASSUME NEW t \in Candidates, Nearer(t, s)  PROVE FALSE
    BY DEF Nearest
  <2>1. Off(t) \in Nat /\ t[2] \in Nat \ {0}
    BY <1>1, OffIsNat, PairParts
  <2>2. Off(t) * s[2] < Off(s) * t[2]
    BY DEF Nearer
  <2>3. Off(s) * g[2] <= Off(g) * s[2]
    <3>1. Off(g) * s[2] \in Nat
      BY <1>2, <1>7
    <3> QED
      BY <1>7, <3>1
  <2>4. Off(t) * g[2] < Off(g) * t[2]
    BY <1>2, <1>7, <2>1, <2>2, <2>3, FractionsOrdered, Zenon
  <2> QED
    BY <1>1, <2>4 DEF Nearer, Nearest
<1>9. /\ s[1] * h <= w * s[2] <=> g[1] * h <= w * g[2]
      /\ s[1] * h >= w * s[2] <=> g[1] * h >= w * g[2]
  BY <1>3, <1>4, <1>6
<1> HIDE DEF w, h
<1> DEFINE below == {r \in Nearest : r[1] * call.h <= call.w * r[2]}
           above == {r \in Nearest : r[1] * call.h >= call.w * r[2]}
<1>10. CASE call.ties = "below" /\ below # {}
  <2>1. Tied = below
    BY <1>10 DEF Tied
  <2> QED
    BY <1>8, <1>9, <2>1 DEF w, h
<1>11. CASE call.ties = "above" /\ above # {}
  <2>1. Tied = above
    BY <1>11 DEF Tied
  <2> QED
    BY <1>8, <1>9, <2>1 DEF w, h
<1>12. CASE ~ (call.ties = "below" /\ below # {}) /\ ~ (call.ties = "above" /\ above # {})
  <2>1. Tied = Nearest
    BY <1>12 DEF Tied
  <2> QED
    BY <1>8, <2>1
<1> QED
  BY <1>10, <1>11, <1>12

SuitsImage(g) ==
  /\ g \in Candidates
  /\ \A s \in Candidates :
       /\ ~Nearer(s, g)
       /\ SameShape(s, g) /\ s[1] > g[1] => ~Covers(s)
       /\ SameShape(s, g) /\ s[1] < g[1] => Covers(g)

LEMMA LargerBefore ==
  ASSUME NEW r \in Pair, NEW s \in Pair, SameShape(r, s), r[1] < s[1]
  PROVE  Before(r, s)
<1>1. /\ r[1] \in Nat \ {0} /\ r[2] \in Nat \ {0} /\ s[1] \in Nat \ {0} /\ s[2] \in Nat \ {0}
      /\ r[1] * s[2] = s[1] * r[2]
  BY PairParts DEF SameShape
<1>2. r[1] * r[2] < s[1] * r[2]
  BY <1>1
<1>3. r[2] <= s[2]
  <2> SUFFICES ASSUME r[2] > s[2]  PROVE FALSE
    BY <1>1
  <2>1. r[1] * s[2] < r[1] * r[2]
    BY <1>1
  <2>2. r[1] * s[2] \in Nat /\ r[1] * r[2] \in Nat /\ s[1] * r[2] \in Nat
    BY <1>1
  <2> QED
    BY <1>1, <1>2, <2>1, <2>2
<1>4. s[1] * r[2] <= s[1] * s[2]
  BY <1>1, <1>3
<1>5. r[1] * r[2] \in Nat /\ s[1] * r[2] \in Nat /\ s[1] * s[2] \in Nat
  BY <1>1
<1> QED
  BY <1>2, <1>4, <1>5 DEF Before

LEMMA ClosestSuits ==
  ASSUME call \in Call
  PROVE  SuitsImage(ClosestRatio) /\ ClosestRatio \in Pair
<1> DEFINE first == CHOOSE r \in Tied : \A s \in Tied \ {r} : Before(r, s)
           larger == {r \in Tied \ {first} : Covers(r)}
           last == CHOOSE r \in larger : \A s \in larger \ {r} : Before(s, r)
           g == ClosestRatio
<1>1. Tied # {} /\ Tied \in SUBSET Candidates /\ Tied \subseteq Nearest
  BY TiedIsNearest
<1>2. first \in Tied /\ \A s \in Tied \ {first} : Before(first, s)
  BY <1>1, FirstAndLast
<1>3. larger \in SUBSET Candidates
  BY <1>1
<1>4. larger # {} => last \in larger /\ \A s \in larger \ {last} : Before(s, last)
  BY <1>3, FirstAndLast
<1>5. g = IF larger = {} THEN first ELSE last
  BY DEF ClosestRatio
<1> HIDE DEF first, last, g
<1>6. g \in Tied /\ g \in Candidates /\ g \in Nearest
  BY <1>1, <1>2, <1>4, <1>5
<1>7. \A r, s \in Tied : ~ (Before(r, s) /\ Before(s, r))
  <2>1. Tied \subseteq Pair
    BY <1>1, CandidatesFinite
  <2> QED
    BY <2>1, BeforeOrders
<1>8. ASSUME NEW s \in Candidates, SameShape(s, g), s[1] > g[1]
      PROVE  ~ Covers(s)
  <2>1. s \in Tied /\ s # g
    BY <1>6, <1>8, SameShapeTied, CandidatesFinite, PairParts
  <2>2. Before(g, s)
    <3>1. SameShape(g, s)
      <4>1. /\ g[1] \in Nat /\ g[2] \in Nat /\ s[1] \in Nat /\ s[2] \in Nat
            /\ s[1] * g[2] = s[2] * g[1]
        BY <1>6, <1>8, CandidatesFinite, PairParts DEF SameShape
      <4> QED
        BY <4>1 DEF SameShape
    <3>2. g \in Pair /\ s \in Pair /\ g[1] < s[1]
      BY <1>6, <1>8, CandidatesFinite, PairParts
    <3> QED
      BY <3>1, <3>2, LargerBefore
  <2>3. s # first
    BY <1>2, <1>6, <1>7, <2>1, <2>2
  <2>4. s \notin larger
    BY <1>4, <1>5, <1>6, <1>7, <2>1, <2>2
  <2> QED
    BY <2>1, <2>3, <2>4
<1>9. ASSUME NEW s \in Candidates, SameShape(s, g), s[1] < g[1]
      PROVE  Covers(g)
  <2>1. s \in Tied /\ s # g
    BY <1>6, <1>9, SameShapeTied, CandidatesFinite, PairParts
  <2>2. Before(s, g)
    BY <1>6, <1>9, LargerBefore, CandidatesFinite
  <2>3. g # first
    BY <1>2, <1>6, <1>7, <2>1, <2>2
  <2> QED
    BY <1>4, <1>5, <2>3
<1>10. \A s \in Candidates : ~ Nearer(s, g)
  BY <1>6 DEF Nearest
<1>11. SuitsImage(g)
  BY <1>6, <1>8, <1>9, <1>10 DEF SuitsImage
<1> QED
  BY <1>6, <1>11, CandidatesFinite DEF g

-----------------------------------------------------------------------------
(* Views. *)

NQ == NumQueries(ImageSize)
NQB == NumQueries(BaseSize)
\* The pixel where token k of a line of a view starts.
Start(k) == k * PatchSize * Downsample

LEMMA StartGrows ==
  ASSUME NEW a \in Nat, NEW b \in Nat
  PROVE  /\ Start(a) \in Nat
         /\ a <= b => Start(a) <= Start(b)
         /\ a < b => Start(a) < Start(b)
<1>1. PatchSize \in Nat \ {0}
  BY LayoutAssumption
<1>2. a * PatchSize \in Nat /\ b * PatchSize \in Nat
  BY <1>1
<1>3. a <= b => a * PatchSize <= b * PatchSize
  BY <1>1
<1>4. a < b => a * PatchSize < b * PatchSize
  BY <1>1
<1> DEFINE p == a * PatchSize
           q == b * PatchSize
<1> HIDE DEF p, q
<1>5. p \in Nat /\ q \in Nat /\ (a <= b => p <= q) /\ (a < b => p < q)
  BY <1>2, <1>3, <1>4 DEF p, q
<1>6. Start(a) = p * 4 /\ Start(b) = q * 4
  BY DEF Start, Downsample, p, q
<1> QED
  BY <1>5, <1>6

\* All tokens of a view start inside it, and the two counts are one number.
LEMMA Extents ==
  ASSUME NEW size \in {ImageSize, BaseSize}
  PROVE  /\ Side(size) = NumQueries(size)
         /\ NumQueries(size) \in Nat \ {0}
         /\ Start(NumQueries(size) - 1) \in Nat
         /\ Start(NumQueries(size) - 1) < size
<1>1. PatchSize \in Nat \ {0} /\ size \in Nat /\ size >= PatchSize
  BY LayoutAssumption
<1> DEFINE x == size \div PatchSize
           n == NumQueries(size)
<1>2. size = x * PatchSize + (size % PatchSize) /\ x \in Nat /\ size % PatchSize \in Nat
  BY <1>1, Division
<1> HIDE DEF x
<1>3. x # 0
  <2>1. size % PatchSize \in 0 .. PatchSize - 1
    BY <1>1, Division
  <2> QED
    BY <1>1, <1>2, <2>1
<1>4. n = (x + 3) \div 4 /\ Side(size) = (((x + 1) \div 2) + 1) \div 2
  <2>1. n = (x + 4 - 1) \div 4 /\ Side(size) = ((((x + 2 - 1) \div 2) + 2 - 1)) \div 2
    BY DEF NumQueries, Side, CeilDiv, Downsample, x
  <2>2. x + 4 - 1 = x + 3 /\ x + 2 - 1 = x + 1
    BY <1>2
  <2>3. \A y \in Nat : y + 2 - 1 = y + 1
    OBVIOUS
  <2>4. (x + 1) \div 2 \in Nat
    BY <1>2
  <2> QED
    BY <2>1, <2>2, <2>3, <2>4
<1> HIDE DEF n
<1>5. n \in Nat \ {0} /\ Side(size) = n /\ (n - 1) * 4 < x
  BY <1>2, <1>3, <1>4
<1>6. Start(n - 1) \in Nat /\ Start(n - 1) < size
  <2> DEFINE k == n - 1
             p == k * PatchSize
  <2>1. k \in Nat /\ k * 4 + 1 <= x
    BY <1>2, <1>5
  <2> HIDE DEF k
  <2>2. Start(k) = p * 4 /\ p \in Nat
    BY <1>1, <2>1 DEF Start, Downsample
  <2>3. (k * 4 + 1) * PatchSize <= x * PatchSize
    BY <1>1, <1>2, <2>1
  <2>4. (k * 4 + 1) * PatchSize = p * 4 + PatchSize
    BY <1>1, <2>1
  <2> HIDE DEF p
  <2>5. x * PatchSize \in Nat
    BY <1>1, <1>2
  <2> QED
    BY <1>1, <1>2, <2>2, <2>3, <2>4, <2>5 DEF k
<1> QED
  BY <1>5, <1>6 DEF n

\* Numbers of rows of a view and of a page.
LEMMA Counts ==
  ASSUME NEW n \in Nat \ {0}
  PROVE  n * (n + 1) \in Nat /\ n * (n + 1) > n
<1>1. n * (n + 1) = n * n + n /\ n * n \in Nat \ {0}
  OBVIOUS
<1> QED
  BY <1>1

\* The rows of an encoded view.
LEMMA EncodedRows ==
  ASSUME NEW kind, NEW at, NEW size \in {ImageSize, BaseSize}
  PROVE  LET n == NumQueries(size)
             e == Encode(kind, at, size)
         IN  /\ DOMAIN e = 1 .. n * (n + 1) + 1 /\ Len(e) = n * (n + 1) + 1
             /\ e[n * (n + 1) + 1] = Separator
             /\ \A r, c \in 0 .. n - 1 :
                  /\ r * (n + 1) + c \in 0 .. n * (n + 1) - 1
                  /\ e[r * (n + 1) + c + 1] = Row(kind, at.y + Start(r), at.x + Start(c))
             /\ \A j \in 1 .. n * (n + 1) :
                  \/ e[j] = Newline
                  \/ \E r, c \in 0 .. n - 1 : e[j] = Row(kind, at.y + Start(r), at.x + Start(c))
<1> DEFINE n == NumQueries(size)
           e == Encode(kind, at, size)
           N == n * (n + 1)
           token(i) == Row(kind, at.y + (i \div (n + 1)) * PatchSize * Downsample,
                                 at.x + (i % (n + 1)) * PatchSize * Downsample)
<1>1. n \in Nat \ {0} /\ Side(size) = n
  BY Extents
<1>2. N \in Nat /\ N > n
  BY <1>1, Counts
<1>3. e = [j \in 1 .. N + 1 |-> IF j - 1 = N THEN Separator
                                ELSE IF (j - 1) % (n + 1) = n THEN Newline
                                ELSE token(j - 1)]
  BY <1>1 DEF Encode
<1> HIDE DEF n, e, N
<1>4. DOMAIN e = 1 .. N + 1 /\ Len(e) = N + 1
  BY <1>2, <1>3
<1>5. e[N + 1] = Separator
  BY <1>2, <1>3
<1>6. ASSUME NEW r \in 0 .. n - 1, NEW c \in 0 .. n - 1
      PROVE  /\ r * (n + 1) + c \in 0 .. N - 1
             /\ e[r * (n + 1) + c + 1] = Row(kind, at.y + Start(r), at.x + Start(c))
  <2> DEFINE i == r * (n + 1) + c
  <2>1. n + 1 \in Nat \ {0} /\ r \in Nat /\ c \in 0 .. n + 1 - 1 /\ n \in Nat
    BY <1>1
  <2>2. i \div (n + 1) = r /\ i % (n + 1) = c
    BY <2>1, QuotientUnique
  <2>3. i \in Below(n * (n + 1))
    BY <2>1, PlaceBelow DEF Below
  <2> HIDE DEF i
  <2>4. i \in 0 .. N - 1 /\ i + 1 \in 1 .. N + 1 /\ (i + 1) - 1 = i /\ i # N
    BY <1>2, <2>3 DEF Below, N
  <2>5. e[i + 1] = token(i)
    BY <1>1, <1>3, <2>2, <2>4
  <2> QED
    BY <2>2, <2>4, <2>5 DEF i, Start
<1>7. ASSUME NEW j \in 1 .. N
      PROVE  \/ e[j] = Newline
             \/ \E r, c \in 0 .. n - 1 : e[j] = Row(kind, at.y + Start(r), at.x + Start(c))
  <2> DEFINE i == j - 1
  <2>1. i \in Below(n * (n + 1)) /\ j \in 1 .. N + 1 /\ i # N
    BY <1>2 DEF Below, N
  <2> HIDE DEF i
  <2>2. i \div (n + 1) \in Below(n) /\ i % (n + 1) \in Below(n + 1)
    BY <1>1, <2>1, RowAndColumn
  <2>3. CASE i % (n + 1) = n
    BY <1>3, <2>1, <2>3 DEF i
  <2>4. CASE i % (n + 1) # n
    <3>1. i \div (n + 1) \in 0 .. n - 1 /\ i % (n + 1) \in 0 .. n - 1
      BY <1>1, <2>2, <2>4 DEF Below
    <3>2. e[j] = token(i)
      BY <1>3, <2>1, <2>4 DEF i
    <3> QED
      BY <3>1, <3>2 DEF Start
  <2> QED
    BY <2>3, <2>4
<1> QED
  BY <1>4, <1>5, <1>6, <1>7 DEF n, e, N

-----------------------------------------------------------------------------
(* The grid of local rows. *)

\* The pixel of the scaled image where line or column k of the local rows starts.
Edge(k) == (k \div NQ) * ImageSize + Start(k % NQ)
LocalRow(l, c) == Row("local", Edge(l), Edge(c))

LEMMA EdgeOf ==
  ASSUME NEW a \in Nat, NEW b \in 0 .. NQ - 1
  PROVE  /\ (a * NQ + b) \div NQ = a /\ (a * NQ + b) % NQ = b
         /\ Edge(a * NQ + b) = a * ImageSize + Start(b)
<1>1. NQ \in Nat \ {0}
  BY Extents DEF NQ
<1>2. (a * NQ + b) \div NQ = a /\ (a * NQ + b) % NQ = b
  BY <1>1, QuotientUnique
<1> QED
  BY <1>2 DEF Edge

\* Lines come one below the other, also across the border of a crop.
LEMMA EdgeGrows ==
  ASSUME NEW k \in Nat
  PROVE  Edge(k) \in Nat /\ Edge(k + 1) \in Nat /\ Edge(k) < Edge(k + 1)
<1> DEFINE a == k \div NQ
           b == k % NQ
<1>1. NQ \in Nat \ {0} /\ Start(NQ - 1) \in Nat /\ Start(NQ - 1) < ImageSize /\ ImageSize \in Nat
  BY Extents, LayoutAssumption DEF NQ
<1>2. k = a * NQ + b /\ a \in Nat /\ b \in 0 .. NQ - 1
  BY <1>1, Division
<1> HIDE DEF a, b
<1>3. Edge(k) = a * ImageSize + Start(b) /\ a * ImageSize \in Nat /\ Start(b) \in Nat
  <2>1. Edge(k) = a * ImageSize + Start(b)
    BY <1>2, EdgeOf
  <2>2. a * ImageSize \in Nat
    BY <1>1, <1>2
  <2>3. Start(b) \in Nat
    BY <1>2, StartGrows
  <2> QED
    BY <2>1, <2>2, <2>3
<1>4. CASE b < NQ - 1
  <2>1. k + 1 = a * NQ + (b + 1) /\ b + 1 \in 0 .. NQ - 1
    BY <1>1, <1>2, <1>4
  <2>2. Edge(k + 1) = a * ImageSize + Start(b + 1)
    BY <1>2, <2>1, EdgeOf
  <2>3. Start(b + 1) \in Nat /\ Start(b) < Start(b + 1)
    BY <1>2, StartGrows
  <2> QED
    BY <1>3, <2>2, <2>3
<1>5. CASE b = NQ - 1
  <2>1. k + 1 = (a + 1) * NQ + 0 /\ 0 \in 0 .. NQ - 1 /\ a + 1 \in Nat
    BY <1>1, <1>2, <1>5
  <2>2. Edge(k + 1) = (a + 1) * ImageSize + Start(0)
    BY <2>1, EdgeOf
  <2>3. (a + 1) * ImageSize = a * ImageSize + ImageSize
    BY <1>1, <1>2
  <2>4. Start(0) \in Nat
    BY StartGrows
  <2> QED
    BY <1>1, <1>3, <1>5, <2>2, <2>3, <2>4
<1> QED
  BY <1>1, <1>2, <1>4, <1>5

-----------------------------------------------------------------------------
(* The call. *)

\* What is chosen depends on the call alone.
LEMMA ChoiceIsFixed ==
  ASSUME call' = call
  PROVE  /\ ChosenGrid' = ChosenGrid /\ Fits' = Fits
         /\ Contain(BaseSize)' = Contain(BaseSize)
<1> DEFINE first == CHOOSE r \in Tied : \A s \in Tied \ {r} : Before(r, s)
           larger == {r \in Tied \ {first} : Covers(r)}
           last == CHOOSE r \in larger : \A s \in larger \ {r} : Before(s, r)
<1>1. \A r : Off(r)' = Off(r) /\ Covers(r)' = Covers(r)
  BY DEF Off, Covers
<1>2. Nearest' = Nearest
  BY <1>1 DEF Nearest, Nearer, Candidates
<1>3. Tied' = Tied
  BY <1>2 DEF Tied
<1>4. first' = first
  BY <1>3
<1>5. ClosestRatio = IF larger = {} THEN first ELSE last
  BY DEF ClosestRatio
<1>6. ClosestRatio' = (IF larger = {} THEN first ELSE last)'
  BY DEF ClosestRatio
<1> HIDE DEF first
<1>7. larger' = larger
  BY <1>1, <1>3, <1>4
<1> HIDE DEF larger
<1>8. last' = last
  BY <1>7
<1> HIDE DEF last
<1>9. ClosestRatio' = ClosestRatio
  BY <1>4, <1>5, <1>6, <1>7, <1>8
<1>10. Fits' = Fits
  BY DEF Fits
<1>11. Contain(BaseSize)' = Contain(BaseSize)
  BY DEF Contain
<1> QED
  BY <1>9, <1>10, <1>11 DEF ChosenGrid

PageRow == [kind : {"bos", "text", "newline", "separator", "zero", "view", "local"},
            y : 0 .. MaxCrops * ImageSize + BaseSize,
            x : 0 .. MaxCrops * ImageSize + BaseSize]
Typed(q) == \A i \in DOMAIN q : q[i] \in PageRow

Whole(size) == Encode("view", [y |-> 0, x |-> 0], size)

\* Lines of the local rows, each with its newline.
Lines(g) == MergedRows(g) * (MergedCols(g) + 1)

Multi == call.crop /\ ~ Fits

\* Masked positions follow the text before the image.
IsPrompt ==
  LET n == ImageTokens(grid)
      m == 1 + call.before
  IN  /\ ids \in Seq(Kinds) /\ Len(ids) = m + n + call.after
      /\ \A i \in 1 .. m + n + call.after :
           /\ ids[i] = "image" <=> i \in m + 1 .. m + n
           /\ i > m + n => ids[i] = "text"

\* The rows of crop (l \div NQ, c \div NQ) are in place.
Done(l, c) == (l \div NQ) * local[1] + (c \div NQ) < next
RowInPlace(l, c) == merged[l * MergedCols(local) + c] = LocalRow(l, c)

IsVisual ==
  LET n == ImageTokens(grid)
      L == IF Multi THEN Lines(grid) ELSE 0
      cols == MergedCols(grid)
  IN  /\ n \in Nat /\ L \in 0 .. n - 2
      /\ DOMAIN visual = 1 .. n /\ Len(visual) = n
      /\ visual[n] = Separator /\ visual[L + 1].kind = "view"
      /\ \A j \in L + 1 .. n - 1 : visual[j].kind \in {"view", "newline"}
      /\ Multi => \A l \in 0 .. MergedRows(grid) - 1 :
           /\ \A c \in 0 .. cols - 1 : visual[l * (cols + 1) + c + 1] = LocalRow(l, c)
           /\ visual[l * (cols + 1) + cols + 1] = Newline

AreInputs ==
  LET n == ImageTokens(grid)
      m == 1 + call.before
  IN  /\ DOMAIN inputs = 1 .. m + n + call.after /\ Len(inputs) = m + n + call.after
      /\ \A j \in 1 .. n : inputs[m + j] = visual[j]
      /\ \A i \in 1 .. m : inputs[i].kind \in {"bos", "text"}
      /\ \A i \in m + n + 1 .. m + n + call.after : inputs[i].kind = "text"

IGrid == grid = IF pc = "open" THEN <<1, 1>> ELSE ChosenGrid
IPaste == paste = NoPaste \/ \E r \in Contain(BaseSize) : paste = Centre(r, BaseSize)
IPrompt == pc \notin {"open", "crops"} => IsPrompt
IViews ==
  pc \in {"views", "stitch"} =>
    /\ Multi /\ local = grid /\ global = Whole(BaseSize)
    /\ DOMAIN merged = 0 .. MergedRows(local) * MergedCols(local) - 1
IMerged ==
  /\ IF pc = "views" THEN next < local[1] * local[2] ELSE next = 0
  /\ pc \in {"views", "stitch"} =>
       \A l \in 0 .. MergedRows(local) - 1, c \in 0 .. MergedCols(local) - 1 :
         pc = "stitch" \/ Done(l, c) => RowInPlace(l, c)
IVisual == pc \in {"scatter", "ready"} => IsVisual
IInputs == pc = "ready" => AreInputs

\* The inductive invariant: what each step of the call has laid out.
ImageInv ==
  /\ TypeOK /\ pc # "failed"
  /\ IGrid /\ IPaste /\ IPrompt /\ IViews /\ IMerged /\ IVisual /\ IInputs

LEMMA ChosenGridIs ==
  ASSUME call \in Call
  PROVE  /\ ChosenGrid \in Pair /\ ChosenGrid[1] * ChosenGrid[2] <= MaxCrops
         /\ Multi => SuitsImage(ChosenGrid) /\ (ChosenGrid[1] > 1 \/ ChosenGrid[2] > 1)
         /\ ~ Multi => ChosenGrid = <<1, 1>>
<1>1. CASE Multi
  <2>1. ChosenGrid = ClosestRatio
    BY <1>1 DEF ChosenGrid, Multi
  <2> DEFINE g == ChosenGrid
  <2>2. g \in Pair /\ SuitsImage(g)
    BY <2>1, ClosestSuits
  <2> HIDE DEF g
  <2>3. g[1] \in Nat \ {0} /\ g[2] \in Nat \ {0} /\ g[1] * g[2] \in 2 .. MaxCrops
    BY <2>2, PairParts, CandidatesFinite DEF SuitsImage
  <2>4. g[1] > 1 \/ g[2] > 1
    <3> SUFFICES ASSUME g[1] = 1, g[2] = 1  PROVE FALSE
      BY <2>3
    <3> QED
      BY <2>3
  <2>5. g[1] * g[2] <= MaxCrops
    BY <2>3, LayoutAssumption
  <2> QED
    BY <1>1, <2>2, <2>4, <2>5 DEF g
<1>2. CASE ~ Multi
  <2>1. ChosenGrid = <<1, 1>>
    BY <1>2 DEF ChosenGrid, Multi
  <2> QED
    BY <1>2, <2>1, LayoutAssumption DEF Pair
<1> QED
  BY <1>1, <1>2

\* Rows lie within what the type allows.
LEMMA RowsTyped ==
  /\ \A k \in {"bos", "text", "newline", "separator", "zero"} : Row(k, 0, 0) \in PageRow
  /\ \A size \in {ImageSize, BaseSize} : Typed(Whole(size))
  /\ \A l, c \in 0 .. MaxCrops * NQ - 1 : LocalRow(l, c) \in PageRow
<1>1. /\ ImageSize \in Nat \ {0} /\ BaseSize \in Nat \ {0} /\ MaxCrops \in Nat /\ MaxCrops >= 2
  BY LayoutAssumption
<1> DEFINE P == MaxCrops * ImageSize
<1>2. P \in Nat /\ P >= ImageSize
  BY <1>1
<1>3. 0 \in 0 .. P + BaseSize
  BY <1>1, <1>2
<1>4. \A k \in {"bos", "text", "newline", "separator", "zero"} : Row(k, 0, 0) \in PageRow
  BY <1>3 DEF Row, PageRow
<1>5. ASSUME NEW size \in {ImageSize, BaseSize}
      PROVE  Typed(Whole(size))
  <2> DEFINE n == NumQueries(size)
             e == Whole(size)
  <2>1. /\ DOMAIN e = 1 .. n * (n + 1) + 1
        /\ e[n * (n + 1) + 1] = Separator
        /\ \A j \in 1 .. n * (n + 1) :
             \/ e[j] = Newline
             \/ \E r, c \in 0 .. n - 1 : e[j] = Row("view", 0 + Start(r), 0 + Start(c))
    BY EncodedRows DEF Whole
  <2>2. n \in Nat \ {0} /\ n * (n + 1) \in Nat /\ Start(n - 1) \in Nat /\ Start(n - 1) < size
    BY Extents, Counts
  <2> HIDE DEF n, e
  <2>3. ASSUME NEW r \in 0 .. n - 1
        PROVE  0 + Start(r) \in 0 .. P + BaseSize
    <3>1. r \in Nat /\ n - 1 \in Nat /\ r <= n - 1
      BY <2>2
    <3>2. Start(r) \in Nat /\ Start(r) <= Start(n - 1)
      BY <3>1, StartGrows
    <3> QED
      BY <1>1, <1>2, <2>2, <3>2
  <2>4. \A r, c \in 0 .. n - 1 : Row("view", 0 + Start(r), 0 + Start(c)) \in PageRow
    BY <2>3 DEF Row, PageRow
  <2> SUFFICES ASSUME NEW j \in DOMAIN e PROVE e[j] \in PageRow
    BY DEF Typed, e
  <2>5. j = n * (n + 1) + 1 \/ j \in 1 .. n * (n + 1)
    BY <2>1, <2>2
  <2> QED
    BY <1>4, <2>1, <2>4, <2>5 DEF Separator, Newline
<1>6. ASSUME NEW k \in 0 .. MaxCrops * NQ - 1
      PROVE  Edge(k) \in 0 .. P + BaseSize
  <2>1. NQ \in Nat \ {0} /\ Start(NQ - 1) \in Nat /\ Start(NQ - 1) < ImageSize
    BY Extents DEF NQ
  <2> DEFINE a == k \div NQ
             b == k % NQ
  <2>2. a \in Below(MaxCrops) /\ b \in Below(NQ)
    BY <1>1, <2>1, RowAndColumn DEF Below
  <2>3. a \in Nat /\ a + 1 <= MaxCrops /\ b \in Nat /\ b <= NQ - 1 /\ NQ - 1 \in Nat
    BY <1>1, <2>1, <2>2 DEF Below
  <2>4. Edge(k) = a * ImageSize + Start(b)
    BY DEF Edge
  <2> HIDE DEF a, b
  <2>5. Start(b) \in Nat /\ Start(b) <= Start(NQ - 1)
    BY <2>3, StartGrows
  <2>6. (a + 1) * ImageSize <= P /\ (a + 1) * ImageSize = a * ImageSize + ImageSize
        /\ a * ImageSize \in Nat
    BY <1>1, <2>3
  <2> HIDE DEF P
  <2> QED
    BY <1>1, <1>2, <2>1, <2>4, <2>5, <2>6
<1>7. \A l, c \in 0 .. MaxCrops * NQ - 1 : LocalRow(l, c) \in PageRow
  BY <1>6 DEF LocalRow, Row, PageRow
<1> QED
  BY <1>4, <1>5, <1>7

-----------------------------------------------------------------------------
(* The steps of a call. *)

LEMMA ImageInitInv ==
  ASSUME Init
  PROVE  ImageInv
<1>1. ImageSize \in Nat /\ BaseSize \in Nat /\ MaxCrops \in Nat /\ MaxCrops >= 2
  BY LayoutAssumption
<1>2. TypeOK
  BY <1>1 DEF Init, TypeOK, NoPaste
<1> QED
  BY <1>2 DEF Init, ImageInv, IGrid, IPaste, IPrompt, IViews, IMerged, IVisual, IInputs

LEMMA ImageCropsInv ==
  ASSUME ImageInv, ImageCrops
  PROVE  ImageInv'
<1>1. call \in Call /\ TypeOK /\ pc = "open"
  BY DEF ImageInv, TypeOK, ImageCrops
<1>2. /\ pc' = "crops" /\ grid' = ChosenGrid /\ call' = call
      /\ UNCHANGED <<ids, local, paste, global, merged, next, visual, inputs>>
  BY DEF ImageCrops
<1>3. ChosenGrid \in Pair /\ ChosenGrid[1] * ChosenGrid[2] <= MaxCrops
  BY <1>1, ChosenGridIs
<1>4. ChosenGrid' = ChosenGrid /\ Contain(BaseSize)' = Contain(BaseSize)
  BY <1>2, ChoiceIsFixed
<1>5. TypeOK'
  BY <1>1, <1>2, <1>3 DEF TypeOK, Pair
<1>6. IGrid'
  BY <1>2, <1>4 DEF IGrid
<1>7. IPaste'
  BY <1>2, <1>4 DEF IPaste, ImageInv
<1>8. next' = 0
  BY <1>1, <1>2 DEF ImageInv, IMerged
<1> QED
  BY <1>2, <1>5, <1>6, <1>7, <1>8 DEF ImageInv, IPrompt, IViews, IMerged, IVisual, IInputs

-----------------------------------------------------------------------------
(* build_ocr_prompt. *)

LEMMA TokenCounts ==
  ASSUME call \in Call, NEW g \in Pair
  PROVE  /\ ImageTokens(g) \in Nat /\ ImageTokens(g) = ImageTokenCount(g)
         /\ Lines(g) \in Nat
         /\ Lines(g) = (NQ * g[1] + 1) * (NQ * g[2])
         /\ ~ call.crop => ImageTokens(g) = NQ * (NQ + 1) + 1
         /\ call.crop => ImageTokens(g) = NQB * (NQB + 1) + 1
                           + (IF g[1] > 1 \/ g[2] > 1 THEN Lines(g) ELSE 0)
<1>1. NQ \in Nat \ {0} /\ NQB \in Nat \ {0} /\ g[1] \in Nat \ {0} /\ g[2] \in Nat \ {0}
  BY Extents, PairParts DEF NQ, NQB
<1> DEFINE a == NQ * g[1]
           b == NQ * g[2]
           v == NQ * (NQ + 1)
           w == NQB * (NQB + 1)
<1>2. a \in Nat /\ b \in Nat /\ v \in Nat /\ w \in Nat /\ g[1] * NQ = a /\ g[2] * NQ = b
  BY <1>1
<1>3. Lines(g) = b * (a + 1)
  BY <1>2 DEF Lines, MergedRows, MergedCols, NQ
<1>4. ImageTokens(g) = IF call.crop THEN w + 1 + (IF g[1] > 1 \/ g[2] > 1 THEN b * (a + 1) ELSE 0)
                       ELSE v + 1
  BY DEF ImageTokens, NQ, NQB
<1>5. ImageTokenCount(g) = IF ~ call.crop THEN v + 1
        ELSE w + 1 + (IF g[1] > 1 \/ g[2] > 1 THEN (a + 1) * b ELSE 0)
  BY DEF ImageTokenCount, NQ, NQB
<1> HIDE DEF a, b, v, w
<1>6. b * (a + 1) = (a + 1) * b /\ b * (a + 1) \in Nat
  BY <1>2
<1> QED
  BY <1>1, <1>2, <1>3, <1>4, <1>5, <1>6 DEF a, b, v, w

\* u is s and then n times x.
Extended(u, s, x, n) ==
  /\ u \in Seq(Kinds) /\ Len(u) = Len(s) + n
  /\ \A i \in 1 .. Len(s) : u[i] = s[i]
  /\ \A i \in Len(s) + 1 .. Len(s) + n : u[i] = x

LEMMA Joined ==
  ASSUME NEW s \in Seq(Kinds), NEW x \in Kinds, NEW n \in Nat
  PROVE  Extended(s \o Repeated(x, n), s, x, n)
<1> DEFINE S == Kinds
<1>0. s \in Seq(S) /\ x \in S
  OBVIOUS
<1> HIDE DEF S
<1>1. Repeated(x, n) \in Seq(S) /\ Len(Repeated(x, n)) = n
      /\ \A i \in 1 .. n : Repeated(x, n)[i] = x
  BY <1>0 DEF Repeated
<1> DEFINE t == Repeated(x, n)
<1> HIDE DEF t
<1>2. t \in Seq(S) /\ Len(t) = n /\ \A i \in 1 .. n : t[i] = x
  BY <1>1 DEF t
<1>3. s \o t \in Seq(S) /\ Len(s \o t) = Len(s) + n
  BY <1>0, <1>2
<1>4. \A i \in 1 .. Len(s) : (s \o t)[i] = s[i]
  BY <1>2
<1>5. ASSUME NEW i \in Len(s) + 1 .. Len(s) + n
      PROVE  (s \o t)[i] = x
  <2>1. (s \o t)[i] = t[i - Len(s)] /\ i - Len(s) \in 1 .. n
    BY <1>0, <1>2
  <2> QED
    BY <1>2, <2>1
<1> QED
  BY <1>3, <1>4, <1>5 DEF t, S, Extended

LEMMA BuildPromptInv ==
  ASSUME ImageInv, BuildPrompt
  PROVE  ImageInv'
<1>1. call \in Call /\ TypeOK /\ pc = "crops" /\ grid \in Pair
  BY DEF ImageInv, TypeOK, BuildPrompt, Pair
<1>2. ImageTokens(grid) \in Nat /\ ImageTokens(grid) = ImageTokenCount(grid)
  BY <1>1, TokenCounts
<1> DEFINE n == ImageTokens(grid)
           b == call.before
           a == call.after
           m == 1 + b
           p == <<"bos">> \o Repeated("text", b)
           q == p \o Repeated("image", n)
<1>3. /\ pc' = "prompt" /\ grid' = grid /\ call' = call
      /\ UNCHANGED <<local, paste, global, merged, next, visual, inputs>>
      /\ ids' = q \o Repeated("text", a)
  BY <1>2 DEF BuildPrompt
<1>4. b \in Nat /\ a \in Nat /\ n' = n
  <2>1. MaxText \in Nat
    BY LayoutAssumption
  <2>2. n' = n
    BY <1>3 DEF ImageTokens
  <2> QED
    BY <1>1, <2>1, <2>2 DEF Call
<1> HIDE DEF n, b, a
<1>5. <<"bos">> \in Seq(Kinds) /\ Len(<<"bos">>) = 1 /\ "text" \in Kinds /\ "image" \in Kinds
  BY DEF Kinds
<1>6. /\ p \in Seq(Kinds) /\ Len(p) = m
      /\ p[1] = "bos" /\ \A i \in 2 .. m : p[i] = "text"
  <2> DEFINE s == <<"bos">>
  <2>1. s \in Seq(Kinds) /\ Len(s) = 1 /\ s[1] = "bos" /\ p = s \o Repeated("text", b)
    BY <1>5
  <2> HIDE DEF s, p
  <2>2. Extended(p, s, "text", b)
    BY <1>4, <1>5, <2>1, Joined, Zenon
  <2> QED
    BY <1>4, <2>1, <2>2 DEF Extended
<1> HIDE DEF p
<1>7. /\ q \in Seq(Kinds) /\ Len(q) = m + n
      /\ \A i \in 1 .. m : q[i] = p[i]
      /\ \A i \in m + 1 .. m + n : q[i] = "image"
  <2>0. n \in Nat /\ q = p \o Repeated("image", n)
    BY <1>2 DEF n
  <2> HIDE DEF q
  <2>1. Extended(q, p, "image", n)
    BY <1>5, <1>6, <2>0, Joined, Zenon
  <2> QED
    BY <1>4, <1>6, <2>0, <2>1 DEF Extended
<1> HIDE DEF q
<1>8. /\ ids' \in Seq(Kinds) /\ Len(ids') = m + n + a
      /\ \A i \in 1 .. m + n : ids'[i] = q[i]
      /\ \A i \in m + n + 1 .. m + n + a : ids'[i] = "text"
  <2> DEFINE s == ids'
  <2>1. s = q \o Repeated("text", a)
    BY <1>3
  <2> HIDE DEF s
  <2>2. Extended(s, q, "text", a)
    BY <1>4, <1>5, <1>7, <2>1, Joined, Zenon
  <2> QED
    BY <1>4, <1>7, <2>2 DEF s, Extended
<1>9. n \in Nat /\ m \in Nat
  BY <1>2, <1>4 DEF n
<1>10. ASSUME NEW i \in 1 .. m + n + a
       PROVE  (ids'[i] = "image" <=> i \in m + 1 .. m + n) /\ (i > m + n => ids'[i] = "text")
  <2>1. CASE i <= m
    <3>1. ids'[i] = p[i] /\ i \in 1 .. m
      BY <1>4, <1>7, <1>8, <1>9, <2>1
    <3>2. p[i] \in {"bos", "text"}
      BY <1>4, <1>6, <1>9, <3>1
    <3> QED
      BY <1>4, <1>9, <2>1, <3>1, <3>2
  <2>2. CASE i \in m + 1 .. m + n
    <3>1. ids'[i] = q[i] /\ q[i] = "image"
      BY <1>4, <1>7, <1>8, <1>9, <2>2
    <3> QED
      BY <1>4, <1>9, <2>2, <3>1
  <2>3. CASE i \in m + n + 1 .. m + n + a
    <3>1. ids'[i] = "text"
      BY <1>8, <2>3
    <3> QED
      BY <1>4, <1>9, <2>3, <3>1
  <2> QED
    BY <1>4, <1>9, <2>1, <2>2, <2>3
<1>11. IsPrompt'
  <2>1. ids' \in Seq(Kinds) /\ Len(ids') = 1 + call.before + n + call.after
    BY <1>8 DEF b, a
  <2>2. \A i \in 1 .. 1 + call.before + n + call.after :
            /\ ids'[i] = "image" <=> i \in 1 + call.before + 1 .. 1 + call.before + n
            /\ i > 1 + call.before + n => ids'[i] = "text"
    BY <1>10 DEF b, a
  <2>3. n' = n /\ n' = ImageTokens(grid)'
    BY <1>4 DEF n
  <2> QED
    BY <1>3, <2>1, <2>2, <2>3 DEF IsPrompt
<1>12. ChosenGrid' = ChosenGrid /\ Contain(BaseSize)' = Contain(BaseSize)
  BY <1>3, ChoiceIsFixed
<1>13. TypeOK'
  BY <1>1, <1>3, <1>8 DEF TypeOK
<1>14. IGrid'
  BY <1>1, <1>3, <1>12 DEF IGrid, ImageInv
<1>15. IPaste'
  BY <1>3, <1>12 DEF IPaste, ImageInv
<1>16. next' = 0
  BY <1>1, <1>3 DEF ImageInv, IMerged
<1> QED
  BY <1>3, <1>11, <1>13, <1>14, <1>15, <1>16 DEF ImageInv, IPrompt, IViews, IMerged, IVisual, IInputs

-----------------------------------------------------------------------------
(* image_embeddings: the views. *)

\* What later steps find as the prompt left it.
LEMMA PromptKept ==
  ASSUME ImageInv, pc \notin {"open", "crops"}, pc' \notin {"open", "crops"},
         UNCHANGED <<call, grid, ids>>
  PROVE  /\ IGrid' /\ IPrompt' /\ Multi' = Multi /\ ImageTokens(grid)' = ImageTokens(grid)
         /\ (paste' = paste => IPaste')
<1>1. call' = call /\ grid' = grid /\ ids' = ids
  OBVIOUS
<1>2. ChosenGrid' = ChosenGrid /\ Fits' = Fits /\ Contain(BaseSize)' = Contain(BaseSize)
  BY <1>1, ChoiceIsFixed
<1>3. grid = ChosenGrid /\ IsPrompt /\ IPaste
  BY DEF ImageInv, IGrid, IPrompt
<1>4. ImageTokens(grid)' = ImageTokens(grid)
  BY <1>1 DEF ImageTokens
<1>5. IsPrompt'
  BY <1>1, <1>3, <1>4 DEF IsPrompt
<1>6. paste' = paste => IPaste'
  BY <1>2, <1>3 DEF IPaste
<1> QED
  BY <1>1, <1>2, <1>3, <1>4, <1>5, <1>6 DEF IGrid, IPrompt, Multi

LEMMA WholeView ==
  ASSUME NEW size \in {ImageSize, BaseSize}
  PROVE  LET w == NumQueries(size) * (NumQueries(size) + 1)
             e == Whole(size)
         IN  /\ w \in Nat \ {0} /\ DOMAIN e = 1 .. w + 1 /\ Len(e) = w + 1
             /\ e[w + 1] = Separator /\ e[1].kind = "view"
             /\ \A j \in 1 .. w : e[j].kind \in {"view", "newline"}
<1> DEFINE n == NumQueries(size)
           w == n * (n + 1)
           e == Whole(size)
<1>1. n \in Nat \ {0}
  BY Extents
<1>2. w \in Nat /\ w > n
  BY <1>1, Counts
<1>3. /\ DOMAIN e = 1 .. w + 1 /\ Len(e) = w + 1
      /\ e[w + 1] = Separator
      /\ \A r, c \in 0 .. n - 1 : e[r * (n + 1) + c + 1] = Row("view", 0 + Start(r), 0 + Start(c))
      /\ \A j \in 1 .. w :
           \/ e[j] = Newline
           \/ \E r, c \in 0 .. n - 1 : e[j] = Row("view", 0 + Start(r), 0 + Start(c))
  BY EncodedRows DEF Whole
<1> HIDE DEF n, w, e
<1>4. e[1].kind = "view"
  <2>1. 0 \in 0 .. n - 1 /\ 0 * (n + 1) + 0 + 1 = 1
    BY <1>1
  <2>2. e[0 * (n + 1) + 0 + 1] = Row("view", 0 + Start(0), 0 + Start(0))
    BY <1>3, <2>1
  <2> QED
    BY <2>1, <2>2 DEF Row
<1>5. ASSUME NEW j \in 1 .. w
      PROVE  e[j].kind \in {"view", "newline"}
  <2>1. CASE e[j] = Newline
    BY <2>1 DEF Row, Newline
  <2>2. ASSUME NEW r \in 0 .. n - 1, NEW c \in 0 .. n - 1,
               e[j] = Row("view", 0 + Start(r), 0 + Start(c))
        PROVE  e[j].kind = "view"
    BY <2>2 DEF Row
  <2> QED
    BY <1>3, <2>1, <2>2
<1> QED
  BY <1>1, <1>2, <1>3, <1>4, <1>5 DEF n, w, e

LEMMA SingleViewInv ==
  ASSUME ImageInv, SingleView
  PROVE  ImageInv'
<1>1. /\ call \in Call /\ TypeOK /\ grid \in Pair /\ pc = "prompt" /\ ~ call.crop
      /\ next = 0
  BY DEF ImageInv, TypeOK, SingleView, Pair, IMerged
<1> DEFINE w == NQ * (NQ + 1)
           n == ImageTokens(grid)
<1>2. /\ w \in Nat \ {0} /\ DOMAIN Whole(ImageSize) = 1 .. w + 1
      /\ Len(Whole(ImageSize)) = w + 1
      /\ Whole(ImageSize)[w + 1] = Separator /\ Whole(ImageSize)[1].kind = "view"
      /\ \A j \in 1 .. w : Whole(ImageSize)[j].kind \in {"view", "newline"}
      /\ Typed(Whole(ImageSize))
  BY WholeView, RowsTyped DEF NQ
<1>3. visual' = Whole(ImageSize)
      /\ UNCHANGED <<call, grid, ids, local, paste, global, merged, next, inputs>>
  BY DEF SingleView, Whole
<1>4. pc' = "scatter"
  <2>1. Len(visual') = NumQueries(ImageSize) * (NumQueries(ImageSize) + 1) + 1
    BY <1>2, <1>3 DEF NQ
  <2> QED
    BY <2>1 DEF SingleView
<1>5. n = w + 1
  BY <1>1, TokenCounts
<1>6. /\ IGrid' /\ IPrompt' /\ Multi' = Multi /\ n' = n /\ IPaste'
  BY <1>1, <1>3, <1>4, PromptKept
<1>7. IsVisual'
  <2>1. ~ Multi'
    BY <1>1, <1>6 DEF Multi
  <2> DEFINE e == visual'
  <2>2. /\ e[n] = Separator /\ e[1].kind = "view" /\ DOMAIN e = 1 .. n /\ Len(e) = n
        /\ \A j \in 1 .. n - 1 : e[j].kind \in {"view", "newline"}
        /\ n \in Nat /\ 0 \in 0 .. n - 2
    BY <1>2, <1>3, <1>5
  <2> HIDE DEF e, n
  <2>3. e[0 + 1] = e[1] /\ 0 + 1 = 1
    OBVIOUS
  <2> QED
    BY <1>6, <2>1, <2>2, <2>3 DEF IsVisual, e, n
<1>8. TypeOK'
  BY <1>1, <1>2, <1>3, <1>4 DEF TypeOK, Typed, PageRow
<1>9. IVisual' /\ IViews' /\ IMerged' /\ IInputs'
  BY <1>1, <1>3, <1>4, <1>7 DEF IVisual, IViews, IMerged, IInputs
<1> QED
  BY <1>4, <1>6, <1>8, <1>9 DEF ImageInv

LEMMA PasteTyped ==
  ASSUME call \in Call, NEW r \in Contain(BaseSize)
  PROVE  Centre(r, BaseSize) \in [x : Int, y : Int, w : Nat, h : Nat]
<1>1. BaseSize \in Nat /\ call.w \in Nat \ {0} /\ call.h \in Nat \ {0}
  BY LayoutAssumption DEF Call
<1>2. \A a, b, size : Nearby(a, b, size) \subseteq Nat
  BY DEF Nearby
<1>3. PICK a \in Nat, b \in Nat : r = <<a, b>>
  BY <1>1, <1>2 DEF Contain
<1>4. \A n \in Int : HalfEven(n) \in Int
  BY DEF HalfEven
<1>5. BaseSize - a \in Int /\ BaseSize - b \in Int
  BY <1>1
<1> DEFINE x == IF a # BaseSize THEN HalfEven(BaseSize - a) ELSE 0
           y == IF a # BaseSize THEN 0 ELSE HalfEven(BaseSize - b)
<1>6. x \in Int /\ y \in Int
  BY <1>4, <1>5
<1>7. Centre(r, BaseSize) = [x |-> x, y |-> y, w |-> a, h |-> b]
  BY <1>3 DEF Centre
<1> HIDE DEF x, y
<1> QED
  BY <1>6, <1>7

LEMMA GlobalViewInv ==
  ASSUME ImageInv, GlobalView
  PROVE  ImageInv'
<1>1. /\ call \in Call /\ TypeOK /\ grid \in Pair /\ pc = "prompt" /\ call.crop
      /\ next = 0 /\ grid = ChosenGrid
  BY DEF ImageInv, TypeOK, GlobalView, Pair, IMerged, IGrid
<1>2. /\ Multi => SuitsImage(grid) /\ (grid[1] > 1 \/ grid[2] > 1)
      /\ ~ Multi => grid = <<1, 1>>
  BY <1>1, ChosenGridIs
<1>3. local' = grid
  BY <1>1, <1>2 DEF GlobalView, LocalGrid, ChosenGrid, Multi
<1>4. PICK r \in Contain(BaseSize) : paste' = Centre(r, BaseSize)
  BY DEF GlobalView
<1>5. global' = Whole(BaseSize) /\ UNCHANGED <<call, grid, ids, next, inputs>>
  BY DEF GlobalView, Whole
<1> DEFINE w == NQB * (NQB + 1)
           n == ImageTokens(grid)
<1>6. /\ w \in Nat \ {0} /\ DOMAIN Whole(BaseSize) = 1 .. w + 1
      /\ Len(Whole(BaseSize)) = w + 1
      /\ Whole(BaseSize)[w + 1] = Separator /\ Whole(BaseSize)[1].kind = "view"
      /\ \A j \in 1 .. w : Whole(BaseSize)[j].kind \in {"view", "newline"}
      /\ Typed(Whole(BaseSize))
  BY WholeView, RowsTyped DEF NQB
<1>7. paste' \in [x : Int, y : Int, w : Nat, h : Nat]
  BY <1>1, <1>4, PasteTyped
<1>8. IPaste'
  <2>1. Contain(BaseSize)' = Contain(BaseSize)
    BY <1>5, ChoiceIsFixed
  <2> QED
    BY <1>4, <2>1 DEF IPaste
<1>9. CASE ~ Multi
  <2>1. grid = <<1, 1>> /\ local' = <<1, 1>>
    BY <1>2, <1>3, <1>9
  <2>2. visual' = Whole(BaseSize) /\ UNCHANGED merged
    BY <1>5, <2>1 DEF GlobalView
  <2>3. pc' = "scatter"
    <3>1. Len(visual') = NumQueries(BaseSize) * (NumQueries(BaseSize) + 1) + 1
      BY <1>6, <2>2 DEF NQB
    <3> QED
      BY <2>1, <3>1 DEF GlobalView
  <2>4. n = w + 1
    <3>1. ~ (grid[1] > 1 \/ grid[2] > 1)
      BY <2>1
    <3>2. n = w + 1 + 0
      BY <1>1, <3>1, TokenCounts
    <3> QED
      BY <1>6, <3>2
  <2>5. /\ IGrid' /\ IPrompt' /\ Multi' = Multi /\ n' = n
    BY <1>1, <1>5, <2>3, PromptKept
  <2>6. IsVisual'
    <3> DEFINE e == visual'
    <3>1. /\ e[n] = Separator /\ e[1].kind = "view" /\ DOMAIN e = 1 .. n /\ Len(e) = n
          /\ \A j \in 1 .. n - 1 : e[j].kind \in {"view", "newline"}
          /\ n \in Nat /\ 0 \in 0 .. n - 2
      BY <1>6, <2>2, <2>4
    <3> HIDE DEF e, n
    <3>2. e[0 + 1] = e[1] /\ 0 + 1 = 1 /\ ~ Multi'
      BY <1>9, <2>5
    <3> QED
      BY <2>5, <3>1, <3>2 DEF IsVisual, e, n
  <2>7. TypeOK'
    BY <1>1, <1>3, <1>5, <1>6, <1>7, <2>2, <2>3 DEF TypeOK, Typed, PageRow, Pair
  <2>8. IVisual' /\ IViews' /\ IMerged' /\ IInputs'
    BY <1>1, <1>5, <2>3, <2>6 DEF IVisual, IViews, IMerged, IInputs
  <2> QED
    BY <1>8, <2>3, <2>5, <2>7, <2>8 DEF ImageInv
<1>10. CASE Multi
  <2>1. local' # <<1, 1>>
    BY <1>2, <1>3, <1>10
  <2> DEFINE P == MergedRows(grid) * MergedCols(grid)
  <2>2. merged' = [p \in 0 .. P - 1 |-> Zero] /\ pc' = "views" /\ UNCHANGED visual
    BY <1>3, <2>1 DEF GlobalView
  <2> HIDE DEF P
  <2>3. /\ IGrid' /\ IPrompt' /\ Multi' = Multi /\ n' = n
    BY <1>1, <1>5, <2>2, PromptKept
  <2>4. Typed(merged') /\ DOMAIN merged' = 0 .. P - 1
    <3>1. Zero \in PageRow
      BY RowsTyped DEF Zero
    <3> QED
      BY <2>2, <3>1 DEF Typed
  <2>5. TypeOK'
    BY <1>1, <1>3, <1>5, <1>6, <1>7, <2>2, <2>4 DEF TypeOK, Typed, PageRow, Pair
  <2>6. IViews'
    BY <1>3, <1>5, <1>10, <2>2, <2>3, <2>4 DEF IViews, P
  <2>7. IMerged'
    <3>1. next' = 0 /\ pc' = "views" /\ grid[1] \in Nat \ {0} /\ grid[2] \in Nat \ {0}
      BY <1>1, <1>5, <2>2, PairParts
    <3>2. 0 < grid[1] * grid[2]
      BY <3>1
    <3>3. NQ \in Nat \ {0} /\ MergedRows(grid) \in Nat /\ MergedCols(grid) \in Nat
      <4>1. NQ \in Nat \ {0}
        BY Extents DEF NQ
      <4> QED
        BY <3>1, <4>1 DEF MergedRows, MergedCols, NQ
    <3>4. \A l, c \in Nat : ~ Done(l, c)'
      <4> SUFFICES ASSUME NEW l \in Nat, NEW c \in Nat
                   PROVE  ~ ((l \div NQ) * grid[1] + (c \div NQ) < 0)
        BY <1>3, <3>1 DEF Done
      <4>1. l \div NQ \in Nat /\ c \div NQ \in Nat
        BY <3>3, Division
      <4>2. (l \div NQ) * grid[1] \in Nat
        BY <3>1, <4>1
      <4> QED
        BY <4>1, <4>2
    <3> DEFINE R == MergedRows(grid)
               C == MergedCols(grid)
    <3> HIDE DEF R, C
    <3>5. \A l \in 0 .. R - 1, c \in 0 .. C - 1 : ~ Done(l, c)'
      BY <3>3, <3>4 DEF R, C
    <3> QED
      BY <1>3, <3>1, <3>2, <3>5 DEF IMerged, R, C
  <2>8. IVisual' /\ IInputs'
    BY <2>2 DEF IVisual, IInputs
  <2> QED
    BY <1>8, <2>2, <2>3, <2>5, <2>6, <2>7, <2>8 DEF ImageInv
<1> QED
  BY <1>9, <1>10

-----------------------------------------------------------------------------
(* The rows of the crops. *)

LEMMA GridExtents ==
  ASSUME NEW g \in Pair
  PROVE  /\ NQ \in Nat \ {0}
         /\ MergedRows(g) = g[2] * NQ /\ MergedCols(g) = g[1] * NQ
         /\ MergedRows(g) \in Nat \ {0} /\ MergedCols(g) \in Nat \ {0}
         /\ MergedRows(g) <= MaxCrops * NQ /\ MergedCols(g) <= MaxCrops * NQ
         /\ MergedRows(g) * MergedCols(g) \in Nat /\ MaxCrops * NQ \in Nat
<1>1. NQ \in Nat \ {0} /\ g[1] \in 1 .. MaxCrops /\ g[2] \in 1 .. MaxCrops /\ MaxCrops \in Nat
  BY Extents, LayoutAssumption DEF NQ, Pair
<1>2. MergedRows(g) = g[2] * NQ /\ MergedCols(g) = g[1] * NQ
  BY DEF MergedRows, MergedCols, NQ
<1>3. \A a \in 1 .. MaxCrops : a * NQ \in Nat \ {0} /\ a * NQ <= MaxCrops * NQ
  BY <1>1
<1>4. MaxCrops * NQ \in Nat
  BY <1>1
<1>5. \A a, b \in Nat : a * b \in Nat
  OBVIOUS
<1> QED
  BY <1>1, <1>2, <1>3, <1>4, <1>5

LEMMA PlaceInGrid ==
  ASSUME NEW g \in Pair, NEW l \in 0 .. MergedRows(g) - 1, NEW c \in 0 .. MergedCols(g) - 1
  PROVE  /\ l * MergedCols(g) + c \in 0 .. MergedRows(g) * MergedCols(g) - 1
         /\ (l * MergedCols(g) + c) \div MergedCols(g) = l
         /\ (l * MergedCols(g) + c) % MergedCols(g) = c
         /\ l \div NQ \in Nat /\ l % NQ \in 0 .. NQ - 1
         /\ c \div NQ \in 0 .. g[1] - 1 /\ c % NQ \in 0 .. NQ - 1
         /\ (l \div NQ) * g[1] + (c \div NQ) \in 0 .. g[1] * g[2] - 1
         /\ LocalRow(l, c) \in PageRow
<1> DEFINE R == MergedRows(g)
           C == MergedCols(g)
<1>1. /\ NQ \in Nat \ {0} /\ R = g[2] * NQ /\ C = g[1] * NQ
      /\ R \in Nat \ {0} /\ C \in Nat \ {0} /\ R <= MaxCrops * NQ /\ C <= MaxCrops * NQ
      /\ MaxCrops * NQ \in Nat
      /\ g[1] \in Nat \ {0} /\ g[2] \in Nat \ {0}
  BY GridExtents, PairParts
<1>2. l \in 0 .. R - 1 /\ c \in 0 .. C - 1
  OBVIOUS
<1> HIDE DEF R, C
<1>3. l \in Below(R) /\ c \in Below(C) /\ l \in Nat
  BY <1>1, <1>2 DEF Below
<1>4. l * C + c \in Below(R * C)
  BY <1>1, <1>3, PlaceBelow
<1>5. (l * C + c) \div C = l /\ (l * C + c) % C = c
  <2>1. \A d \in Nat \ {0}, q \in Nat : \A x \in 0 .. d - 1 :
          (q * d + x) \div d = q /\ (q * d + x) % d = x
    BY QuotientUnique
  <2>2. C \in Nat \ {0} /\ l \in Nat /\ c \in 0 .. C - 1
    BY <1>1, <1>2, <1>3
  <2> QED
    BY <2>1, <2>2
<1>6. l \div NQ \in Below(g[2]) /\ l % NQ \in Below(NQ)
  BY <1>1, <1>3, RowAndColumn
<1>7. c \div NQ \in Below(g[1]) /\ c % NQ \in Below(NQ)
  BY <1>1, <1>3, RowAndColumn
<1>8. (l \div NQ) * g[1] + (c \div NQ) \in Below(g[2] * g[1])
  BY <1>1, <1>6, <1>7, PlaceBelow
<1>9. g[2] * g[1] = g[1] * g[2]
  BY <1>1
<1>10. LocalRow(l, c) \in PageRow
  <2>1. l \in 0 .. MaxCrops * NQ - 1 /\ c \in 0 .. MaxCrops * NQ - 1
    BY <1>1, <1>2
  <2> QED
    BY <2>1, RowsTyped
<1> QED
  BY <1>4, <1>5, <1>6, <1>7, <1>8, <1>9, <1>10 DEF Below, R, C

LEMMA PlaceParts ==
  ASSUME NEW g \in Pair, NEW p \in 0 .. MergedRows(g) * MergedCols(g) - 1
  PROVE  \E l \in 0 .. MergedRows(g) - 1, c \in 0 .. MergedCols(g) - 1 :
           p = l * MergedCols(g) + c
<1> DEFINE R == MergedRows(g)
           C == MergedCols(g)
<1>1. R \in Nat \ {0} /\ C \in Nat \ {0} /\ p \in Below(R * C)
  BY GridExtents DEF Below
<1> HIDE DEF R, C
<1>2. p \div C \in Below(R) /\ p % C \in Below(C) /\ p = (p \div C) * C + (p % C)
  BY <1>1, RowAndColumn
<1> QED
  BY <1>2 DEF R, C, Below

\* The lines a crop covers are those whose number it is the quotient of.
LEMMA WithinCrop ==
  ASSUME NEW a \in Nat, NEW r \in Nat
  PROVE  /\ a - r * NQ \in 0 .. NQ - 1 <=> a \div NQ = r
         /\ a \div NQ = r => a - r * NQ = a % NQ
<1>1. NQ \in Nat \ {0}
  BY Extents DEF NQ
<1>2. a = (a \div NQ) * NQ + (a % NQ) /\ a \div NQ \in Nat /\ a % NQ \in 0 .. NQ - 1
  BY <1>1, Division
<1>3. r * NQ \in Nat
  BY <1>1
<1>4. ASSUME a - r * NQ \in 0 .. NQ - 1
      PROVE  a \div NQ = r
  <2> DEFINE x == a - r * NQ
  <2>1. a = r * NQ + x /\ x \in 0 .. NQ - 1
    BY <1>3, <1>4
  <2> HIDE DEF x
  <2> QED
    BY <1>1, <2>1, QuotientUnique
<1>5. ASSUME a \div NQ = r
      PROVE  a - r * NQ = a % NQ
  <2>1. a = r * NQ + (a % NQ)
    BY <1>2, <1>5
  <2> DEFINE x == a % NQ
             y == r * NQ
  <2>2. a = y + x /\ x \in Nat /\ y \in Nat
    BY <1>1, <1>2, <1>3, <2>1
  <2> HIDE DEF x, y
  <2>3. a - y = x
    BY <2>2
  <2> QED
    BY <2>3 DEF x, y
<1> QED
  BY <1>2, <1>4, <1>5

LEMMA EncodeCropInv ==
  ASSUME ImageInv, EncodeCrop
  PROVE  ImageInv'
<1> DEFINE g == local
           R == MergedRows(g)
           C == MergedCols(g)
           r == next \div g[1]
           c == next % g[1]
           lf == Encode("local", CropAt(CropIndex(r, c), g[1]), ImageSize)
<1>1. /\ TypeOK /\ pc = "views" /\ g = grid /\ g \in Pair /\ Multi
      /\ DOMAIN merged = 0 .. R * C - 1 /\ Typed(merged)
      /\ next < g[1] * g[2] /\ next \in Nat
  <2>1. MaxCrops \in Nat
    BY LayoutAssumption
  <2> QED
    BY <2>1 DEF ImageInv, TypeOK, EncodeCrop, Pair, IMerged, IViews, Typed, PageRow
<1>2. \A l \in 0 .. R - 1, k \in 0 .. C - 1 : Done(l, k) => RowInPlace(l, k)
  BY <1>1 DEF ImageInv, IMerged
<1>3. g[1] \in Nat \ {0} /\ g[2] \in Nat \ {0} /\ NQ \in Nat \ {0}
  BY <1>1, PairParts, GridExtents
<1>4. next = r * g[1] + c /\ r \in Nat /\ c \in 0 .. g[1] - 1
  BY <1>1, <1>3, Division
<1>5. CropAt(CropIndex(r, c), g[1]) = [y |-> r * ImageSize, x |-> c * ImageSize]
  BY <1>4 DEF CropAt, CropIndex
<1>6. /\ Len(lf) = NQ * (NQ + 1) + 1
      /\ \A a, b \in 0 .. NQ - 1 :
           lf[a * (NQ + 1) + b + 1]
             = Row("local", r * ImageSize + Start(a), c * ImageSize + Start(b))
  <2> DEFINE at == [y |-> r * ImageSize, x |-> c * ImageSize]
  <2>1. lf = Encode("local", at, ImageSize)
    BY <1>5
  <2>2. /\ Len(Encode("local", at, ImageSize)) = NQ * (NQ + 1) + 1
        /\ \A a, b \in 0 .. NQ - 1 :
             Encode("local", at, ImageSize)[a * (NQ + 1) + b + 1]
               = Row("local", at.y + Start(a), at.x + Start(b))
    BY EncodedRows DEF NQ
  <2>3. at.y = r * ImageSize /\ at.x = c * ImageSize
    OBVIOUS
  <2> HIDE DEF lf, at
  <2> QED
    BY <2>1, <2>2, <2>3
<1> DEFINE ry(p) == p \div C - r * NQ
           cx(p) == (p % C) - c * NQ
           Taken(p) == ry(p) \in 0 .. NQ - 1 /\ cx(p) \in 0 .. NQ - 1
<1>7. /\ merged' = [p \in DOMAIN merged |->
                      IF Taken(p) THEN lf[ry(p) * (NQ + 1) + cx(p) + 1] ELSE merged[p]]
      /\ IF next + 1 = g[1] * g[2] THEN pc' = "stitch" /\ next' = 0
                                   ELSE next' = next + 1 /\ UNCHANGED pc
      /\ UNCHANGED <<call, grid, ids, local, paste, global, visual, inputs>>
  BY <1>6 DEF EncodeCrop, NQ
<1> HIDE DEF g, R, C, r, c, lf
\* Where this crop goes, and where not.
<1>8. ASSUME NEW l \in 0 .. R - 1, NEW k \in 0 .. C - 1
      PROVE  /\ (l \div NQ) * g[1] + (k \div NQ) = next => merged'[l * C + k] = LocalRow(l, k)
             /\ (l \div NQ) * g[1] + (k \div NQ) # next => merged'[l * C + k] = merged[l * C + k]
             /\ merged'[l * C + k] = LocalRow(l, k) \/ merged'[l * C + k] = merged[l * C + k]
  <2> DEFINE p == l * C + k
  <2>1. /\ p \in 0 .. R * C - 1 /\ p \div C = l /\ p % C = k
        /\ l \div NQ \in Nat /\ l % NQ \in 0 .. NQ - 1
        /\ k \div NQ \in 0 .. g[1] - 1 /\ k % NQ \in 0 .. NQ - 1
    BY <1>1, PlaceInGrid DEF R, C
  <2>2. l \in Nat /\ k \in Nat
    BY <1>1, GridExtents DEF R, C
  <2>3. c \in Nat
    BY <1>3, <1>4
  <2> HIDE DEF p
  <2>4. /\ ry(p) = l - r * NQ /\ cx(p) = k - c * NQ
    BY <2>1
  <2>5. /\ ry(p) \in 0 .. NQ - 1 <=> l \div NQ = r
        /\ l \div NQ = r => ry(p) = l % NQ
    BY <1>4, <2>2, <2>4, WithinCrop
  <2>6. /\ cx(p) \in 0 .. NQ - 1 <=> k \div NQ = c
        /\ k \div NQ = c => cx(p) = k % NQ
    BY <2>2, <2>3, <2>4, WithinCrop
  <2>7. (l \div NQ) * g[1] + (k \div NQ) = next <=> l \div NQ = r /\ k \div NQ = c
    <3>1. ASSUME (l \div NQ) * g[1] + (k \div NQ) = next
          PROVE  l \div NQ = r /\ k \div NQ = c
      <4>1. l \div NQ \in Int /\ r \in Int
        BY <1>4, <2>1
      <4>2. (l \div NQ) * g[1] + (k \div NQ) = r * g[1] + c
        BY <1>4, <3>1
      <4> QED
        <5>1. \A d \in Nat \ {0}, p1, p2 \in Int : \A x, y \in 0 .. d - 1 :
                p1 * d + x = p2 * d + y => p1 = p2 /\ x = y
          BY DivideUnique
        <5> DEFINE x == k \div NQ
                   y == l \div NQ
                   d == g[1]
        <5>2. x \in 0 .. d - 1 /\ c \in 0 .. d - 1 /\ d \in Nat \ {0} /\ y \in Int /\ r \in Int
          BY <1>3, <1>4, <2>1, <4>1
        <5>3. y * d + x = r * d + c
          BY <4>2
        <5> HIDE DEF x, y, d
        <5>4. y = r /\ x = c
          BY <5>1, <5>2, <5>3
        <5> QED
          BY <5>4 DEF x, y
    <3> QED
      BY <1>4, <3>1
  <2>8. p \in DOMAIN merged
    BY <1>1, <2>1
  <2> HIDE DEF ry, cx
  <2>9. merged'[p] = IF Taken(p) THEN lf[ry(p) * (NQ + 1) + cx(p) + 1] ELSE merged[p]
    BY <1>7, <2>8
  <2>10. CASE l \div NQ = r /\ k \div NQ = c
    <3>1. Taken(p) /\ ry(p) = l % NQ /\ cx(p) = k % NQ
      BY <2>5, <2>6, <2>10
    <3>2. merged'[p] = lf[(l % NQ) * (NQ + 1) + (k % NQ) + 1]
      BY <2>9, <3>1
    <3>3. merged'[p] = Row("local", r * ImageSize + Start(l % NQ), c * ImageSize + Start(k % NQ))
      BY <1>6, <2>1, <3>2
    <3>4. merged'[p] = LocalRow(l, k)
      BY <2>10, <3>3 DEF LocalRow, Edge
    <3> QED
      BY <2>7, <2>10, <3>4 DEF p
  <2>11. CASE ~ (l \div NQ = r /\ k \div NQ = c)
    <3>1. ~ Taken(p)
      BY <2>5, <2>6, <2>11
    <3> QED
      BY <2>7, <2>9, <2>11, <3>1 DEF p
  <2> QED
    BY <2>10, <2>11
<1>9. pc' \in {"views", "stitch"} /\ next' \in 0 .. MaxCrops
  <2>1. g[1] * g[2] \in Nat /\ g[1] * g[2] <= MaxCrops
    BY <1>1, <1>3 DEF TypeOK
  <2>2. MaxCrops \in Nat
    BY LayoutAssumption
  <2> QED
    BY <1>1, <1>7, <2>1, <2>2
<1>10. /\ IGrid' /\ IPrompt' /\ Multi' = Multi /\ IPaste'
  BY <1>1, <1>7, <1>9, PromptKept
<1>11. Typed(merged') /\ DOMAIN merged' = 0 .. R * C - 1
  <2>1. DOMAIN merged' = 0 .. R * C - 1
    BY <1>1, <1>7
  <2> SUFFICES ASSUME NEW p \in 0 .. R * C - 1
               PROVE  merged'[p] \in PageRow
    BY <2>1 DEF Typed
  <2>2. PICK l \in 0 .. R - 1, k \in 0 .. C - 1 : p = l * C + k
    BY <1>1, PlaceParts DEF R, C
  <2>3. LocalRow(l, k) \in PageRow
    BY <1>1, PlaceInGrid DEF R, C
  <2>4. merged[p] \in PageRow
    BY <1>1 DEF Typed
  <2> QED
    BY <1>8, <2>2, <2>3, <2>4
<1>12. TypeOK'
  BY <1>1, <1>7, <1>9, <1>11 DEF TypeOK, Typed, PageRow
<1>13. IViews'
  BY <1>1, <1>7, <1>10, <1>11 DEF ImageInv, IViews, g, R, C
<1>14. IMerged'
  <2>1. g' = g /\ R' = R /\ C' = C
    BY <1>7 DEF g, R, C
  <2>2. IF pc' = "views" THEN next' < g[1] * g[2] ELSE next' = 0
    <3>1. g[1] * g[2] \in Nat
      BY <1>3
    <3> QED
      BY <1>1, <1>7, <3>1
  <2>3. ASSUME NEW l \in 0 .. R - 1, NEW k \in 0 .. C - 1, pc' = "stitch" \/ Done(l, k)'
        PROVE  merged'[l * C + k] = LocalRow(l, k)
    <3> DEFINE i == (l \div NQ) * g[1] + (k \div NQ)
    <3>0. i \in 0 .. g[1] * g[2] - 1
      BY <1>1, PlaceInGrid, Zenon DEF R, C
    <3>1. i \in 0 .. g[1] * g[2] - 1 /\ g[1] * g[2] \in Nat
      BY <1>3, <3>0
    <3>2. Done(l, k)' <=> i < next'
      BY <2>1 DEF Done, g
    <3>3. Done(l, k) <=> i < next
      BY DEF Done, g
    <3>4. i = next => merged'[l * C + k] = LocalRow(l, k)
      BY <1>8
    <3>5. i # next => merged'[l * C + k] = merged[l * C + k]
      BY <1>8
    <3> HIDE DEF i
    <3>6. i < next + 1
      BY <1>1, <1>7, <2>3, <3>1, <3>2
    <3>7. i # next => merged[l * C + k] = LocalRow(l, k)
      <4>1. i # next => i < next
        BY <1>1, <3>1, <3>6
      <4>2. RowInPlace(l, k) => merged[l * C + k] = LocalRow(l, k)
        BY DEF RowInPlace, C, g
      <4> QED
        BY <1>2, <3>3, <4>1, <4>2
    <3> QED
      BY <3>4, <3>5, <3>7
  <2>4. \A l \in 0 .. R - 1, k \in 0 .. C - 1 :
          pc' = "stitch" \/ Done(l, k)' => RowInPlace(l, k)'
    BY <2>1, <2>3 DEF RowInPlace, C, g
  <2>5. (MergedRows(local) - 1)' = R - 1 /\ (MergedCols(local) - 1)' = C - 1
        /\ local'[1] = g[1] /\ local'[2] = g[2]
    BY <1>7 DEF R, C, g
  <2> QED
    BY <2>2, <2>4, <2>5 DEF IMerged
<1>15. IVisual' /\ IInputs'
  BY <1>9 DEF IVisual, IInputs
<1>16. pc' # "failed"
  BY <1>9
<1> QED
  BY <1>10, <1>12, <1>13, <1>14, <1>15, <1>16 DEF ImageInv

-----------------------------------------------------------------------------
(* The page, and its scatter into the prompt. *)

LEMMA StitchInv ==
  ASSUME ImageInv, Stitch
  PROVE  ImageInv'
<1> DEFINE g == local
           R == MergedRows(g)
           C == MergedCols(g)
           W == NQB * (NQB + 1)
           L == Lines(g)
           n == ImageTokens(grid)
<1>1. /\ TypeOK /\ pc = "stitch" /\ g = grid /\ g \in Pair /\ Multi /\ call \in Call
      /\ DOMAIN merged = 0 .. R * C - 1 /\ Typed(merged) /\ next = 0
      /\ global = Whole(BaseSize)
  BY DEF ImageInv, TypeOK, Stitch, Pair, IMerged, IViews, Typed, PageRow
<1>2. \A l \in 0 .. R - 1, k \in 0 .. C - 1 : merged[l * C + k] = LocalRow(l, k)
  BY <1>1 DEF ImageInv, IMerged, RowInPlace
<1>3. /\ W \in Nat \ {0} /\ DOMAIN global = 1 .. W + 1 /\ Len(global) = W + 1
      /\ global[W + 1] = Separator /\ global[1].kind = "view"
      /\ \A j \in 1 .. W : global[j].kind \in {"view", "newline"}
      /\ Typed(global)
  BY <1>1, WholeView, RowsTyped DEF NQB
<1>4. R \in Nat \ {0} /\ C \in Nat \ {0} /\ C + 1 \in Nat \ {0}
  BY <1>1, GridExtents
<1>5. L = R * (C + 1) /\ L \in Nat
  BY <1>1, TokenCounts DEF Lines
<1>6. n = W + 1 + L
  <2>1. g[1] > 1 \/ g[2] > 1
    BY <1>1, ChosenGridIs DEF ImageInv, IGrid
  <2>2. call.crop
    BY <1>1 DEF Multi
  <2> QED
    BY <1>1, <2>1, <2>2, TokenCounts
<1> DEFINE row(i) == IF i % (C + 1) = C THEN Newline
                     ELSE merged[(i \div (C + 1)) * C + (i % (C + 1))]
<1>7. /\ visual' = [j \in 1 .. L + Len(global) |->
                      IF j - 1 < L THEN row(j - 1)
                      ELSE IF j < L + Len(global) THEN global[j - L]
                      ELSE Separator]
      /\ pc' = IF /\ Len(global) = NQB * (NQB + 1) + 1
                  /\ Len(visual') = NQB * (NQB + 1) + 1 + (NQ * g[1] + 1) * (NQ * g[2])
                 THEN "scatter" ELSE "failed"
      /\ UNCHANGED <<call, grid, ids, local, paste, global, merged, next, inputs>>
  BY DEF Stitch, NQ, NQB, Lines
<1> DEFINE e == visual'
<1> HIDE DEF R, C, W, L, n
<1>8. e = [j \in 1 .. n |-> IF j - 1 < L THEN row(j - 1)
                            ELSE IF j < n THEN global[j - L] ELSE Separator]
  <2>1. L + Len(global) = n
    BY <1>3, <1>5, <1>6
  <2> QED
    BY <1>7, <2>1
<1>9. n \in Nat /\ L \in 0 .. n - 2 /\ DOMAIN e = 1 .. n /\ Len(e) = n
  BY <1>3, <1>5, <1>6, <1>8
<1>10. pc' = "scatter"
  <2>1. Lines(g) = (NQ * g[1] + 1) * (NQ * g[2])
    BY <1>1, TokenCounts
  <2>2. Len(e) = W + 1 + L /\ Len(global) = W + 1
    BY <1>3, <1>6, <1>9
  <2> QED
    BY <1>7, <2>1, <2>2 DEF W, L
<1>11. /\ IGrid' /\ IPrompt' /\ Multi' = Multi /\ n' = n /\ IPaste'
  BY <1>1, <1>7, <1>10, PromptKept DEF n
<1> HIDE DEF e
<1>12. /\ e[n] = Separator /\ e[L + 1].kind = "view"
       /\ \A j \in L + 1 .. n - 1 : e[j].kind \in {"view", "newline"}
  <2>1. e[n] = Separator
    BY <1>3, <1>5, <1>6, <1>8, <1>9
  <2>2. ASSUME NEW j \in L + 1 .. n - 1
        PROVE  e[j] = global[j - L] /\ j - L \in 1 .. W
    BY <1>3, <1>5, <1>6, <1>8, <2>2
  <2>3. \A j \in L + 1 .. n - 1 : e[j].kind \in {"view", "newline"}
    BY <1>3, <2>2
  <2> DEFINE k == L + 1
  <2>4. k \in L + 1 .. n - 1 /\ k - L = 1
    BY <1>5, <1>9
  <2> HIDE DEF k
  <2>5. e[k] = global[1]
    BY <2>2, <2>4
  <2> QED
    BY <1>3, <2>1, <2>3, <2>5 DEF k
<1> HIDE DEF row
<1>13. ASSUME NEW j \in 1 .. L
       PROVE  e[j] = row(j - 1)
  BY <1>5, <1>8, <1>9
<1>14. ASSUME NEW l \in 0 .. R - 1, NEW k \in 0 .. C
       PROVE  /\ l * (C + 1) + k + 1 \in 1 .. L
              /\ e[l * (C + 1) + k + 1] = IF k = C THEN Newline ELSE LocalRow(l, k)
  <2> DEFINE i == l * (C + 1) + k
             D == C + 1
  <2>1. l \in Below(R) /\ k \in Below(D) /\ D \in Nat \ {0} /\ l \in Nat /\ k \in 0 .. D - 1
    BY <1>4 DEF Below
  <2>2. i \in Below(R * D)
    BY <1>4, <2>1, PlaceBelow
  <2>3. i \div D = l /\ i % D = k
    <3> HIDE DEF D
    <3>1. (l * D + k) \div D = l /\ (l * D + k) % D = k
      BY <2>1, QuotientUnique
    <3> QED
      BY <3>1 DEF D
  <2> HIDE DEF i
  <2> DEFINE j == i + 1
  <2>4. j \in 1 .. L /\ j - 1 = i
    BY <1>5, <2>2 DEF Below
  <2> HIDE DEF j
  <2>5. e[j] = row(i)
    BY <1>13, <2>4
  <2>6. row(i) = IF k = C THEN Newline ELSE merged[l * C + k]
    BY <2>3 DEF row
  <2>7. k # C => k \in 0 .. C - 1
    BY <1>4
  <2> QED
    BY <1>2, <2>4, <2>5, <2>6, <2>7 DEF i, j
<1>15. IsVisual'
  <2>1. MergedRows(grid)' = R /\ MergedCols(grid)' = C /\ Lines(grid)' = L /\ Multi'
    BY <1>1, <1>7, <1>11 DEF R, C, L, Lines, MergedRows, MergedCols
  <2>2. ImageTokens(grid)' = n
    BY <1>11 DEF n
  <2>3. \A l \in 0 .. R - 1 :
           /\ \A c \in 0 .. C - 1 : e[l * (C + 1) + c + 1] = LocalRow(l, c)
           /\ e[l * (C + 1) + C + 1] = Newline
    <3> SUFFICES ASSUME NEW l \in 0 .. R - 1
                 PROVE  /\ \A c \in 0 .. C - 1 : e[l * (C + 1) + c + 1] = LocalRow(l, c)
                        /\ e[l * (C + 1) + C + 1] = Newline
      OBVIOUS
    <3>1. C \in 0 .. C /\ \A c \in 0 .. C - 1 : c \in 0 .. C /\ c # C
      BY <1>4
    <3> QED
      BY <1>14, <3>1
  <2> QED
    BY <1>9, <1>12, <2>1, <2>2, <2>3 DEF IsVisual, e
<1>16. Typed(e)
  <2> SUFFICES ASSUME NEW j \in 1 .. n  PROVE e[j] \in PageRow
    BY <1>9 DEF Typed
  <2>1. CASE j \in 1 .. L
    <3> DEFINE i == j - 1
               D == C + 1
    <3>1. i \in Below(R * D) /\ j = i + 1
      BY <1>5, <2>1 DEF Below
    <3> HIDE DEF i
    <3>2. i \div D \in Below(R) /\ i % D \in Below(D) /\ i = (i \div D) * D + (i % D)
      BY <1>4, <3>1, RowAndColumn
    <3>3. PICK l \in 0 .. R - 1, k \in 0 .. C : i = l * (C + 1) + k
      <4>1. i \div D \in 0 .. R - 1 /\ i % D \in 0 .. C
        BY <1>4, <3>2 DEF Below
      <4> QED
        BY <3>2, <4>1, Zenon
    <3>4. e[j] = IF k = C THEN Newline ELSE LocalRow(l, k)
      BY <1>14, <3>1, <3>3
    <3>5. Newline \in PageRow
      BY RowsTyped DEF Newline
    <3>6. k # C => k \in 0 .. C - 1
      BY <1>4
    <3>7. k # C => LocalRow(l, k) \in PageRow
      BY <1>1, <3>6, PlaceInGrid DEF R, C
    <3> QED
      BY <3>4, <3>5, <3>7
  <2>2. CASE j \in L + 1 .. n - 1
    <3>1. e[j] = global[j - L] /\ j - L \in 1 .. W + 1
      BY <1>3, <1>5, <1>6, <1>8, <2>2
    <3> QED
      BY <1>3, <3>1 DEF Typed
  <2>3. CASE j = n
    BY <1>12, <2>3, RowsTyped DEF Separator
  <2> QED
    BY <1>5, <1>9, <2>1, <2>2, <2>3
<1>17. TypeOK'
  BY <1>1, <1>7, <1>10, <1>16 DEF TypeOK, Typed, PageRow, e
<1>18. IViews' /\ IMerged' /\ IVisual' /\ IInputs'
  BY <1>1, <1>7, <1>10, <1>15 DEF IViews, IMerged, IVisual, IInputs
<1> QED
  BY <1>10, <1>11, <1>17, <1>18 DEF ImageInv

LEMMA ScatterInv ==
  ASSUME ImageInv, Scatter
  PROVE  ImageInv'
<1> DEFINE n == ImageTokens(grid)
           m == 1 + call.before
           a == call.after
           N == m + n + a
<1>1. /\ TypeOK /\ pc = "scatter" /\ call \in Call /\ grid \in Pair /\ next = 0
      /\ IsPrompt /\ IsVisual
  BY DEF ImageInv, TypeOK, Scatter, Pair, IMerged, IPrompt, IVisual
<1>2. n \in Nat /\ m \in Nat \ {0} /\ a \in Nat
  <2>1. MaxText \in Nat
    BY LayoutAssumption
  <2> QED
    BY <1>1, <2>1, TokenCounts DEF Call
<1>3. /\ ids \in Seq(Kinds) /\ Len(ids) = N
      /\ \A i \in 1 .. N :
           /\ ids[i] = "image" <=> i \in m + 1 .. m + n
           /\ i > m + n => ids[i] = "text"
  BY <1>1 DEF IsPrompt
<1>4. DOMAIN visual = 1 .. n /\ Len(visual) = n /\ Typed(visual)
  BY <1>1 DEF IsVisual, TypeOK, Typed, PageRow
<1>5. UNCHANGED <<call, grid, ids, local, paste, global, merged, next, visual>>
  BY DEF Scatter
<1> DEFINE up(i) == {j \in 1 .. i : Masked(j)}
<1> HIDE DEF n, m, a
\* The rows taken up to the k-th masked position.
<1>6. ASSUME NEW k \in 0 .. n, NEW i \in 1 .. N, i = m + k \/ (k = n /\ i = N)
      PROVE  MaskedUpTo(i) = k
  <2>1. up(i) = m + 1 .. m + k
    <3>1. \A j \in 1 .. i : j \in 1 .. N
      BY <1>2
    <3>2. \A j \in 1 .. i : Masked(j) <=> j \in m + 1 .. m + n
      BY <1>3, <3>1 DEF Masked
    <3>3. \A j \in 1 .. i : j \in m + 1 .. m + n <=> j \in m + 1 .. m + k
      BY <1>2, <1>6
    <3>4. \A j \in m + 1 .. m + k : j \in 1 .. i
      BY <1>2, <1>6
    <3> QED
      BY <3>2, <3>3, <3>4
  <2>2. Cardinality(m + 1 .. m + k) = IF m + 1 > m + k THEN 0 ELSE (m + k) - (m + 1) + 1
    <3>1. m + 1 \in Int /\ m + k \in Int
      BY <1>2
    <3> QED
      BY <3>1, FS_Interval
  <2>3. Cardinality(up(i)) = k
    <3>1. Cardinality(m + 1 .. m + k) = k
      BY <1>2, <2>2
    <3> QED
      BY <2>1, <3>1
  <2> QED
    BY <2>3 DEF MaskedUpTo
<1>7. MaskedUpTo(Len(ids)) = Len(visual)
  <2>1. n \in 0 .. n /\ N \in 1 .. N
    BY <1>2
  <2> QED
    BY <1>3, <1>4, <1>6, <2>1
<1>8. /\ inputs' = [i \in 1 .. N |->
                     IF Masked(i) THEN visual[MaskedUpTo(i)] ELSE Row(ids[i], 0, 0)]
      /\ pc' = "ready"
  BY <1>3, <1>7 DEF Scatter
<1>9. N \in Nat /\ DOMAIN inputs' = 1 .. N /\ Len(inputs') = N
  BY <1>2, <1>8
<1>10. ASSUME NEW j \in 1 .. n
       PROVE  m + j \in 1 .. N /\ inputs'[m + j] = visual[j]
  <2>1. m + j \in 1 .. N /\ m + j \in m + 1 .. m + n /\ j \in 0 .. n
    BY <1>2
  <2>2. Masked(m + j)
    BY <1>3, <2>1 DEF Masked
  <2>3. MaskedUpTo(m + j) = j
    BY <1>6, <2>1
  <2> QED
    BY <1>8, <2>1, <2>2, <2>3
<1>11. ASSUME NEW i \in 1 .. N, i \notin m + 1 .. m + n
       PROVE  /\ inputs'[i] = Row(ids[i], 0, 0) /\ ids[i] \in {"bos", "text"}
              /\ i > m + n => ids[i] = "text"
  <2>1. ~ Masked(i) /\ (i > m + n => ids[i] = "text")
    BY <1>3, <1>11 DEF Masked
  <2>2. ids[i] \in Kinds
    BY <1>3
  <2> QED
    BY <1>8, <2>1, <2>2 DEF Masked, Kinds
<1>12. /\ IGrid' /\ IPrompt' /\ Multi' = Multi /\ n' = n /\ IPaste'
  BY <1>1, <1>5, <1>8, PromptKept DEF n
<1>13. IsVisual'
  <2>1. visual' = visual /\ grid' = grid
    BY <1>5
  <2>2. /\ Lines(grid)' = Lines(grid) /\ MergedRows(grid)' = MergedRows(grid)
        /\ MergedCols(grid)' = MergedCols(grid) /\ ImageTokens(grid)' = ImageTokens(grid)
    BY <1>12, <2>1 DEF Lines, MergedRows, MergedCols, n
  <2> QED
    BY <1>1, <1>12, <2>1, <2>2 DEF IsVisual
<1>14. AreInputs'
  <2> DEFINE q == inputs'
  <2>1. \A j \in 1 .. n : q[m + j] = visual[j]
    BY <1>10
  <2>2. ASSUME NEW i \in 1 .. m
        PROVE  q[i].kind \in {"bos", "text"}
    <3>1. i \in 1 .. N /\ i \notin m + 1 .. m + n
      BY <1>2
    <3>2. q[i] = Row(ids[i], 0, 0) /\ ids[i] \in {"bos", "text"}
      BY <1>11, <3>1
    <3> HIDE DEF q
    <3> QED
      BY <3>2 DEF Row
  <2>3. ASSUME NEW i \in m + n + 1 .. N
        PROVE  q[i].kind = "text"
    <3>1. i \in 1 .. N /\ i \notin m + 1 .. m + n /\ i > m + n
      BY <1>2
    <3>2. q[i] = Row(ids[i], 0, 0) /\ ids[i] = "text"
      BY <1>11, <3>1
    <3> HIDE DEF q
    <3> QED
      BY <3>2 DEF Row
  <2>4. ImageTokens(grid)' = n /\ (1 + call.before)' = m /\ (call.after)' = a
    BY <1>5, <1>12 DEF n, m, a
  <2> QED
    BY <1>5, <1>9, <2>1, <2>2, <2>3, <2>4 DEF AreInputs
<1>15. Typed(inputs')
  <2> SUFFICES ASSUME NEW i \in 1 .. N  PROVE inputs'[i] \in PageRow
    BY <1>9 DEF Typed
  <2>1. CASE i \in m + 1 .. m + n
    <3>1. i - m \in 1 .. n /\ m + (i - m) = i
      BY <1>2, <2>1
    <3>2. inputs'[i] = visual[i - m]
      BY <1>10, <3>1
    <3> QED
      BY <1>4, <3>1, <3>2 DEF Typed
  <2>2. CASE i \notin m + 1 .. m + n
    BY <1>11, <2>2, RowsTyped
  <2> QED
    BY <2>1, <2>2
<1>16. TypeOK'
  BY <1>1, <1>5, <1>8, <1>15 DEF TypeOK, Typed, PageRow
<1>17. IViews' /\ IMerged' /\ IVisual' /\ IInputs'
  BY <1>1, <1>5, <1>8, <1>13, <1>14 DEF IViews, IMerged, IVisual, IInputs
<1> QED
  BY <1>8, <1>12, <1>16, <1>17 DEF ImageInv

-----------------------------------------------------------------------------
(* Every call. *)

LEMMA ImageStep ==
  ASSUME ImageInv, [Next]_vars
  PROVE  ImageInv'
<1>1. CASE Next
  BY <1>1, ImageCropsInv, BuildPromptInv, SingleViewInv, GlobalViewInv, EncodeCropInv,
     StitchInv, ScatterInv DEF Next
<1>2. CASE UNCHANGED vars
  <2>1. /\ pc' = pc /\ call' = call /\ grid' = grid /\ ids' = ids /\ local' = local
        /\ paste' = paste /\ global' = global /\ merged' = merged /\ next' = next
        /\ visual' = visual /\ inputs' = inputs
    BY <1>2 DEF vars
  <2>2. ChosenGrid' = ChosenGrid /\ Fits' = Fits /\ Contain(BaseSize)' = Contain(BaseSize)
    BY <2>1, ChoiceIsFixed
  <2>3. ImageTokens(grid)' = ImageTokens(grid) /\ Multi' = Multi
        /\ Lines(grid)' = Lines(grid) /\ MergedRows(grid)' = MergedRows(grid)
        /\ MergedCols(grid)' = MergedCols(grid)
    BY <2>1, <2>2 DEF ImageTokens, Multi, Lines, MergedRows, MergedCols
  <2>4. TypeOK' = TypeOK
    BY <2>1 DEF TypeOK
  <2>5. IGrid' = IGrid /\ IPaste' = IPaste
    BY <2>1, <2>2 DEF IGrid, IPaste
  <2>6. IPrompt' = IPrompt
    BY <2>1, <2>3 DEF IPrompt, IsPrompt
  <2>7. IViews' = IViews
    BY <2>1, <2>3 DEF IViews
  <2>8. IMerged' = IMerged
    BY <2>1 DEF IMerged, Done, RowInPlace
  <2>9. IVisual' = IVisual
    BY <2>1, <2>3 DEF IVisual, IsVisual
  <2>10. IInputs' = IInputs
    BY <2>1, <2>3 DEF IInputs, AreInputs
  <2> QED
    BY <2>1, <2>4, <2>5, <2>6, <2>7, <2>8, <2>9, <2>10 DEF ImageInv
<1> QED
  BY <1>1, <1>2

\* The inductive invariant holds: each step finds laid out what it takes for
\* granted of the steps before it.
THEOREM EachStepLaidOut == Spec => []ImageInv
<1>1. Init => ImageInv
  BY ImageInitInv
<1>2. ImageInv /\ [Next]_vars => ImageInv'
  BY ImageStep
<1> QED
  BY <1>1, <1>2, PTL DEF Spec

\* The counts of the prompt, of the embeddings and of the scatter agree for
\* every image, every size of the views and of the patches and every range of
\* grids, and no UOCR_CHECK fires.
THEOREM CountsAgree == Spec => []LayoutsAgree
<1>1. ImageInv => LayoutsAgree
  BY DEF ImageInv, LayoutsAgree
<1> QED
  BY <1>1, EachStepLaidOut, PTL

\* find_closest_aspect_ratio returns the grid that suits the image, however the
\* doubles order two equally near quotients.
THEOREM GridsSuitImages == Spec => []GridSuitsImage
<1>1. ASSUME ImageInv
      PROVE  GridSuitsImage
  <2> SUFFICES ASSUME pc \notin {"open", "failed"}, call.crop, ~ Fits
               PROVE  SuitsImage(grid)
    BY DEF GridSuitsImage, SuitsImage
  <2>1. grid = ChosenGrid /\ call \in Call /\ Multi
    BY <1>1 DEF ImageInv, IGrid, TypeOK, Multi
  <2> QED
    BY <2>1, ChosenGridIs
<1> QED
  BY <1>1, EachStepLaidOut, PTL

\* pad_square centres the scaled image, touching two sides of the view, whichever
\* way the rounding of a tie goes.
THEOREM PastesAreCentred == Spec => []PastedCentred
<1>1. ASSUME ImageInv
      PROVE  PastedCentred
  <2> SUFFICES ASSUME paste # NoPaste, ~ RoundsToSquare
               PROVE  CentredIn(paste)
    BY DEF PastedCentred, InView, CentredIn
  <2>1. call \in Call
    BY <1>1 DEF ImageInv, TypeOK
  <2>2. PICK r \in Contain(BaseSize) : paste = Centre(r, BaseSize)
    BY <1>1 DEF ImageInv, IPaste
  <2>3. CentredIn(Centre(r, BaseSize))
    BY <2>1, PastesCentred
  <2> QED
    BY <2>2, <2>3
<1> QED
  BY <1>1, EachStepLaidOut, PTL

-----------------------------------------------------------------------------
(* The page. *)

\* Where the lines of the local rows are in the page.
LEMMA LinePlaces ==
  ASSUME NEW g \in Pair
  PROVE  LET R == MergedRows(g)
             C == MergedCols(g)
         IN  /\ Lines(g) \in Nat
             /\ \A l \in 0 .. R - 1, c \in 0 .. C : l * (C + 1) + c + 1 \in 1 .. Lines(g)
             /\ \A k \in 1 .. Lines(g) :
                  \E l \in 0 .. R - 1, c \in 0 .. C : k = l * (C + 1) + c + 1
<1> DEFINE R == MergedRows(g)
           C == MergedCols(g)
           D == C + 1
<1>1. R \in Nat \ {0} /\ C \in Nat \ {0} /\ D \in Nat \ {0} /\ Lines(g) = R * D
  BY GridExtents DEF Lines
<1> HIDE DEF R, C
<1>2. R * D \in Nat
  BY <1>1
<1>3. ASSUME NEW l \in 0 .. R - 1, NEW c \in 0 .. C
      PROVE  l * D + c + 1 \in 1 .. Lines(g)
  <2>1. l \in Below(R) /\ c \in Below(D)
    BY <1>1, <1>3 DEF Below
  <2>2. l * D + c \in Below(R * D)
    BY <1>1, <2>1, PlaceBelow
  <2> DEFINE i == l * D + c
             N == R * D
  <2>3. i \in 0 .. N - 1 /\ N \in Nat
    BY <1>2, <2>2 DEF Below
  <2> HIDE DEF i, N
  <2>4. i + 1 \in 1 .. N
    BY <2>3
  <2> QED
    BY <1>1, <2>4 DEF i, N
<1>4. ASSUME NEW k \in 1 .. Lines(g)
      PROVE  \E l \in 0 .. R - 1, c \in 0 .. C : k = l * D + c + 1
  <2> DEFINE i == k - 1
  <2>1. i \in Below(R * D) /\ k = i + 1
    BY <1>1, <1>2 DEF Below
  <2> HIDE DEF i
  <2>2. i \div D \in Below(R) /\ i % D \in Below(D) /\ i = (i \div D) * D + (i % D)
    BY <1>1, <2>1, RowAndColumn
  <2>3. i \div D \in 0 .. R - 1 /\ i % D \in 0 .. C
    BY <1>1, <2>2 DEF Below
  <2>4. k = (i \div D) * D + (i % D) + 1
    BY <2>1, <2>2
  <2> QED
    BY <2>3, <2>4, Zenon
<1> QED
  BY <1>1, <1>2, <1>3, <1>4 DEF R, C

\* The patches of the grid are its local rows, and the last column ends each line.
LEMMA PatchesAre ==
  ASSUME grid \in Pair
  PROVE  /\ Patches = {LocalRow(l, c) : l \in 0 .. MergedRows(grid) - 1,
                                        c \in 0 .. MergedCols(grid) - 1}
         /\ \A l \in Nat : EndsLine(LocalRow(l, MergedCols(grid) - 1))
<1> DEFINE g == grid
           R == MergedRows(g)
           C == MergedCols(g)
           A == (0 .. g[2] - 1) \X (0 .. g[1] - 1)
           B == (0 .. NQ - 1) \X (0 .. NQ - 1)
           Patch2(a, b) == Row("local", a[1] * ImageSize + Start(b[1]),
                                        a[2] * ImageSize + Start(b[2]))
<1>1. Patches = {Patch2(a, b) : a \in A, b \in B}
  BY DEF Patches, Start, NQ
<1>2. /\ NQ \in Nat \ {0} /\ g[1] \in Nat \ {0} /\ g[2] \in Nat \ {0}
      /\ R = g[2] * NQ /\ C = g[1] * NQ /\ R \in Nat \ {0} /\ C \in Nat \ {0}
  BY GridExtents, PairParts
<1> HIDE DEF g, R, C
<1>3. ASSUME NEW a \in A, NEW b \in B
      PROVE  \E l \in 0 .. R - 1, c \in 0 .. C - 1 : Patch2(a, b) = LocalRow(l, c)
  <2>1. /\ a[1] \in Below(g[2]) /\ a[2] \in Below(g[1]) /\ a[1] \in Nat /\ a[2] \in Nat
        /\ b[1] \in Below(NQ) /\ b[2] \in Below(NQ)
        /\ b[1] \in 0 .. NQ - 1 /\ b[2] \in 0 .. NQ - 1
    BY <1>2 DEF Below
  <2>2. a[1] * NQ + b[1] \in Below(R) /\ a[2] * NQ + b[2] \in Below(C)
    BY <1>2, <2>1, PlaceBelow
  <2>3. /\ Edge(a[1] * NQ + b[1]) = a[1] * ImageSize + Start(b[1])
        /\ Edge(a[2] * NQ + b[2]) = a[2] * ImageSize + Start(b[2])
    BY <2>1, EdgeOf
  <2>4. Patch2(a, b) = LocalRow(a[1] * NQ + b[1], a[2] * NQ + b[2])
    BY <2>3 DEF LocalRow
  <2> QED
    BY <2>2, <2>4 DEF Below
<1>4. ASSUME NEW l \in 0 .. R - 1, NEW c \in 0 .. C - 1
      PROVE  \E a \in A, b \in B : Patch2(a, b) = LocalRow(l, c)
  <2>1. l \in Below(g[2] * NQ) /\ c \in Below(g[1] * NQ)
    BY <1>2 DEF Below
  <2>2. /\ l \div NQ \in Below(g[2]) /\ l % NQ \in Below(NQ)
        /\ c \div NQ \in Below(g[1]) /\ c % NQ \in Below(NQ)
    BY <1>2, <2>1, RowAndColumn
  <2> DEFINE a == <<l \div NQ, c \div NQ>>
             b == <<l % NQ, c % NQ>>
  <2>3. a \in A /\ b \in B
    BY <2>2 DEF Below
  <2>4. Patch2(a, b) = LocalRow(l, c)
    BY DEF LocalRow, Edge
  <2> QED
    BY <2>3, <2>4
<1>5. Patches = {LocalRow(l, c) : l \in 0 .. R - 1, c \in 0 .. C - 1}
  <2> DEFINE Rows == {LocalRow(l, c) : l \in 0 .. R - 1, c \in 0 .. C - 1}
  <2> HIDE DEF A, B, Patch2
  <2>1. ASSUME NEW s \in Patches
        PROVE  s \in Rows
    <3>1. PICK a \in A, b \in B : s = Patch2(a, b)
      BY <1>1
    <3> QED
      BY <1>3, <3>1
  <2>2. ASSUME NEW s \in Rows
        PROVE  s \in Patches
    <3>1. PICK l \in 0 .. R - 1, c \in 0 .. C - 1 : s = LocalRow(l, c)
      OBVIOUS
    <3>2. PICK a \in A, b \in B : Patch2(a, b) = LocalRow(l, c)
      BY <1>4
    <3> QED
      BY <1>1, <3>1, <3>2
  <2> HIDE DEF Rows
  <2>3. Patches = Rows
    BY <2>1, <2>2
  <2> QED
    BY <2>3 DEF Rows
<1>6. ASSUME NEW l \in Nat
      PROVE  EndsLine(LocalRow(l, C - 1))
  <2>1. Edge(C - 1) = (g[1] - 1) * ImageSize + Start(NQ - 1)
    <3>1. g[1] - 1 \in Nat /\ NQ - 1 \in 0 .. NQ - 1
      BY <1>2
    <3>2. C - 1 = (g[1] - 1) * NQ + (NQ - 1)
      BY <1>2
    <3> QED
      BY <3>1, <3>2, EdgeOf
  <2>2. ASSUME NEW a \in A, NEW b \in B
        PROVE  a[2] * ImageSize + Start(b[2]) <= Edge(C - 1)
    <3>1. a[2] \in Nat /\ a[2] <= g[1] - 1 /\ b[2] \in Nat /\ b[2] <= NQ - 1
          /\ g[1] - 1 \in Nat /\ NQ - 1 \in Nat
      BY <1>2
    <3>2. Start(b[2]) \in Nat /\ Start(NQ - 1) \in Nat /\ Start(b[2]) <= Start(NQ - 1)
      BY <3>1, StartGrows
    <3>3. ImageSize \in Nat
      BY LayoutAssumption
    <3> DEFINE x == a[2]
               y == g[1] - 1
    <3> HIDE DEF x, y
    <3>4. x \in Nat /\ y \in Nat /\ x <= y
      BY <3>1 DEF x, y
    <3>5. x * ImageSize <= y * ImageSize /\ x * ImageSize \in Nat /\ y * ImageSize \in Nat
      BY <3>3, <3>4
    <3> QED
      BY <2>1, <3>2, <3>5 DEF x, y
  <2>3. ASSUME NEW s \in Patches
        PROVE  s.x <= Edge(C - 1)
    <3>1. PICK a \in A, b \in B : s = Patch2(a, b)
      BY <1>1
    <3>2. s.x = a[2] * ImageSize + Start(b[2])
      BY <3>1 DEF Row
    <3> QED
      BY <2>2, <3>2
  <2> QED
    BY <2>3 DEF EndsLine, LocalRow, Row
<1> QED
  BY <1>5, <1>6 DEF g, R, C

LEMMA PageLocal ==
  ASSUME ImageInv, pc = "ready", Multi
  PROVE  LocalOrder
<1> DEFINE g == grid
           R == MergedRows(g)
           C == MergedCols(g)
           L == Lines(g)
           n == ImageTokens(g)
           m == 1 + call.before
           N == m + n + call.after
<1>1. /\ g \in Pair /\ call \in Call /\ IsVisual /\ AreInputs
  BY DEF ImageInv, TypeOK, Pair, IVisual, IInputs
<1>2. R \in Nat \ {0} /\ C \in Nat \ {0}
  BY <1>1, GridExtents
<1>3. m \in Nat /\ call.after \in Nat /\ n \in Nat /\ L \in 0 .. n - 2
  BY <1>1, LayoutAssumption DEF Call, IsVisual
<1>4. /\ visual[L + 1].kind = "view" /\ visual[n] = Separator
      /\ \A j \in L + 1 .. n - 1 : visual[j].kind \in {"view", "newline"}
      /\ \A l \in 0 .. R - 1 :
           /\ \A c \in 0 .. C - 1 : visual[l * (C + 1) + c + 1] = LocalRow(l, c)
           /\ visual[l * (C + 1) + C + 1] = Newline
  BY <1>1 DEF IsVisual
<1>5. /\ DOMAIN inputs = 1 .. N
      /\ \A j \in 1 .. n : inputs[m + j] = visual[j]
      /\ \A i \in 1 .. m : inputs[i].kind \in {"bos", "text"}
      /\ \A i \in m + n + 1 .. N : inputs[i].kind = "text"
  BY <1>1 DEF AreInputs
<1>6. /\ L \in Nat
      /\ \A l \in 0 .. R - 1, c \in 0 .. C : l * (C + 1) + c + 1 \in 1 .. L
      /\ \A k \in 1 .. L : \E l \in 0 .. R - 1, c \in 0 .. C : k = l * (C + 1) + c + 1
  BY <1>1, LinePlaces
<1>7. /\ Patches = {LocalRow(l, c) : l \in 0 .. R - 1, c \in 0 .. C - 1}
      /\ \A l \in Nat : EndsLine(LocalRow(l, C - 1))
  BY <1>1, PatchesAre
<1>7a. L = R * (C + 1)
  BY DEF Lines
<1> HIDE DEF g, R, C, L, n, m
\* Where the page has line l, column c.
<1> DEFINE at(l, c) == l * (C + 1) + c + 1
<1>8. ASSUME NEW l \in 0 .. R - 1, NEW c \in 0 .. C - 1
      PROVE  m + at(l, c) \in 1 .. N /\ inputs[m + at(l, c)] = LocalRow(l, c)
  <2>1. c \in 0 .. C
    BY <1>2
  <2>2. at(l, c) \in 1 .. L /\ visual[at(l, c)] = LocalRow(l, c)
    BY <1>4, <1>6, <2>1
  <2> HIDE DEF at
  <2>3. at(l, c) \in 1 .. n /\ m + at(l, c) \in 1 .. N
    BY <1>3, <2>2
  <2> QED
    BY <1>5, <2>2, <2>3
<1>9. ASSUME NEW i \in 1 .. N, inputs[i].kind = "local"
      PROVE  \E l \in 0 .. R - 1, c \in 0 .. C - 1 : i = m + at(l, c)
  <2>1. i \in m + 1 .. m + n
    <3>1. i \notin 1 .. m /\ i \notin m + n + 1 .. N
      BY <1>5, <1>9
    <3> QED
      BY <1>3, <3>1
  <2> DEFINE k == i - m
  <2>2. k \in 1 .. n /\ i = m + k
    BY <1>3, <2>1
  <2> HIDE DEF k
  <2>3. visual[k].kind = "local"
    BY <1>5, <1>9, <2>2
  <2>4. k \in 1 .. L
    <3>1. k \notin L + 1 .. n - 1
      BY <1>4, <2>3
    <3>2. k # n
      BY <1>4, <2>3 DEF Separator, Row
    <3> QED
      BY <1>3, <2>2, <3>1, <3>2
  <2>5. PICK l \in 0 .. R - 1, c \in 0 .. C : k = at(l, c)
    BY <1>6, <2>4
  <2>6. c # C
    <3> SUFFICES ASSUME c = C  PROVE FALSE
      OBVIOUS
    <3>1. visual[k] = Newline
      BY <1>4, <2>5
    <3> QED
      BY <2>3, <3>1 DEF Newline, Row
  <2>7. c \in 0 .. C - 1
    BY <1>2, <2>5, <2>6
  <2> HIDE DEF at
  <2> QED
    BY <2>2, <2>5, <2>7
<1>10. ASSUME NEW i \in 1 .. N, inputs[i].kind = "local"
       PROVE  \/ /\ inputs[i + 1].kind = "local"
                 /\ inputs[i + 1].y = inputs[i].y /\ inputs[i + 1].x > inputs[i].x
              \/ /\ EndsLine(inputs[i]) /\ inputs[i + 1] = Newline
                 /\ \/ inputs[i + 2].kind = "local" /\ inputs[i + 2].y > inputs[i].y
                    \/ inputs[i + 2].kind = "view"
  <2>1. PICK l \in 0 .. R - 1, c \in 0 .. C - 1 : i = m + at(l, c)
    BY <1>9, <1>10
  <2>2. inputs[i] = LocalRow(l, c) /\ l \in Nat /\ c \in Nat
    BY <1>2, <1>8, <2>1
  <2>3. at(l, c) \in Nat
    <3>1. c \in 0 .. C
      BY <1>2
    <3> QED
      BY <1>6, <3>1
  <2>4. CASE c < C - 1
    <3>1. c + 1 \in 0 .. C - 1 /\ at(l, c + 1) = at(l, c) + 1
      <4>1. l * (C + 1) \in Nat
        BY <1>2, <2>2
      <4> QED
        BY <1>2, <2>2, <2>4, <4>1
    <3> HIDE DEF at
    <3>2. inputs[m + at(l, c + 1)] = LocalRow(l, c + 1)
      BY <1>8, <3>1
    <3>3. m + at(l, c + 1) = i + 1
      BY <1>3, <2>1, <2>3, <3>1
    <3>4. Edge(c) \in Nat /\ Edge(c + 1) \in Nat /\ Edge(c) < Edge(c + 1)
      BY <2>2, EdgeGrows
    <3>5. inputs[i + 1] = LocalRow(l, c + 1)
      BY <3>2, <3>3
    <3> QED
      BY <2>2, <3>4, <3>5 DEF LocalRow, Row
  <2>5. CASE c = C - 1
    <3>1. EndsLine(inputs[i])
      BY <1>7, <2>2, <2>5
    <3>2. at(l, C) = at(l, c) + 1 /\ at(l, C) \in 1 .. L
      <4>1. l * (C + 1) \in Nat /\ C \in 0 .. C
        BY <1>2, <2>2
      <4>2. at(l, C) = at(l, c) + 1
        BY <1>2, <2>5, <4>1
      <4>3. at(l, C) \in 1 .. L
        BY <1>6, <4>1
      <4> QED
        BY <4>2, <4>3
    <3>3. visual[at(l, C)] = Newline
      BY <1>4
    <3>4. inputs[i + 1] = Newline
      <4> DEFINE k == at(l, C)
      <4>1. k \in 1 .. n /\ m + k = i + 1
        BY <1>3, <2>1, <2>3, <3>2
      <4>2. visual[k] = Newline
        BY <3>3
      <4> HIDE DEF k
      <4> QED
        BY <1>5, <4>1, <4>2
    <3>5. CASE l < R - 1
      <4>1. l + 1 \in 0 .. R - 1 /\ 0 \in 0 .. C - 1 /\ at(l + 1, 0) = at(l, c) + 2
        <5>1. (l + 1) * (C + 1) = l * (C + 1) + C + 1 /\ l * (C + 1) \in Nat
          BY <1>2, <2>2
        <5>2. at(l + 1, 0) = at(l, c) + 2
          BY <1>2, <2>5, <5>1
        <5> QED
          BY <1>2, <2>2, <3>5, <5>2
      <4> HIDE DEF at
      <4>2. inputs[m + at(l + 1, 0)] = LocalRow(l + 1, 0)
        BY <1>8, <4>1
      <4>3. m + at(l + 1, 0) = i + 2
        BY <1>3, <2>1, <2>3, <4>1
      <4>4. Edge(l) \in Nat /\ Edge(l + 1) \in Nat /\ Edge(l) < Edge(l + 1)
        BY <2>2, EdgeGrows
      <4>5. inputs[i + 2] = LocalRow(l + 1, 0)
        BY <4>2, <4>3
      <4>6. inputs[i + 2].kind = "local" /\ inputs[i + 2].y > inputs[i].y
        BY <2>2, <4>4, <4>5 DEF LocalRow, Row
      <4> QED
        BY <3>1, <3>4, <4>6
    <3>6. CASE l = R - 1
      <4>1. at(l, c) + 1 = L
        <5>1. (l + 1) * (C + 1) = l * (C + 1) + C + 1 /\ l * (C + 1) \in Nat
          BY <1>2, <2>2
        <5>2. L = (l + 1) * (C + 1)
          BY <1>2, <1>7a, <3>6
        <5> QED
          BY <1>2, <2>5, <5>1, <5>2
      <4> DEFINE k == L + 1
      <4>2. k \in 1 .. n /\ m + k = i + 2
        <5> HIDE DEF at
        <5> QED
          BY <1>3, <2>1, <2>3, <4>1
      <4>3. visual[k].kind = "view"
        BY <1>4
      <4> HIDE DEF k
      <4>4. inputs[i + 2].kind = "view"
        BY <1>5, <4>2, <4>3
      <4> QED
        BY <3>1, <3>4, <4>4
    <3> QED
      BY <1>2, <3>5, <3>6
  <2> QED
    BY <1>2, <2>4, <2>5
<1> DEFINE Local == {j \in DOMAIN inputs : inputs[j].kind = "local"}
<1>11. {inputs[i] : i \in Local} = Patches
  <2>1. ASSUME NEW i \in Local
        PROVE  inputs[i] \in Patches
    <3>1. PICK l \in 0 .. R - 1, c \in 0 .. C - 1 : i = m + at(l, c)
      BY <1>5, <1>9, <2>1
    <3> QED
      BY <1>7, <1>8, <3>1
  <2>2. ASSUME NEW s \in Patches
        PROVE  \E i \in Local : inputs[i] = s
    <3>1. PICK l \in 0 .. R - 1, c \in 0 .. C - 1 : s = LocalRow(l, c)
      BY <1>7
    <3> DEFINE i == m + at(l, c)
    <3>2. i \in 1 .. N /\ inputs[i] = s
      BY <1>8, <3>1
    <3>3. s.kind = "local"
      BY <3>1 DEF LocalRow, Row
    <3> HIDE DEF i
    <3> QED
      BY <1>5, <3>2, <3>3
  <2> HIDE DEF Local
  <2> QED
    BY <2>1, <2>2
<1>12. \A i \in DOMAIN inputs : inputs[i].kind = "local" =>
         \/ /\ inputs[i + 1].kind = "local"
            /\ inputs[i + 1].y = inputs[i].y /\ inputs[i + 1].x > inputs[i].x
         \/ /\ EndsLine(inputs[i]) /\ inputs[i + 1] = Newline
            /\ \/ inputs[i + 2].kind = "local" /\ inputs[i + 2].y > inputs[i].y
               \/ inputs[i + 2].kind = "view"
  BY <1>5, <1>10
<1> QED
  BY <1>11, <1>12 DEF LocalOrder

LEMMA PageZones ==
  ASSUME ImageInv, pc = "ready", NEW i \in DOMAIN inputs
  PROVE  /\ inputs[i].kind = "view" =>
              \A j \in i + 1 .. Len(inputs) : inputs[j].kind # "local"
         /\ inputs[i].kind = "separator" =>
              \A j \in i + 1 .. Len(inputs) : inputs[j].kind = "text"
<1> DEFINE g == grid
           L == IF Multi THEN Lines(g) ELSE 0
           n == ImageTokens(g)
           m == 1 + call.before
           N == m + n + call.after
<1>1. /\ g \in Pair /\ call \in Call /\ IsVisual /\ AreInputs
  BY DEF ImageInv, TypeOK, Pair, IVisual, IInputs
<1>2. m \in Nat /\ call.after \in Nat /\ n \in Nat /\ L \in 0 .. n - 2
  BY <1>1, LayoutAssumption DEF Call, IsVisual
<1>3. /\ visual[n] = Separator
      /\ \A j \in L + 1 .. n - 1 : visual[j].kind \in {"view", "newline"}
  BY <1>1 DEF IsVisual
<1>4. ASSUME NEW k \in 1 .. L
      PROVE  visual[k].kind \in {"local", "newline"}
  <2> DEFINE R == MergedRows(g)
             C == MergedCols(g)
  <2>1. Multi /\ k \in 1 .. Lines(g)
    BY <1>4
  <2>2. PICK l \in 0 .. R - 1, c \in 0 .. C : k = l * (C + 1) + c + 1
    BY <1>1, <2>1, LinePlaces
  <2>3. /\ \A b \in 0 .. C - 1 : visual[l * (C + 1) + b + 1] = LocalRow(l, b)
        /\ visual[l * (C + 1) + C + 1] = Newline
    BY <1>1, <2>1 DEF IsVisual
  <2>4. C \in Nat \ {0}
    BY <1>1, GridExtents
  <2> HIDE DEF C
  <2>5. CASE c = C
    <3>1. visual[k] = Newline
      BY <2>2, <2>3, <2>5
    <3> QED
      BY <3>1 DEF Newline, Row
  <2>6. CASE c \in 0 .. C - 1
    <3>1. visual[k] = LocalRow(l, c)
      BY <2>2, <2>3, <2>6
    <3> QED
      BY <3>1 DEF LocalRow, Row
  <2> QED
    BY <2>2, <2>4, <2>5, <2>6
<1>5. /\ DOMAIN inputs = 1 .. N /\ Len(inputs) = N
      /\ \A j \in 1 .. n : inputs[m + j] = visual[j]
      /\ \A j \in 1 .. m : inputs[j].kind \in {"bos", "text"}
      /\ \A j \in m + n + 1 .. N : inputs[j].kind = "text"
  BY <1>1 DEF AreInputs
<1> HIDE DEF g, L, n, m
<1>6. Separator.kind = "separator"
  BY DEF Separator, Row
<1>7. ASSUME NEW j \in 1 .. N
      PROVE  /\ j <= m => inputs[j].kind \in {"bos", "text"}
             /\ j > m /\ j <= m + L => inputs[j].kind \in {"local", "newline"}
             /\ j > m + L /\ j < m + n => inputs[j].kind \in {"view", "newline"}
             /\ j = m + n => inputs[j].kind = "separator"
             /\ j > m + n => inputs[j].kind = "text"
  <2>1. CASE j <= m
    BY <1>2, <1>5, <2>1
  <2>2. CASE j > m /\ j <= m + n
    <3> DEFINE k == j - m
    <3>1. k \in 1 .. n /\ j = m + k
      BY <1>2, <2>2
    <3> HIDE DEF k
    <3>2. inputs[j] = visual[k]
      BY <1>5, <3>1
    <3>3. CASE k <= L
      <4>1. k \in 1 .. L /\ j <= m + L
        BY <1>2, <3>1, <3>3
      <4> QED
        BY <1>2, <1>4, <2>2, <3>1, <3>2, <4>1
    <3>4. CASE k > L /\ k < n
      <4>1. k \in L + 1 .. n - 1 /\ j > m + L /\ j < m + n
        BY <1>2, <3>1, <3>4
      <4>2. inputs[j].kind \in {"view", "newline"}
        BY <1>3, <3>2, <4>1
      <4> QED
        BY <1>2, <2>2, <4>1, <4>2
    <3>5. CASE k = n
      <4>1. inputs[j].kind = "separator"
        BY <1>3, <1>6, <3>2, <3>5
      <4> QED
        BY <1>2, <3>1, <3>5, <4>1
    <3> QED
      BY <1>2, <3>1, <3>3, <3>4, <3>5
  <2>3. CASE j > m + n
    <3>1. j \in m + n + 1 .. N
      BY <1>2, <2>3
    <3> QED
      BY <1>2, <1>5, <2>3, <3>1
  <2> QED
    BY <1>2, <2>1, <2>2, <2>3
<1>8. i \in 1 .. N
  BY <1>5
<1>9. ASSUME inputs[i].kind = "view", NEW j \in i + 1 .. N
      PROVE  inputs[j].kind # "local"
  <2>1. i > m + L
    BY <1>2, <1>7, <1>8, <1>9
  <2>2. j \in 1 .. N /\ j > m + L
    BY <1>2, <1>8, <2>1
  <2> QED
    BY <1>2, <1>7, <2>2
<1>10. ASSUME inputs[i].kind = "separator", NEW j \in i + 1 .. N
       PROVE  inputs[j].kind = "text"
  <2>1. i = m + n
    BY <1>2, <1>7, <1>8, <1>10
  <2>2. j \in 1 .. N /\ j > m + n
    BY <1>2, <1>8, <2>1
  <2> QED
    BY <1>7, <2>2
<1> QED
  BY <1>5, <1>9, <1>10

\* The decoder is given the picture in the order of a page: the local rows in
\* raster order across the borders of the crops, every patch of the grid, then
\* the global view, one separator, and the text after it.
THEOREM PagesInOrder == Spec => []PageOrder
<1>1. ASSUME ImageInv
      PROVE  PageOrder
  BY <1>1, PageLocal, PageZones DEF PageOrder, Multi
<1> QED
  BY <1>1, EachStepLaidOut, PTL

-----------------------------------------------------------------------------
(* What reaches a token. *)

\* Rows of the grid of patches: those within a of a row that stands for a of them,
\* and those in one window.
Span(a, r) == (a * r - a .. a * r + a) \cap Below(Grid)
InWindowOf(r) == {i \in Below(Grid) : i \div Window = r \div Window}

\* The rows that b blocks bring to a row, those a row of a stage stands for, and
\* the ones that reach it.
Mixed(b, r) == IF b >= 3 THEN Below(Grid) ELSE IF b = 0 THEN {r} ELSE InWindowOf(r)
Reach(s, r) ==
  CASE s \in {"position", "blocks", "neck"} -> {r}
    [] s = "net2" -> Span(1, r)
    [] s = "net3" -> Span(2, r)
    [] OTHER -> Span(4, r)
From(s, b, r) == UNION {Mixed(b, j) : j \in Reach(s, r)}

Halved(n) == (n - 1) \div 2 + 1
SideAt(s) ==
  CASE s = "patch" -> view
    [] s \in {"position", "blocks", "neck", "net2"} -> Grid
    [] s = "net3" -> Halved(Grid)
    [] OTHER -> Halved(Halved(Grid))

EncStages == {"patch", "position", "blocks", "neck", "net2", "net3", "clip", "layers",
              "layout", "done"}
FieldAt(s, b) ==
  IF s = "patch" THEN [px \in Cells(view) |-> {px}]
  ELSE [o \in Cells(SideAt(s)) |->
         PixelsOf(From(s, b, o \div SideAt(s)), From(s, b, o % SideAt(s)))]

SeenInv ==
  /\ EncInv
  /\ stage \in EncStages /\ view \in Views /\ depth \in Depths
  /\ stage \in {"patch", "position"} => block = 0
  /\ stage = "blocks" => block \in 0 .. depth - 1
  /\ stage \notin {"patch", "position", "blocks"} => block = depth
  /\ side["cpu"] = SideAt(stage)
  /\ field["cpu"] = FieldAt(stage, block)

\* Pictures of rows and columns, united.
LEMMA PixelIn ==
  ASSUME NEW i, NEW j, NEW px
  PROVE  px \in PixelsOf(i, j)
           <=> \E y, x \in Below(view) : y \div Patch \in i /\ x \div Patch \in j /\ px = y * view + x
BY DEF PixelsOf

LEMMA PixelsUnited ==
  ASSUME NEW I, NEW J, NEW S,
         \A p \in S : \E i \in I, j \in J : p = PixelsOf(i, j),
         \A i \in I, j \in J : PixelsOf(i, j) \in S
  PROVE  UNION S = PixelsOf(UNION I, UNION J)
<1>1. ASSUME NEW px \in UNION S PROVE px \in PixelsOf(UNION I, UNION J)
  <2>1. PICK i \in I, j \in J : px \in PixelsOf(i, j)
    OBVIOUS
  <2>2. PICK y \in Below(view), x \in Below(view) :
          y \div Patch \in i /\ x \div Patch \in j /\ px = y * view + x
    BY <2>1, PixelIn
  <2>3. y \div Patch \in UNION I /\ x \div Patch \in UNION J
    BY <2>2
  <2> HIDE DEF Below
  <2> QED
    BY <2>2, <2>3, PixelIn
<1>2. ASSUME NEW px \in PixelsOf(UNION I, UNION J) PROVE px \in UNION S
  <2>1. PICK y \in Below(view), x \in Below(view) :
          y \div Patch \in UNION I /\ x \div Patch \in UNION J /\ px = y * view + x
    BY PixelIn
  <2>2. PICK i \in I : y \div Patch \in i
    BY <2>1
  <2>3. PICK j \in J : x \div Patch \in j
    BY <2>1
  <2>4. px \in PixelsOf(i, j)
    BY <2>1, <2>2, <2>3, PixelIn
  <2> QED
    BY <2>4
<1> QED
  BY <1>1, <1>2

\* The cells a stage reads, without the padding.
Heads(rd) == {s[1] : s \in {t \in rd : t[1] # Pad}}
CellsAt(n, R, C) == {y * n + x : y \in R, x \in C}

LEMMA ReachedBy ==
  ASSUME NEW n \in Nat \ {0}, NEW s, NEW b, NEW R \in SUBSET Below(n), NEW C \in SUBSET Below(n),
         NEW rd, Heads(rd) = CellsAt(n, R, C),
         field["cpu"] = [o \in Cells(n) |-> PixelsOf(From(s, b, o \div n), From(s, b, o % n))]
  PROVE  Reached("cpu", rd)
           = PixelsOf(UNION {From(s, b, y) : y \in R}, UNION {From(s, b, x) : x \in C})
<1>1. Reached("cpu", rd) = UNION {field["cpu"][h] : h \in Heads(rd)}
  BY DEF Reached, Heads
<1>2. \A y \in R, x \in C :
        y * n + x \in Cells(n) /\ (y * n + x) \div n = y /\ (y * n + x) % n = x
  BY PlaceBelow, QuotientUnique DEF Cells, Below
<1>3. \A y \in R, x \in C : field["cpu"][y * n + x] = PixelsOf(From(s, b, y), From(s, b, x))
  BY <1>2
<1> DEFINE I == {From(s, b, y) : y \in R}
           J == {From(s, b, x) : x \in C}
           S == {field["cpu"][h] : h \in Heads(rd)}
<1>4. ASSUME NEW p \in S PROVE \E i \in I, j \in J : p = PixelsOf(i, j)
  <2>1. PICK h \in CellsAt(n, R, C) : p = field["cpu"][h]
    OBVIOUS
  <2>2. PICK y \in R, x \in C : h = y * n + x
    BY DEF CellsAt
  <2>3. p = PixelsOf(From(s, b, y), From(s, b, x))
    BY <1>3, <2>1, <2>2
  <2>4. From(s, b, y) \in I /\ From(s, b, x) \in J
    OBVIOUS
  <2> QED
    BY <2>3, <2>4
<1>5. ASSUME NEW i \in I, NEW j \in J PROVE PixelsOf(i, j) \in S
  <2>1. PICK y \in R : i = From(s, b, y)
    OBVIOUS
  <2>2. PICK x \in C : j = From(s, b, x)
    OBVIOUS
  <2>3. y * n + x \in Heads(rd)
    BY DEF CellsAt
  <2>4. field["cpu"][y * n + x] = PixelsOf(i, j)
    BY <1>3, <2>1, <2>2
  <2> QED
    BY <2>3, <2>4
<1> HIDE DEF I, J, S
<1>6. UNION S = PixelsOf(UNION I, UNION J)
  BY <1>4, <1>5, PixelsUnited
<1> QED
  BY <1>1, <1>6 DEF I, J, S

\* The rows a convolution reads for a row.
TapRows(c, n, r) == {r * c.stride - c.pad + t : t \in Below(c.k)} \cap Below(n)

LEMMA ConvolutionReads ==
  ASSUME NEW c \in Kernel, NEW n \in Nat \ {0}, NEW m \in Nat \ {0}, NEW o \in Cells(m)
  PROVE  /\ DOMAIN Conv2d(c, n, m) = Cells(m)
         /\ Heads(Conv2d(c, n, m)[o])
              = CellsAt(n, TapRows(c, n, o \div m), TapRows(c, n, o % m))
<1> DEFINE from(x) == x * c.stride - c.pad
           Pairs == {t \in Below(c.k) \X Below(c.k) : /\ from(o \div m) + t[1] \in Below(n)
                                                      /\ from(o % m) + t[2] \in Below(n)}
           A == {<<(from(o \div m) + t[1]) * n + from(o % m) + t[2], t[1] * c.k + t[2]>> : t \in Pairs}
<1>1. DOMAIN Conv2d(c, n, m) = Cells(m) /\ Conv2d(c, n, m)[o] = A
  BY DEF Conv2d
<1>2. o \div m \in Int /\ o % m \in Int
  BY DEF Cells, Below
<1>3. from(o \div m) \in Int /\ from(o % m) \in Int
  BY <1>2 DEF Kernel
<1>4. TapRows(c, n, o \div m) = {from(o \div m) + t : t \in Below(c.k)} \cap Below(n)
      /\ TapRows(c, n, o % m) = {from(o % m) + t : t \in Below(c.k)} \cap Below(n)
  BY DEF TapRows
<1> HIDE DEF from
<1>5. \A a, b \in Int : (from(o \div m) + a) * n + from(o % m) + b
                          = (from(o \div m) + a) * n + (from(o % m) + b)
  <2>1. \A x, y, z \in Int : x + y + z = x + (y + z)
    OBVIOUS
  <2>2. \A a \in Int : (from(o \div m) + a) * n \in Int
    BY <1>3
  <2> QED
    BY <1>3, <2>1, <2>2
<1>6. \A y, x \in Below(n) : y * n + x # Pad
  <2>1. \A y, x \in Nat : y * n + x \in Nat
    OBVIOUS
  <2> QED
    BY <2>1 DEF Below, Pad
<1>7. \A h \in Heads(A) : h \in CellsAt(n, TapRows(c, n, o \div m), TapRows(c, n, o % m))
  <2> SUFFICES ASSUME NEW t \in Pairs
               PROVE  (from(o \div m) + t[1]) * n + from(o % m) + t[2]
                        \in CellsAt(n, TapRows(c, n, o \div m), TapRows(c, n, o % m))
    BY DEF Heads
  <2>1. t[1] \in Int /\ t[2] \in Int
    BY DEF Below
  <2>2. from(o \div m) + t[1] \in TapRows(c, n, o \div m)
        /\ from(o % m) + t[2] \in TapRows(c, n, o % m)
    BY <1>4
  <2> QED
    BY <1>5, <2>1, <2>2 DEF CellsAt
<1>8. ASSUME NEW y \in TapRows(c, n, o \div m), NEW x \in TapRows(c, n, o % m)
      PROVE  y * n + x \in Heads(A)
  <2>1. PICK a \in Below(c.k) : y = from(o \div m) + a
    BY <1>4
  <2>2. PICK b \in Below(c.k) : x = from(o % m) + b
    BY <1>4
  <2>3. y \in Below(n) /\ x \in Below(n)
    BY <1>4
  <2> DEFINE t == <<a, b>>
             e == <<(from(o \div m) + t[1]) * n + from(o % m) + t[2], t[1] * c.k + t[2]>>
  <2>4. t \in Pairs /\ t[1] = a /\ t[2] = b
    BY <2>1, <2>2, <2>3
  <2>5. e \in A
    BY <2>4
  <2>6. e[1] = y * n + x
    BY <1>5, <2>1, <2>2, <2>4 DEF Below
  <2>7. e[1] # Pad
    BY <1>6, <2>3, <2>6
  <2> HIDE DEF e, A
  <2> QED
    BY <2>5, <2>6, <2>7 DEF Heads
<1>9. CellsAt(n, TapRows(c, n, o \div m), TapRows(c, n, o % m)) \subseteq Heads(A)
  <2> HIDE DEF A
  <2> QED
    BY <1>8 DEF CellsAt
<1> HIDE DEF A
<1> QED
  BY <1>1, <1>7, <1>9

LEMMA TapsOfKernels ==
  ASSUME NEW n \in Nat \ {0}, NEW r \in Nat
  PROVE  /\ TapRows(Conv["neck"], n, r) = (r - 1 .. r + 1) \cap Below(n)
         /\ \A s \in {"net2", "net3"} :
              TapRows(Conv[s], n, r) = (2 * r - 1 .. 2 * r + 1) \cap Below(n)
         /\ TapRows(Conv["patch"], n, r) = {v \in Below(n) : v \div Patch = r}
<1>1. /\ Conv["neck"].k = 3 /\ Conv["neck"].stride = 1 /\ Conv["neck"].pad = 1
      /\ \A s \in {"net2", "net3"} : Conv[s].k = 3 /\ Conv[s].stride = 2 /\ Conv[s].pad = 1
      /\ Conv["patch"].k = Patch /\ Conv["patch"].stride = Patch /\ Conv["patch"].pad = 0
  BY DEF Conv
<1>2. \A x \in Int : {x - 1 + t : t \in Below(3)} = x - 1 .. x + 1
  <2> TAKE x \in Int
  <2>1. \A y \in x - 1 .. x + 1 : y \in {x - 1 + t : t \in Below(3)}
    <3> TAKE y \in x - 1 .. x + 1
    <3>1. y - (x - 1) \in Below(3) /\ y = x - 1 + (y - (x - 1))
      BY DEF Below
    <3> QED
      BY <3>1
  <2> QED
    BY <2>1 DEF Below
<1>3. /\ TapRows(Conv["neck"], n, r) = {r * 1 - 1 + t : t \in Below(3)} \cap Below(n)
      /\ \A s \in {"net2", "net3"} :
           TapRows(Conv[s], n, r) = {r * 2 - 1 + t : t \in Below(3)} \cap Below(n)
      /\ TapRows(Conv["patch"], n, r) = {r * Patch - 0 + t : t \in Below(Patch)} \cap Below(n)
  BY <1>1 DEF TapRows
<1>4. r * 1 = r /\ r * 2 = 2 * r /\ r \in Int /\ 2 * r \in Int
  OBVIOUS
<1>5. {r * Patch - 0 + t : t \in Below(Patch)} \cap Below(n) = {v \in Below(n) : v \div Patch = r}
  <2>0. Patch \in Nat \ {0} /\ r * Patch \in Nat /\ r * Patch - 0 = r * Patch
    BY EncoderAssumption
  <2>1. ASSUME NEW t \in Below(Patch) PROVE (r * Patch + t) \div Patch = r
    BY <2>0, QuotientUnique DEF Below
  <2>2. ASSUME NEW v \in Below(n), v \div Patch = r
        PROVE  v \in {r * Patch - 0 + t : t \in Below(Patch)}
    <3>1. v = (v \div Patch) * Patch + (v % Patch) /\ v % Patch \in Below(Patch)
      BY <2>0, Division DEF Below
    <3> QED
      BY <2>0, <2>2, <3>1
  <2> QED
    BY <2>0, <2>1, <2>2
<1> QED
  BY <1>2, <1>3, <1>4, <1>5

\* One convolution widens what a row stands for.
LEMMA SpanDoubles ==
  ASSUME NEW a \in {1, 2}, NEW n \in Nat \ {0}, Grid \in Nat,
         Grid - 1 \in a * (n - 1) .. a * (n - 1) + 1, NEW r \in Below(Halved(n))
  PROVE  /\ UNION {Span(a, y) : y \in (2 * r - 1 .. 2 * r + 1) \cap Below(n)} = Span(2 * a, r)
         /\ 2 * r \in Below(n)
<1>1. r \in Nat /\ 2 * r <= n - 1
  <2>1. r <= (n - 1) \div 2 /\ r \in Nat
    BY DEF Halved, Below
  <2> QED
    BY <2>1
<1>2. ASSUME NEW y \in (2 * r - 1 .. 2 * r + 1) \cap Below(n), NEW i \in Span(a, y)
      PROVE  i \in Span(2 * a, r)
  <2>1. CASE a = 1
    BY <1>1, <2>1 DEF Span, Below
  <2>2. CASE a = 2
    BY <1>1, <2>2 DEF Span, Below
  <2> QED
    BY <2>1, <2>2
<1>3. ASSUME NEW i \in Span(2 * a, r)
      PROVE  \E y \in (2 * r - 1 .. 2 * r + 1) \cap Below(n) : i \in Span(a, y)
  <2>1. CASE a = 1
    <3>1. i \in 2 * r - 2 .. 2 * r + 2 /\ i \in 0 .. Grid - 1 /\ i \in Below(Grid)
      BY <1>1, <2>1 DEF Span, Below
    <3>2. CASE i > 2 * r + 1
      <4>1. 2 * r + 1 \in (2 * r - 1 .. 2 * r + 1) \cap Below(n)
        BY <1>1, <2>1, <3>1, <3>2 DEF Below
      <4>2. i \in Span(a, 2 * r + 1)
        BY <1>1, <2>1, <3>1, <3>2 DEF Span
      <4> QED
        BY <4>1, <4>2
    <3>3. CASE i < 2 * r - 1
      <4>1. 2 * r - 1 \in (2 * r - 1 .. 2 * r + 1) \cap Below(n)
        BY <1>1, <2>1, <3>1, <3>3 DEF Below
      <4>2. i \in Span(a, 2 * r - 1)
        BY <1>1, <2>1, <3>1, <3>3 DEF Span
      <4> QED
        BY <4>1, <4>2
    <3>4. CASE i \in 2 * r - 1 .. 2 * r + 1
      <4>1. 2 * r \in (2 * r - 1 .. 2 * r + 1) \cap Below(n)
        BY <1>1 DEF Below
      <4>2. i \in Span(a, 2 * r)
        BY <1>1, <2>1, <3>1, <3>4 DEF Span
      <4> QED
        BY <4>1, <4>2
    <3> QED
      BY <1>1, <3>1, <3>2, <3>3, <3>4
  <2>2. CASE a = 2
    <3>1. i \in 4 * r - 4 .. 4 * r + 4 /\ i \in 0 .. Grid - 1 /\ i \in Below(Grid)
      BY <1>1, <2>2 DEF Span, Below
    <3>2. CASE i > 4 * r + 2
      <4>1. 2 * r + 1 \in (2 * r - 1 .. 2 * r + 1) \cap Below(n)
        BY <1>1, <2>2, <3>1, <3>2 DEF Below
      <4>2. i \in Span(a, 2 * r + 1)
        BY <1>1, <2>2, <3>1, <3>2 DEF Span
      <4> QED
        BY <4>1, <4>2
    <3>3. CASE i < 4 * r - 2
      <4>1. 2 * r - 1 \in (2 * r - 1 .. 2 * r + 1) \cap Below(n)
        BY <1>1, <2>2, <3>1, <3>3 DEF Below
      <4>2. i \in Span(a, 2 * r - 1)
        BY <1>1, <2>2, <3>1, <3>3 DEF Span
      <4> QED
        BY <4>1, <4>2
    <3>4. CASE i \in 4 * r - 2 .. 4 * r + 2
      <4>1. 2 * r \in (2 * r - 1 .. 2 * r + 1) \cap Below(n)
        BY <1>1 DEF Below
      <4>2. i \in Span(a, 2 * r)
        BY <1>1, <2>2, <3>1, <3>4 DEF Span
      <4> QED
        BY <4>1, <4>2
    <3> QED
      BY <1>1, <3>1, <3>2, <3>3, <3>4
  <2> QED
    BY <2>1, <2>2
<1>4. 2 * r \in Below(n)
  BY <1>1 DEF Below
<1>5. UNION {Span(a, y) : y \in (2 * r - 1 .. 2 * r + 1) \cap Below(n)} = Span(2 * a, r)
  <2> HIDE DEF Span
  <2> QED
    BY <1>2, <1>3
<1> QED
  BY <1>4, <1>5

LEMMA HalvedSide ==
  ASSUME NEW n \in Nat \ {0}
  PROVE  Halved(n) \in Nat \ {0} /\ n - 1 \in 2 * (Halved(n) - 1) .. 2 * (Halved(n) - 1) + 1
BY DEF Halved

\* What a row of the next stage is made of, from the rows its kernel reads.
LEMMA FromNext ==
  ASSUME Grid \in Nat \ {0}, NEW b
  PROVE  /\ \A r \in Below(Grid) :
              UNION {From("neck", b, y) : y \in (r - 1 .. r + 1) \cap Below(Grid)} = From("net2", b, r)
         /\ \A r \in Below(Halved(Grid)) :
              UNION {From("net2", b, y) : y \in (2 * r - 1 .. 2 * r + 1) \cap Below(Grid)}
                = From("net3", b, r)
         /\ \A r \in Below(Halved(Halved(Grid))) :
              UNION {From("net3", b, y) : y \in (2 * r - 1 .. 2 * r + 1) \cap Below(Halved(Grid))}
                = From("clip", b, r)
<1>1. /\ \A r : Reach("neck", r) = {r} /\ Reach("net2", r) = Span(1, r)
      /\ \A r : Reach("net3", r) = Span(2, r) /\ Reach("clip", r) = Span(4, r)
  BY DEF Reach
<1>2. \A s, t, r, Y : Reach(t, r) = UNION {Reach(s, y) : y \in Y}
        => UNION {From(s, b, y) : y \in Y} = From(t, b, r)
  BY DEF From
<1>3. ASSUME NEW r \in Below(Grid)
      PROVE  UNION {From("neck", b, y) : y \in (r - 1 .. r + 1) \cap Below(Grid)} = From("net2", b, r)
  <2>1. Span(1, r) = (r - 1 .. r + 1) \cap Below(Grid)
    BY DEF Span, Below
  <2>2. Span(1, r) = UNION {{y} : y \in (r - 1 .. r + 1) \cap Below(Grid)}
    BY <2>1
  <2>3. UNION {{y} : y \in (r - 1 .. r + 1) \cap Below(Grid)}
          = UNION {Reach("neck", y) : y \in (r - 1 .. r + 1) \cap Below(Grid)}
    BY <1>1
  <2> QED
    BY <1>1, <1>2, <2>2, <2>3
<1>4. ASSUME NEW r \in Below(Halved(Grid))
      PROVE  UNION {From("net2", b, y) : y \in (2 * r - 1 .. 2 * r + 1) \cap Below(Grid)}
               = From("net3", b, r)
  <2>1. Span(2, r) = UNION {Span(1, y) : y \in (2 * r - 1 .. 2 * r + 1) \cap Below(Grid)}
    <3>1. 1 \in {1, 2} /\ Grid - 1 \in 1 * (Grid - 1) .. 1 * (Grid - 1) + 1 /\ 2 * 1 = 2 /\ Grid \in Nat
      OBVIOUS
    <3> QED
      BY <3>1, SpanDoubles
  <2> DEFINE Y == (2 * r - 1 .. 2 * r + 1) \cap Below(Grid)
  <2> HIDE DEF Y
  <2>2. Span(2, r) = UNION {Span(1, y) : y \in Y}
    BY <2>1 DEF Y
  <2>3. Reach("net3", r) = UNION {Reach("net2", y) : y \in Y}
    BY <1>1, <2>2
  <2>4. UNION {From("net2", b, y) : y \in Y} = From("net3", b, r)
    BY <1>2, <2>3
  <2> QED
    BY <2>4 DEF Y
<1>5. ASSUME NEW r \in Below(Halved(Halved(Grid)))
      PROVE  UNION {From("net3", b, y) : y \in (2 * r - 1 .. 2 * r + 1) \cap Below(Halved(Grid))}
               = From("clip", b, r)
  <2>1. Span(4, r) = UNION {Span(2, y) : y \in (2 * r - 1 .. 2 * r + 1) \cap Below(Halved(Grid))}
    <3>1. /\ Halved(Grid) \in Nat \ {0} /\ 2 \in {1, 2} /\ 2 * 2 = 4 /\ Grid \in Nat
          /\ Grid - 1 \in 2 * (Halved(Grid) - 1) .. 2 * (Halved(Grid) - 1) + 1
      BY HalvedSide
    <3> QED
      BY <3>1, SpanDoubles
  <2> DEFINE Y == (2 * r - 1 .. 2 * r + 1) \cap Below(Halved(Grid))
  <2> HIDE DEF Y
  <2>2. Span(4, r) = UNION {Span(2, y) : y \in Y}
    BY <2>1 DEF Y
  <2>3. Reach("clip", r) = UNION {Reach("net3", y) : y \in Y}
    BY <1>1, <2>2
  <2>4. UNION {From("net3", b, y) : y \in Y} = From("clip", b, r)
    BY <1>2, <2>3
  <2> QED
    BY <2>4 DEF Y
<1> QED
  BY <1>3, <1>4, <1>5

-----------------------------------------------------------------------------
(* What the blocks mix. *)

LEMMA WindowsCover ==
  ASSUME NEW n \in Nat \ {0}, NEW r \in Below(n)
  PROVE  /\ r \div Window \in Below(GpuWindows(n)) /\ r % Window \in Below(Window)
         /\ r = (r \div Window) * Window + (r % Window)
<1> DEFINE W == Window
           q == (n + W - 1) \div W
           x == (n + W - 1) % W
<1>1. W \in Nat \ {0} /\ r \in Nat
  BY EncoderAssumption DEF Below
<1>2. n + W - 1 \in Nat
  BY <1>1
<1>3. n + W - 1 = q * W + x /\ q \in Nat /\ x \in 0 .. W - 1
  BY <1>1, <1>2, Division
<1> HIDE DEF q, x, W
<1>4. q * W \in Nat /\ n <= q * W
  BY <1>1, <1>3
<1>5. r \in Below(q * W)
  BY <1>1, <1>4 DEF Below
<1>6. r \div W \in Below(q) /\ r % W \in Below(W) /\ r = (r \div W) * W + (r % W)
  BY <1>1, <1>3, <1>5, RowAndColumn
<1> QED
  BY <1>6 DEF q, W, GpuWindows

\* Where a cell lies among the windows, and what is read from there.
LEMMA WindowReads ==
  ASSUME NEW n \in Nat \ {0}, n = Grid
  PROVE  LET rd == AttendWindows("cpu", GpuPartition(n), GpuUnpartition(n))
         IN  /\ DOMAIN rd = Cells(n)
             /\ \A o \in Cells(n) :
                  Heads(rd[o]) = CellsAt(n, InWindowOf(o \div n), InWindowOf(o % n))
<1> DEFINE W == Window
           part == GpuPartition(n)
           back == GpuUnpartition(n)
           nw == GpuWindows(n)
<1>1. W \in Nat \ {0} /\ nw \in Nat \ {0} /\ W * W \in Nat \ {0}
  BY EncoderAssumption, WindowsAgree
<1>2. DOMAIN part = Places(n) /\ \A p \in Places(n) : part[p] = GpuCell(n, p)
  BY DEF GpuPartition, Places
<1>3. back = [cell \in {part[p] : p \in DOMAIN part} \ {Pad} |-> CHOOSE p \in DOMAIN part : part[p] = cell]
  BY DEF GpuUnpartition
<1> DEFINE at(o) == PlaceOf(n, (o \div n) \div W, (o % n) \div W, (o \div n) % W, (o % n) % W)
<1>4. ASSUME NEW o \in Cells(n)
      PROVE  /\ o \div n \in Below(n) /\ o % n \in Below(n) /\ o = (o \div n) * n + (o % n)
             /\ (o \div n) \div W \in Below(nw) /\ (o % n) \div W \in Below(nw)
             /\ (o \div n) % W \in Below(W) /\ (o % n) % W \in Below(W)
             /\ at(o) \in Places(n) /\ part[at(o)] = o /\ o # Pad
  <2>1. o \div n \in Below(n) /\ o % n \in Below(n) /\ o = (o \div n) * n + (o % n)
    BY RowAndColumn DEF Cells
  <2> DEFINE y == o \div n  x == o % n
  <2>2. /\ y \div W \in Below(nw) /\ y % W \in Below(W) /\ y = (y \div W) * W + (y % W)
        /\ x \div W \in Below(nw) /\ x % W \in Below(W) /\ x = (x \div W) * W + (x % W)
    BY <2>1, WindowsCover
  <2> HIDE DEF y, x
  <2>3. y < n /\ x < n
    BY <2>1 DEF y, x, Below
  <2>4. /\ PlaceOf(n, y \div W, x \div W, y % W, x % W) \in Places(n)
        /\ GpuCell(n, PlaceOf(n, y \div W, x \div W, y % W, x % W))
             = CellAt(n, (y \div W) * W + (y % W), (x \div W) * W + (x % W))
    BY <2>2, PlaceRead
  <2>5. CellAt(n, y, x) = o
    BY <2>1, <2>3 DEF CellAt, y, x
  <2>6. o # Pad
    BY DEF Cells, Below, Pad
  <2> QED
    BY <1>2, <2>1, <2>2, <2>4, <2>5, <2>6 DEF y, x
<1>5. ASSUME NEW p \in Places(n), part[p] # Pad PROVE part[p] \in Cells(n)
  <2>1. PICK wi \in Below(nw), wj \in Below(nw), i \in Below(W), j \in Below(W) :
          p = PlaceOf(n, wi, wj, i, j)
    BY PlaceHas
  <2>2. part[p] = CellAt(n, wi * W + i, wj * W + j)
    BY <1>2, <2>1, PlaceRead
  <2> DEFINE y == wi * W + i  x == wj * W + j
  <2>3. y \in Nat /\ x \in Nat
    <3>1. \A a, b, c \in Nat : a * b + c \in Nat
      OBVIOUS
    <3> QED
      BY <1>1, <3>1 DEF Below
  <2> HIDE DEF y, x
  <2>4. y < n /\ x < n /\ part[p] = y * n + x
    BY <1>5, <2>2 DEF CellAt, y, x
  <2>5. y \in Below(n) /\ x \in Below(n) /\ n \in Nat
    BY <2>3, <2>4 DEF Below
  <2> QED
    BY <2>4, <2>5, PlaceBelow DEF Cells
<1>6. DOMAIN back = Cells(n)
  <2> HIDE DEF part, back, at
  <2>1. DOMAIN back = {part[p] : p \in DOMAIN part} \ {Pad}
    BY <1>3
  <2> QED
    BY <1>2, <1>4, <1>5, <2>1
<1>7. ASSUME NEW o \in Cells(n) PROVE back[o] = at(o)
  <2> HIDE DEF part, back, at
  <2>1. back[o] = CHOOSE p \in DOMAIN part : part[p] = o
    BY <1>3, <1>6, <1>7
  <2>2. at(o) \in Places(n) /\ part[at(o)] = o /\ o # Pad
    BY <1>4
  <2>3. back[o] \in Places(n) /\ part[back[o]] = o
    BY <1>2, <2>1, <2>2
  <2>4. GpuCell(n, back[o]) = o /\ GpuCell(n, at(o)) = o
    BY <1>2, <2>2, <2>3
  <2> QED
    BY <2>2, <2>3, <2>4, CellPlacedOnce
<1>8. ASSUME NEW o \in Cells(n)
      PROVE  LET q == back[o] % (W * W)
                 first == back[o] - q
             IN  {part[first + k] : k \in Cells(W)} \ {Pad}
                   = CellsAt(n, InWindowOf(o \div n), InWindowOf(o % n))
  <2> DEFINE y == o \div n  x == o % n
             wi == y \div W  wj == x \div W
             win == wi * nw + wj
             q == back[o] % (W * W)
             first == back[o] - q
  <2>1. /\ wi \in Below(nw) /\ wj \in Below(nw) /\ y % W \in Below(W) /\ x % W \in Below(W)
        /\ y \in Below(n) /\ x \in Below(n)
        /\ back[o] = PlaceOf(n, wi, wj, y % W, x % W)
    BY <1>4, <1>7
  <2> HIDE DEF y, x
  <2>2. win \in Nat
    <3>1. wi \in Nat /\ wj \in Nat /\ nw \in Nat
      BY <1>1, <2>1 DEF Below
    <3>2. wi * nw \in Nat
      BY <3>1
    <3> QED
      BY <3>1, <3>2
  <2>3. ASSUME NEW a \in Below(W), NEW b \in Below(W)
        PROVE  /\ PlaceOf(n, wi, wj, a, b) = win * (W * W) + (a * W + b)
               /\ a * W + b \in 0 .. W * W - 1
    <3>1. \A u, v, z, w \in Nat : (u * v + z) * v + w = u * (v * v) + (z * v + w)
      OBVIOUS
    <3>2. a \in Nat /\ b \in Nat /\ W \in Nat
      BY <1>1 DEF Below
    <3>3. PlaceOf(n, wi, wj, a, b) = (win * W + a) * W + b
      BY DEF PlaceOf
    <3>4. a * W + b \in Below(W * W)
      BY <1>1, PlaceBelow
    <3> QED
      BY <2>2, <3>1, <3>2, <3>3, <3>4 DEF Below
  <2>4. q = (y % W) * W + (x % W) /\ first = win * (W * W)
    <3> DEFINE e == (y % W) * W + (x % W)
               bo == back[o]
    <3>1. bo = win * (W * W) + e /\ e \in 0 .. W * W - 1
      BY <2>1, <2>3
    <3> HIDE DEF e, bo, win
    <3>2. bo % (W * W) = e
      BY <1>1, <2>2, <3>1, QuotientUnique
    <3>3. bo - e = win * (W * W)
      <4>1. win * (W * W) \in Nat
        BY <1>1, <2>2
      <4> QED
        BY <3>1, <4>1
    <3> QED
      BY <3>2, <3>3 DEF e, bo, win
  <2> HIDE DEF q, first, win
  <2>5. ASSUME NEW a \in Below(W), NEW b \in Below(W)
        PROVE  part[first + (a * W + b)] = CellAt(n, wi * W + a, wj * W + b)
    <3>1. PlaceOf(n, wi, wj, a, b) = first + (a * W + b)
      BY <2>3, <2>4
    <3> QED
      BY <1>2, <2>1, <3>1, PlaceRead
  <2>6. \A k \in Cells(W) : \E a, b \in Below(W) : k = a * W + b
    <3>1. \A k \in Cells(W) : /\ k \div W \in Below(W) /\ k % W \in Below(W)
                              /\ k = (k \div W) * W + (k % W)
      <4>1. W \in Nat
        BY <1>1
      <4> QED
        BY <1>1, <4>1, RowAndColumn DEF Cells
    <3> HIDE DEF W
    <3> QED
      BY <3>1, Zenon
  <2>7. \A a, b \in Below(W) : a * W + b \in Cells(W)
    BY <1>1, PlaceBelow DEF Cells
  <2>8. ASSUME NEW v \in Below(n), NEW a \in Below(W)
        PROVE  /\ (v \div W) * W + a < n => (v \div W) * W + a \in InWindowOf(v)
               /\ (v \div W) * W + a \in Nat
    <3>0. v \in Nat /\ a \in 0 .. W - 1
      BY DEF Below
    <3>1. v \div W \in Nat
      BY <1>1, <3>0, Division
    <3>2. (v \div W) * W + a \in Nat
      <4>1. (v \div W) * W \in Nat
        BY <1>1, <3>1
      <4> QED
        BY <3>0, <4>1
    <3>3. ((v \div W) * W + a) \div W = v \div W
      BY <1>1, <3>0, <3>1, QuotientUnique
    <3> QED
      BY <3>2, <3>3 DEF InWindowOf, Below
  <2>9. ASSUME NEW v, NEW u \in InWindowOf(v)
        PROVE  u \in Below(n) /\ u % W \in Below(W) /\ u = (v \div W) * W + (u % W)
    <3>1. u \in Below(n) /\ u \div W = v \div W
      BY DEF InWindowOf
    <3> QED
      BY <3>1, WindowsCover
  <2>10. ASSUME NEW k \in Cells(W), part[first + k] # Pad
         PROVE  part[first + k] \in CellsAt(n, InWindowOf(y), InWindowOf(x))
    <3>1. PICK a \in Below(W), b \in Below(W) : k = a * W + b
      BY <2>6
    <3>2. /\ wi * W + a < n /\ wj * W + b < n
          /\ part[first + k] = (wi * W + a) * n + (wj * W + b)
      BY <2>5, <2>10, <3>1 DEF CellAt
    <3>3. wi * W + a \in InWindowOf(y) /\ wj * W + b \in InWindowOf(x)
      BY <2>1, <2>8, <3>2
    <3> QED
      BY <3>2, <3>3 DEF CellsAt
  <2>11. ASSUME NEW u \in InWindowOf(y), NEW v \in InWindowOf(x)
         PROVE  u * n + v \in {part[first + k] : k \in Cells(W)} \ {Pad}
    <3>1. /\ u \in Below(n) /\ u % W \in Below(W) /\ u = wi * W + (u % W)
          /\ v \in Below(n) /\ v % W \in Below(W) /\ v = wj * W + (v % W)
      BY <2>9
    <3>2. part[first + ((u % W) * W + (v % W))] = CellAt(n, u, v)
      BY <2>5, <3>1
    <3>3. CellAt(n, u, v) = u * n + v /\ u * n + v # Pad
      <4>1. u \in Nat /\ v \in Nat /\ u < n /\ v < n /\ u * n \in Nat
        BY <3>1 DEF Below
      <4> QED
        BY <4>1 DEF CellAt, Pad
    <3>4. (u % W) * W + (v % W) \in Cells(W)
      BY <2>7, <3>1
    <3> HIDE DEF part
    <3> QED
      BY <3>2, <3>3, <3>4
  <2>12. {part[first + k] : k \in Cells(W)} \ {Pad} = CellsAt(n, InWindowOf(y), InWindowOf(x))
    <3> HIDE DEF part
    <3>1. \A h \in CellsAt(n, InWindowOf(y), InWindowOf(x)) :
            h \in {part[first + k] : k \in Cells(W)} \ {Pad}
      BY <2>11 DEF CellsAt
    <3> QED
      BY <2>10, <3>1
  <2> QED
    BY <2>12 DEF first, q, y, x
<1>9. ASSUME NEW o \in Cells(n)
      PROVE  Heads(AttendWindows("cpu", part, back)[o])
               = LET q == back[o] % (W * W)
                     first == back[o] - q
                 IN  {part[first + k] : k \in Cells(W)} \ {Pad}
  <2> DEFINE q == back[o] % (W * W)
             first == back[o] - q
             A == {<<part[first + k], Rel("cpu", FALSE, W, q \div W, k \div W),
                                      Rel("cpu", FALSE, W, q % W, k % W)>> : k \in Cells(W)}
  <2>1. AttendWindows("cpu", part, back)[o] = A
    <3> HIDE DEF part, back
    <3> QED
      BY <1>6, <1>9 DEF AttendWindows
  <2> HIDE DEF q, first, part, back
  <2> DEFINE e(k) == <<part[first + k], Rel("cpu", FALSE, W, q \div W, k \div W),
                                        Rel("cpu", FALSE, W, q % W, k % W)>>
  <2>2. \A k \in Cells(W) : e(k)[1] = part[first + k] /\ e(k) \in A
    OBVIOUS
  <2>3. \A t \in A : \E k \in Cells(W) : t = e(k)
    OBVIOUS
  <2> HIDE DEF A, e
  <2>4. ASSUME NEW h \in Heads(A) PROVE h \in {part[first + k] : k \in Cells(W)} \ {Pad}
    <3>1. PICK t \in A : t[1] # Pad /\ h = t[1]
      BY DEF Heads
    <3>2. PICK k \in Cells(W) : t = e(k)
      BY <2>3
    <3> QED
      BY <2>2, <3>1, <3>2
  <2>5. ASSUME NEW k \in Cells(W), part[first + k] # Pad PROVE part[first + k] \in Heads(A)
    BY <2>2, <2>5 DEF Heads
  <2>6. Heads(A) = {part[first + k] : k \in Cells(W)} \ {Pad}
    BY <2>4, <2>5
  <2> QED
    BY <2>1, <2>6 DEF q, first
<1>10. DOMAIN AttendWindows("cpu", part, back) = Cells(n)
  <2> HIDE DEF part, back
  <2> QED
    BY <1>6 DEF AttendWindows
<1> QED
  BY <1>8, <1>9, <1>10

\* Every cell of the grid.
LEMMA CellsInGrid ==
  ASSUME NEW n \in Nat
  PROVE  Cells(n) = CellsAt(n, Below(n), Below(n))
<1>1. CASE n = 0
  BY <1>1 DEF Cells, CellsAt, Below
<1>2. CASE n # 0
  <2>1. \A o \in Cells(n) : o \div n \in Below(n) /\ o % n \in Below(n) /\ o = (o \div n) * n + (o % n)
    BY <1>2, RowAndColumn DEF Cells
  <2>2. \A y, x \in Below(n) : y * n + x \in Cells(n)
    BY <1>2, PlaceBelow DEF Cells
  <2>3. \A o \in Cells(n) : \E y, x \in Below(n) : o = y * n + x
    BY <2>1, Zenon
  <2> QED
    BY <2>2, <2>3 DEF CellsAt
<1> QED
  BY <1>1, <1>2

LEMMA GridReads ==
  ASSUME NEW n \in Nat \ {0}
  PROVE  LET rd == AttendGrid("cpu", n)
         IN  /\ DOMAIN rd = Cells(n)
             /\ \A o \in Cells(n) : Heads(rd[o]) = CellsAt(n, Below(n), Below(n))
<1> DEFINE rd == AttendGrid("cpu", n)
<1>1. DOMAIN rd = Cells(n)
  BY DEF AttendGrid
<1>2. ASSUME NEW o \in Cells(n) PROVE Heads(rd[o]) = CellsAt(n, Below(n), Below(n))
  <2> DEFINE e(k) == <<k, Rel("cpu", TRUE, n, o \div n, k \div n), Rel("cpu", TRUE, n, o % n, k % n)>>
             A == {e(k) : k \in Cells(n)}
  <2>1. rd[o] = A
    BY DEF AttendGrid
  <2>2. \A k \in Cells(n) : e(k)[1] = k /\ e(k) \in A
    OBVIOUS
  <2>0. \A k \in Cells(n) : k # Pad
    BY DEF Cells, Below, Pad
  <2>3. \A t \in A : \E k \in Cells(n) : t = e(k)
    OBVIOUS
  <2> HIDE DEF A, e
  <2>4. \A h \in Heads(A) : h \in Cells(n)
    BY <2>2, <2>3 DEF Heads
  <2>5. \A k \in Cells(n) : k \in Heads(A)
    BY <2>0, <2>2 DEF Heads
  <2> QED
    BY <2>1, <2>4, <2>5, CellsInGrid
<1> QED
  BY <1>1, <1>2

\* The rows a block reads for a row.
BlockRows(b, r) == IF IsGlobal(b) THEN Below(Grid) ELSE InWindowOf(r)

LEMMA BlockReads ==
  ASSUME Grid \in Nat \ {0}
  PROVE  /\ DOMAIN CpuAttend(Grid) = Cells(Grid)
         /\ \A o \in Cells(Grid) :
              Heads(CpuAttend(Grid)[o])
                = CellsAt(Grid, BlockRows(block, o \div Grid), BlockRows(block, o % Grid))
<1>1. CASE IsGlobal(block)
  BY <1>1, GridReads DEF CpuAttend, BlockRows
<1>2. CASE ~ IsGlobal(block)
  <2>1. CpuAttend(Grid) = AttendWindows("cpu", GpuPartition(Grid), GpuUnpartition(Grid))
    BY <1>2, PartitionsAgree, UnpartitionsAgree DEF CpuAttend
  <2> QED
    BY <1>2, <2>1, WindowReads DEF BlockRows
<1> QED
  BY <1>1, <1>2

\* One more block brings a row what the rows it reads held.
LEMMA BlockMixes ==
  ASSUME Grid \in Nat \ {0}, NEW b \in Nat, NEW r \in Below(Grid)
  PROVE  /\ BlockRows(b, r) \subseteq Below(Grid) /\ r \in BlockRows(b, r)
         /\ UNION {From("blocks", b, y) : y \in BlockRows(b, r)} = From("blocks", b + 1, r)
         /\ From("blocks", b, r) \subseteq From("blocks", b + 1, r)
<1>1. BlockRows(b, r) \subseteq Below(Grid) /\ r \in BlockRows(b, r)
  BY DEF BlockRows, InWindowOf
<1>2. \A c, y : From("blocks", c, y) = Mixed(c, y)
  BY DEF From, Reach
<1>3. ~ IsGlobal(0) /\ ~ IsGlobal(1) /\ IsGlobal(2)
  BY DEF IsGlobal
<1>4. UNION {Mixed(b, y) : y \in BlockRows(b, r)} = Mixed(b + 1, r)
  <2>1. CASE b = 0
    <3>1. BlockRows(b, r) = InWindowOf(r) /\ Mixed(b + 1, r) = InWindowOf(r) /\ \A y : Mixed(b, y) = {y}
      BY <1>3, <2>1 DEF BlockRows, Mixed
    <3> HIDE DEF InWindowOf
    <3> QED
      BY <3>1
  <2>2. CASE b = 1
    <3>1. /\ BlockRows(b, r) = InWindowOf(r) /\ Mixed(b + 1, r) = InWindowOf(r)
          /\ \A y : Mixed(b, y) = InWindowOf(y)
      BY <1>3, <2>2 DEF BlockRows, Mixed
    <3>2. \A y \in InWindowOf(r) : InWindowOf(y) = InWindowOf(r)
      BY DEF InWindowOf
    <3> QED
      BY <1>1, <3>1, <3>2
  <2>3. CASE b = 2
    <3>1. /\ BlockRows(b, r) = Below(Grid) /\ Mixed(b + 1, r) = Below(Grid)
          /\ \A y : Mixed(b, y) = InWindowOf(y)
      BY <1>3, <2>3 DEF BlockRows, Mixed
    <3>2. \A y \in Below(Grid) : y \in InWindowOf(y) /\ InWindowOf(y) \subseteq Below(Grid)
      BY DEF InWindowOf
    <3> HIDE DEF Below
    <3> QED
      BY <3>1, <3>2
  <2>4. CASE b >= 3
    <3>1. Mixed(b + 1, r) = Below(Grid) /\ \A y : Mixed(b, y) = Below(Grid)
      BY <2>4 DEF Mixed
    <3> QED
      BY <1>1, <3>1
  <2> QED
    BY <2>1, <2>2, <2>3, <2>4
<1>5. UNION {From("blocks", b, y) : y \in BlockRows(b, r)} = From("blocks", b + 1, r)
  BY <1>2, <1>4
<1> QED
  BY <1>1, <1>5

-----------------------------------------------------------------------------
(* The stages. *)

LEMMA GridOfView ==
  ASSUME SeenInv
  PROVE  /\ Grid \in Nat \ {0} /\ view \in Nat \ {0}
         /\ CpuSide("patch", view) = Grid /\ CpuSide("neck", Grid) = Grid
         /\ \A n \in Nat \ {0} : CpuSide("net2", n) = Halved(n) /\ CpuSide("net3", n) = Halved(n)
<1>1. view \in Nat \ {0} /\ view >= Patch /\ Patch \in Nat \ {0}
  BY EncoderAssumption DEF SeenInv
<1>2. "patch" \in DOMAIN Conv
  BY DEF Conv
<1>3. CpuSide("patch", view) = GpuSide("patch", view) /\ GpuSide("patch", view) \in Nat \ {0}
  BY <1>1, <1>2, SidesAgree
<1>4. GpuSide("patch", view) = Grid
  BY DEF GpuSide, Grid
<1>5. Grid \in Nat \ {0}
  BY <1>3, <1>4
<1>6. \A n \in Nat \ {0} : CpuSide("net2", n) = Halved(n) /\ CpuSide("net3", n) = Halved(n)
  BY DEF CpuSide, Conv, Halved
<1>7. CpuSide("neck", Grid) = (Grid + 2 * 1 - 3) \div 1 + 1
  BY DEF CpuSide, Conv
<1>8. CpuSide("neck", Grid) = Grid
  BY <1>5, <1>7
<1> QED
  BY <1>1, <1>3, <1>4, <1>5, <1>6, <1>8

\* A stage that holds of the same view.
LEMMA SeenKept ==
  ASSUME view' = view, depth' = depth, EncInv', view \in Views, depth \in Depths,
         stage' \in EncStages,
         stage' \in {"patch", "position"} => block' = 0,
         stage' = "blocks" => block' \in 0 .. depth - 1,
         stage' \notin {"patch", "position", "blocks"} => block' = depth,
         side'["cpu"] = SideAt(stage'), field'["cpu"] = FieldAt(stage', block')
  PROVE  SeenInv'
<1>1. SideAt(stage)' = SideAt(stage')
  BY DEF SideAt, Grid
<1>2. \A s, b : FieldAt(s, b)' = FieldAt(s, b)
  BY DEF FieldAt, SideAt, From, Reach, Mixed, Span, InWindowOf, PixelsOf, Grid
<1>3. FieldAt(stage, block)' = FieldAt(stage', block')
  BY <1>2
<1> QED
  BY <1>1, <1>3 DEF SeenInv

\* One of the three convolutions after the blocks.
LEMMA ConvolutionSees ==
  ASSUME SeenInv, NEW s \in {"neck", "net2", "net3"}, NEW then \in {"net2", "net3", "clip"},
         Convolve(s, then), CpuSide(s, SideAt(s)) = SideAt(then), SideAt(s) \in Nat \ {0},
         SideAt(then) \in Nat \ {0},
         \A r \in Below(SideAt(then)) :
           UNION {From(s, block, y) : y \in TapRows(Conv[s], SideAt(s), r)} = From(then, block, r)
  PROVE  SeenInv'
<1> DEFINE n == SideAt(s)
           m == SideAt(then)
<1>1. /\ side["cpu"] = n /\ stage = s /\ block = depth
      /\ field["cpu"] = [o \in Cells(n) |-> PixelsOf(From(s, block, o \div n), From(s, block, o % n))]
  BY DEF SeenInv, Convolve, FieldAt
<1>2. /\ side'["cpu"] = m /\ reads'["cpu"] = Conv2d(Conv[s], n, m)
      /\ field'["cpu"] = [o \in DOMAIN reads'["cpu"] |-> Reached("cpu", reads'["cpu"][o])]
      /\ view' = view /\ depth' = depth /\ block' = block /\ stage' = then
  BY <1>1 DEF Convolve, Path
<1>3. Conv[s] \in Kernel
  <2>1. s \in DOMAIN Conv
    BY DEF Conv
  <2> QED
    BY <2>1, ConvKernels
<1> HIDE DEF n, m
<1>4. n \in Nat \ {0} /\ m \in Nat \ {0}
  BY DEF n, m
<1>5. /\ m \in Nat \ {0} => DOMAIN Conv2d(Conv[s], n, m) = Cells(m)
      /\ \A o \in Cells(m) : Reached("cpu", Conv2d(Conv[s], n, m)[o])
           = PixelsOf(From(then, block, o \div m), From(then, block, o % m))
  <2>1. ASSUME NEW o \in Cells(m)
        PROVE  /\ DOMAIN Conv2d(Conv[s], n, m) = Cells(m)
               /\ Reached("cpu", Conv2d(Conv[s], n, m)[o])
                    = PixelsOf(From(then, block, o \div m), From(then, block, o % m))
    <3> DEFINE R == TapRows(Conv[s], n, o \div m)
               C == TapRows(Conv[s], n, o % m)
               rd == Conv2d(Conv[s], n, m)[o]
    <3>1. DOMAIN Conv2d(Conv[s], n, m) = Cells(m) /\ Heads(rd) = CellsAt(n, R, C)
      BY <1>3, <1>4, ConvolutionReads
    <3>2. R \in SUBSET Below(n) /\ C \in SUBSET Below(n)
      BY DEF TapRows
    <3>3. o \div m \in Below(m) /\ o % m \in Below(m)
      BY <1>4, RowAndColumn DEF Cells
    <3>4. /\ UNION {From(s, block, y) : y \in R} = From(then, block, o \div m)
          /\ UNION {From(s, block, x) : x \in C} = From(then, block, o % m)
      BY <3>3 DEF n, m
    <3> HIDE DEF R, C, rd
    <3>5. Reached("cpu", rd)
            = PixelsOf(UNION {From(s, block, y) : y \in R}, UNION {From(s, block, x) : x \in C})
      BY <1>1, <1>4, <3>1, <3>2, ReachedBy
    <3> QED
      BY <3>1, <3>4, <3>5 DEF rd
  <2>2. DOMAIN Conv2d(Conv[s], n, m) = Cells(m)
    BY DEF Conv2d
  <2> QED
    BY <2>1, <2>2
<1>6. field'["cpu"] = FieldAt(stage', block')
  BY <1>2, <1>4, <1>5 DEF FieldAt, m
<1>7. EncInv'
  <2>1. s \in DOMAIN Conv /\ then # "patch"
    BY DEF Conv
  <2> QED
    BY <2>1, ConvolveInv DEF SeenInv
<1>8. SideAt(stage') = side'["cpu"]
  BY <1>2 DEF m
<1> QED
  BY <1>1, <1>2, <1>6, <1>7, <1>8, SeenKept DEF SeenInv, EncStages

LEMMA ConvolveSeen ==
  ASSUME SeenInv,
         Convolve("neck", "net2") \/ Convolve("net2", "net3") \/ Convolve("net3", "clip")
  PROVE  SeenInv'
<1>1. /\ Grid \in Nat \ {0} /\ CpuSide("neck", Grid) = Grid
      /\ \A n \in Nat \ {0} : CpuSide("net2", n) = Halved(n) /\ CpuSide("net3", n) = Halved(n)
  BY GridOfView
<1>2. Halved(Grid) \in Nat \ {0} /\ Halved(Halved(Grid)) \in Nat \ {0}
  BY <1>1, HalvedSide
<1>3. /\ SideAt("neck") = Grid /\ SideAt("net2") = Grid
      /\ SideAt("net3") = Halved(Grid) /\ SideAt("clip") = Halved(Halved(Grid))
  BY DEF SideAt
<1>4. CASE Convolve("neck", "net2")
  <2>1. \A r \in Below(Grid) :
          UNION {From("neck", block, y) : y \in TapRows(Conv["neck"], Grid, r)} = From("net2", block, r)
    <3> TAKE r \in Below(Grid)
    <3>1. r \in Nat
      BY DEF Below
    <3>2. TapRows(Conv["neck"], Grid, r) = (r - 1 .. r + 1) \cap Below(Grid)
      BY <1>1, <3>1, TapsOfKernels
    <3> QED
      BY <1>1, <3>2, FromNext
  <2> QED
    BY <1>1, <1>3, <1>4, <2>1, ConvolutionSees
<1>5. CASE Convolve("net2", "net3")
  <2>1. \A r \in Below(Halved(Grid)) :
          UNION {From("net2", block, y) : y \in TapRows(Conv["net2"], Grid, r)} = From("net3", block, r)
    <3> TAKE r \in Below(Halved(Grid))
    <3>1. r \in Nat
      BY DEF Below
    <3>2. TapRows(Conv["net2"], Grid, r) = (2 * r - 1 .. 2 * r + 1) \cap Below(Grid)
      BY <1>1, <3>1, TapsOfKernels
    <3> QED
      BY <1>1, <3>2, FromNext
  <2> QED
    BY <1>1, <1>2, <1>3, <1>5, <2>1, ConvolutionSees
<1>6. CASE Convolve("net3", "clip")
  <2>1. \A r \in Below(Halved(Halved(Grid))) :
          UNION {From("net3", block, y) : y \in TapRows(Conv["net3"], Halved(Grid), r)}
            = From("clip", block, r)
    <3> TAKE r \in Below(Halved(Halved(Grid)))
    <3>1. r \in Nat
      BY DEF Below
    <3>2. TapRows(Conv["net3"], Halved(Grid), r) = (2 * r - 1 .. 2 * r + 1) \cap Below(Halved(Grid))
      BY <1>2, <3>1, TapsOfKernels
    <3> QED
      BY <1>1, <3>2, FromNext
  <2> QED
    BY <1>1, <1>2, <1>3, <1>6, <2>1, ConvolutionSees
<1> QED
  BY <1>4, <1>5, <1>6

LEMMA PatchesSeen ==
  ASSUME SeenInv, Convolve("patch", "position")
  PROVE  SeenInv'
<1>1. /\ Grid \in Nat \ {0} /\ view \in Nat \ {0} /\ CpuSide("patch", view) = Grid
  BY GridOfView
<1>2. /\ side["cpu"] = view /\ stage = "patch" /\ block = 0
      /\ field["cpu"] = [px \in Cells(view) |-> {px}]
  BY DEF SeenInv, Convolve, FieldAt, SideAt
<1>3. /\ side'["cpu"] = Grid /\ reads'["cpu"] = Conv2d(Conv["patch"], view, Grid)
      /\ field'["cpu"] = [o \in DOMAIN reads'["cpu"] |-> Reached("cpu", reads'["cpu"][o])]
      /\ view' = view /\ depth' = depth /\ block' = block /\ stage' = "position"
  BY <1>1, <1>2 DEF Convolve, Path
<1>4. Conv["patch"] \in Kernel /\ "patch" \in DOMAIN Conv
  BY ConvKernels DEF Conv
<1>5. \A r : From("position", 0, r) = {r}
  BY DEF From, Mixed, Reach
<1>6. ASSUME NEW o \in Cells(Grid)
      PROVE  Reached("cpu", Conv2d(Conv["patch"], view, Grid)[o])
               = PixelsOf({o \div Grid}, {o % Grid})
  <2> DEFINE r == o \div Grid
             c == o % Grid
             R == {v \in Below(view) : v \div Patch = r}
             C == {v \in Below(view) : v \div Patch = c}
             rd == Conv2d(Conv["patch"], view, Grid)[o]
  <2>1. r \in Nat /\ c \in Nat
    BY <1>1, RowAndColumn DEF Cells, Below
  <2>2. Heads(rd) = CellsAt(view, TapRows(Conv["patch"], view, r), TapRows(Conv["patch"], view, c))
    BY <1>1, <1>4, ConvolutionReads
  <2> HIDE DEF r, c, rd
  <2>3. TapRows(Conv["patch"], view, r) = R /\ TapRows(Conv["patch"], view, c) = C
    BY <1>1, <2>1, TapsOfKernels
  <2>4. Heads(rd) = CellsAt(view, R, C)
    BY <2>2, <2>3
  <2>5. CellsAt(view, R, C) = PixelsOf({r}, {c})
    BY DEF CellsAt, PixelsOf
  <2>6. CellsAt(view, R, C) \subseteq Cells(view)
    BY <1>1, PlaceBelow DEF CellsAt, Cells
  <2>7. Reached("cpu", rd) = UNION {field["cpu"][h] : h \in Heads(rd)}
    BY DEF Reached, Heads
  <2> HIDE DEF R, C
  <2>8. \A h \in Heads(rd) : field["cpu"][h] = {h}
    BY <1>2, <2>4, <2>6
  <2>9. Reached("cpu", rd) = Heads(rd)
    BY <2>7, <2>8
  <2> QED
    BY <2>4, <2>5, <2>9 DEF rd, r, c
<1>7. DOMAIN Conv2d(Conv["patch"], view, Grid) = Cells(Grid)
  BY DEF Conv2d
<1>8. SideAt("position") = Grid
  BY DEF SideAt
<1>9. field'["cpu"] = FieldAt("position", 0)
  BY <1>3, <1>5, <1>6, <1>7, <1>8 DEF FieldAt
<1>10. EncInv'
  BY <1>4, ConvolveInv DEF SeenInv
<1> QED
  BY <1>2, <1>3, <1>8, <1>9, <1>10, SeenKept DEF SeenInv, EncStages

LEMMA AttendSeen ==
  ASSUME SeenInv, Attend
  PROVE  SeenInv'
<1>1. Grid \in Nat \ {0}
  BY GridOfView
<1>2. SideAt("blocks") = Grid /\ SideAt("neck") = Grid
  BY DEF SideAt
<1>3. /\ side["cpu"] = Grid /\ stage = "blocks" /\ block \in Nat /\ block \in 0 .. depth - 1
      /\ depth \in Nat
      /\ field["cpu"] = [o \in Cells(Grid) |->
           PixelsOf(From("blocks", block, o \div Grid), From("blocks", block, o % Grid))]
  BY <1>2, EncoderAssumption DEF SeenInv, Attend, FieldAt
<1>4. /\ side' = side /\ view' = view /\ depth' = depth /\ block' = block + 1
      /\ stage' = IF block' = depth THEN "neck" ELSE "blocks"
      /\ reads'["cpu"] = CpuAttend(Grid)
      /\ field'["cpu"] = [o \in DOMAIN field["cpu"] |->
           field["cpu"][o] \cup (IF o \in DOMAIN reads'["cpu"] THEN Reached("cpu", reads'["cpu"][o]) ELSE {})]
  BY <1>3 DEF Attend, Path
<1>5. DOMAIN field["cpu"] = Cells(Grid) /\ DOMAIN CpuAttend(Grid) = Cells(Grid)
  BY <1>1, <1>3, BlockReads
<1>6. ASSUME NEW o \in Cells(Grid)
      PROVE  field["cpu"][o] \cup Reached("cpu", CpuAttend(Grid)[o])
               = PixelsOf(From("blocks", block + 1, o \div Grid), From("blocks", block + 1, o % Grid))
  <2> DEFINE r == o \div Grid
             c == o % Grid
             rd == CpuAttend(Grid)[o]
  <2>1. r \in Below(Grid) /\ c \in Below(Grid)
    BY <1>1, RowAndColumn DEF Cells
  <2>2. Heads(rd) = CellsAt(Grid, BlockRows(block, r), BlockRows(block, c))
    BY <1>1, BlockReads
  <2> HIDE DEF r, c, rd
  <2>3. \A v \in {r, c} :
          /\ BlockRows(block, v) \in SUBSET Below(Grid)
          /\ UNION {From("blocks", block, y) : y \in BlockRows(block, v)} = From("blocks", block + 1, v)
          /\ From("blocks", block, v) \subseteq From("blocks", block + 1, v)
    BY <1>1, <1>3, <2>1, BlockMixes
  <2>4. Reached("cpu", rd)
          = PixelsOf(UNION {From("blocks", block, y) : y \in BlockRows(block, r)},
                     UNION {From("blocks", block, x) : x \in BlockRows(block, c)})
    <3> DEFINE R == BlockRows(block, r)
               C == BlockRows(block, c)
    <3>1. R \in SUBSET Below(Grid) /\ C \in SUBSET Below(Grid) /\ Heads(rd) = CellsAt(Grid, R, C)
      BY <2>2, <2>3
    <3> HIDE DEF R, C
    <3>2. Reached("cpu", rd)
            = PixelsOf(UNION {From("blocks", block, y) : y \in R},
                       UNION {From("blocks", block, x) : x \in C})
      BY <1>1, <1>3, <3>1, ReachedBy
    <3> QED
      BY <3>2 DEF R, C
  <2>5. Reached("cpu", rd) = PixelsOf(From("blocks", block + 1, r), From("blocks", block + 1, c))
    BY <2>3, <2>4
  <2>6. field["cpu"][o] = PixelsOf(From("blocks", block, r), From("blocks", block, c))
    BY <1>3 DEF r, c
  <2>7. PixelsOf(From("blocks", block, r), From("blocks", block, c))
          \subseteq PixelsOf(From("blocks", block + 1, r), From("blocks", block + 1, c))
    <3>1. \A px \in PixelsOf(From("blocks", block, r), From("blocks", block, c)) :
            px \in PixelsOf(From("blocks", block + 1, r), From("blocks", block + 1, c))
      BY <2>3, PixelIn
    <3> QED
      BY <3>1
  <2> QED
    BY <2>5, <2>6, <2>7 DEF r, c, rd
<1>7. field'["cpu"] = [o \in Cells(Grid) |->
         PixelsOf(From("blocks", block + 1, o \div Grid), From("blocks", block + 1, o % Grid))]
  BY <1>4, <1>5, <1>6
<1>8. \A b, r : From("neck", b, r) = From("blocks", b, r)
  BY DEF From, Reach
<1>9. stage' \in {"neck", "blocks"}
  BY <1>4
<1>10. field'["cpu"] = FieldAt(stage', block') /\ SideAt(stage') = Grid
  BY <1>2, <1>4, <1>7, <1>8, <1>9 DEF FieldAt
<1>11. EncInv'
  BY AttendInv DEF SeenInv
<1>12. stage' = "blocks" => block' \in 0 .. depth - 1
  BY <1>3, <1>4
<1>13. stage' = "neck" => block' = depth
  BY <1>4
<1> QED
  BY <1>3, <1>4, <1>9, <1>10, <1>11, <1>12, <1>13, SeenKept DEF SeenInv, EncStages

\* The steps that leave what a cell of SAM was computed from.
LEMMA OthersSeen ==
  ASSUME SeenInv, Positions \/ Clip \/ ClipLayer \/ Return2D
  PROVE  SeenInv'
<1>1. /\ view' = view /\ depth' = depth /\ block' = block /\ side' = side /\ field' = field
  BY DEF Positions, Clip, ClipLayer, Return2D
<1>2. EncInv'
  BY OthersInv, ClipAgrees DEF SeenInv
<1>3. \A b, r : /\ From("position", b, r) = From("blocks", b, r)
                /\ From("neck", b, r) = From("blocks", b, r)
                /\ \A s \in {"clip", "layers", "done"} : From(s, b, r) = From("layout", b, r)
  BY DEF From, Reach
<1>4. /\ SideAt("position") = SideAt("blocks") /\ SideAt("neck") = SideAt("blocks")
      /\ \A s \in {"clip", "layers", "done"} : SideAt(s) = SideAt("layout")
  BY DEF SideAt
<1>5. \A b : /\ FieldAt("position", b) = FieldAt("blocks", b)
             /\ FieldAt("neck", b) = FieldAt("blocks", b)
             /\ \A s \in {"clip", "layers", "done"} : FieldAt(s, b) = FieldAt("layout", b)
  BY <1>3, <1>4 DEF FieldAt
<1>6. depth \in Nat
  BY EncoderAssumption DEF SeenInv
<1>7. CASE Positions
  <2>1. stage = "position" /\ stage' = IF depth = 0 THEN "neck" ELSE "blocks"
    BY <1>7 DEF Positions
  <2>2. block = 0
    BY <2>1 DEF SeenInv
  <2>3. stage' = "blocks" => block' \in 0 .. depth - 1
    BY <1>1, <1>6, <2>1, <2>2
  <2>4. side'["cpu"] = SideAt(stage') /\ field'["cpu"] = FieldAt(stage', block')
    BY <1>1, <1>4, <1>5, <2>1 DEF SeenInv
  <2> QED
    BY <1>1, <1>2, <2>1, <2>2, <2>3, <2>4, SeenKept DEF SeenInv, EncStages
<1>8. CASE Clip \/ ClipLayer \/ Return2D
  <2>1. stage \in {"clip", "layers", "layout"} /\ stage' \in {"layers", "layout", "done"}
    BY <1>8 DEF Clip, ClipLayer, Return2D
  <2>2. side'["cpu"] = SideAt(stage') /\ field'["cpu"] = FieldAt(stage', block')
    <3>1. SideAt(stage) = SideAt("layout") /\ SideAt(stage') = SideAt("layout")
      BY <1>4, <2>1
    <3>2. FieldAt(stage, block) = FieldAt("layout", block) /\ FieldAt(stage', block) = FieldAt("layout", block)
      BY <1>5, <2>1
    <3> QED
      BY <1>1, <3>1, <3>2 DEF SeenInv
  <2> QED
    BY <1>1, <1>2, <2>1, <2>2, SeenKept DEF SeenInv, EncStages
<1> QED
  BY <1>7, <1>8

LEMMA SeenInit == EncInit => SeenInv
<1> SUFFICES ASSUME EncInit PROVE SeenInv
  OBVIOUS
<1>1. EncInv
  BY EncInitInv
<1>2. /\ view \in Views /\ depth \in Depths /\ stage = "patch" /\ block = 0
      /\ side["cpu"] = view /\ field["cpu"] = [px \in Cells(view) |-> {px}]
  BY DEF EncInit, Path
<1> QED
  BY <1>1, <1>2 DEF SeenInv, EncStages, SideAt, FieldAt

LEMMA SeenStep == SeenInv /\ [EncNext]_encVars => SeenInv'
<1> SUFFICES ASSUME SeenInv, [EncNext]_encVars PROVE SeenInv'
  OBVIOUS
<1>1. CASE Convolve("patch", "position")
  BY <1>1, PatchesSeen
<1>2. CASE Attend
  BY <1>2, AttendSeen
<1>3. CASE Convolve("neck", "net2") \/ Convolve("net2", "net3") \/ Convolve("net3", "clip")
  BY <1>3, ConvolveSeen
<1>4. CASE Positions \/ Clip \/ ClipLayer \/ Return2D
  BY <1>4, OthersSeen
<1>5. CASE UNCHANGED encVars
  <2>1. /\ view' = view /\ depth' = depth /\ block' = block /\ side' = side /\ field' = field
        /\ stage' = stage
    BY <1>5 DEF encVars
  <2>2. EncInv'
    BY EncStep DEF SeenInv
  <2> QED
    BY <2>1, <2>2, SeenKept DEF SeenInv
<1> QED
  BY <1>1, <1>2, <1>3, <1>4, <1>5 DEF EncNext

\* What reaches a token of the final grid, in the words of the property.
LEMMA SeenIsReached ==
  ASSUME Grid \in Nat \ {0}, depth \in Nat, NEW r \in Below(Halved(Halved(Grid)))
  PROVE  From("clip", depth, r) = Seen(r)
<1>1. From("clip", depth, r) = UNION {Mixed(depth, j) : j \in Near(r)}
  BY DEF From, Reach, Span, Near
<1>2. CASE depth >= 3
  <2>1. Halved(Grid) \in Nat \ {0} /\ Grid - 1 \in 2 * (Halved(Grid) - 1) .. 2 * (Halved(Grid) - 1) + 1
    BY HalvedSide
  <2>2. 2 * r \in Below(Halved(Grid))
    BY <2>1, SpanDoubles
  <2>3. 2 * (2 * r) \in Below(Grid)
    BY <2>1, <2>2, SpanDoubles
  <2>4. 4 * r \in Near(r)
    BY <2>3 DEF Near, Below
  <2>5. \A j : Mixed(depth, j) = Below(Grid)
    BY <1>2 DEF Mixed
  <2>6. UNION {Mixed(depth, j) : j \in Near(r)} = Below(Grid)
    <3> HIDE DEF Near
    <3> QED
      BY <2>4, <2>5
  <2> QED
    BY <1>1, <1>2, <2>6 DEF Seen
<1>3. CASE depth = 0
  <2>1. \A j : Mixed(depth, j) = {j}
    BY <1>3 DEF Mixed
  <2>2. Seen(r) = Near(r)
    BY <1>3 DEF Seen
  <2> QED
    BY <1>1, <2>1, <2>2
<1>4. CASE depth \in 1 .. 2
  <2>1. \A j : Mixed(depth, j) = {i \in Below(Grid) : i \div Window = j \div Window}
    BY <1>4 DEF Mixed, InWindowOf
  <2>2. Seen(r) = {i \in Below(Grid) : \E j \in Near(r) : i \div Window = j \div Window}
    BY <1>4 DEF Seen
  <2> QED
    BY <1>1, <2>1, <2>2
<1> QED
  BY <1>2, <1>3, <1>4

LEMMA SeenGivesPlace ==
  ASSUME SeenInv, stage \in {"clip", "layers", "layout", "done"},
         NEW p \in Path, NEW t \in Cells(side[p])
  PROVE  field[p][t] = PixelsOf(Seen(t \div side[p]), Seen(t % side[p]))
<1> DEFINE n == Halved(Halved(Grid))
<1>1. Grid \in Nat \ {0} /\ n \in Nat \ {0}
  BY GridOfView, HalvedSide
<1>2. depth \in Nat
  BY EncoderAssumption DEF SeenInv
<1>3. field[p] = field["cpu"] /\ side[p] = side["cpu"]
  BY DEF SeenInv, EncInv, EncodersAgree, Path
<1>4. side["cpu"] = n /\ block = depth
  BY DEF SeenInv, SideAt
<1>5. \A r : From(stage, depth, r) = From("clip", depth, r)
  BY DEF From, Reach
<1>6. field["cpu"] = [o \in Cells(n) |->
         PixelsOf(From("clip", depth, o \div n), From("clip", depth, o % n))]
  <2>1. field["cpu"] = FieldAt(stage, depth) /\ SideAt(stage) = n
    BY <1>4 DEF SeenInv
  <2>2. FieldAt(stage, depth) = [o \in Cells(n) |->
          PixelsOf(From(stage, depth, o \div n), From(stage, depth, o % n))]
    BY <2>1 DEF FieldAt
  <2> QED
    BY <1>5, <2>1, <2>2
<1> HIDE DEF n
<1>7. t \div n \in Below(n) /\ t % n \in Below(n)
  BY <1>1, <1>3, <1>4, RowAndColumn DEF Cells
<1>8. From("clip", depth, t \div n) = Seen(t \div n) /\ From("clip", depth, t % n) = Seen(t % n)
  BY <1>1, <1>2, <1>7, SeenIsReached DEF n
<1> QED
  BY <1>3, <1>4, <1>6, <1>8

\* Every row of the grid is seen by one of the tokens.
LEMMA RowsSeen ==
  ASSUME Grid \in Nat \ {0}, NEW n, n = Halved(Halved(Grid))
  PROVE  UNION {Seen(r) : r \in Below(n)} = Below(Grid)
<1>1. n \in Nat \ {0} /\ Grid - 1 <= 4 * (n - 1) + 3
  <2>1. Halved(Grid) \in Nat \ {0} /\ Grid - 1 <= 2 * (Halved(Grid) - 1) + 1
    BY HalvedSide
  <2>2. n \in Nat \ {0} /\ Halved(Grid) - 1 <= 2 * (n - 1) + 1
    BY <2>1, HalvedSide
  <2> QED
    BY <2>1, <2>2
<1>2. \A r : Seen(r) \subseteq Below(Grid)
  BY DEF Seen, Near
<1>3. ASSUME NEW i \in Below(Grid) PROVE \E r \in Below(n) : i \in Seen(r)
  <2> DEFINE r == i \div 4
  <2>1. i \in Nat /\ i <= Grid - 1
    BY DEF Below
  <2>2. r \in Nat /\ 4 * r <= i /\ i <= 4 * r + 3
    BY <2>1
  <2> HIDE DEF r
  <2>3. r \in Below(n)
    BY <1>1, <2>1, <2>2 DEF Below
  <2>4. i \in Near(r)
    BY <2>1, <2>2 DEF Near
  <2>5. i \in Seen(r)
    BY <2>4 DEF Seen
  <2> QED
    BY <2>3, <2>5
<1> HIDE DEF Below
<1> QED
  BY <1>2, <1>3

\* And every pixel of the grid by one of them.
WholeGrid == PixelsOf(Below(Grid), Below(Grid))

LEMMA WholeSeen ==
  ASSUME SeenInv, stage \in {"clip", "layers", "layout", "done"}
  PROVE  UNION {field["cpu"][t] : t \in Cells(side["cpu"])} = WholeGrid
<1> DEFINE n == side["cpu"]
           I == {Seen(r) : r \in Below(n)}
           S == {field["cpu"][t] : t \in Cells(n)}
<1>1. n = Halved(Halved(Grid)) /\ Grid \in Nat \ {0}
  BY GridOfView DEF SeenInv, SideAt
<1>2. n \in Nat \ {0}
  BY <1>1, HalvedSide
<1>3. \A t \in Cells(n) : field["cpu"][t] = PixelsOf(Seen(t \div n), Seen(t % n))
  BY SeenGivesPlace DEF Path
<1>4. UNION I = Below(Grid)
  BY <1>1, RowsSeen
<1> HIDE DEF n
<1>5. \A p \in S : \E i \in I, j \in I : p = PixelsOf(i, j)
  <2> TAKE p \in S
  <2>1. PICK t \in Cells(n) : p = PixelsOf(Seen(t \div n), Seen(t % n))
    BY <1>3
  <2>2. t \div n \in Below(n) /\ t % n \in Below(n)
    BY <1>2, RowAndColumn DEF Cells
  <2> QED
    BY <2>1, <2>2
<1>6. \A i \in I, j \in I : PixelsOf(i, j) \in S
  <2> TAKE i \in I, j \in I
  <2>1. PICK r \in Below(n), c \in Below(n) : i = Seen(r) /\ j = Seen(c)
    OBVIOUS
  <2>2. r * n + c \in Cells(n) /\ (r * n + c) \div n = r /\ (r * n + c) % n = c
    BY <1>2, PlaceBelow, QuotientUnique DEF Cells, Below
  <2>3. field["cpu"][r * n + c] = PixelsOf(i, j)
    BY <1>3, <2>1, <2>2
  <2> QED
    BY <2>2, <2>3
<1> HIDE DEF I, S
<1>7. UNION S = PixelsOf(UNION I, UNION I)
  BY <1>5, <1>6, PixelsUnited
<1> QED
  BY <1>4, <1>7 DEF S, n, WholeGrid

\* What reaches a row of CLIP: with the embedding a token's own cell, with the
\* first layer everything.
ClipAt(l, r) == IF l > 0 THEN WholeGrid ELSE IF r = 0 THEN {} ELSE field["cpu"][r - 1]
ClipStages == {"layers", "layout", "done"}
ClipInv ==
  /\ SeenInv
  /\ clipDepth \in ClipDepths
  /\ stage \notin ClipStages => layer = 0
  /\ stage = "layers" => layer \in 0 .. clipDepth - 1
  /\ stage \in {"layout", "done"} => layer = clipDepth
  /\ stage \in ClipStages =>
       clip["cpu"] = [r \in Below(ClipRows(side["cpu"])) |-> ClipAt(layer, r)]

\* A stage that holds of the same view.
LEMMA ClipKept ==
  ASSUME SeenInv', view' = view, clipDepth' = clipDepth, field' = field, side' = side,
         clipDepth \in ClipDepths,
         stage' \in ClipStages,
         stage' = "layers" => layer' \in 0 .. clipDepth - 1,
         stage' \in {"layout", "done"} => layer' = clipDepth,
         clip'["cpu"] = [r \in Below(ClipRows(side["cpu"])) |-> ClipAt(layer', r)]
  PROVE  ClipInv'
<1>1. WholeGrid' = WholeGrid
  BY DEF WholeGrid, PixelsOf, Grid
<1>2. \A l, r : ClipAt(l, r)' = ClipAt(l, r)
  BY <1>1 DEF ClipAt
<1>3. clip'["cpu"] = [r \in Below(ClipRows(side["cpu"])) |-> ClipAt(layer, r)']
  BY <1>2
<1> QED
  BY <1>3 DEF ClipInv, ClipStages

LEMMA EmbedClip ==
  ASSUME ClipInv, Clip
  PROVE  ClipInv'
<1> DEFINE N == ClipRows(side["cpu"])
           at(r) == <<IF r = 0 THEN Pad ELSE r - 1, ClipPosition(side["cpu"], r)>>
<1>1. /\ stage = "clip" /\ view' = view /\ clipDepth' = clipDepth /\ field' = field /\ side' = side
      /\ stage' = (IF clipDepth = 0 THEN "layout" ELSE "layers") /\ layer' = layer
  BY DEF Clip
<1>2. layer = 0 /\ clipDepth \in Nat /\ clipDepth \in ClipDepths
  BY <1>1, EncoderAssumption DEF ClipInv, ClipStages
<1>3. SeenInv'
  BY OthersSeen DEF ClipInv
<1>4. reads'["cpu"] = [r \in Below(N) |-> {at(r)}]
  BY DEF Clip, Path
<1>5. clip'["cpu"] = [r \in DOMAIN reads'["cpu"] |-> Reached("cpu", reads'["cpu"][r])]
  BY DEF Clip, Path
<1>6. ASSUME NEW r \in Below(N) PROVE Reached("cpu", {at(r)}) = ClipAt(0, r)
  <2>1. CASE r = 0
    BY <2>1 DEF Reached, ClipAt
  <2>2. CASE r # 0
    <3>1. r - 1 # Pad /\ at(r)[1] = r - 1
      BY <2>2 DEF Below, Pad
    <3> DEFINE a == at(r)
    <3> HIDE DEF at, a
    <3>2. {t \in {a} : t[1] # Pad} = {a}
      BY <3>1 DEF a
    <3>3. Reached("cpu", {a}) = field["cpu"][a[1]]
      BY <3>2 DEF Reached
    <3> QED
      BY <2>2, <3>1, <3>3 DEF ClipAt, a
  <2> QED
    BY <2>1, <2>2
<1> HIDE DEF at, N
<1>7. clip'["cpu"] = [r \in Below(N) |-> ClipAt(layer', r)]
  BY <1>1, <1>2, <1>4, <1>5, <1>6
<1>8. stage' = "layers" => layer' \in 0 .. clipDepth - 1
  BY <1>1, <1>2
<1>9. stage' \in ClipStages /\ (stage' \in {"layout", "done"} => layer' = clipDepth)
  BY <1>1, <1>2 DEF ClipStages
<1> QED
  BY <1>1, <1>2, <1>3, <1>7, <1>8, <1>9, ClipKept DEF N

\* A layer brings every row what all the rows have.
LEMMA RowsUnited ==
  ASSUME ClipInv, stage = "layers", NEW q \in Below(ClipRows(side["cpu"]))
  PROVE  clip["cpu"][q] \cup UNION {clip["cpu"][k] : k \in Below(ClipRows(side["cpu"]))} = WholeGrid
<1> DEFINE n == side["cpu"]
           N == ClipRows(n)
           All == UNION {clip["cpu"][k] : k \in Below(N)}
<1>1. n \in Nat \ {0} /\ clip["cpu"] = [r \in Below(N) |-> ClipAt(layer, r)] /\ layer \in Nat
  BY EncoderAssumption DEF ClipInv, ClipStages, SeenInv, EncInv
<1>2. N = n * n + 1 /\ n * n \in Nat
  BY <1>1 DEF ClipRows
<1>3. q \in Below(N)
  OBVIOUS
<1> HIDE DEF n, N
<1>4. CASE layer > 0
  <2>1. \A k \in Below(N) : clip["cpu"][k] = WholeGrid
    BY <1>1, <1>4 DEF ClipAt
  <2> HIDE DEF Below
  <2> QED
    BY <1>3, <2>1 DEF n, N
<1>5. CASE layer = 0
  <2>1. \A k \in Below(N) : clip["cpu"][k] = IF k = 0 THEN {} ELSE field["cpu"][k - 1]
    BY <1>1, <1>5 DEF ClipAt
  <2>2. UNION {field["cpu"][t] : t \in Cells(n)} = WholeGrid
    BY WholeSeen DEF ClipInv, n
  <2>3. \A k \in Below(N) : k # 0 => k - 1 \in Cells(n)
    BY <1>2 DEF Below, Cells
  <2>4. \A k \in Below(N) : clip["cpu"][k] \subseteq WholeGrid
    BY <2>1, <2>2, <2>3
  <2>5. \A t \in Cells(n) : t + 1 \in Below(N) /\ clip["cpu"][t + 1] = field["cpu"][t]
    <3> TAKE t \in Cells(n)
    <3>1. t \in Nat /\ t + 1 \in Below(N) /\ t + 1 # 0 /\ (t + 1) - 1 = t
      BY <1>2 DEF Below, Cells
    <3> QED
      BY <2>1, <3>1
  <2>6. WholeGrid \subseteq All
    <3> SUFFICES ASSUME NEW px \in WholeGrid PROVE px \in All
      OBVIOUS
    <3>1. PICK t \in Cells(n) : px \in field["cpu"][t]
      BY <2>2
    <3> QED
      BY <2>5, <3>1
  <2>7. All \subseteq WholeGrid
    BY <2>4
  <2> QED
    BY <1>3, <2>4, <2>6, <2>7 DEF n, N
<1> QED
  BY <1>1, <1>4, <1>5

LEMMA LayerClip ==
  ASSUME ClipInv, ClipLayer
  PROVE  ClipInv'
<1> DEFINE N == ClipRows(side["cpu"])
<1>1. /\ stage = "layers" /\ view' = view /\ clipDepth' = clipDepth /\ field' = field /\ side' = side
      /\ stage' = (IF layer' = clipDepth THEN "layout" ELSE "layers") /\ layer' = layer + 1
  BY DEF ClipLayer
<1>2. clipDepth \in Nat /\ clipDepth \in ClipDepths /\ layer \in 0 .. clipDepth - 1
  BY <1>1, EncoderAssumption DEF ClipInv
<1>3. SeenInv'
  BY OthersSeen DEF ClipInv
<1>4. DOMAIN clip["cpu"] = Below(N)
  BY <1>1 DEF ClipInv, ClipStages
<1>5. reads'["cpu"] = [q \in Below(N) |-> Below(N)]
  BY DEF ClipLayer, CpuClip
<1>6. clip'["cpu"] = [q \in DOMAIN clip["cpu"] |->
        clip["cpu"][q] \cup (IF q \in DOMAIN reads'["cpu"]
                             THEN UNION {clip["cpu"][k] : k \in reads'["cpu"][q]} ELSE {})]
  BY DEF ClipLayer, Path
<1>7. \A q \in Below(N) : clip["cpu"][q] \cup UNION {clip["cpu"][k] : k \in Below(N)} = WholeGrid
  BY <1>1, RowsUnited
<1> HIDE DEF N
<1>8. clip'["cpu"] = [q \in Below(N) |-> WholeGrid]
  BY <1>4, <1>5, <1>6, <1>7
<1>9. \A r : ClipAt(layer', r) = WholeGrid
  BY <1>1, <1>2 DEF ClipAt
<1>10. clip'["cpu"] = [r \in Below(N) |-> ClipAt(layer', r)]
  BY <1>8, <1>9
<1>11. stage' = "layers" => layer' \in 0 .. clipDepth - 1
  BY <1>1, <1>2
<1>12. stage' \in ClipStages /\ (stage' \in {"layout", "done"} => layer' = clipDepth)
  BY <1>1 DEF ClipStages
<1> QED
  BY <1>1, <1>2, <1>3, <1>10, <1>11, <1>12, ClipKept DEF N

LEMMA ClipInit == EncInit => ClipInv
BY SeenInit DEF EncInit, ClipInv, ClipStages

LEMMA ClipStep == ClipInv /\ [EncNext]_encVars => ClipInv'
<1> SUFFICES ASSUME ClipInv, [EncNext]_encVars PROVE ClipInv'
  OBVIOUS
<1>1. SeenInv'
  BY SeenStep DEF ClipInv
<1>2. CASE Clip
  BY <1>2, EmbedClip
<1>3. CASE ClipLayer
  BY <1>3, LayerClip
<1>4. CASE Return2D
  <2>1. /\ stage = "layout" /\ stage' = "done" /\ view' = view /\ clipDepth' = clipDepth
        /\ field' = field /\ side' = side /\ layer' = layer /\ clip' = clip
    BY <1>4 DEF Return2D
  <2>2. /\ layer = clipDepth /\ clipDepth \in ClipDepths
        /\ clip["cpu"] = [r \in Below(ClipRows(side["cpu"])) |-> ClipAt(layer, r)]
    BY <2>1 DEF ClipInv, ClipStages
  <2>3. stage' \in ClipStages
    BY <2>1 DEF ClipStages
  <2> QED
    BY <1>1, <2>1, <2>2, <2>3, ClipKept
<1>5. CASE UNCHANGED encVars
  <2>1. /\ stage' = stage /\ view' = view /\ clipDepth' = clipDepth
        /\ field' = field /\ side' = side /\ layer' = layer /\ clip' = clip
    BY <1>5 DEF encVars
  <2>2. CASE stage \in ClipStages
    BY <1>1, <2>1, <2>2, ClipKept DEF ClipInv
  <2>3. CASE stage \notin ClipStages
    BY <1>1, <2>1, <2>3 DEF ClipInv, ClipStages
  <2> QED
    BY <2>2, <2>3
<1>6. CASE \/ Positions \/ Attend
           \/ \E s \in {"patch", "neck", "net2", "net3"},
                 then \in {"position", "net2", "net3", "clip"} : Convolve(s, then)
  <2>1. /\ stage \notin ClipStages /\ stage' \notin ClipStages
        /\ layer' = layer /\ clipDepth' = clipDepth
    BY <1>6 DEF Positions, Attend, Convolve, ClipStages
  <2> QED
    BY <1>1, <2>1 DEF ClipInv, ClipStages
<1> QED
  <2>1. EncNext => \/ Clip \/ ClipLayer \/ Return2D \/ Positions \/ Attend
                   \/ \E s \in {"patch", "neck", "net2", "net3"},
                        then \in {"position", "net2", "net3", "clip"} : Convolve(s, then)
    BY DEF EncNext
  <2> QED
    BY <1>2, <1>3, <1>4, <1>5, <1>6, <2>1

LEMMA ClipGivesPlace == ClipInv => TokensSeeTheirPlace
<1> SUFFICES ASSUME ClipInv PROVE TokensSeeTheirPlace
  OBVIOUS
<1>1. ASSUME stage \in {"clip", "layers", "layout", "done"}, NEW p \in Path, NEW t \in Cells(side[p])
      PROVE  field[p][t] = PixelsOf(Seen(t \div side[p]), Seen(t % side[p]))
  BY <1>1, SeenGivesPlace DEF ClipInv
<1>2. ASSUME stage \in {"layout", "done"}, NEW p \in Path, NEW r \in Below(ClipRows(side[p]))
      PROVE  clip[p][r] = IF clipDepth > 0 THEN PixelsOf(Below(Grid), Below(Grid))
                          ELSE IF r = 0 THEN {} ELSE field[p][r - 1]
  <2>1. clip[p] = clip["cpu"] /\ side[p] = side["cpu"] /\ field[p] = field["cpu"]
    BY DEF ClipInv, SeenInv, EncInv, EncodersAgree, Path
  <2>2. clip["cpu"][r] = ClipAt(clipDepth, r)
    BY <1>2, <2>1 DEF ClipInv, ClipStages
  <2> QED
    BY <2>1, <2>2 DEF ClipAt, WholeGrid
<1> QED
  BY <1>1, <1>2 DEF TokensSeeTheirPlace

\* The two halves of a token, whatever the sides of view, patch, window and
\* tiles and however they divide.  SAM's stands for its place in the picture: it
\* comes from the patches within four of its own, with windowed blocks from the
\* whole windows these lie in, with a global block from everything, and from
\* nothing else (deep_encoder.cpp:463 and the convolutions after the blocks).
\* CLIP's comes from the whole grid as soon as there is a layer, and without
\* one from SAM's (deep_encoder.cpp:606-645).
THEOREM TokensStandForTheirPlace == EncSpec => []TokensSeeTheirPlace
<1>1. EncInit => ClipInv
  BY ClipInit
<1>2. ClipInv /\ [EncNext]_encVars => ClipInv'
  BY ClipStep
<1>3. ClipInv => TokensSeeTheirPlace
  BY ClipGivesPlace
<1> QED
  BY <1>1, <1>2, <1>3, PTL DEF EncSpec

-----------------------------------------------------------------------------
(* The rows of a view. *)

\* Places of rows of d are ordered by row, then by column.
LEMMA RowsFirst ==
  ASSUME NEW d \in Nat \ {0}, NEW r \in Nat, NEW q \in Nat, NEW a \in Below(d), NEW b \in Below(d)
  PROVE  r * d + a < q * d + b <=> r < q \/ (r = q /\ a < b)
<1>1. \A i, j \in Nat : \A x, y \in Below(d) : i < j => i * d + x < j * d + y
  <2> SUFFICES ASSUME NEW i \in Nat, NEW j \in Nat, NEW x \in Below(d), NEW y \in Below(d), i < j
               PROVE  i * d + x < j * d + y
    OBVIOUS
  <2> DEFINE k == j - i - 1
  <2>1. k \in Nat /\ j = i + 1 + k
    OBVIOUS
  <2> HIDE DEF k
  <2>2. j * d = i * d + d + k * d
    BY <2>1
  <2>3. i * d \in Nat /\ k * d \in Nat /\ x \in 0 .. d - 1 /\ y \in Nat
    <3>1. \A u \in Nat : u * d \in Nat
      OBVIOUS
    <3> QED
      BY <2>1, <3>1 DEF Below
  <2> QED
    BY <2>2, <2>3
<1>2. r * d \in Nat /\ q * d \in Nat /\ a \in Nat /\ b \in Nat
  BY DEF Below
<1>3. CASE r < q
  BY <1>1, <1>3
<1>4. CASE r = q
  BY <1>2, <1>4
<1>5. CASE q < r
  <2>1. q * d + b < r * d + a
    BY <1>1, <1>5
  <2> QED
    BY <1>2, <1>5, <2>1
<1> QED
  BY <1>3, <1>4, <1>5

\* As many places before one as tokens, when each row of n ends in a newline.
LEMMA TokensBefore ==
  ASSUME NEW n \in Nat \ {0}, NEW q \in Nat, NEW c \in Below(n), NEW S,
         S = {m \in 1 .. q * (n + 1) + c : (m - 1) % (n + 1) # n}
  PROVE  Cardinality(S) = q * n + c
<1> DEFINE t == q * n + c
           e == q * (n + 1) + c
           D == n + 1
           at(s) == ((s - 1) \div n) * D + ((s - 1) % n) + 1
           f == [s \in 1 .. t |-> at(s)]
<1>1. /\ t \in Nat /\ e \in Nat /\ D \in Nat \ {0} /\ c \in Below(D) /\ n \in Nat
      /\ Below(n) \subseteq Below(D)
  <2>1. \A u, v, w \in Nat : u * v + w \in Nat
    OBVIOUS
  <2> QED
    BY <2>1 DEF Below
<1> HIDE DEF t, e, D
<1>2. ASSUME NEW s \in 1 .. t
      PROVE  /\ (s - 1) \div n \in Nat /\ (s - 1) % n \in Below(n)
             /\ s - 1 = ((s - 1) \div n) * n + ((s - 1) % n)
             /\ at(s) \in S
             /\ at(s) - 1 = ((s - 1) \div n) * D + ((s - 1) % n)
  <2> DEFINE r == (s - 1) \div n
             a == (s - 1) % n
  <2>1. s - 1 \in Nat
    BY <1>1
  <2>2. r \in Nat /\ a \in Below(n) /\ s - 1 = r * n + a
    BY <2>1, Division DEF Below
  <2> HIDE DEF r, a
  <2>3. r * n + a < q * n + c
    BY <1>1, <2>2 DEF t
  <2>4. r < q \/ (r = q /\ a < c)
    BY <2>2, <2>3, RowsFirst
  <2>5. r * D + a < q * D + c
    BY <1>1, <2>2, <2>4, RowsFirst
  <2>6. r * D + a \in Nat
    <3>1. \A u, v, w \in Nat : u * v + w \in Nat
      OBVIOUS
    <3> QED
      BY <1>1, <2>2, <3>1 DEF Below
  <2> DEFINE m == r * D + a
  <2>7. q * D + c = e
    BY DEF D, e
  <2>8. m \in Nat /\ m < e
    BY <2>5, <2>6, <2>7
  <2>9. m % D = a
    BY <1>1, <2>2, QuotientUnique DEF Below
  <2> HIDE DEF m
  <2>10. m + 1 \in 1 .. e /\ (m + 1) - 1 = m /\ a # n
    BY <1>1, <2>2, <2>8 DEF Below
  <2>11. m + 1 \in S
    BY <2>9, <2>10 DEF D, e
  <2> QED
    BY <2>2, <2>10, <2>11 DEF m, r, a
<1>3. ASSUME NEW m \in S PROVE \E s \in 1 .. t : at(s) = m
  <2> DEFINE j == m - 1
             r == j \div D
             a == j % D
  <2>1. j \in Nat /\ j < e /\ m = j + 1 /\ a # n
    BY <1>1 DEF D, e
  <2> HIDE DEF j
  <2>2. r \in Nat /\ a \in Below(D) /\ j = r * D + a
    BY <1>1, <2>1, Division DEF Below
  <2> HIDE DEF r
  <2>3. a \in Below(n)
    BY <1>1, <2>1, <2>2 DEF Below, D
  <2> HIDE DEF a
  <2>4. r * D + a < q * D + c
    BY <2>1, <2>2 DEF e, D
  <2>5. r < q \/ (r = q /\ a < c)
    BY <1>1, <2>2, <2>4, RowsFirst
  <2>6. r * n + a < q * n + c
    BY <2>2, <2>3, <2>5, RowsFirst
  <2> DEFINE i == r * n + a
  <2>7. i \in Nat /\ i < t
    <3>1. \A u, v, w \in Nat : u * v + w \in Nat
      OBVIOUS
    <3> QED
      BY <1>1, <2>2, <2>3, <2>6, <3>1 DEF Below, t
  <2>8. i \div n = r /\ i % n = a
    BY <2>2, <2>3, QuotientUnique DEF Below
  <2> HIDE DEF i
  <2>9. i + 1 \in 1 .. t /\ (i + 1) - 1 = i
    BY <1>1, <2>7
  <2>10. at(i + 1) = m
    BY <2>1, <2>2, <2>8, <2>9
  <2> QED
    BY <2>9, <2>10
<1>4. ASSUME NEW s \in 1 .. t, NEW u \in 1 .. t, at(s) = at(u) PROVE s = u
  <2> DEFINE r == (s - 1) \div n  a == (s - 1) % n
             p == (u - 1) \div n  b == (u - 1) % n
  <2>1. /\ r \in Nat /\ a \in Below(n) /\ s - 1 = r * n + a /\ at(s) - 1 = r * D + a
        /\ p \in Nat /\ b \in Below(n) /\ u - 1 = p * n + b /\ at(u) - 1 = p * D + b
    BY <1>2
  <2>2. at(s) - 1 = at(u) - 1
    BY <1>4
  <2> HIDE DEF r, a, p, b, at
  <2>3. a \in 0 .. D - 1 /\ b \in 0 .. D - 1 /\ r \in Int /\ p \in Int /\ r * D + a = p * D + b
    BY <1>1, <2>1, <2>2 DEF Below
  <2>4. r = p /\ a = b
    BY <1>1, <2>3, DivideUnique
  <2>5. s - 1 = u - 1
    BY <2>1, <2>4
  <2> QED
    BY <1>1, <2>5
<1> HIDE DEF at
<1>5. f \in Bijection(1 .. t, S)
  <2>1. f \in [1 .. t -> S]
    BY <1>2
  <2>2. \A s, u \in 1 .. t : f[s] = f[u] => s = u
    BY <1>4
  <2>3. \A m \in S : \E s \in 1 .. t : f[s] = m
    BY <1>3
  <2> HIDE DEF f
  <2> QED
    BY <2>1, <2>2, <2>3 DEF Bijection, Injection, Surjection, IsInjective
<1>6. IsFiniteSet(1 .. t) /\ Cardinality(1 .. t) = t
  <2>1. 1 \in Int /\ t \in Int /\ (IF 1 > t THEN 0 ELSE t - 1 + 1) = t
    BY <1>1
  <2> QED
    BY <2>1, FS_Interval
<1>7. Cardinality(S) = Cardinality(1 .. t)
  <2>1. ExistsBijection(1 .. t, S)
    BY <1>5 DEF ExistsBijection
  <2> QED
    BY <1>6, <2>1, FS_Bijection
<1> QED
  BY <1>6, <1>7 DEF t

\* The rows are laid out in the last step.
RowsInv == ClipInv /\ (stage = "done" => rows = [p \in Path |-> Layout(side[p])])

LEMMA RowsStep == RowsInv /\ [EncNext]_encVars => RowsInv'
<1> SUFFICES ASSUME RowsInv, [EncNext]_encVars PROVE RowsInv'
  OBVIOUS
<1>1. ClipInv'
  BY ClipStep DEF RowsInv
<1>2. ASSUME stage' = "done" PROVE rows' = [p \in Path |-> Layout(side'[p])]
  <2>1. CASE Return2D
    BY <2>1 DEF Return2D
  <2>2. CASE UNCHANGED encVars
    BY <1>2, <2>2 DEF encVars, RowsInv
  <2>3. CASE EncNext /\ ~ Return2D
    BY <1>2, <2>3 DEF EncNext, Convolve, Positions, Attend, Clip, ClipLayer
  <2> QED
    BY <2>1, <2>2, <2>3
<1> QED
  BY <1>1, <1>2 DEF RowsInv

\* The pixel where the patch of a token starts is among those it comes from.
LEMMA StartIsSeen ==
  ASSUME SeenInv, NEW r \in Below(Halved(Halved(Grid)))
  PROVE  /\ r * Patch * 4 \in Below(view)
         /\ (r * Patch * 4) \div Patch \in Seen(r)
<1>1. Grid \in Nat \ {0} /\ view \in Nat \ {0} /\ Patch \in Nat \ {0} /\ r \in Nat /\ depth \in Nat
  BY GridOfView, EncoderAssumption DEF Below, SeenInv
<1>2. 4 * r \in Below(Grid)
  <2>1. Halved(Grid) \in Nat \ {0} /\ Grid - 1 \in 2 * (Halved(Grid) - 1) .. 2 * (Halved(Grid) - 1) + 1
    BY <1>1, HalvedSide
  <2>2. 2 * r \in Below(Halved(Grid))
    BY <1>1, <2>1, SpanDoubles
  <2>3. 2 * (2 * r) \in Below(Grid)
    BY <1>1, <2>1, <2>2, SpanDoubles
  <2> QED
    BY <1>1, <2>3
<1>3. r * Patch * 4 = (4 * r) * Patch + 0 /\ 0 \in 0 .. Patch - 1 /\ 0 \in Below(Patch) /\ 4 * r \in Nat
  BY <1>1 DEF Below
<1>4. (r * Patch * 4) \div Patch = 4 * r
  BY <1>1, <1>3, QuotientUnique
<1>5. r * Patch * 4 \in Below(view)
  <2> DEFINE g == Grid * Patch
             p == (4 * r) * Patch + 0
  <2>1. p \in Below(g)
    BY <1>1, <1>2, <1>3, PlaceBelow
  <2>2. view = g + (view % Patch) /\ view % Patch \in Nat /\ g \in Nat
    <3>1. \A u \in Nat : u * Patch \in Nat
      BY <1>1
    <3> QED
      BY <1>1, <3>1, Division DEF Grid
  <2> HIDE DEF g, p
  <2>3. p \in Below(view)
    BY <2>1, <2>2 DEF Below
  <2> QED
    BY <1>3, <2>3 DEF p
<1>6. 4 * r \in Near(r)
  BY <1>1, <1>2 DEF Near
<1>7. 4 * r \in Seen(r)
  BY <1>2, <1>6 DEF Seen
<1> QED
  BY <1>4, <1>5, <1>7

LEMMA RowsGiveLayout == RowsInv => RowsAsLaidOut
<1> SUFFICES ASSUME RowsInv, stage = "done" PROVE RowsAsLaidOut
  BY DEF RowsAsLaidOut
<1> DEFINE n == Halved(Halved(Grid))
           N == n * (n + 1)
           laid == Laid!Encode("view", [y |-> 0, x |-> 0], view)
<1>1. Grid \in Nat \ {0} /\ n \in Nat \ {0} /\ ClipInv /\ SeenInv
  BY GridOfView, HalvedSide DEF RowsInv, ClipInv
<1>2. Laid!Side(view) = n
  <2>1. \A k \in Nat : Laid!CeilDiv(k, 2) = (k + 1) \div 2 /\ (k # 0 => (k + 1) \div 2 = Halved(k))
    BY DEF Laid!CeilDiv, Halved
  <2>2. Halved(Grid) \in Nat \ {0}
    BY <1>1, HalvedSide
  <2> QED
    BY <1>1, <2>1, <2>2 DEF Laid!Side, Grid
<1> HIDE DEF n
<1>3. N \in Nat /\ n + 1 \in Nat \ {0}
  BY <1>1, Counts
<1> DEFINE q(i) == i \div (n + 1)
           c(i) == i % (n + 1)
<1>4. laid = [j \in 1 .. N + 1 |->
         IF j - 1 = N THEN [kind |-> "separator", y |-> 0, x |-> 0]
         ELSE IF c(j - 1) = n THEN [kind |-> "newline", y |-> 0, x |-> 0]
         ELSE [kind |-> "view", y |-> 0 + q(j - 1) * Patch * 4, x |-> 0 + c(j - 1) * Patch * 4]]
  BY <1>2 DEF Laid!Encode, Laid!Row, Laid!Separator, Laid!Newline, Laid!Downsample
<1>5. ASSUME NEW p \in Path
      PROVE  /\ rows[p] = [j \in 1 .. N + 1 |->
                  IF j - 1 = N THEN [kind |-> "separator"]
                  ELSE IF c(j - 1) = n THEN [kind |-> "newline"]
                  ELSE [kind |-> "token", of |-> q(j - 1) * n + c(j - 1),
                        clip |-> q(j - 1) * n + c(j - 1) + 1]]
             /\ \A t \in Cells(n) : /\ field[p][t] = PixelsOf(Seen(t \div n), Seen(t % n))
                                    /\ field[p][t] \subseteq clip[p][t + 1]
  <2>1. side[p] = n
    BY <1>1 DEF SeenInv, EncInv, EncodersAgree, Path, SideAt, n
  <2>2. rows[p] = Layout(n)
    BY <2>1 DEF RowsInv
  <2>3. \A t \in Cells(n) : field[p][t] = PixelsOf(Seen(t \div n), Seen(t % n))
    BY <1>1, <2>1, SeenGivesPlace
  <2>4. \A t \in Cells(n) : field[p][t] \subseteq clip[p][t + 1]
    <3> TAKE t \in Cells(n)
    <3>1. t + 1 \in Below(ClipRows(side[p])) /\ t + 1 # 0 /\ (t + 1) - 1 = t
      <4>1. n * n \in Nat
        BY <1>1
      <4> QED
        BY <2>1, <4>1 DEF Cells, Below, ClipRows
    <3>2. clip[p][t + 1] = IF clipDepth > 0 THEN PixelsOf(Below(Grid), Below(Grid)) ELSE field[p][t]
      BY <1>1, <3>1, ClipGivesPlace DEF TokensSeeTheirPlace
    <3>3. PixelsOf(Seen(t \div n), Seen(t % n)) \subseteq PixelsOf(Below(Grid), Below(Grid))
      <4>1. \A r : Seen(r) \subseteq Below(Grid)
        BY DEF Seen, Near
      <4>2. \A px \in PixelsOf(Seen(t \div n), Seen(t % n)) : px \in PixelsOf(Below(Grid), Below(Grid))
        <5> HIDE DEF Below
        <5> QED
          BY <4>1, PixelIn
      <4> QED
        BY <4>2
    <3> QED
      BY <2>3, <3>2, <3>3
  <2> QED
    BY <2>2, <2>3, <2>4 DEF Layout, Place2D
<1>6. ASSUME NEW j \in 1 .. N + 1, j - 1 # N
      PROVE  /\ q(j - 1) \in Below(n) /\ c(j - 1) \in Below(n + 1)
             /\ j - 1 = q(j - 1) * (n + 1) + c(j - 1)
  <2>1. j - 1 \in Below(n * (n + 1)) /\ n \in Nat
    BY <1>1, <1>3, <1>6 DEF Below
  <2> QED
    BY <1>3, <2>1, RowAndColumn
<1> HIDE DEF laid, q, c, N
<1>7. Len(laid) = N + 1 /\ DOMAIN laid = 1 .. N + 1
  BY <1>3, <1>4
<1>8. \A j \in 1 .. N + 1 : laid[j].kind = "view" <=> j - 1 # N /\ c(j - 1) # n
  BY <1>4
<1>9. ASSUME NEW p \in Path, NEW j \in 1 .. N + 1, laid[j].kind = "view"
      PROVE  /\ rows[p][j].kind = "token"
             /\ laid[j].y * view + laid[j].x \in field[p][rows[p][j].of] \cap clip[p][rows[p][j].clip]
             /\ rows[p][j].of = Cardinality({m \in 1 .. j - 1 : laid[m].kind = "view"})
  <2> DEFINE r == q(j - 1)
             k == c(j - 1)
  <2>1. j - 1 # N /\ k # n
    BY <1>8, <1>9
  <2>2. r \in Below(n) /\ k \in Below(n) /\ j - 1 = r * (n + 1) + k
    <3>1. r \in Below(n) /\ k \in Below(n + 1) /\ j - 1 = r * (n + 1) + k
      BY <1>6, <2>1
    <3> HIDE DEF r, k
    <3>2. k \in Below(n)
      BY <1>1, <2>1, <3>1 DEF Below
    <3> QED
      BY <3>1, <3>2
  <2>3. laid[j].y = 0 + r * Patch * 4 /\ laid[j].x = 0 + k * Patch * 4
    BY <1>4, <2>1
  <2>4. rows[p][j] = [kind |-> "token", of |-> r * n + k, clip |-> r * n + k + 1]
    BY <1>5, <2>1
  <2> HIDE DEF r, k
  <2>5. laid[j].y * view + laid[j].x \in field[p][r * n + k] \cap clip[p][r * n + k + 1]
    <3>1. /\ r * Patch * 4 \in Below(view) /\ (r * Patch * 4) \div Patch \in Seen(r)
          /\ k * Patch * 4 \in Below(view) /\ (k * Patch * 4) \div Patch \in Seen(k)
      BY <1>1, <2>2, StartIsSeen DEF n
    <3>2. 0 + r * Patch * 4 = r * Patch * 4 /\ 0 + k * Patch * 4 = k * Patch * 4
      BY <3>1 DEF Below
    <3>3. r * n + k \in Cells(n) /\ (r * n + k) \div n = r /\ (r * n + k) % n = k
      BY <1>1, <2>2, PlaceBelow, QuotientUnique DEF Cells, Below
    <3>4. field[p][r * n + k] = PixelsOf(Seen(r), Seen(k)) /\ field[p][r * n + k] \subseteq clip[p][r * n + k + 1]
      BY <1>5, <3>3
    <3> QED
      BY <2>3, <3>1, <3>2, <3>4, PixelIn
  <2>6. Cardinality({m \in 1 .. j - 1 : laid[m].kind = "view"}) = r * n + k
    <3>1. \A m \in 1 .. j - 1 : m \in 1 .. N + 1 /\ m - 1 # N
      BY <1>3
    <3>2. {m \in 1 .. j - 1 : laid[m].kind = "view"}
            = {m \in 1 .. r * (n + 1) + k : (m - 1) % (n + 1) # n}
      BY <1>8, <2>2, <3>1 DEF c
    <3>3. r \in Nat
      BY <2>2 DEF Below
    <3> QED
      BY <1>1, <2>2, <3>2, <3>3, TokensBefore
  <2> QED
    BY <2>4, <2>5, <2>6
<1>10. ASSUME NEW p \in Path, NEW j \in 1 .. N + 1, laid[j].kind # "view"
       PROVE  rows[p][j].kind = laid[j].kind
  <2>1. CASE j - 1 = N
    <3>1. laid[j].kind = "separator"
      BY <1>4, <2>1
    <3>2. rows[p][j] = [kind |-> "separator"]
      BY <1>5, <2>1
    <3> QED
      BY <3>1, <3>2
  <2>2. CASE j - 1 # N
    <3>1. c(j - 1) = n
      BY <1>8, <1>10, <2>2
    <3>2. laid[j].kind = "newline"
      BY <1>4, <2>2, <3>1
    <3>3. rows[p][j] = [kind |-> "newline"]
      BY <1>5, <2>2, <3>1
    <3> QED
      BY <3>2, <3>3
  <2> QED
    BY <2>1, <2>2
<1>11. ASSUME NEW p \in Path PROVE Len(rows[p]) = N + 1
  <2> DEFINE M == N + 1
  <2>1. M \in Nat
    BY <1>3
  <2>2. rows[p] = [j \in 1 .. M |->
          IF j - 1 = N THEN [kind |-> "separator"]
          ELSE IF c(j - 1) = n THEN [kind |-> "newline"]
          ELSE [kind |-> "token", of |-> q(j - 1) * n + c(j - 1),
                clip |-> q(j - 1) * n + c(j - 1) + 1]]
    BY <1>5
  <2> HIDE DEF M
  <2>3. DOMAIN rows[p] = 1 .. M
    BY <2>2
  <2>4. Len(rows[p]) = M
    BY <2>1, <2>2
  <2> QED
    BY <2>4 DEF M
<1>12. RowsAsLaidOut <=> \A p \in Path :
          /\ Len(rows[p]) = Len(laid)
          /\ \A j \in 1 .. Len(laid) :
               IF laid[j].kind = "view"
                 THEN /\ rows[p][j].kind = "token"
                      /\ laid[j].y * view + laid[j].x \in
                           field[p][rows[p][j].of] \cap clip[p][rows[p][j].clip]
                      /\ rows[p][j].of = Cardinality({m \in 1 .. j - 1 : laid[m].kind = "view"})
                 ELSE rows[p][j].kind = laid[j].kind
  BY DEF RowsAsLaidOut, laid
<1> QED
  BY <1>7, <1>9, <1>10, <1>11, <1>12

\* What the engine takes an encoder to return for a view is what both return,
\* for every side of view and patch: as many rows, newlines and the separator
\* in the places ImageLayout has them, and the tokens in raster order, each
\* computed from the pixel its row names (engine.cpp:466-475 checks the count).
THEOREM EncodersReturnLayout == EncSpec => []RowsAsLaidOut
<1>1. EncInit => RowsInv
  BY ClipInit DEF EncInit, RowsInv
<1>2. RowsInv /\ [EncNext]_encVars => RowsInv'
  BY RowsStep
<1>3. RowsInv => RowsAsLaidOut
  BY RowsGiveLayout
<1> QED
  BY <1>1, <1>2, <1>3, PTL DEF EncSpec
=============================================================================
