------------------------- MODULE TokenizerReference -------------------------
(***************************************************************************)
(* The reference: a pattern is a sequence of items [chars, least, most],   *)
(* of which the first takes as many characters as it can while the rest    *)
(* still matches, and so on (backtracking, greedy).                        *)
(***************************************************************************)
EXTENDS Tokenizer

Many == 100
Item(chars, least, most) == [chars |-> chars, least |-> least, most |-> most]

RECURSIVE Ends(_, _, _, _)
Ends(s, k, items, followed) ==      \* where a match from k ends, 0 if nowhere
  IF items = <<>> THEN (IF followed = {} \/ ~At(s, k, followed) THEN k ELSE 0)
  ELSE LET it    == items[1]
           takes == {n \in it.least .. Shorter(it.most, Run(s, k, it.chars)) :
                       Ends(s, k + n, Tail(items), followed) > 0}
       IN  IF takes = {} THEN 0 ELSE Ends(s, k + Max(takes), Tail(items), followed)

Numbers == <<<<Item(OfCat({"N"}), 1, 3)>>>>
Ideographs == <<<<Item(Cjk, 1, Many)>>>>
Pattern3 ==
  <<<<Item(AsciiPunct, 1, 1), Item(AsciiAlpha, 1, Many)>>,
    <<Item(Char \ (NewLine \cup OfCat({"L", "P", "S"})), 0, 1), Item(Letter, 1, Many)>>,
    <<Item({Space}, 0, 1), Item(Sign, 1, Many), Item(NewLine, 0, Many)>>,
    <<Item(White, 0, Many), Item(NewLine, 1, Many)>>,
    <<Item(White, 1, Many)>>,       \* not followed by a character that is not white
    <<Item(White, 1, Many)>>>>

RefMatch(regex, s, k) ==
  LET end(a) == Ends(s, k, regex[a], IF a = 5 THEN Char \ White ELSE {})
      hits   == {a \in 1 .. Len(regex) : end(a) > 0}
  IN  IF hits = {} THEN 0 ELSE end(Min(hits)) - k

RefPieces(s) ==
  LET numbers(t, k) == RefMatch(Numbers, t, k)
      ideographs(t, k) == RefMatch(Ideographs, t, k)
      words(t, k) == RefMatch(Pattern3, t, k)
  IN  SplitAll(SplitAll(SplitAll(<<s>>, numbers), ideographs), words)

\* One merge at a time: the lowest rank, and its leftmost occurrence.
RECURSIVE RefMerged(_)
RefMerged(syms) ==
  LET ranks == RanksIn(syms)
      pair  == merges[Min(ranks)]
      k     == Min({n \in 1 .. Len(syms) - 1 : Pair(syms, n) = pair})
  IN  IF ranks = {} THEN syms
      ELSE RefMerged(SubSeq(syms, 1, k - 1) \o <<pair[1] \o pair[2]>>
                       \o SubSeq(syms, k + 2, Len(syms)))

RefWord(piece) ==
  LET bytes == Bytes(piece)
      syms  == RefMerged([n \in 1 .. Len(bytes) |-> <<bytes[n]>>])
  IN  [n \in 1 .. Len(syms) |-> <<InVocab, syms[n]>>]

RefNormal(s) ==
  LET pieces == RefPieces(s)
  IN  FlattenSeq([j \in 1 .. Len(pieces) |-> RefWord(pieces[j])])

\* The leftmost added token, of those the longest, cuts the text.
RECURSIVE RefEncode(_)
RefEncode(s) ==
  LET here(k) == {a \in added : StartsWith(s, k, a.content)}
      starts  == {k \in 1 .. Len(s) : here(k) # {}}
      k       == Min(starts)
      a       == CHOOSE b \in here(k) : \A c \in here(k) : Len(b.content) >= Len(c.content)
  IN  IF starts = {} THEN RefNormal(s)
      ELSE RefNormal(SubSeq(s, 1, k - 1)) \o <<<<a.id, a.content>>>>
             \o RefEncode(SubSeq(s, k + Len(a.content), Len(s)))

\* encode gives the tokens that the patterns of the tokenizer file (quoted in
\* tokenizer.cpp:144-265) give when matched as regular expressions, and the
\* merges applied one by one in the order of rank and place: the hand-written
\* matchers need no backtracking, and merging all occurrences at once skips
\* nothing.  Texts with U+0000 are excepted, see IsPatternPunct.
EncodesAsReference ==
  ended /\ Nul \notin Range(text) => tokens = RefEncode(text)
=============================================================================
