----------------------------- MODULE Tokenizer -----------------------------
(***************************************************************************)
(* The byte-level BPE tokenizer (src/src/runtime/tokenizer.cpp): encode    *)
(* scans the text for added tokens, splits what lies between them by three *)
(* patterns, and merges the bytes of each piece by rank; decode goes back. *)
(*                                                                         *)
(* A character has a UTF-8 encoding and categories of the Unicode tables;  *)
(* a text is a sequence of characters.  A token of the vocabulary is its   *)
(* bytes, the printable form they have in the file is a bijection.  All    *)
(* bytes and all merged symbols are in the vocabulary.  The ids that       *)
(* add_bos and add_eos put around the result are left out.                 *)
(***************************************************************************)
EXTENDS Integers, SequencesExt

CONSTANTS
  Char, Byte,  \* the characters of the texts, and bytes
  Utf8,        \* Utf8[c]: the bytes of c
  Printed,     \* Printed[c]: the byte that c prints in the vocabulary file, if any
  Cat,         \* Cat[c]: its categories among L, M, N, P, S
  White, NewLine, Cjk, AsciiAlpha, AsciiPunct,   \* sets of characters
  Space, Nul,  \* ' ' and U+0000
  VocabSize,   \* 1 + the largest id of model.vocab
  Inputs       \* [text, merges, added]: what is tokenized, with which file

ASSUME TokenizerAssumption ==
  /\ Utf8 \in [Char -> Seq(Byte)]
  /\ VocabSize \in Nat
  /\ \A input \in Inputs :
       /\ input.text \in Seq(Char)
       /\ \A a \in input.added : a.id \in Nat /\ a.content \in Seq(Char)

VARIABLES
  text,    \* the argument of encode
  merges,  \* merges[r + 1]: the pair of symbols of rank r
  added,   \* the added tokens: [content, id]
  i,       \* encode's index, from 1
  normal,  \* the characters since the last added token
  tokens,  \* the result: encode's ids
  ended    \* encode has returned

tokVars == <<text, merges, added, i, normal, tokens, ended>>

-----------------------------------------------------------------------------
\* The pre-tokenizer.
OfCat(cats) == {c \in Char : Cat[c] \cap cats # {}}
Letter == OfCat({"L", "M"})
Sign == OfCat({"P", "S"})

\* How many characters from index k on are in C.
Run(s, k, C) ==
  Min({j \in k .. Len(s) + 1 : j > Len(s) \/ s[j] \notin C}) - k
At(s, k, C) == k <= Len(s) /\ s[k] \in C

Shorter(m, n) == IF m < n THEN m ELSE n

MatchNumbers(s, k) == Shorter(Run(s, k, OfCat({"N"})), 3)
MatchCjk(s, k) == Run(s, k, Cjk)

\* strchr finds the terminator too: U+0000 passes for a punctuation mark.
IsPatternPunct == AsciiPunct \cup {Nul}

PunctWord(s, k) ==
  IF At(s, k, IsPatternPunct) /\ At(s, k + 1, AsciiAlpha) THEN 1 + Run(s, k + 1, AsciiAlpha) ELSE 0

Word(s, k) ==
  IF ~At(s, k, NewLine \cup OfCat({"L", "P", "S"})) /\ At(s, k + 1, Letter)
    THEN 1 + Run(s, k + 1, Letter) ELSE Run(s, k, Letter)

Signs(s, k) ==
  LET from == IF At(s, k, Sign) THEN k ELSE k + 1
      end  == from + Run(s, from, Sign)
  IN  IF At(s, k, Sign) \/ (At(s, k, {Space}) /\ At(s, k + 1, Sign))
        THEN end + Run(s, end, NewLine) - k ELSE 0

Lines(s, k) ==
  LET breaks == {j \in k .. k + Run(s, k, White) - 1 : s[j] \in NewLine}
  IN  IF breaks = {} THEN 0 ELSE Max(breaks) - k + 1

MutBlank(s, k) == Run(s, k, White)
Blank(s, k) ==
  LET n == Run(s, k, White)
  IN  IF k + n <= Len(s) /\ n >= 2 THEN n - 1 ELSE n

\* The first alternative that matches; Blank is the last two.
MatchPattern3(s, k) ==
  LET all == <<PunctWord(s, k), Word(s, k), Signs(s, k), Lines(s, k), Blank(s, k)>>
      hits == {a \in 1 .. 5 : all[a] > 0}
  IN  IF hits = {} THEN 0 ELSE all[Min(hits)]

\* The matches of s, match[k] long at index k, become pieces, and so does what
\* lies between them.
SplitIsolated(s, match) ==
  LET hit(k) == Min({j \in k .. Len(s) + 1 : j > Len(s) \/ match[j] > 0})
      from[k \in 1 .. Len(s) + 1] ==    \* the pieces from index k on
        LET m == hit(k)
            between == IF k < m THEN <<SubSeq(s, k, m - 1)>> ELSE <<>>
        IN  IF m > Len(s) THEN between
            ELSE between \o <<SubSeq(s, m, m + match[m] - 1)>> \o from[m + match[m]]
  IN  from[1]

SplitAll(pieces, Match(_, _)) ==
  FlattenSeq([j \in 1 .. Len(pieces) |->
    SplitIsolated(pieces[j], [k \in DOMAIN pieces[j] |-> Match(pieces[j], k)])])

Pretokenize(s) ==
  SplitAll(SplitAll(SplitAll(<<s>>, MatchNumbers), MatchCjk), MatchPattern3)

-----------------------------------------------------------------------------
\* The merges of one piece.
Bytes(s) == FlattenSeq([k \in 1 .. Len(s) |-> Utf8[s[k]]])
Pair(syms, k) == <<syms[k], syms[k + 1]>>
RanksIn(syms) ==
  {r \in 1 .. Len(merges) : \E k \in 1 .. Len(syms) - 1 : Pair(syms, k) = merges[r]}

\* Every occurrence of the pair, from left to right.
MergeAll(syms, pair) ==
  LET from[k \in 1 .. Len(syms) + 1] ==
        IF k > Len(syms) THEN <<>>
        ELSE IF k < Len(syms) /\ Pair(syms, k) = pair
               THEN <<pair[1] \o pair[2]>> \o from[k + 2]
               ELSE <<syms[k]>> \o from[k + 1]
  IN  from[1]

BestRank(ranks) == Min(ranks)

\* One round of the loop, and as many as can do anything: each leaves fewer symbols.
Round(syms) ==
  LET ranks == RanksIn(syms)
  IN  IF ranks = {} THEN syms ELSE MergeAll(syms, merges[BestRank(ranks)])

Merged(syms) ==
  LET after[r \in 0 .. Len(syms)] == IF r = 0 THEN syms ELSE Round(after[r - 1])
  IN  after[Len(syms)]

\* A token is <<InVocab, bytes>> if it is one of the vocabulary, and
\* <<id, content>> if it was added.
InVocab == -1
EncodePretoken(piece) ==
  LET bytes == Bytes(piece)
      syms  == Merged([k \in 1 .. Len(bytes) |-> <<bytes[k]>>])
  IN  [k \in 1 .. Len(syms) |-> <<InVocab, syms[k]>>]

FlushNormal(s) ==
  LET pieces == Pretokenize(s)
  IN  FlattenSeq([j \in 1 .. Len(pieces) |-> EncodePretoken(pieces[j])])

-----------------------------------------------------------------------------
TokInit ==
  /\ \E input \in Inputs :
       text = input.text /\ merges = input.merges /\ added = input.added
  /\ i = 1 /\ normal = <<>> /\ tokens = <<>> /\ ended = FALSE

StartsWith(s, k, content) == IsPrefix(content, SubSeq(s, k, Len(s)))
Matching == {a \in added : a.content # <<>> /\ StartsWith(text, i, a.content)}

\* The list is sorted by length, and the first that matches is taken.
First(as) == CHOOSE a \in as : \A b \in as : Len(a.content) >= Len(b.content)

TakeAdded ==
  /\ ~ended /\ i <= Len(text) /\ Matching # {}
  /\ LET a == First(Matching)
     IN  /\ tokens' = tokens \o FlushNormal(normal) \o <<<<a.id, a.content>>>>
         /\ i' = i + Len(a.content)
  /\ normal' = <<>>
  /\ UNCHANGED <<text, merges, added, ended>>

TakeNormal ==
  /\ ~ended /\ i <= Len(text) /\ Matching = {}
  /\ normal' = Append(normal, text[i])
  /\ i' = i + 1
  /\ UNCHANGED <<text, merges, added, tokens, ended>>

Return ==
  /\ ~ended /\ i > Len(text)
  /\ tokens' = tokens \o FlushNormal(normal)
  /\ normal' = <<>> /\ ended' = TRUE
  /\ UNCHANGED <<text, merges, added, i>>

TokNext == TakeAdded \/ TakeNormal \/ Return

TokSpec == TokInit /\ [][TokNext]_tokVars

\* special_flag_ has the size of the vocabulary without the added tokens, so it
\* holds no flag for an added token beyond it.
MutIsSpecial(id) == id[1] \in 0 .. VocabSize - 2
IsSpecial(id) == id[1] \in 0 .. VocabSize - 1

\* An added token that is not special is decoded as if its characters were the
\* printed form of bytes; those that are not are dropped.
Unprinted(content) ==
  FlattenSeq([k \in 1 .. Len(content) |-> Printed[content[k]]])

DecodeOne(id, skipSpecial) ==
  IF id[1] = InVocab THEN id[2]
  ELSE IF ~IsSpecial(id) THEN Unprinted(id[2])
  ELSE IF skipSpecial THEN <<>> ELSE Bytes(id[2])

Decode(out, skipSpecial) ==
  FlattenSeq([k \in 1 .. Len(out) |-> DecodeOne(out[k], skipSpecial)])

-----------------------------------------------------------------------------
\* The id decodes to what it stands for.  An added token beyond the vocabulary
\* does only if its characters are the printed form of their own bytes.
Reversible(id) == id[1] < VocabSize \/ Unprinted(id[2]) = Bytes(id[2])

\* No byte of the text is lost or moved: decode gives back the bytes of what was
\* encoded, at every step of the scan, as long as no added token was met that
\* decode (tokenizer.cpp:506-526) cannot give back.
RoundTrips ==
  (\A k \in DOMAIN tokens : Reversible(tokens[k])) =>
    Decode(tokens, FALSE) \o Bytes(normal) = Bytes(SubSeq(text, 1, i - 1))

\* decode(ids, skip_special = true) leaves the added tokens out (tokenizer.h:27,
\* tokenizer.cpp:352 "special / added tokens").
SkipsSpecial ==
  ended => Decode(tokens, TRUE) = Decode(SelectSeq(tokens, LAMBDA id : id[1] = InVocab), FALSE)
=============================================================================
