----------------------------- MODULE MCTokenizer -----------------------------
(***************************************************************************)
(* Bounds for Tokenizer.  The characters have one member of every class    *)
(* that the patterns tell apart: letters in and outside ASCII, a mark, a   *)
(* digit, an ideograph and a punctuation mark of the CJK blocks, ASCII     *)
(* punctuation and symbols (the bar of the added tokens is a symbol of two *)
(* bytes), a space, a tab, a newline, a control character and U+0000.      *)
(*                                                                         *)
(* Texts: every text of up to three characters; longer ones of spaces,     *)
(* newlines, letters and punctuation, where the alternatives of the third  *)
(* pattern compete; runs of digits longer than three.  Merges: all lists   *)
(* of three over two letters, on texts of five.  Added tokens: one that    *)
(* starts another, one that is not ASCII, and two beyond the vocabulary.   *)
(***************************************************************************)
EXTENDS TokenizerReference

MCCat ==
  [x |-> {"L"}, y |-> {"L"}, eacute |-> {"L"}, acute |-> {"M"}, one |-> {"N"},
   han |-> {"L"}, middot |-> {"P"}, bang |-> {"P"}, plus |-> {"S"}, bar |-> {"S"},
   sp |-> {}, tab |-> {}, nl |-> {}, ctl |-> {}, nul |-> {}]
MCChar == DOMAIN MCCat
TwoBytes == {"eacute", "acute", "han", "middot", "bar"}
Unprintable == {"sp", "tab", "nl", "ctl", "nul"}
MCUtf8 == [c \in MCChar |-> IF c \in TwoBytes THEN <<"lead", c>> ELSE <<c>>]
MCByte == MCChar \cup {"lead"}
MCPrinted == [c \in MCChar |-> IF c \in TwoBytes \cup Unprintable THEN <<>> ELSE <<c>>]
MCWhite == {"sp", "tab", "nl"}
MCNewLine == {"nl"}
MCCjk == {"han", "middot"}
MCAsciiAlpha == {"x", "y"}
MCAsciiPunct == {"bang", "plus"}

MCVocabSize == 100

Texts(C, n) == UNION {[1 .. m -> C] : m \in 0 .. n}
MCTexts == Texts(MCChar \ {"y"}, 3) \cup Texts({"sp", "nl", "x", "bang"}, 5)
             \cup Texts({"one", "x"}, 5)
WordMerges == <<<<<<"sp">>, <<"x">>>>, <<<<"x">>, <<"x">>>>, <<<<"one">>, <<"one">>>>>>

\* The merges of a file join symbols that earlier merges made, each once.
Joined(pair) == pair[1] \o pair[2]
Known(rules) == {<<"x">>, <<"y">>} \cup {Joined(rules[r]) : r \in DOMAIN rules}
More(lists) ==
  UNION {{Append(rules, pair) : pair \in {p \in Known(rules) \X Known(rules) :
                                            Joined(p) \notin Known(rules)}} : rules \in lists}
MCMerges == More(More(More({<<>>})))

\* <<'!', 'x'>> is the start of <<'!', 'x', 'x'>>; the last id of the vocabulary.
MCAdded ==
  {[id |-> 0, content |-> <<"bang", "x">>], [id |-> 4, content |-> <<"bang", "x", "x">>],
   [id |-> MCVocabSize - 1, content |-> <<"bar">>]}

\* A tokenizer file whose added tokens follow the vocabulary, as in the model's:
\* one of them prints itself, the other does not.
MCBeyond ==
  {[id |-> MCVocabSize + 20, content |-> <<"bang", "x">>],
   [id |-> MCVocabSize + 21, content |-> <<"bar">>]}

Input(t, m, a) == [text |-> t, merges |-> m, added |-> a]
MCInputs ==
  {Input(t, WordMerges, {}) : t \in MCTexts}
  \cup {Input(t, m, {}) : t \in [1 .. 5 -> {"x", "y"}], m \in MCMerges}
  \cup {Input(t, WordMerges, a) : t \in Texts({"bang", "x", "bar"}, 4), a \in {MCAdded, MCBeyond}}

MCSkipInputs == {Input(t, <<>>, MCBeyond) : t \in Texts({"x", "bang", "bar"}, 3)}
==============================================================================
