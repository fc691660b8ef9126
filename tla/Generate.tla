------------------------------ MODULE Generate ------------------------------
(***************************************************************************)
(* The sequential decoding loop: Engine::generate and, after its inputs    *)
(* are assembled, generate_from_image (src/src/engine/engine.cpp), host    *)
(* and device alike, with the sampler and its no-repeat-ngram processor    *)
(* (src/src/engine/sampler.cpp).                                           *)
(*                                                                         *)
(* Logits are abstracted to the tokens they leave possible: the processor  *)
(* puts banned tokens at minus infinity, and sampling is a choice among    *)
(* the others.  The prompt is not empty: the forward pass of no tokens     *)
(* reads the row before its buffer.                                        *)
(***************************************************************************)
EXTENDS Integers, Sequences

CONSTANTS
  Vocab,      \* vocab_size
  Eos,        \* eos_token_id
  Ngrams,     \* values of no_repeat_ngram_size
  Windows,    \* values of ngram_window
  Limits,     \* values of the token limit
  MaxPrompt   \* bound on the prompts the model enumerates

Tokens == 0 .. Vocab - 1

ASSUME GenerateAssumption ==
  /\ Vocab \in Nat \ {0} /\ Eos \in Tokens
  /\ Ngrams \subseteq Int /\ Windows \subseteq Int /\ Limits \subseteq Int
  /\ MaxPrompt \in Nat

VARIABLES
  ngram, window, greedy,  \* ngram size, ngram_window, Sampler::sample is greedy
  pc,       \* "idle", "sample", "decode" or "done"
  limit,    \* limit
  step,     \* step
  prompt,   \* prompt
  history,  \* history: the prompt and the tokens generated
  tokens,   \* res.tokens
  pos,      \* pos
  fed,      \* what the decoder was given: [token, pos] in order
  forced    \* no token was left when the last of tokens was sampled

config == <<ngram, window, greedy>>
genVars == <<ngram, window, greedy, pc, limit, step, prompt, history, tokens, pos,
            fed, forced>>

GenTypeOK ==
  /\ ngram \in Ngrams /\ window \in Windows /\ greedy \in BOOLEAN
  /\ pc \in {"idle", "sample", "decode", "done"}
  /\ limit \in Int /\ step \in Nat /\ pos \in Nat
  /\ (pc \in {"sample", "decode"} => step < limit)
  /\ prompt \in Seq(Tokens) /\ history \in Seq(Tokens) /\ tokens \in Seq(Tokens)
  /\ fed \in Seq([token : Tokens, pos : Nat])
  /\ forced \in BOOLEAN

GenInit ==
  /\ ngram \in Ngrams /\ window \in Windows /\ greedy \in BOOLEAN
  /\ pc = "idle"
  /\ limit = 0 /\ step = 0 /\ pos = 0
  /\ prompt = <<>> /\ history = <<>> /\ tokens = <<>> /\ fed = <<>>
  /\ forced = FALSE

-----------------------------------------------------------------------------
\* apply_no_repeat_ngram.  Indices are the code's, from 0.
At(h, i) == h[i + 1]

SearchStart(h) == IF Len(h) > window THEN Len(h) - window ELSE 0
MutSearchEnd(h) == Len(h) - ngram
SearchEnd(h) == Len(h) - ngram + 1

\* The ngram - 1 tokens at idx are the last ones of h.
MutMatches(h, idx) ==
  \A j \in 1 .. ngram - 2 : At(h, idx + j) = At(h, Len(h) - (ngram - 1) + j)
Matches(h, idx) ==
  \A j \in 0 .. ngram - 2 : At(h, idx + j) = At(h, Len(h) - (ngram - 1) + j)

Banned(h) ==
  IF ngram <= 0 \/ Len(h) < ngram THEN {}
  ELSE {At(h, idx + ngram - 1) :
          idx \in {i \in SearchStart(h) .. SearchEnd(h) - 1 : Matches(h, i)}}

\* sample(): one of the tokens left.  When none is, greedy() returns the first
\* index, and sample() the last one of an arbitrary order.
Sampled(banned) ==
  IF Tokens \ banned # {} THEN Tokens \ banned
  ELSE IF greedy THEN {0} ELSE Tokens

-----------------------------------------------------------------------------
Feed(token, p) == [token |-> token, pos |-> p]

\* The call: prefill, then the loop, which a limit of 0 or less does not enter.
Start(P, lim) ==
  /\ pc \in {"idle", "done"}
  /\ prompt' = P /\ history' = P
  /\ fed' = [i \in DOMAIN P |-> Feed(P[i], i - 1)]
  /\ pos' = Len(P)
  /\ tokens' = <<>>
  /\ limit' = lim /\ step' = 0
  /\ forced' = FALSE
  /\ pc' = IF lim > 0 THEN "sample" ELSE "done"
  /\ UNCHANGED config

\* One more step of the loop fits under the limit.
MutMoreSteps == step + 1 <= limit
MoreSteps == step + 1 < limit

Sample ==
  /\ pc = "sample"
  /\ \E tok \in Sampled(Banned(history)) :
       IF tok = Eos
         THEN pc' = "done" /\ UNCHANGED <<history, tokens, forced>>
         ELSE /\ tokens' = Append(tokens, tok)
              /\ history' = Append(history, tok)
              /\ forced' = (Tokens \subseteq Banned(history))
              /\ pc' = IF MoreSteps THEN "decode" ELSE "done"
  /\ UNCHANGED <<config, limit, step, prompt, pos, fed>>

\* The decoder appends the token at pos to its cache.
MutNextPos == pos
NextPos == pos + 1

Decode ==
  /\ pc = "decode"
  /\ fed' = Append(fed, Feed(history[Len(history)], pos))
  /\ pos' = NextPos
  /\ step' = step + 1
  /\ pc' = "sample"
  /\ UNCHANGED <<config, limit, prompt, history, tokens, forced>>

GenNext ==
  \/ \E n \in 1 .. MaxPrompt : \E P \in [1 .. n -> Tokens], lim \in Limits : Start(P, lim)
  \/ Sample
  \/ Decode

GenSpec == GenInit /\ [][GenNext]_genVars

-----------------------------------------------------------------------------
\* h ends with an n-gram that occurs before, in the `window` tokens that precede
\* its last one.
RepeatsNgram(h) ==
  \E i \in DOMAIN h :
    /\ i + ngram - 1 < Len(h)
    /\ i >= Len(h) - window
    /\ SubSeq(h, i, i + ngram - 1) = SubSeq(h, Len(h) - ngram + 1, Len(h))

\* No generated token completes an n-gram of the window a second time, unless
\* the processor left no token at all (sampler.h:35-36).
NoRepeat ==
  (ngram > 0 /\ tokens # <<>> /\ ~ forced) => ~ RepeatsNgram(history)

\* The processor bans nothing else: every banned token would repeat an n-gram.
BansOnlyRepeats ==
  (ngram > 0 /\ pc = "sample") =>
    \A t \in Banned(history) : RepeatsNgram(Append(history, t))

\* The logits that a sample looks at are those of the whole history, each token
\* at its own position: the decoder's input never runs behind or ahead of it.
DecoderSawHistory ==
  pc = "sample" => fed = [i \in DOMAIN history |-> Feed(history[i], i - 1)]

\* The result is what was generated, within the limit and without the
\* end-of-sequence token.
ResultIsGenerated ==
  /\ history = prompt \o tokens
  /\ Len(tokens) <= IF limit > 0 THEN limit ELSE 0
  /\ \A i \in DOMAIN tokens : tokens[i] # Eos
=============================================================================
