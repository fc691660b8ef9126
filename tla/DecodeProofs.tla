---------------------------- MODULE DecodeProofs ----------------------------
(***************************************************************************)
(* Proofs about decoding one request: Generate, the loop of the engine,    *)
(* and GraphCache, the buffers and graphs its decodes use on the device.   *)
(*                                                                         *)
(* Generate, for every vocabulary, n-gram size, window, token limit and    *)
(* prompt: what the sampler bans is exactly what would repeat an n-gram of *)
(* the window, and the decoder is fed the history it is asked about.       *)
(*                                                                         *)
(* GraphCache, for any prompt lengths, slots and capacities.  The batched  *)
(* graphs are safe because every operation that reallocates a buffer they  *)
(* bake discards them first: none is ever left with a freed buffer.  The   *)
(* graph of generate is not discarded when the cache grows; it is safe     *)
(* from that because it only survives a prefill of its own length, for     *)
(* which the cache is large enough already.  That is the strengthening     *)
(* SingleFresh and IGenerate make.                                         *)
(***************************************************************************)
EXTENDS Generate, GraphCache, TLAPS

-----------------------------------------------------------------------------
(* The loop of generate. *)

\* The tokens of h, each at its own position.
Fed(h) == [i \in 1 .. Len(h) |-> Feed(h[i], i - 1)]

\* How far the loop has got.
Progress ==
  /\ pc = "sample" => Len(tokens) = step
  /\ pc = "decode" => Len(tokens) = step + 1 /\ step + 1 < limit
  /\ Len(tokens) <= IF limit > 0 THEN limit ELSE 0

\* The decoder is one token behind while it decodes.
DecoderInv ==
  /\ pc = "sample" => fed = Fed(history) /\ pos = Len(history)
  /\ pc = "decode" => fed = Fed(SubSeq(history, 1, Len(history) - 1))
                        /\ pos = Len(history) - 1

\* The inductive invariant.
GenInv ==
  /\ GenTypeOK /\ Progress /\ DecoderInv /\ NoRepeat /\ ResultIsGenerated

-----------------------------------------------------------------------------
LEMMA AppendFacts ==
  ASSUME NEW S, NEW s \in Seq(S), NEW x \in S
  PROVE  /\ Append(s, x) \in Seq(S)
         /\ Len(s) \in Nat /\ Len(Append(s, x)) = Len(s) + 1
         /\ DOMAIN Append(s, x) = 1 .. Len(s) + 1
         /\ \A i \in 1 .. Len(s) : Append(s, x)[i] = s[i]
         /\ Append(s, x)[Len(s) + 1] = x
OBVIOUS

LEMMA EmptyIsSeq ==
  ASSUME NEW S
  PROVE  <<>> \in Seq(S)
OBVIOUS

LEMMA ConcatLength ==
  ASSUME NEW S, NEW s \in Seq(S), NEW u \in Seq(S)
  PROVE  Len(s \o u) = Len(s) + Len(u) /\ Len(s) \in Nat /\ Len(u) \in Nat
OBVIOUS

LEMMA FrontOfAppend ==
  ASSUME NEW S, NEW s \in Seq(S), NEW x \in S
  PROVE  SubSeq(Append(s, x), 1, Len(Append(s, x)) - 1) = s
<1>1. /\ Append(s, x) \in Seq(S) /\ Len(s) \in Nat /\ Len(Append(s, x)) = Len(s) + 1
      /\ \A i \in 1 .. Len(s) : Append(s, x)[i] = s[i]
  BY AppendFacts
<1>2. /\ SubSeq(Append(s, x), 1, Len(s)) \in Seq(S)
      /\ Len(SubSeq(Append(s, x), 1, Len(s))) = Len(s)
      /\ \A i \in 1 .. Len(s) : SubSeq(Append(s, x), 1, Len(s))[i] = Append(s, x)[i]
  BY <1>1
<1> QED
  BY <1>1, <1>2

\* The bans of apply_no_repeat_ngram are exactly the tokens that would complete
\* an n-gram of the window again.
LEMMA BannedIffRepeats ==
  ASSUME ngram \in Int, window \in Int, ngram > 0,
         NEW h \in Seq(Tokens), NEW t \in Tokens
  PROVE  t \in Banned(h) <=> RepeatsNgram(Append(h, t))
<1> DEFINE g == Append(h, t)
           n == Len(h)
<1>1. /\ g \in Seq(Tokens) /\ n \in Nat /\ Len(g) = n + 1 /\ DOMAIN g = 1 .. n + 1
      /\ \A i \in 1 .. n : g[i] = h[i]
      /\ g[n + 1] = t
  BY AppendFacts
<1> HIDE DEF g
\* Two n-grams of g are equal when their tokens are.
<1>2. ASSUME NEW i \in 1 .. n + 1, i + ngram - 1 < n + 1
      PROVE  SubSeq(g, i, i + ngram - 1) = SubSeq(g, n + 1 - ngram + 1, n + 1)
               <=> \A j \in 1 .. ngram : g[i + j - 1] = g[n + 1 - ngram + j]
  <2>1. /\ SubSeq(g, i, i + ngram - 1) \in Seq(Tokens)
        /\ Len(SubSeq(g, i, i + ngram - 1)) = ngram
        /\ \A j \in 1 .. ngram : SubSeq(g, i, i + ngram - 1)[j] = g[i + j - 1]
    BY <1>1, <1>2
  <2>2. /\ SubSeq(g, n + 1 - ngram + 1, n + 1) \in Seq(Tokens)
        /\ Len(SubSeq(g, n + 1 - ngram + 1, n + 1)) = ngram
        /\ \A j \in 1 .. ngram :
             SubSeq(g, n + 1 - ngram + 1, n + 1)[j] = g[n + 1 - ngram + j]
    BY <1>1, <1>2
  <2> DEFINE a == SubSeq(g, i, i + ngram - 1)
             b == SubSeq(g, n + 1 - ngram + 1, n + 1)
  <2>3. a = b => \A j \in 1 .. ngram : a[j] = b[j]
    OBVIOUS
  <2>4. /\ a \in Seq(Tokens) /\ b \in Seq(Tokens)
        /\ Len(a) = ngram /\ Len(b) = ngram
    BY <2>1, <2>2
  <2>5. (\A j \in 1 .. ngram : a[j] = b[j]) => a = b
    <3> HIDE DEF a, b, n
    <3> QED
      BY <2>4
  <2>6. (\A j \in 1 .. ngram : a[j] = b[j])
          <=> \A j \in 1 .. ngram : g[i + j - 1] = g[n + 1 - ngram + j]
    BY <2>1, <2>2
  <2> QED
    BY <2>3, <2>5, <2>6
\* The last token of the n-gram is the new one, the others are Matches.
<1>3. ASSUME NEW i \in 1 .. n + 1, i + ngram - 1 < n + 1
      PROVE  (\A j \in 1 .. ngram : g[i + j - 1] = g[n + 1 - ngram + j])
               <=> Matches(h, i - 1) /\ At(h, i - 1 + ngram - 1) = t
  <2>1. At(h, i - 1 + ngram - 1) = g[i + ngram - 1] /\ g[n + 1 - ngram + ngram] = t
    BY <1>1, <1>3 DEF At
  <2>2. ASSUME NEW j \in 0 .. ngram - 2
        PROVE  /\ At(h, i - 1 + j) = g[i + (j + 1) - 1]
               /\ At(h, n - (ngram - 1) + j) = g[n + 1 - ngram + (j + 1)]
    <3>1. i - 1 + j + 1 = i + (j + 1) - 1 /\ i - 1 + j + 1 \in 1 .. n
      BY <1>1, <1>3
    <3>2. /\ n - (ngram - 1) + j + 1 = n + 1 - ngram + (j + 1)
          /\ n - (ngram - 1) + j + 1 \in 1 .. n
      BY <1>1, <1>3
    <3> QED
      BY <3>1, <3>2, <1>1 DEF At
  <2>3. Matches(h, i - 1)
          <=> \A j \in 0 .. ngram - 2 : g[i + (j + 1) - 1] = g[n + 1 - ngram + (j + 1)]
    BY <2>2 DEF Matches
  <2>4. (\A j \in 0 .. ngram - 2 : g[i + (j + 1) - 1] = g[n + 1 - ngram + (j + 1)])
          <=> \A j \in 1 .. ngram - 1 : g[i + j - 1] = g[n + 1 - ngram + j]
    <3>1. ASSUME \A j \in 0 .. ngram - 2 : g[i + (j + 1) - 1] = g[n + 1 - ngram + (j + 1)],
                 NEW k \in 1 .. ngram - 1
          PROVE  g[i + k - 1] = g[n + 1 - ngram + k]
      <4>1. k - 1 \in 0 .. ngram - 2 /\ (k - 1) + 1 = k
        OBVIOUS
      <4> QED
        BY <3>1, <4>1
    <3>2. ASSUME \A j \in 1 .. ngram - 1 : g[i + j - 1] = g[n + 1 - ngram + j],
                 NEW k \in 0 .. ngram - 2
          PROVE  g[i + (k + 1) - 1] = g[n + 1 - ngram + (k + 1)]
      <4>1. k + 1 \in 1 .. ngram - 1
        OBVIOUS
      <4> QED
        BY <3>2, <4>1
    <3> QED
      BY <3>1, <3>2
  <2>5. (\A j \in 1 .. ngram : g[i + j - 1] = g[n + 1 - ngram + j])
          <=> /\ \A j \in 1 .. ngram - 1 : g[i + j - 1] = g[n + 1 - ngram + j]
              /\ g[i + ngram - 1] = g[n + 1 - ngram + ngram]
    <3>1. 1 .. ngram = (1 .. ngram - 1) \cup {ngram}
      OBVIOUS
    <3> QED
      BY <3>1
  <2> QED
    BY <2>1, <2>3, <2>4, <2>5
<1>4. RepeatsNgram(g) <=>
        \E i \in 1 .. n + 1 :
          /\ i + ngram - 1 < n + 1 /\ i >= n + 1 - window
          /\ SubSeq(g, i, i + ngram - 1) = SubSeq(g, n + 1 - ngram + 1, n + 1)
  <2>1. DOMAIN g = 1 .. n + 1 /\ Len(g) = n + 1
    BY <1>1
  <2>2. RepeatsNgram(g) <=>
          \E i \in DOMAIN g :
            /\ i + ngram - 1 < Len(g) /\ i >= Len(g) - window
            /\ SubSeq(g, i, i + ngram - 1) = SubSeq(g, Len(g) - ngram + 1, Len(g))
    BY Zenon DEF RepeatsNgram
  <2>3. \A i : /\ (i + ngram - 1 < Len(g)) = (i + ngram - 1 < n + 1)
               /\ (i >= Len(g) - window) = (i >= n + 1 - window)
               /\ (i \in DOMAIN g) = (i \in 1 .. n + 1)
    BY <2>1
  <2>4. SubSeq(g, Len(g) - ngram + 1, Len(g)) = SubSeq(g, n + 1 - ngram + 1, n + 1)
    BY <2>1
  <2> HIDE DEF n
  <2> QED
    BY <2>2, <2>3, <2>4, Zenon
<1>5. ASSUME t \in Banned(h)
      PROVE  RepeatsNgram(g)
  <2>1. PICK idx \in SearchStart(h) .. SearchEnd(h) - 1 :
          Matches(h, idx) /\ At(h, idx + ngram - 1) = t
    BY <1>5 DEF Banned
  <2>2. PICK i \in Int : i - 1 = idx
    <3>1. idx + 1 \in Int /\ (idx + 1) - 1 = idx
      BY <1>1 DEF SearchStart, SearchEnd
    <3> QED
      BY <3>1
  <2>3. i \in 1 .. n + 1 /\ i + ngram - 1 < n + 1 /\ i >= n + 1 - window
    BY <1>1, <2>2 DEF SearchStart, SearchEnd
  <2>4. Matches(h, i - 1) /\ At(h, i - 1 + ngram - 1) = t
    BY <2>1, <2>2
  <2>5. SubSeq(g, i, i + ngram - 1) = SubSeq(g, n + 1 - ngram + 1, n + 1)
    BY <2>3, <2>4, <1>2, <1>3
  <2> QED
    BY <2>3, <2>5, <1>4
<1>6. ASSUME RepeatsNgram(g)
      PROVE  t \in Banned(h)
  <2>1. PICK i \in 1 .. n + 1 :
          /\ i + ngram - 1 < n + 1 /\ i >= n + 1 - window
          /\ SubSeq(g, i, i + ngram - 1) = SubSeq(g, n + 1 - ngram + 1, n + 1)
    BY <1>6, <1>4
  <2>2. Matches(h, i - 1) /\ At(h, i - 1 + ngram - 1) = t
    BY <2>1, <1>2, <1>3
  <2>3. i - 1 \in SearchStart(h) .. SearchEnd(h) - 1 /\ ~ (ngram <= 0 \/ n < ngram)
    BY <2>1, <1>1 DEF SearchStart, SearchEnd
  <2> QED
    BY <2>2, <2>3 DEF Banned
<1> QED
  BY <1>5, <1>6 DEF g

-----------------------------------------------------------------------------
LEMMA FedType ==
  ASSUME NEW h \in Seq(Tokens)
  PROVE  /\ Fed(h) \in Seq([token : Tokens, pos : Nat]) /\ Len(Fed(h)) = Len(h)
         /\ \A i \in 1 .. Len(h) : Fed(h)[i] = Feed(h[i], i - 1)
<1>1. \A i \in 1 .. Len(h) : Feed(h[i], i - 1) \in [token : Tokens, pos : Nat]
  BY DEF Feed
<1> QED
  BY <1>1 DEF Fed

LEMMA FedAppend ==
  ASSUME NEW h \in Seq(Tokens), NEW t \in Tokens
  PROVE  Append(Fed(h), Feed(t, Len(h))) = Fed(Append(h, t))
<1> DEFINE a == Append(Fed(h), Feed(t, Len(h)))
           b == Fed(Append(h, t))
           R == [token : Tokens, pos : Nat]
<1>1. /\ Append(h, t) \in Seq(Tokens) /\ Len(h) \in Nat /\ Len(Append(h, t)) = Len(h) + 1
      /\ \A i \in 1 .. Len(h) : Append(h, t)[i] = h[i]
      /\ Append(h, t)[Len(h) + 1] = t
  BY AppendFacts
<1>2. Fed(h) \in Seq(R) /\ Len(Fed(h)) = Len(h)
  BY FedType
<1>3. b \in Seq(R) /\ Len(b) = Len(h) + 1
  BY <1>1, FedType
<1>4. Feed(t, Len(h)) \in R
  BY <1>1 DEF Feed
<1>5. /\ a \in Seq(R) /\ Len(a) = Len(h) + 1
      /\ \A i \in 1 .. Len(h) : a[i] = Fed(h)[i]
      /\ a[Len(h) + 1] = Feed(t, Len(h))
  BY <1>2, <1>4, AppendFacts
<1>6. ASSUME NEW i \in 1 .. Len(h) + 1
      PROVE  a[i] = b[i]
  <2>1. b[i] = Feed(Append(h, t)[i], i - 1)
    BY <1>1, FedType
  <2>2. CASE i \in 1 .. Len(h)
    BY <2>1, <2>2, <1>1, <1>5, FedType
  <2>3. CASE i = Len(h) + 1
    <3>1. i - 1 = Len(h)
      BY <2>3, <1>1
    <3> QED
      BY <2>1, <2>3, <3>1, <1>1, <1>5
  <2>4. i \in 1 .. Len(h) \/ i = Len(h) + 1
    BY <1>1
  <2> QED
    BY <2>2, <2>3, <2>4
<1> HIDE DEF a, b, R
<1>7. a = b
  BY <1>1, <1>3, <1>5, <1>6
<1> QED
  BY <1>7 DEF a, b

-----------------------------------------------------------------------------
LEMMA GenInitially ==
  ASSUME GenInit
  PROVE  GenInv
<1>1. GenTypeOK
  <2>1. prompt \in Seq(Tokens) /\ history \in Seq(Tokens) /\ tokens \in Seq(Tokens)
    BY EmptyIsSeq, Zenon DEF GenInit
  <2>2. fed \in Seq([token : Tokens, pos : Nat])
    BY EmptyIsSeq, Zenon DEF GenInit
  <2>3. /\ limit \in Int /\ step \in Nat /\ pos \in Nat
        /\ pc \in {"idle", "sample", "decode", "done"}
        /\ (pc \in {"sample", "decode"} => step < limit)
    BY DEF GenInit
  <2>4. ngram \in Ngrams /\ window \in Windows /\ greedy \in BOOLEAN /\ forced \in BOOLEAN
    BY Zenon DEF GenInit
  <2> QED
    BY <2>1, <2>2, <2>3, <2>4, Zenon DEF GenTypeOK
<1>2. Progress /\ DecoderInv
  BY DEF GenInit, Progress, DecoderInv
<1>3. NoRepeat /\ ResultIsGenerated
  BY DEF GenInit, NoRepeat, ResultIsGenerated
<1> QED
  BY <1>1, <1>2, <1>3 DEF GenInv

LEMMA StartKeepsInv ==
  ASSUME GenInv, NEW n \in 1 .. MaxPrompt, NEW P \in [1 .. n -> Tokens],
         NEW lim \in Limits, Start(P, lim)
  PROVE  GenInv'
<1>1. P \in Seq(Tokens) /\ Len(P) = n /\ n \in Nat /\ DOMAIN P = 1 .. n
  BY GenerateAssumption DEF GenerateAssumption
<1>2. /\ prompt' = P /\ history' = P /\ fed' = Fed(P) /\ pos' = Len(P)
      /\ tokens' = <<>> /\ limit' = lim /\ step' = 0 /\ forced' = FALSE
      /\ pc' = (IF lim > 0 THEN "sample" ELSE "done")
      /\ ngram' = ngram /\ window' = window /\ greedy' = greedy
  BY <1>1 DEF Start, Fed, config
<1>3. lim \in Int
  BY GenerateAssumption DEF GenerateAssumption
<1>4. GenTypeOK'
  <2>1. fed' \in Seq([token : Tokens, pos : Nat]) /\ tokens' \in Seq(Tokens)
    <3>1. Fed(P) \in Seq([token : Tokens, pos : Nat])
      BY <1>1, FedType
    <3> QED
      BY <3>1, <1>2, EmptyIsSeq, Zenon
  <2>2. pos' \in Nat /\ step' \in Nat /\ (pc' \in {"sample", "decode"} => step' < limit')
    BY <1>1, <1>2, <1>3
  <2> QED
    BY <1>1, <1>2, <1>3, <2>1, <2>2 DEF GenInv, GenTypeOK
<1>5. Progress' /\ DecoderInv'
  BY <1>2, <1>3 DEF Progress, DecoderInv
<1>6. NoRepeat' /\ ResultIsGenerated'
  BY <1>1, <1>2, <1>3 DEF NoRepeat, ResultIsGenerated
<1> QED
  BY <1>4, <1>5, <1>6 DEF GenInv

\* The token that Sample keeps.
LEMMA SampleKeepsInv ==
  ASSUME GenInv, Sample
  PROVE  GenInv'
<1>1. /\ GenTypeOK /\ Progress /\ DecoderInv /\ NoRepeat /\ ResultIsGenerated
      /\ pc = "sample"
      /\ ngram' = ngram /\ window' = window /\ greedy' = greedy
      /\ limit' = limit /\ step' = step /\ prompt' = prompt /\ pos' = pos /\ fed' = fed
  BY DEF GenInv, Sample, config
<1>2. PICK tok \in Sampled(Banned(history)) :
       IF tok = Eos
         THEN pc' = "done" /\ UNCHANGED <<history, tokens, forced>>
         ELSE /\ tokens' = Append(tokens, tok)
              /\ history' = Append(history, tok)
              /\ forced' = (Tokens \subseteq Banned(history))
              /\ pc' = IF MoreSteps THEN "decode" ELSE "done"
  BY DEF Sample
<1>3. tok \in Tokens /\ (tok \in Banned(history) => Tokens \subseteq Banned(history))
  BY GenerateAssumption DEF GenerateAssumption, Sampled, Tokens
<1>4. CASE tok = Eos
  <2>1. pc' = "done" /\ history' = history /\ tokens' = tokens /\ forced' = forced
    BY <1>2, <1>4
  <2>2. GenTypeOK'
    BY <1>1, <2>1 DEF GenTypeOK
  <2>3. Progress' /\ DecoderInv'
    BY <1>1, <2>1 DEF Progress, DecoderInv
  <2>4. NoRepeat' /\ ResultIsGenerated'
    BY <1>1, <2>1 DEF NoRepeat, ResultIsGenerated, RepeatsNgram
  <2> QED
    BY <2>2, <2>3, <2>4 DEF GenInv
<1>5. CASE tok # Eos
  <2>1. /\ tokens' = Append(tokens, tok) /\ history' = Append(history, tok)
        /\ forced' = (Tokens \subseteq Banned(history))
        /\ pc' = IF MoreSteps THEN "decode" ELSE "done"
    BY <1>2, <1>5
  <2>2. /\ history \in Seq(Tokens) /\ tokens \in Seq(Tokens) /\ prompt \in Seq(Tokens)
        /\ limit \in Int /\ step \in Nat /\ step < limit /\ Len(tokens) = step
        /\ ngram \in Int /\ window \in Int
    BY <1>1, GenerateAssumption DEF GenTypeOK, Progress, GenerateAssumption
  <2>3. /\ history' \in Seq(Tokens) /\ tokens' \in Seq(Tokens)
        /\ Len(tokens') = step + 1 /\ Len(tokens) \in Nat
        /\ \A i \in 1 .. Len(tokens) : tokens'[i] = tokens[i]
        /\ tokens'[Len(tokens) + 1] = tok
    BY <1>3, <2>1, <2>2, AppendFacts
  <2>4. GenTypeOK'
    BY <1>1, <2>1, <2>2, <2>3 DEF GenTypeOK, MoreSteps
  <2>5. Progress'
    BY <1>1, <2>1, <2>2, <2>3 DEF Progress, MoreSteps
  <2>6. DecoderInv'
    <3>1. SubSeq(history', 1, Len(history') - 1) = history
      BY <1>3, <2>1, <2>2, FrontOfAppend
    <3>2. Len(history') - 1 = Len(history)
      BY <1>3, <2>1, <2>2, AppendFacts
    <3>3. pc' # "sample" /\ fed = Fed(history) /\ pos = Len(history)
      BY <1>1, <2>1 DEF DecoderInv
    <3> QED
      BY <1>1, <3>1, <3>2, <3>3 DEF DecoderInv
  <2>7. NoRepeat'
    <3> SUFFICES ASSUME ngram > 0, ~ forced'
                 PROVE  ~ RepeatsNgram(history)'
      BY <1>1 DEF NoRepeat
    <3>1. tok \notin Banned(history)
      BY <1>3, <2>1
    <3>2. ~ RepeatsNgram(Append(history, tok))
      BY <3>1, <1>3, <2>2, BannedIffRepeats
    <3> QED
      BY <3>2, <1>1, <2>1 DEF RepeatsNgram
  <2>8. ResultIsGenerated'
    <3>1. history' = prompt \o tokens'
      <4>1. Append(prompt \o tokens, tok) = prompt \o Append(tokens, tok)
        <5>1. prompt \in Seq(Tokens) /\ tokens \in Seq(Tokens) /\ tok \in Tokens
          BY <1>3, <2>2
        <5> QED
          BY <5>1
      <4> QED
        BY <4>1, <1>1, <2>1 DEF ResultIsGenerated
    <3>2. Len(tokens') <= IF limit > 0 THEN limit ELSE 0
      BY <2>2, <2>3
    <3>3. \A i \in DOMAIN tokens' : tokens'[i] # Eos
      <4>1. DOMAIN tokens' = 1 .. Len(tokens) + 1
        BY <2>2, <2>3
      <4>2. \A i \in 1 .. Len(tokens) : tokens[i] # Eos
        BY <1>1, <2>2 DEF ResultIsGenerated
      <4> QED
        BY <4>1, <4>2, <2>2, <2>3, <1>5
    <3> QED
      BY <1>1, <3>1, <3>2, <3>3 DEF ResultIsGenerated
  <2> QED
    BY <2>4, <2>5, <2>6, <2>7, <2>8 DEF GenInv
<1> QED
  BY <1>4, <1>5

LEMMA DecodeKeepsInv ==
  ASSUME GenInv, Decode
  PROVE  GenInv'
<1>1. /\ GenTypeOK /\ Progress /\ DecoderInv /\ NoRepeat /\ ResultIsGenerated
      /\ pc = "decode" /\ pc' = "sample" /\ step' = step + 1 /\ pos' = pos + 1
      /\ fed' = Append(fed, Feed(history[Len(history)], pos))
      /\ ngram' = ngram /\ window' = window /\ greedy' = greedy /\ forced' = forced
      /\ limit' = limit /\ prompt' = prompt /\ history' = history /\ tokens' = tokens
  BY DEF GenInv, Decode, NextPos, config
<1> DEFINE n == Len(history)
           front == SubSeq(history, 1, n - 1)
<1>2. /\ history \in Seq(Tokens) /\ n \in Nat /\ n > 0
      /\ history[n] \in Tokens /\ pos = n - 1 /\ fed = Fed(front)
  <2>1. /\ history \in Seq(Tokens) /\ tokens \in Seq(Tokens) /\ prompt \in Seq(Tokens)
        /\ step \in Nat /\ Len(tokens) = step + 1 /\ history = prompt \o tokens
        /\ pos = n - 1 /\ fed = Fed(front)
    BY <1>1 DEF GenTypeOK, Progress, DecoderInv, ResultIsGenerated
  <2>2. n = Len(prompt) + Len(tokens) /\ Len(prompt) \in Nat
    BY <2>1, ConcatLength
  <2> QED
    BY <2>1, <2>2
<1>3. front \in Seq(Tokens) /\ Len(front) = n - 1 /\ Append(front, history[n]) = history
  BY <1>2
<1>4. fed' = Fed(history)
  <2>1. fed' = Append(Fed(front), Feed(history[n], Len(front)))
    BY <1>1, <1>2, <1>3
  <2> HIDE DEF front, n
  <2> QED
    BY <2>1, <1>2, <1>3, FedAppend
<1>5. GenTypeOK'
  <2>1. fed' \in Seq([token : Tokens, pos : Nat])
    BY <1>2, <1>4, FedType
  <2>2. pos' \in Nat /\ step' \in Nat /\ step' < limit'
    BY <1>1 DEF GenTypeOK, Progress
  <2> QED
    BY <1>1, <2>1, <2>2 DEF GenTypeOK
<1>6. Progress'
  BY <1>1 DEF Progress, GenTypeOK
<1>7. DecoderInv'
  BY <1>1, <1>2, <1>4 DEF DecoderInv
<1>8. NoRepeat' /\ ResultIsGenerated'
  BY <1>1 DEF NoRepeat, ResultIsGenerated, RepeatsNgram
<1> QED
  BY <1>5, <1>6, <1>7, <1>8 DEF GenInv

LEMMA StutterKeepsInv ==
  ASSUME GenInv, UNCHANGED genVars
  PROVE  GenInv'
BY DEF GenInv, genVars, config, GenTypeOK, Progress, DecoderInv, NoRepeat, RepeatsNgram,
   ResultIsGenerated

\* GenInv is an invariant of every call of generate.
THEOREM GenInvariant == GenSpec => []GenInv
<1>1. GenInit => GenInv
  BY GenInitially
<1>2. GenInv /\ [GenNext]_genVars => GenInv'
  BY StartKeepsInv, SampleKeepsInv, DecodeKeepsInv, StutterKeepsInv DEF GenNext
<1> QED
  BY <1>1, <1>2, PTL DEF GenSpec

\* The loop's variables keep their types, and a step is only taken below the
\* limit.
THEOREM GenTypeCorrect == GenSpec => []GenTypeOK
<1>1. GenInv => GenTypeOK
  BY DEF GenInv
<1> QED
  BY <1>1, GenInvariant, PTL

\* Whatever the n-gram size and the window, no generated token completes an
\* n-gram of the window again unless every token was banned (sampler.cpp).
THEOREM NeverRepeats == GenSpec => []NoRepeat
<1>1. GenInv => NoRepeat
  BY DEF GenInv
<1> QED
  BY <1>1, GenInvariant, PTL

\* And no token is banned that would not repeat one.
THEOREM BansNothingElse == GenSpec => []BansOnlyRepeats
<1>1. GenInv => BansOnlyRepeats
  <2> SUFFICES ASSUME GenInv, ngram > 0, NEW t \in Banned(history)
               PROVE  RepeatsNgram(Append(history, t))
    BY DEF BansOnlyRepeats
  <2>1. history \in Seq(Tokens) /\ ngram \in Int /\ window \in Int
    BY GenerateAssumption DEF GenInv, GenTypeOK, GenerateAssumption
  <2>2. t \in Tokens
    <3>1. PICK idx \in SearchStart(history) .. SearchEnd(history) - 1 :
            t = At(history, idx + ngram - 1)
      BY DEF Banned
    <3>2. idx + ngram - 1 + 1 \in 1 .. Len(history)
      BY <2>1 DEF SearchStart, SearchEnd
    <3> QED
      BY <2>1, <3>1, <3>2 DEF At
  <2> QED
    BY <2>1, <2>2, BannedIffRepeats
<1> QED
  BY <1>1, GenInvariant, PTL

\* Every sample looks at the logits of the whole history, each token at its own
\* position, whatever the prompt and the limit.
THEOREM SampleSeesHistory == GenSpec => []DecoderSawHistory
<1>1. GenInv => DecoderSawHistory
  <2> SUFFICES ASSUME GenInv, pc = "sample"
               PROVE  fed = [i \in DOMAIN history |-> Feed(history[i], i - 1)]
    BY DEF DecoderSawHistory
  <2>1. fed = Fed(history) /\ DOMAIN history = 1 .. Len(history)
    BY DEF GenInv, DecoderInv, GenTypeOK
  <2> QED
    BY <2>1 DEF Fed
<1> QED
  BY <1>1, GenInvariant, PTL

\* The result is the part of the history after the prompt, no longer than the
\* limit and without the end-of-sequence token.
THEOREM ResultCorrect == GenSpec => []ResultIsGenerated
<1>1. GenInv => ResultIsGenerated
  BY DEF GenInv
<1> QED
  BY <1>1, GenInvariant, PTL

-----------------------------------------------------------------------------
(* The graph cache. *)

USE GraphAssumption

Single == [ready : BOOLEAN, prefill : Int, freed : SUBSET Buffer]

\* The device states that the ensure_* operations take and return.
IsDevice(d) ==
  /\ d = [cap |-> d.cap, single |-> d.single, batch |-> d.batch]
  /\ d.cap \in [Buffer -> Nat]
  /\ d.single \in Single

\* Every batched graph addresses live buffers only.
GraphsFresh(d) == \A n \in DOMAIN d.batch : d.batch[n] = {}

\* The graph of generate, if there is one, addresses live token ids and a live
\* cache, and the cache has room for the prompt it was captured for.
SingleFresh(d) ==
  d.single.ready => /\ d.single.freed \cap {"tokens", "cache"} = {}
                    /\ d.cap["cache"] >= d.single.prefill + Window

Good(d) == IsDevice(d) /\ GraphsFresh(d) /\ SingleFresh(d)

\* What no operation does: shrink the cache, capture a graph.
Follows(d, e) ==
  /\ e.cap["cache"] >= d.cap["cache"]
  /\ e.single.ready => d.single.ready /\ e.single.prefill = d.single.prefill
  /\ DOMAIN e.batch \subseteq DOMAIN d.batch

LEMMA FollowsTransitive ==
  ASSUME NEW d, NEW e, NEW f, IsDevice(d), IsDevice(e), IsDevice(f),
         Follows(d, e), Follows(e, f)
  PROVE  Follows(d, f)
  BY DEF Follows, IsDevice, Buffer

LEMMA InvalidateGraphGood ==
  ASSUME NEW d, Good(d)
  PROVE  /\ Good(InvalidateGraph(d)) /\ Follows(d, InvalidateGraph(d))
         /\ ~ InvalidateGraph(d).single.ready
<1> DEFINE e == InvalidateGraph(d)
<1>1. e = [cap |-> d.cap, single |-> NotReady, batch |-> d.batch]
  BY DEF InvalidateGraph, Good, IsDevice
<1>2. NotReady \in Single /\ ~ NotReady.ready
  BY DEF NotReady, Single
<1> QED
  BY <1>1, <1>2 DEF Good, IsDevice, GraphsFresh, SingleFresh, Follows, Buffer

LEMMA InvalidateBatchGraphsGood ==
  ASSUME NEW d, Good(d)
  PROVE  /\ Good(InvalidateBatchGraphs(d)) /\ Follows(d, InvalidateBatchGraphs(d))
         /\ DOMAIN InvalidateBatchGraphs(d).batch = {}
         /\ InvalidateBatchGraphs(d).single = d.single
         /\ InvalidateBatchGraphs(d).cap = d.cap
<1> DEFINE e == InvalidateBatchGraphs(d)
<1>1. e = [cap |-> d.cap, single |-> d.single, batch |-> NoGraphs]
  BY DEF InvalidateBatchGraphs, Good, IsDevice
<1>2. DOMAIN NoGraphs = {}
  BY DEF NoGraphs
<1> QED
  BY <1>1, <1>2 DEF Good, IsDevice, GraphsFresh, SingleFresh, Follows, Buffer

\* Reallocating a buffer is safe when no captured graph is left that bakes it,
\* the single graph's scratch and router excepted.
LEMMA ReallocateGood ==
  ASSUME NEW d, Good(d), NEW b \in Buffer, NEW n \in Nat,
         b = "cache" => n >= d.cap["cache"],
         b \in BatchBakes => DOMAIN d.batch = {},
         b \in {"tokens", "cache"} => ~ d.single.ready
  PROVE  /\ Good(Reallocate(d, b, n)) /\ Follows(d, Reallocate(d, b, n))
         /\ Reallocate(d, b, n).cap["cache"] = IF b = "cache" THEN n ELSE d.cap["cache"]
<1> DEFINE e == Reallocate(d, b, n)
           s == IF d.single.ready /\ b \in SingleBakes
                  THEN [d.single EXCEPT !.freed = @ \cup {b}] ELSE d.single
           g == IF b \in BatchBakes
                  THEN [k \in DOMAIN d.batch |-> d.batch[k] \cup {b}] ELSE d.batch
<1>1. e = [cap |-> [d.cap EXCEPT ![b] = n], single |-> s, batch |-> g]
  BY DEF Reallocate
<1>2. e.cap = [d.cap EXCEPT ![b] = n] /\ e.single = s /\ e.batch = g
  BY <1>1
<1>3. d.cap \in [Buffer -> Nat] /\ d.single \in Single
  BY DEF Good, IsDevice
<1>4. e.cap \in [Buffer -> Nat]
      /\ e.cap["cache"] = (IF b = "cache" THEN n ELSE d.cap["cache"])
      /\ e.cap["cache"] >= d.cap["cache"]
  BY <1>2, <1>3 DEF Buffer
<1>5. s \in Single /\ s.ready = d.single.ready /\ s.prefill = d.single.prefill
  BY <1>3 DEF Single
<1>6. d.single.ready => s.freed \cap {"tokens", "cache"} = {}
  BY <1>3 DEF Good, SingleFresh, Single
<1>7. DOMAIN g = DOMAIN d.batch /\ \A k \in DOMAIN g : g[k] = {}
  BY DEF Good, GraphsFresh
<1>8. IsDevice(e)
  BY <1>1, <1>2, <1>4, <1>5 DEF IsDevice
<1>9. GraphsFresh(e)
  BY <1>2, <1>7 DEF GraphsFresh
<1>10. SingleFresh(e)
  <2> SUFFICES ASSUME e.single.ready
               PROVE  /\ e.single.freed \cap {"tokens", "cache"} = {}
                      /\ e.cap["cache"] >= e.single.prefill + Window
    BY DEF SingleFresh
  <2>1. d.single.ready
    BY <1>2, <1>5
  <2>2. d.cap["cache"] >= d.single.prefill + Window
    BY <2>1 DEF Good, SingleFresh
  <2>3. d.single.prefill \in Int /\ d.cap["cache"] \in Nat /\ e.cap["cache"] \in Nat
    BY <1>3, <1>4 DEF Single, Buffer
  <2> QED
    BY <1>2, <1>4, <1>5, <1>6, <2>1, <2>2, <2>3
<1>11. Follows(d, e)
  BY <1>2, <1>4, <1>5, <1>7 DEF Follows
<1> QED
  BY <1>4, <1>8, <1>9, <1>10, <1>11 DEF Good

-----------------------------------------------------------------------------
\* ensure_token_ids discards every graph first, the other two the batched ones.
LEMMA EnsureTokenIdsGood ==
  ASSUME NEW d, Good(d), NEW n \in Nat
  PROVE  Good(EnsureTokenIds(d, n)) /\ Follows(d, EnsureTokenIds(d, n))
<1> DEFINE d1 == InvalidateGraph(d)
           d2 == InvalidateBatchGraphs(d1)
<1>1. Good(d1) /\ Follows(d, d1) /\ ~ d1.single.ready
  BY InvalidateGraphGood
<1>2. Good(d2) /\ Follows(d1, d2) /\ ~ d2.single.ready /\ DOMAIN d2.batch = {}
  BY <1>1, InvalidateBatchGraphsGood
<1>3. Good(Reallocate(d2, "tokens", n)) /\ Follows(d2, Reallocate(d2, "tokens", n))
  BY <1>2, ReallocateGood DEF Buffer
<1>4. Follows(d, Reallocate(d2, "tokens", n))
  BY <1>1, <1>2, <1>3, FollowsTransitive DEF Good
<1>5. Follows(d, d)
  BY DEF Follows, Good, IsDevice, Buffer
<1> QED
  BY <1>3, <1>4, <1>5 DEF EnsureTokenIds

LEMMA EnsureScratchGood ==
  ASSUME NEW d, Good(d), NEW n \in Nat
  PROVE  Good(EnsureScratch(d, n)) /\ Follows(d, EnsureScratch(d, n))
<1> DEFINE d1 == InvalidateBatchGraphs(d)
<1>1. Good(d1) /\ Follows(d, d1) /\ DOMAIN d1.batch = {}
  BY InvalidateBatchGraphsGood
<1>2. Good(Reallocate(d1, "scratch", n)) /\ Follows(d1, Reallocate(d1, "scratch", n))
  BY <1>1, ReallocateGood DEF Buffer
<1>3. Follows(d, Reallocate(d1, "scratch", n)) /\ Follows(d, d)
  BY <1>1, <1>2, FollowsTransitive DEF Good, Follows, IsDevice, Buffer
<1> QED
  BY <1>2, <1>3 DEF EnsureScratch

LEMMA EnsureRouterGood ==
  ASSUME NEW d, Good(d), NEW n \in Nat
  PROVE  Good(EnsureRouter(d, n)) /\ Follows(d, EnsureRouter(d, n))
<1> DEFINE d1 == InvalidateBatchGraphs(d)
<1>1. Good(d1) /\ Follows(d, d1) /\ DOMAIN d1.batch = {}
  BY InvalidateBatchGraphsGood
<1>2. Good(Reallocate(d1, "router", n)) /\ Follows(d1, Reallocate(d1, "router", n))
  BY <1>1, ReallocateGood DEF Buffer
<1>3. Follows(d, Reallocate(d1, "router", n)) /\ Follows(d, d)
  BY <1>1, <1>2, FollowsTransitive DEF Good, Follows, IsDevice, Buffer
<1> QED
  BY <1>2, <1>3 DEF EnsureRouter

\* The cache grows only when no graph of generate is left.
LEMMA ResetCacheGood ==
  ASSUME NEW d, Good(d), NEW seq \in Nat,
         d.single.ready => d.single.prefill = seq
  PROVE  /\ Good(ResetCache(d, seq)) /\ Follows(d, ResetCache(d, seq))
         /\ ResetCache(d, seq).cap["cache"] >= seq + Window
<1>1. d.cap["cache"] \in Nat /\ Window \in Nat
  BY DEF Good, IsDevice, Buffer
<1>2. CASE seq + Window <= d.cap["cache"]
  BY <1>1, <1>2 DEF ResetCache, Follows
<1>3. CASE ~ (seq + Window <= d.cap["cache"])
  <2>1. ~ d.single.ready
    BY <1>1, <1>3 DEF Good, SingleFresh
  <2>2. seq + Window \in Nat /\ seq + Window >= d.cap["cache"] /\ "cache" \notin BatchBakes
    BY <1>1, <1>3 DEF BatchBakes
  <2>3. /\ Good(Reallocate(d, "cache", seq + Window))
        /\ Follows(d, Reallocate(d, "cache", seq + Window))
        /\ Reallocate(d, "cache", seq + Window).cap["cache"] = seq + Window
    BY <2>1, <2>2, ReallocateGood DEF Buffer
  <2> QED
    BY <1>3, <2>2, <2>3 DEF ResetCache
<1> QED
  BY <1>2, <1>3

-----------------------------------------------------------------------------
IScalar ==
  /\ scope \in {"full", "attnDense"} /\ prefillMoE \in BOOLEAN
  /\ mode \in {"none", "generate", "batch"}
  /\ prefillLen \in Nat
  /\ slotShape \in (0 .. MaxSlots) \X Nat
  /\ DOMAIN batch \subseteq 1 .. slotShape[1]

\* While generate decodes, the cache has room for its prompt, and a graph was
\* captured for it.
IGenerate ==
  mode = "generate" =>
    /\ cap["cache"] >= prefillLen + Window
    /\ single.ready => single.prefill = prefillLen

\* The last replay was of a graph that the device state still describes.
IReplay ==
  /\ replay \in [graph : {"none", "single", "batch"}, rows : Nat, freed : SUBSET Buffer]
  /\ replay.graph = "batch" => replay.freed = {}
  /\ replay.graph = "single" => /\ mode = "generate" /\ single.ready
                                /\ replay.freed = single.freed

IInv == IScalar /\ Good(Device) /\ IGenerate /\ IReplay

LEMMA DeviceFields ==
  Device.cap = cap /\ Device.single = single /\ Device.batch = batch
  BY DEF Device

LEMMA NoReplayType ==
  /\ NoReplay \in [graph : {"none", "single", "batch"}, rows : Nat, freed : SUBSET Buffer]
  /\ NoReplay.graph = "none"
  BY DEF NoReplay

\* After SetDevice(e), Device is e.
LEMMA SetDeviceIs ==
  ASSUME NEW e, IsDevice(e), SetDevice(e)
  PROVE  Device' = e
  BY DEF SetDevice, Device, IsDevice

LEMMA InitInv == Init => IInv
<1> SUFFICES ASSUME Init PROVE IInv
  OBVIOUS
<1>1. NotReady \in Single /\ ~ NotReady.ready /\ DOMAIN NoGraphs = {}
  BY DEF NotReady, Single, NoGraphs
<1>2. Good(Device)
  BY <1>1, DeviceFields DEF Init, Device, Good, IsDevice, GraphsFresh, SingleFresh
<1>3. slotShape \in (0 .. MaxSlots) \X Nat
  BY DEF Init
<1>4. IScalar
  BY <1>1, <1>3 DEF Init, IScalar
<1> QED
  BY <1>2, <1>4, NoReplayType DEF Init, IInv, IGenerate, IReplay

\* A prefill leaves a cache with room for its prompt, and no graph of another.
LEMMA PrefillInv ==
  ASSUME IInv, NEW seq \in Seqs, Prefill(seq)
  PROVE  IInv'
<1> DEFINE d1 == IF OtherPrefill(seq) THEN InvalidateGraph(Device) ELSE Device
           d2 == ResetCache(d1, seq)
           d3 == EnsureScratch(d2, seq)
           d4 == IF prefillMoE THEN EnsureRouter(d3, seq) ELSE d3
<1>1. Good(Device) /\ seq \in Nat /\ Follows(Device, Device)
  BY DEF IInv, Good, IsDevice, Follows, Buffer
<1>2. Good(d1) /\ Follows(Device, d1) /\ (d1.single.ready => d1.single.prefill = seq)
  BY <1>1, InvalidateGraphGood, DeviceFields DEF OtherPrefill
<1>3. Good(d2) /\ Follows(d1, d2) /\ d2.cap["cache"] >= seq + Window
  BY <1>1, <1>2, ResetCacheGood
<1>4. Good(d3) /\ Follows(d2, d3)
  BY <1>1, <1>3, EnsureScratchGood
<1>5. Good(d4) /\ Follows(d3, d4)
  <2>1. Good(EnsureRouter(d3, seq)) /\ Follows(d3, EnsureRouter(d3, seq))
    BY <1>1, <1>4, EnsureRouterGood
  <2>2. Follows(d3, d3)
    BY <1>4 DEF Good, IsDevice, Follows, Buffer
  <2> QED
    BY <1>4, <2>1, <2>2
<1>6. Follows(d2, d4) /\ Follows(d1, d4) /\ Follows(Device, d4)
  BY <1>1, <1>2, <1>3, <1>4, <1>5, FollowsTransitive DEF Good
<1>7. d4.cap["cache"] >= seq + Window
  BY <1>1, <1>3, <1>5, <1>6 DEF Follows, Good, IsDevice, Buffer
<1>8. d4.single.ready => d4.single.prefill = seq
  BY <1>2, <1>6 DEF Follows
<1>9. SetDevice(d4)
  BY DEF Prefill
<1>10. Device' = d4 /\ cap' = d4.cap /\ single' = d4.single /\ batch' = d4.batch
  BY <1>5, <1>9, SetDeviceIs DEF Good, SetDevice
<1>11. IScalar'
  BY <1>1, <1>6, <1>10, DeviceFields DEF Prefill, settings, IInv, IScalar, Follows
<1>12. Good(Device)'
  BY <1>5, <1>10 DEF Good, IsDevice, GraphsFresh, SingleFresh
<1>13. IGenerate' /\ IReplay'
  BY <1>7, <1>8, <1>10, NoReplayType DEF Prefill, IGenerate, IReplay
<1> QED
  BY <1>11, <1>12, <1>13 DEF IInv

\* A decode replays a graph that was captured for this prompt, now or earlier.
LEMMA DecodeTokenInv ==
  ASSUME IInv, DecodeToken
  PROVE  IInv'
<1> DEFINE d1 == EnsureTokenIds(Device, 1)
           d2 == EnsureRouter(EnsureScratch(d1, 1), 1)
           d3 == IF d1.single.ready THEN d1 ELSE [d2 EXCEPT !.single = Captured(d2)]
<1>1. Good(Device) /\ mode = "generate" /\ cap["cache"] >= prefillLen + Window
      /\ prefillLen \in Nat /\ cap["cache"] \in Nat /\ Window \in Nat
  BY DeviceFields DEF IInv, DecodeToken, IGenerate, IScalar, Good, IsDevice, Buffer
<1>2. Good(d1) /\ Follows(Device, d1)
  BY <1>1, EnsureTokenIdsGood
<1>3. Good(d2) /\ Follows(d1, d2)
  <2>1. Good(EnsureScratch(d1, 1)) /\ Follows(d1, EnsureScratch(d1, 1))
    BY <1>2, EnsureScratchGood
  <2>2. Good(d2) /\ Follows(EnsureScratch(d1, 1), d2)
    BY <2>1, EnsureRouterGood
  <2> QED
    BY <1>2, <2>1, <2>2, FollowsTransitive DEF Good
<1>4. Follows(Device, d2)
  BY <1>1, <1>2, <1>3, FollowsTransitive DEF Good
<1>5. /\ Good(d3) /\ d3.single.ready /\ d3.single.prefill = prefillLen
      /\ d3.cap["cache"] >= cap["cache"] /\ DOMAIN d3.batch \subseteq DOMAIN batch
  <2>1. CASE d1.single.ready
    <3>1. d1.single.prefill = single.prefill /\ single.ready
      BY <1>2, <2>1, DeviceFields DEF Follows
    <3>2. single.prefill = prefillLen
      BY <1>1, <3>1 DEF IInv, IGenerate
    <3> QED
      BY <1>2, <2>1, <3>1, <3>2, DeviceFields DEF Follows
  <2>2. CASE ~ d1.single.ready
    <3> DEFINE c == Captured(d2)
    <3>1. d3 = [cap |-> d2.cap, single |-> c, batch |-> d2.batch]
      BY <1>3, <2>2 DEF Good, IsDevice
    <3>2. c \in Single /\ c.ready /\ c.prefill = prefillLen /\ c.freed = {}
      BY <1>1 DEF Captured, Single
    <3>3. d2.cap["cache"] >= cap["cache"] /\ d2.cap["cache"] \in Nat
          /\ DOMAIN d2.batch \subseteq DOMAIN batch
      BY <1>3, <1>4, DeviceFields DEF Follows, Good, IsDevice, Buffer
    <3>4. IsDevice(d3)
      BY <1>3, <3>1, <3>2 DEF Good, IsDevice
    <3>5. GraphsFresh(d3)
      BY <1>3, <3>1 DEF Good, GraphsFresh
    <3>6. d3.cap["cache"] >= prefillLen + Window
      BY <1>1, <3>1, <3>3
    <3>7. SingleFresh(d3)
      BY <3>1, <3>2, <3>6 DEF SingleFresh
    <3> QED
      BY <3>1, <3>2, <3>3, <3>4, <3>5, <3>7 DEF Good
  <2> QED
    BY <2>1, <2>2
<1>6. SetDevice(d3) /\ replay' = [graph |-> "single", rows |-> 1, freed |-> d3.single.freed]
  BY DEF DecodeToken
<1>7. Device' = d3 /\ cap' = d3.cap /\ single' = d3.single /\ batch' = d3.batch
  BY <1>5, <1>6, SetDeviceIs DEF Good, SetDevice
<1>8. IScalar'
  BY <1>5, <1>7 DEF DecodeToken, settings, IInv, IScalar
<1>9. Good(Device)'
  BY <1>5, <1>7 DEF Good, IsDevice, GraphsFresh, SingleFresh
<1>10. d3.cap["cache"] \in Nat /\ d3.single.freed \subseteq Buffer
  BY <1>5 DEF Good, IsDevice, Buffer, Single
<1>11. IGenerate'
  BY <1>1, <1>5, <1>7, <1>10 DEF DecodeToken, IGenerate
<1>12. IReplay'
  BY <1>1, <1>5, <1>6, <1>7, <1>10 DEF DecodeToken, IReplay
<1> QED
  BY <1>8, <1>9, <1>11, <1>12 DEF IInv

-----------------------------------------------------------------------------
\* A call of generate_batch: what it leaves as device state e keeps the
\* invariant, whatever the operation was, as no decode of generate follows.
LEMMA BatchStep ==
  ASSUME IInv, NEW e, Good(e), SetDevice(e), mode' = "batch",
         UNCHANGED <<settings, prefillLen>>,
         slotShape' \in (0 .. MaxSlots) \X Nat,
         DOMAIN e.batch \subseteq 1 .. slotShape'[1],
         replay' = NoReplay \/ \E n \in Nat :
            replay' = [graph |-> "batch", rows |-> n, freed |-> {}]
  PROVE  IInv'
<1>1. Device' = e /\ batch' = e.batch
  BY SetDeviceIs DEF Good, SetDevice
<1>2. IScalar'
  BY <1>1 DEF IInv, IScalar, settings
<1>3. Good(Device)'
  BY <1>1 DEF Good, IsDevice, GraphsFresh, SingleFresh
<1>4. IGenerate'
  BY DEF IGenerate
<1>5. IReplay'
  BY NoReplayType DEF IReplay
<1> QED
  BY <1>2, <1>3, <1>4, <1>5 DEF IInv

LEMMA BatchConfigureInv ==
  ASSUME IInv, NEW s \in 1 .. MaxSlots, NEW c \in Capacities, BatchConfigure(s, c)
  PROVE  IInv'
<1> DEFINE d == EnsureTokenIds(Device, s)
           e == InvalidateBatchGraphs(d)
           f == IF SameShape(s, c) THEN d ELSE NewSlots(d, s, c)
<1>1. Good(Device) /\ s \in Nat /\ c \in Nat /\ s * c \in Nat
  BY DEF IInv
<1>2. Good(d) /\ Follows(Device, d)
  BY <1>1, EnsureTokenIdsGood
<1>3. Good(e) /\ DOMAIN e.batch = {}
  BY <1>2, InvalidateBatchGraphsGood
<1>4. Good(NewSlots(d, s, c)) /\ DOMAIN NewSlots(d, s, c).batch = {}
  <2>1. Good(Reallocate(e, "slots", s * c)) /\ Follows(e, Reallocate(e, "slots", s * c))
    BY <1>1, <1>3, ReallocateGood DEF Buffer
  <2> QED
    BY <1>3, <2>1 DEF NewSlots, Follows
<1>5. slotShape \in (0 .. MaxSlots) \X Nat /\ DOMAIN batch \subseteq 1 .. slotShape[1]
  BY DEF IInv, IScalar
<1>6. slotShape' \in (0 .. MaxSlots) \X Nat
  BY <1>1, <1>5 DEF BatchConfigure
<1>7. Good(f) /\ DOMAIN f.batch \subseteq 1 .. slotShape'[1]
  BY <1>2, <1>4, <1>5, DeviceFields DEF BatchConfigure, Follows
<1>8. SetDevice(f) /\ mode' = "batch" /\ replay' = NoReplay /\ UNCHANGED <<settings, prefillLen>>
  BY DEF BatchConfigure
<1> QED
  BY <1>6, <1>7, <1>8, BatchStep

LEMMA BatchPrefillInv ==
  ASSUME IInv, NEW total \in Totals, BatchPrefill(total)
  PROVE  IInv'
<1> DEFINE d == EnsureScratch(Device, total)
           e == EnsureRouter(d, total)
<1>1. Good(Device) /\ total \in Nat
  BY DEF IInv
<1>2. Good(d) /\ Follows(Device, d)
  BY <1>1, EnsureScratchGood
<1>3. Good(e) /\ Follows(d, e)
  BY <1>1, <1>2, EnsureRouterGood
<1>4. Follows(Device, e)
  BY <1>1, <1>2, <1>3, FollowsTransitive DEF Good
<1>5. DOMAIN e.batch \subseteq 1 .. slotShape[1]
  BY <1>4, DeviceFields DEF Follows, IInv, IScalar
<1>6. SetDevice(e) /\ mode' = "batch" /\ replay' = NoReplay
      /\ UNCHANGED <<settings, prefillLen>> /\ slotShape' = slotShape
  BY DEF BatchPrefill
<1>7. slotShape' \in (0 .. MaxSlots) \X Nat
  BY <1>6 DEF IInv, IScalar
<1> QED
  BY <1>3, <1>5, <1>6, <1>7, BatchStep

LEMMA BatchDecodeInv ==
  ASSUME IInv, NEW n \in 1 .. MaxSlots, BatchDecode(n)
  PROVE  IInv'
<1> DEFINE d == EnsureTokenIds(EnsureRouter(EnsureScratch(Device, n), n), n)
           graphs == IF n \in DOMAIN d.batch THEN d.batch
                     ELSE [k \in DOMAIN d.batch \cup {n} |->
                             IF k = n THEN {} ELSE d.batch[k]]
           e == [d EXCEPT !.batch = graphs]
<1>1. Good(Device) /\ n \in Nat
  BY DEF IInv
<1>2. Good(d) /\ Follows(Device, d)
  <2>1. Good(EnsureScratch(Device, n)) /\ Follows(Device, EnsureScratch(Device, n))
    BY <1>1, EnsureScratchGood
  <2>2. /\ Good(EnsureRouter(EnsureScratch(Device, n), n))
        /\ Follows(EnsureScratch(Device, n), EnsureRouter(EnsureScratch(Device, n), n))
    BY <1>1, <2>1, EnsureRouterGood
  <2>3. Good(d) /\ Follows(EnsureRouter(EnsureScratch(Device, n), n), d)
    BY <1>1, <2>2, EnsureTokenIdsGood
  <2> QED
    BY <1>1, <2>1, <2>2, <2>3, FollowsTransitive DEF Good
<1>3. /\ slotShape' = slotShape /\ slotShape \in (0 .. MaxSlots) \X Nat
      /\ n \in 1 .. slotShape[1] /\ DOMAIN d.batch \subseteq 1 .. slotShape[1]
  BY <1>2, DeviceFields DEF BatchDecode, IInv, IScalar, Follows
<1>4. Good(e) /\ graphs[n] = {} /\ DOMAIN e.batch \subseteq 1 .. slotShape[1]
  <2>1. e = [cap |-> d.cap, single |-> d.single, batch |-> graphs]
    BY <1>2 DEF Good, IsDevice
  <2>2. DOMAIN graphs \subseteq 1 .. slotShape[1] /\ n \in DOMAIN graphs
    BY <1>3
  <2>3. \A k \in DOMAIN graphs : graphs[k] = {}
    BY <1>2 DEF Good, GraphsFresh
  <2>4. IsDevice(e) /\ SingleFresh(e) /\ GraphsFresh(e)
    BY <1>2, <2>1, <2>3 DEF Good, IsDevice, SingleFresh, GraphsFresh
  <2> QED
    BY <2>1, <2>2, <2>3, <2>4 DEF Good
<1>5. mode' = "batch" /\ UNCHANGED <<settings, prefillLen>>
  BY DEF BatchDecode
<1>6. CASE scope = "full"
  <2>1. SetDevice(e) /\ replay' = [graph |-> "batch", rows |-> n, freed |-> graphs[n]]
    BY <1>6 DEF BatchDecode
  <2>2. replay' = [graph |-> "batch", rows |-> n, freed |-> {}]
    BY <1>4, <2>1
  <2> QED
    BY <1>1, <1>3, <1>4, <1>5, <2>1, <2>2, BatchStep
<1>7. CASE scope # "full"
  <2>1. SetDevice(d) /\ replay' = NoReplay
    BY <1>7 DEF BatchDecode
  <2> QED
    BY <1>2, <1>3, <1>5, <2>1, BatchStep
<1> QED
  BY <1>6, <1>7

-----------------------------------------------------------------------------
\* The inductive invariant of the graph cache.
THEOREM GraphInvariant == Spec => []IInv
<1>1. IInv /\ [Next]_vars => IInv'
  <2> SUFFICES ASSUME IInv, [Next]_vars PROVE IInv'
    OBVIOUS
  <2>1. ASSUME NEW seq \in Seqs, Prefill(seq) PROVE IInv'
    BY <2>1, PrefillInv
  <2>2. CASE DecodeToken
    BY <2>2, DecodeTokenInv
  <2>3. ASSUME NEW s \in 1 .. MaxSlots, NEW c \in Capacities, BatchConfigure(s, c)
        PROVE  IInv'
    BY <2>3, BatchConfigureInv
  <2>4. ASSUME NEW total \in Totals, BatchPrefill(total) PROVE IInv'
    BY <2>4, BatchPrefillInv
  <2>5. ASSUME NEW n \in 1 .. MaxSlots, BatchDecode(n) PROVE IInv'
    BY <2>5, BatchDecodeInv
  <2>6. CASE UNCHANGED vars
    BY <2>6 DEF vars, IInv, IScalar, Good, IsDevice, GraphsFresh, SingleFresh, Device,
                IGenerate, IReplay
  <2> QED
    BY <2>1, <2>2, <2>3, <2>4, <2>5, <2>6 DEF Next
<1> QED
  BY <1>1, InitInv, PTL DEF Spec

\* The state keeps its type; a batched graph never has more rows than slots.
THEOREM TypeCorrect == Spec => []TypeOK
<1>1. IInv => TypeOK
  <2> SUFFICES ASSUME IInv PROVE TypeOK
    OBVIOUS
  <2>1. cap \in [Buffer -> Nat] /\ single \in Single
        /\ \A n \in DOMAIN batch : batch[n] = {}
    BY DeviceFields DEF IInv, Good, IsDevice, GraphsFresh
  <2> QED
    BY <2>1 DEF IInv, IScalar, IReplay, TypeOK, Single
<1> QED
  BY <1>1, GraphInvariant, PTL

\* A batched graph is never replayed on freed memory, whatever calls of either
\* kind grew the buffers since its capture (gpu_decoder.cu:395-397).
THEOREM BatchedReplayIsSafe == Spec => []BatchReplaySafe
<1>1. IInv => BatchReplaySafe
  BY DEF IInv, IReplay, BatchReplaySafe
<1> QED
  BY <1>1, GraphInvariant, PTL

\* The graph of generate is only replayed for the prompt length it bakes, on
\* live token ids and a live cache (gpu_decoder.cu:878).
THEOREM SingleReplayIsForItsPrompt == Spec => []SingleReplayKeepsCache
<1>1. IInv => SingleReplayKeepsCache
  BY DeviceFields DEF IInv, IReplay, IGenerate, Good, SingleFresh, SingleReplayKeepsCache
<1> QED
  BY <1>1, GraphInvariant, PTL
=============================================================================
