SPECIFICATION GenSpec
CONSTANTS
  Vocab = 3
  Eos = 2
  Ngrams <- MCNgrams
  Windows <- MCWindows
  Limits <- MCLimits
  MaxPrompt = 3
INVARIANTS
  NoRepeat
  BansOnlyRepeats
  DecoderSawHistory
  ResultIsGenerated
