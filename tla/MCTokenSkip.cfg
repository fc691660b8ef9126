SPECIFICATION TokSpec
CONSTANTS
  Char <- MCChar
  Byte <- MCByte
  Utf8 <- MCUtf8
  Printed <- MCPrinted
  Cat <- MCCat
  White <- MCWhite
  NewLine <- MCNewLine
  Cjk <- MCCjk
  AsciiAlpha <- MCAsciiAlpha
  AsciiPunct <- MCAsciiPunct
  Space = "sp"
  Nul = "nul"
  VocabSize <- MCVocabSize
  Inputs <- MCSkipInputs
CHECK_DEADLOCK FALSE
INVARIANTS
  SkipsSpecial
