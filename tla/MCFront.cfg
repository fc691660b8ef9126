SPECIFICATION FrontSpec
CONSTANTS
  ImageSize = 5
  BaseSize = 9
  PatchSize = 1
  MinCrops = 2
  MaxCrops = 8
  MaxSide = 19
  MaxText = 1
  Char <- MCChar
  Byte <- MCByte
  Utf8 <- MCUtf8
  Printed <- MCPrinted
  Cat <- MCCat
  White <- MCWhite
  NewLine <- MCNewLine
  Cjk <- MCCjk
  AsciiAlpha <- MCAsciiAlpha
  AsciiPunct <- MCAsciiPunct
  Space = "sp"
  Nul = "nul"
  VocabSize <- MCVocabSize
  Inputs <- MCInputs
  Views <- MCViews
  Depths <- MCDepths
  Patch = 2
  Window = 3
  StoredGrid = 5
  ClipGrid = 2
  ClipDepths <- MCClipDepths
  KeyTile = 4
  QueryTile = 3
CHECK_DEADLOCK FALSE
INVARIANTS
  LayoutsAgree
  PageOrder
  GridSuitsImage
  PastedCentred
  EncodesAsReference
  RoundTrips
  EncodersAgree
  TokensSeeTheirPlace
  RowsAsLaidOut
