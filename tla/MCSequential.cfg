CONSTANTS
  Chars <- MCChars
  Words <- MCWords
  Inputs <- MCInputs
  Texts <- MCTexts
  C_BIN <- MCBin
  Commands <- MCCommands
  Messages <- MCMessages
  Encoded <- MCEncoded
  Broken <- MCBroken
  Distances <- MCDistances
  Width = 3
  Payloads <- MCPayloads
  UIntBits = 14
  OptionLists <- MCOptionLists
SPECIFICATION SequentialSpec
INVARIANTS CodecInv RoundTrip ReadsInBounds PartsAreTheText PayloadIsExact LinesAreFull BreaksVanish LinesShowPayload LastArgumentWins
CHECK_DEADLOCK FALSE
