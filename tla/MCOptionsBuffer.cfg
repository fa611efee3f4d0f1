CONSTANTS
  Chars <- MCChars
  Words <- MCWords
  Inputs <- MCInputs
  Texts <- MCTexts
  C_BIN <- MCBin
  Commands <- MCCommands
  Messages <- MCMessages
  Encoded <- MCEncoded
  Broken <- MCBroken
  Distances <- MCDistances
  Width = 3
  Payloads <- MCPayloads
  UIntBits = 14
  OptionLists <- MCOptionLists
SPECIFICATION SequentialSpec
INVARIANT BufferSizeIsKept
CHECK_DEADLOCK FALSE
