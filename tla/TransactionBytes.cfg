SPECIFICATION BytesSpec
CONSTANTS
  Radix = 16
  OP_PUSHDATA1 = 5
  OP_1 = 10
  OP_16 = 12
  OP_CODESEPARATOR = 13
  MaxNumSize = 2
  AddressSize = 4
  MaxOps = 2
  Width2 = 1
  Width4 = 2
  Width8 = 3
  MAX_SIZE = 16
  MaxIn = 2
  MaxOut = 2
  Meta <- MCMeta
  Data <- MCData
  Number <- MCNumber
  Opcode <- MCOpcode
  Expected <- MCExpected
  Input <- MCInput
  Output <- MCOutput
  Sequence <- MCSequence
  ScriptCode <- MCScriptCode
INVARIANTS PushedIsRead DecodesWhatWasEncoded AcceptedIsEncoded SignatureFixes AnalysisShowsElements
CHECK_DEADLOCK FALSE
