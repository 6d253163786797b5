\* Details scripts of up to three parameters: names that differ in case or
\* begin with another, and values whose sizes lie on both sides of the limits
\* of the integers of two, four and eight bytes; every typed element with
\* bodies on both sides of its limits, and up to three cached scripts.
SPECIFICATION TypedSpec
CONSTANTS
  Radix = 4
  Name <- MCName
  Special <- MCSpecial
  Value <- MCValue
  Lower <- MCLower
  Upper <- MCUpper
  MaxParams = 3
  MaxSize = 272
  NameCode = 1
  NameField <- MCNameField
  Star = 1
  MultipleCode = 2
  MaxName = 2
  MaxScript = 20
  MaxKey = 4
  ShortTxId = 2
  AssetRef = 2
  Room = 2
  MaxCached = 3
  Argument <- MCArgument
INVARIANTS ReadWholeOrRefused FieldsAreFirstValues EachReadsItsOwn AcceptedIsWritable CachedScriptsInOrder
CHECK_DEADLOCK FALSE
