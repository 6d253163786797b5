SPECIFICATION MessagesSpec
CONSTANTS
  Key = {"address-pubkeyhash-version", "address-scripthash-version", "address-checksum-value", "private-key-version"}
  Token <- MCToken
  MaxEdits = 2
  Radix = 8
  Digits = 6
  IdSize = 2
  KeySize = 4
  ChainFile <- MCChainFile
  Edit <- MCEdit
  HexBytes <- MCHexBytes
  Hash <- MCHash
  BitXor <- MCBitXor
  Int32Le <- MCInt32Le
  Id <- MCId
  Secret <- MCSecret
  Chain <- MCChain
  NumberSize = 2
  Order = 3500
  SizeOfSize = 3
  ShortTail = 125
  LongTail = 255
  KeyNumber = {1, 9, 1020, 3137, 3499}
  Value = {1, 200, 3499, 3500, 65536}
  Padding = {0, 2}
  Index <- MCIndex
  MaxDepth = 2
  BIP32Hash <- MCBIP32Hash
  Message = {1, 2}
  SignatureOf <- MCSignatureOf
  Hash160 <- MCHash160
INVARIANTS ReadersAgree TextIsTheKey ChainsAreApart MessageIsTheSigners DerIsReadWhole DerivedPairsMatch
CHECK_DEADLOCK FALSE
