CONSTANTS
  BufCap = 32
  MaxReads = 2
  Messages <- MCMessages
  PrefixOf <- MCPrefixOf
SPECIFICATION CodecSpec
INVARIANTS
  CodecTypeOK
  DecodeInvertsEncode
