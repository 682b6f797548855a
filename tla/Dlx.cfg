SPECIFICATION FairSpec
CONSTANTS
  HALF = 8
  ADDRS = 8
  REGS = 4
  Decode <- MCDecode
  BitAnd <- MCBitAnd
  BitOr <- MCBitOr
  BitXor <- MCBitXor
  Programs <- MCPrograms
INVARIANTS
  AnsweredInTurn
  ReadIsFresh
PROPERTIES
  ExecutesIsa
  InstructionsEnd
