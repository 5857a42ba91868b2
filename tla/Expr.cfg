SPECIFICATION Spec
CONSTANTS
  ByteBits = 1
  ShiftBound = 12
  Fields <- MCFields
  Idents <- MCIdents
  NumValue <- MCNumValue
  StrValue <- MCStrValue
  Leaves <- MCLeaves
  Binaries <- MCBinaries
  Envs <- MCEnvs
INVARIANTS
  ParserInverts
  TypeTellsValue
  GoCompiles
  GoComputes
  CComputes
CHECK_DEADLOCK FALSE
