SPECIFICATION SMPFairSpec
CONSTANTS
  SeqMod = 9
  RekeyEvery = 2
  Key = {k0, k1, k2}
  InitKey = k0
  NoKey = NoKey
  MaxNet = 1
  MaxPerKey = 2
  MaxSeq = 4
  Env = {}
  Thread <- TwoOnPrimary
INVARIANTS OneStart EncryptedWithID
PROPERTIES HandlersReturn
CHECK_DEADLOCK FALSE
