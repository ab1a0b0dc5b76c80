SPECIFICATION SMPSpec
SYMMETRY KeySymmetry
CONSTANTS
  SeqMod = 7
  RekeyEvery = 2
  Key = {k0, k1, k2, k3}
  InitKey = k0
  NoKey = NoKey
  MaxNet = 1
  MaxPerKey = 2
  MaxSeq = 6
  Env = {"lose", "sendfail", "index", "nokey"}
  Thread <- OneEach
PROPERTIES ImplementsSession
CHECK_DEADLOCK FALSE
