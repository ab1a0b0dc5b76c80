SPECIFICATION FairSpec
CONSTANTS
  SeqMod = 10
  RekeyEvery = 3
  Key = {k0, k1, k2}
  InitKey = k0
  NoKey = NoKey
  MaxNet = 2
  MaxPerKey = 3
  MaxSeq = 10
  Env = {"index", "losedata", "dup"}
INVARIANTS TypeOK SecondaryOpens
PROPERTIES RekeyEnds KeysConverge
CHECK_DEADLOCK FALSE
