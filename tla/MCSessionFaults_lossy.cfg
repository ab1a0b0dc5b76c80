SPECIFICATION MCSpec
SYMMETRY KeySymmetry
CONSTANTS
  SeqMod = 16
  RekeyEvery = 3
  Key = {k0, k1, k2, k3}
  InitKey = k0
  NoKey = NoKey
  MaxNet = 2
  MaxPerKey = 3
  MaxSeq = 9
  Env = {"lose", "reorder", "dup", "sendfail"}
INVARIANTS KeysInStep PrimaryOpensInOrder LateOpens
PROPERTIES SwitchOnlyInRekey
CHECK_DEADLOCK FALSE
