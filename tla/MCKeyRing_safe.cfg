SPECIFICATION Spec
CONSTANTS
  CbufSz = 84
  KeySize = {16, 32}
  Gen = {"new", "none"}
  UIntMod = 1024
INVARIANTS TypeOK InBounds NoTornKey
