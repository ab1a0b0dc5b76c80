SPECIFICATION Spec
CONSTANTS
  DataSizes = {20, 39, 40, 170, 171, 633, 634, 640, 1433, 1434, 1466, 1467}
  SynSizes = {40, 60, 100}
  CtlLens = {16, 80, 117, 500}
  IPHdrs = {20, 60, 100}
  Usecs = {0, 3, 9, 20, 174767, 699054, 999999}
  Bytes = {255, 29, 32}
INVARIANTS RoundTrip PacketsLeave PadInside WorkArea
