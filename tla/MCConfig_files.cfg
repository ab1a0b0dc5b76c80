SPECIFICATION Spec
CONSTANTS
  Lines <- MCLines
  MaxLines = 5
  MaxHosts = 3
  MaxNets = 2
INVARIANTS AsWritten RawReady FaultExplained
CHECK_DEADLOCK FALSE
