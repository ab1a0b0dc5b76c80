SPECIFICATION Spec
CONSTANTS
  Roles = {"primary", "secondary", "android"}
  MaxReq = 2
  MaxLife = 3
  MaxUp = 1
  FdMax = 1
  MaxKids = 2
  MaxMsgs = 2
  Subnets = {1, 2}
  MaxDefs = 2
CONSTRAINT OneAtATime
INVARIANTS InStep Answered SettingsApply Framed
CHECK_DEADLOCK FALSE
