SPECIFICATION Spec
CONSTANTS
    Lines <- MCLines
    Base <- MCBase
    MaxDefs = 3
CHECK_DEADLOCK FALSE
INVARIANTS RoundTrip MembersKept 
