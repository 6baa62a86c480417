SPECIFICATION Spec
CONSTANTS
    Cap <- MCCap
    SenderSeq <- MCSenderSeq
    Scenarios <- MCScenarios
INVARIANTS
    RequestHeld
PROPERTIES
    
    RequestsDrain
CHECK_DEADLOCK FALSE
