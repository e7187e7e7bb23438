SPECIFICATION Spec
CONSTANTS
    Gap = 1
    Back <- Reach
    Forward <- Enough
    Base64MinLen = 2
INVARIANTS
    PolicyDecides
    
    DiffIsFaithful
    StartsAsAsked
CHECK_DEADLOCK FALSE
