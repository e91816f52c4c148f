SPECIFICATION Spec
CONSTANTS
    Basic <- MCBasic
    Names = {0, 1}
    Makers = {1002,1003,1004,1006,1007}
    MaxTypes = 4
CHECK_DEADLOCK FALSE
INVARIANTS NumbersExact
PROPERTY RecordsStable
