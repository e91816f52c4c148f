SPECIFICATION Spec
CONSTANTS
    Funs = {"f", "g", "h"}
    Announced = {"f", "g"}
    MaxUses = 4
CHECK_DEADLOCK FALSE
INVARIANTS CallsReachDefinitions ChainsSeparate
