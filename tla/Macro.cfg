SPECIFICATION Spec
CHECK_DEADLOCK FALSE
CONSTANTS
    Programs <- MCPrograms
    MAX_INCLUDE_DEPTH = 2
    MAX_CALL_DEPTH = 3
    MAX_ITERATION = 3
    NoValue = NoValue
INVARIANTS CallsUnwound OutputExact ErrorsExact LinesMarked
