SPECIFICATION Spec
CONSTANTS
    Sources <- MCSources
    Keywords <- MCKeywords
    IntWidth = 16
CHECK_DEADLOCK FALSE
INVARIANTS TokensExact MistakesReported
PROPERTY PeekExact
