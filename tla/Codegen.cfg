SPECIFICATION RunSpec
CONSTANTS
    Statements <- AllStatements
    Expressions = {"ternary"}
    CaseValues = {0}
    Sizes = {1}
    MaxStatements = 9
    MaxNesting = 6
    MaxAny = 5
    MaxAnyNesting = 3
    Values = {1, 2, 3}
    SwitchLabels = {1, 2}
CHECK_DEADLOCK FALSE
INVARIANTS JumpsResolved LocalsDisjoint SwitchAsDocumented
