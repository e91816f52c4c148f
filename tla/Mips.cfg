SPECIFICATION Spec
CONSTANTS
    TempRegs = 3
    TRegs = 2
    FloatRegs = 2
    Functions <- TwoFunctions
    Strings <- TwoStrings
    Bodies <- SwitchBodies
    Statements <- AllStatements
    Expressions <- AllExpressions
    Declarations = {"int", "struct", "array"}
    MaxBodies = 1
    MaxDeclarators = 1
    MaxNodes = 3
CHECK_DEADLOCK FALSE
INVARIANTS JumpTargets TempsApart FrameLayout ArgumentsMeetParameters
