SPECIFICATION Spec
CONSTANTS
    Functions <- MCFunctions
    Globals <- MCGlobals
    Callees <- MCCallees
    Bodies <- MCBodies
    Statements <- MCStatements
    Expressions <- MCExpressions
    Declarations <- MCDeclarations
    Operands <- MCOperands
    ValuesInDo = FALSE
    MaxNodes = 3
    MaxSwitches = 1
CHECK_DEADLOCK FALSE
INVARIANTS NamesDefinedOnce BranchesLand  PhiPredecessors
