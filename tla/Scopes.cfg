SPECIFICATION Spec
CONSTANTS
    Reprs <- MCReprs
    Main = 1
    Builtin = 2
    Sizes = {2}
    FuncTypes = {10, 20, 1000}
    EnumValues = {0}
    MaxIds = 5
    MaxDepth = 3
    MaxParams = 1
CONSTRAINT ShortAfterError
CHECK_DEADLOCK FALSE
INVARIANTS TypeOK FrameDisjoint FrameFits PrototypesLinked IndicesInRange
PROPERTY ImplementsLexicalScope
