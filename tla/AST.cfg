CONSTANT Grammars <- MCGrammars
SPECIFICATION Spec
CHECK_DEADLOCK FALSE
INVARIANTS TermsReadBack CellsApart WalkComplete
