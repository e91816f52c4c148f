------------------------------- MODULE MCAST -------------------------------
EXTENDS AST

None == [leaves |-> {}, width |-> 3, expressions |-> {}, folds |-> {}, statements |-> {}, for |-> FALSE,
         declarators |-> {}, declares |-> FALSE, functions |-> 0, size |-> 6]
\* Every expression.
Expressions == [None EXCEPT !.leaves = {"IDENTIFIER", "LITERAL", "FLOATING"}, !.folds = {1, 2},
                            !.expressions = {"SLICE", "CALL", "SELECT", "CAST", "UNARY", "BINARY", "ASSIGNMENT", "TERNARY"},
                            !.size = 5]
\* Long chains of literals that are folded and converted.
Folds == [None EXCEPT !.leaves = {"LITERAL", "IDENTIFIER"}, !.folds = {1, 2}, !.expressions = {"BINARY"}, !.size = 8]
\* Every statement, in a function.
Bodies == [None EXCEPT !.leaves = {"IDENTIFIER", "BREAK"}, !.functions = 1,
                       !.statements = {"CASE", "DEFAULT", "BLOCK", "IF", "SWITCH", "WHILE", "DO", "RETURN"}]
Loops == [None EXCEPT !.leaves = {"IDENTIFIER", "NOP"}, !.for = TRUE, !.width = 4, !.size = 7]
\* Variables and members with bounds and initializers.
Variables == [None EXCEPT !.leaves = {"LITERAL", "EMPTY_BOUND"}, !.expressions = {"INITIALIZER"},
                          !.declarators = {"DECL_VAR", "DECL_MEMBER"}, !.folds = {1}]
\* Structures in declarations and in structures.
Structures == [None EXCEPT !.statements = {"BLOCK"}, !.declarators = {"DECL_VAR", "DECL_MEMBER"}, !.declares = TRUE,
                           !.functions = 1, !.size = 7]
\* Two functions, with enumerations that change the context, declarations after them and blocks around them.
Functions == [None EXCEPT !.statements = {"BLOCK"}, !.declarators = {"DECL_VAR"}, !.declares = TRUE, !.width = 2,
                          !.functions = 2, !.size = 9]
MCGrammars == {Expressions, Folds, Bodies, Loops, Variables, Structures, Functions}
=============================================================================
