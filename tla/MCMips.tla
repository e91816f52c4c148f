------------------------------- MODULE MCMips -------------------------------
(* Small instances of Mips.                                                  *)
EXTENDS Mips

AllStatements == {"decl", "expr", "compound", "if", "switch", "while", "do", "for",
                  "continue", "break", "return"}
AllExpressions == {"literal", "identifier", "subscript", "member", "indirection", "printf", "builtin",
                   "call", "member_rvalue", "cast", "increment", "unary", "address", "upb", "binary",
                   "logical", "ternary", "assignment", "structure"}
TwoFunctions == <<<<"int", "ptr">>, <<"float", "int", "float", "float", "int", "int", "int", "int">>>>
TwoStrings == <<1, 0>>
ASSUME NoStructures == WordParameters

SwitchBodies == {<<"case", "default">>, <<"case">>, <<"stmt", "case">>}
=============================================================================
