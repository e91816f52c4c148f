------------------------------- MODULE MCLlvm -------------------------------
(* A small program for the LLVM generator. *)
EXTENDS Llvm

MCFunctions == << [params |-> <<"array">>, void |-> TRUE, main |-> FALSE, nodes |-> 3],
                  [params |-> <<>>, void |-> FALSE, main |-> FALSE, nodes |-> 2],
                  [params |-> <<>>, void |-> TRUE, main |-> TRUE, nodes |-> 2] >>
MCGlobals == <<"scalar", "list", "table">>
Callee(name, args, void, builtin, pointer) ==
    [name |-> name, args |-> args, void |-> void, builtin |-> builtin, pointer |-> pointer]
MCCallees == { Callee("f", <<"array">>, FALSE, FALSE, FALSE), Callee("g", <<"int", "int">>, FALSE, FALSE, TRUE),
               Callee("round", <<"float">>, FALSE, TRUE, FALSE), Callee("printf", <<"string", "int">>, TRUE, TRUE, FALSE) }
MCBodies == { <<"case", "break">>, <<"case", "default">> }
MCOperands == { <<"int", "int">>, <<"char", "int">>, <<"int", "char">>, <<"char", "char">>, <<"ptr", "null">> }
MCStatements == {"declaration", "compound", "if", "while", "do", "for", "continue", "break", "return", "switch"}
MCExpressions == {"identifier", "literal", "cast", "subscript", "string", "call", "member", "increment", "minus", "negation",
                  "address", "indirection", "abs", "upb", "integral", "comparison", "assignment", "list", "logical", "comma",
                  "ternary"}
MCDeclarations == {"scalar", "initialized", "record", "array", "string", "dynamic"}
=============================================================================
