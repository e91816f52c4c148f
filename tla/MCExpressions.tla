--------------------------- MODULE MCExpressions ---------------------------
EXTENDS Expressions

Pair == type_structure(<<TInt, TFloat>>)
\* A structure with arrays: a floating value, a row and a matrix.
Rows == build_struct_declaration(<<build_member_declaration(TFloat, FALSE, FALSE, <<>>)[1],
                                   build_member_declaration(TFloat, FALSE, FALSE, <<build_integer_literal_expression(2)>>)[1],
                                   build_member_declaration(TInt, FALSE, FALSE, <<build_integer_literal_expression(1),
                                                                                  build_integer_literal_expression(2)>>)[1]>>)
RowsType == type_structure(<<TFloat, type_array(TFloat), type_array(type_array(TInt))>>)
MCStructures == <<build_struct_declaration(<<build_member_declaration(TInt, FALSE, FALSE, <<>>)[1]>>), Rows>>
MCTypeOf ==
  [x |-> TInt, y |-> TInt, b |-> TBool, f |-> TFloat, c |-> type_const(TInt), p |-> type_pointer(TInt),
   s |-> Pair, t |-> Pair, q |-> type_pointer(Pair), a |-> type_array(TInt), g |-> type_array(TFloat),
   m |-> type_array(type_array(TInt)), e |-> TEnum, h |-> type_array(Pair),
   u |-> TInt, v |-> type_const(TFloat), r |-> Pair, l |-> type_pointer(TInt), o |-> RowsType,
   i1 |-> type_array(TInt), i2 |-> type_array(type_array(Pair)), i3 |-> type_array(RowsType),
   twice |-> type_function(TInt, <<TInt>>), half |-> type_function(TFloat, <<TFloat>>),
   pair |-> type_function(Pair, <<TInt>>), apply |-> type_function(TInt, <<type_function(TInt, <<TInt>>), TInt>>),
   first |-> type_function(TInt, <<type_array(TInt)>>),
   sqrt |-> type_function(TFloat, <<TFloat>>), round |-> type_function(TInt, <<TFloat>>),
   printf |-> type_function(TInt, <<type_string>>), print |-> type_function(TVoid, <<>>),
   printid |-> type_function(TInt, <<>>), getid |-> type_function(TInt, <<>>)]
MCVariables == DOMAIN MCTypeOf
MCEnumFields == {"red"}
MCFieldValue == [red |-> 1]
MCGlobals == {"y", "t", "g"}
MCFunctionNumber == [twice |-> 2, half |-> 3, pair |-> 4, apply |-> 5, first |-> 6]
MCDeclared == <<"t", "y", "g", "x", "f", "b", "s", "c", "p", "q", "a", "m", "e", "h">>
W(n) == <<"n", n>>
MCContent ==
  [x |-> <<W(1)>>, y |-> <<W(0)>>, b |-> <<W(1)>>, f |-> Double(<<3, 2>>), c |-> <<W(2)>>, p |-> <<W(Place("x"))>>,
   s |-> <<W(4)>> \o Double(<<5, 2>>), t |-> <<W(6)>> \o Double(<<1, 4>>), q |-> <<W(Place("t"))>>,
   a |-> <<W(3001)>>, g |-> <<W(3011)>>, m |-> <<W(3021)>>, e |-> <<W(1)>>, h |-> <<W(3041)>>]
Cells(base, cells) == [i \in base..base + Len(cells) - 1 |-> cells[i - base + 1]]
MCHeap == Cells(3000, <<W(2), W(7), W(8)>>) @@ Cells(3010, <<W(2)>> \o Double(<<7, 2>>) \o Double(<<9, 2>>))
          @@ Cells(3020, <<W(2), W(3031), W(3034)>>) @@ Cells(3030, <<W(2), W(11), W(12)>>) @@ Cells(3033, <<W(2), W(13), W(14)>>)
          @@ Cells(3040, <<W(2), W(15)>> \o Double(<<11, 2>>) \o <<W(16)>> \o Double(<<13, 2>>))

Id(name) == [k |-> "id", name |-> name]
Lit(t, v) == [k |-> "literal", type |-> t, value |-> v]
Num(n) == Lit(TInt, n)
None == [leaves |-> {}, width |-> 3, subscript |-> FALSE, members |-> {}, callees |-> {}, unary |-> {}, binary |-> {},
         ternary |-> FALSE, initializers |-> {}, declarations |-> {}, size |-> 5]
Format(pieces) == Lit(type_string, pieces)
\* Arithmetic, conversions and folding, three operands deep.
Scalars == [None EXCEPT !.leaves = {Id("x"), Id("f"), Id("y"), Num(2), Lit(TFloat, <<1, 2>>), Lit(TChar, 65)},
                        !.binary = {"ADD", "DIV", "REM", "LT", "ASSIGN", "MUL_ASSIGN", "COMMA"},
                        !.unary = {"MINUS", "POSTINC"}]
\* Every binary operator, and every unary one.
Operators == [None EXCEPT !.leaves = {Id("x"), Id("f"), Id("c"), Id("e"), Id("red"), Id("none"), Num(4), Num(3),
                                      Lit(TFloat, <<5, 2>>)},
                          !.binary = IntegerOps \cup ArithmeticOps \cup Relations \cup {"ASSIGN", "COMMA"}
                                     \cup IntegerAssigns \cup ArithmeticAssigns,
                          !.unary = {"PREDEC", "ABS", "LOGNOT"}, !.size = 4]
Unaries == [Operators EXCEPT !.binary = {"ADD", "REM", "DIV", "GE", "NE", "ASSIGN", "COMMA"},
                             !.unary = {"POSTINC", "POSTDEC", "PREINC", "PREDEC", "MINUS", "ABS", "NOT", "LOGNOT", "UPB"}]
\* Short circuits, conditionals and effects.
Logic == [None EXCEPT !.leaves = {Id("x"), Id("y"), Id("b"), Id("p"), Id("f"), Num(0), Lit(TBool, 1), Lit(TNull, 0)},
                      !.binary = {"LOG_AND", "LOG_OR", "EQ", "ASSIGN", "COMMA"},
                      !.unary = {"LOGNOT", "PREINC"}, !.ternary = TRUE, !.size = 5]
\* Structures and pointers.
Places == [None EXCEPT !.leaves = {Id("x"), Id("p"), Id("s"), Id("q"), Id("f"), Num(9007)},
                       !.members = {1, 2}, !.unary = {"ADDRESS", "INDIRECTION", "POSTDEC"},
                       !.binary = {"ASSIGN", "ADD_ASSIGN", "COMMA"}]
Structs == [None EXCEPT !.leaves = {Id("x"), Id("s"), Id("t"), Id("q"), Lit(TNull, 0)}, !.members = 1..3,
                        !.binary = {"ASSIGN"}, !.callees = {"pair"}, !.ternary = TRUE, !.initializers = {2}]
\* Arrays of integers, of floating values, of arrays and of structures.
Arrays == [None EXCEPT !.leaves = {Id("a"), Id("g"), Id("m"), Id("h"), Id("x"), Num(0), Num(2), Lit(TFloat, <<1, 2>>)},
                       !.subscript = TRUE, !.members = {1, 2}, !.unary = {"UPB", "POSTINC", "ADDRESS"},
                       !.binary = {"ASSIGN", "SUB_ASSIGN", "ADD", "COMMA"}]
\* Calls, formats and initializers.
Calls == [None EXCEPT !.leaves = {Id("x"), Id("f"), Id("s"), Id("a"), Id("twice"), Num(2), Lit(TFloat, <<1, 2>>),
                                  Format(<<"text", "i">>), Format(<<"f", "%", "f">>), Format(<<"z">>)},
                      !.callees = {"twice", "half", "pair", "apply", "first", "sqrt", "round", "printf", "print",
                                   "printid", "getid"},
                      !.binary = {"ADD", "ASSIGN", "COMMA"}, !.initializers = {1, 2}, !.width = 3]
Decl(name, base, star, const, bounds) == [name |-> name, base |-> base, star |-> star, const |-> const, bounds |-> bounds]
Declarations == [None EXCEPT !.leaves = {Id("x"), Id("f"), Id("a"), Id("s"), Id("p"), Num(0), Num(2), Lit(TFloat, <<1, 2>>)},
                             !.binary = {"ADD", "ASSIGN"}, !.unary = {"POSTINC", "ADDRESS"}, !.initializers = {2},
                             !.declarations = {Decl("u", TInt, FALSE, FALSE, 0), Decl("v", TFloat, FALSE, TRUE, 0),
                                               Decl("r", Pair, FALSE, FALSE, 0), Decl("l", TInt, TRUE, FALSE, 0),
                                               Decl("o", RowsType, FALSE, FALSE, 0), Decl("i1", TInt, FALSE, FALSE, 1),
                                               Decl("i2", Pair, FALSE, FALSE, 2), Decl("i3", RowsType, FALSE, FALSE, 1)}]
MCProfiles == {Declarations, Scalars, Operators, Unaries, Logic, Places, Structs, Arrays, Calls}
MCVoidOps == {"ASSIGN"} \cup ArithmeticAssigns
=============================================================================
