------------------------------ MODULE Builder ------------------------------
(***************************************************************************)
(* The semantic checks that build the expression nodes of the tree         *)
(* (builder.c) over the types of syntax.c.  A type is a term: module Types *)
(* shows that two references into the type table are equal exactly when    *)
(* the terms are.  A node is a record; a node the builder refuses is       *)
(* Broken.  A floating value is a fraction <<numerator, denominator>> that *)
(* is never reduced.                                                       *)
(***************************************************************************)
EXTENDS Integers, Sequences, SequencesExt, FiniteSetsExt
LOCAL INSTANCE Bitwise

CONSTANTS Variables,      \* the declared identifiers
          TypeOf,         \* the type of each
          EnumFields,     \* the identifiers that name a field of an enumeration
          FieldValue,     \* the value of each
          NullArgument    \* what a null literal holds where other literals hold a value

TBool == <<"bool">>
TChar == <<"char">>
TInt == <<"int">>
TFloat == <<"float">>
TVoid == <<"void">>
TNull == <<"null">>
TEnum == <<"enum">>
TUndefined == <<"undefined">>
type_const(t) == <<"const", t>>
type_pointer(t) == <<"pointer", t>>
type_array(t) == <<"array", t>>
type_structure(members) == <<"structure", members>>
type_function(result, parameters) == <<"function", result, parameters>>
type_string == type_array(TChar)

type_is_const(t) == t[1] = "const"
Unqualified(t) == IF type_is_const(t) THEN t[2] ELSE t
type_get_class(t) == t[1]
Kind(t) == type_get_class(Unqualified(t))
type_is_boolean(t) == Kind(t) = "bool"
type_is_integer(t) == Kind(t) \in {"char", "int", "enum"}
type_is_floating(t) == Kind(t) = "float"
type_is_arithmetic(t) == type_is_integer(t) \/ type_is_floating(t)
type_is_void(t) == t = TVoid
type_is_null_pointer(t) == t = TNull
type_is_array(t) == Kind(t) = "array"
type_is_structure(t) == Kind(t) = "structure"
type_is_function(t) == t[1] = "function"
type_is_pointer(t) == Kind(t) = "pointer"
type_is_scalar(t) == type_is_boolean(t) \/ type_is_integer(t) \/ type_is_pointer(t) \/ type_is_null_pointer(t)
type_array_get_element_type(t) == Unqualified(t)[2]
type_pointer_get_element_type(t) == Unqualified(t)[2]
type_structure_members(t) == Unqualified(t)[2]
type_is_string(t) == type_is_array(t) /\ type_array_get_element_type(t) = TChar
type_is_struct_pointer(t) == type_is_pointer(t) /\ type_is_structure(type_pointer_get_element_type(t))

RECURSIVE type_size(_)
type_size(t) ==
  CASE type_is_structure(t) -> FoldSeq(LAMBDA m, sum : sum + type_size(m), 0, type_structure_members(t))
    [] type_is_floating(t) -> 2
    [] OTHER -> 1

----------------------------------------------------------------------------
\* C arithmetic on small integers and on fractions.
Truth(b) == IF b THEN 1 ELSE 0
Abs(n) == IF n < 0 THEN -n ELSE n
Quotient(a, b) == LET q == Abs(a) \div Abs(b) IN IF (a < 0) = (b < 0) THEN q ELSE -q
Relation(op, c) == CASE op = "LT" -> c < 0 [] op = "GT" -> c > 0 [] op = "LE" -> c <= 0
                     [] op = "GE" -> c >= 0 [] op = "EQ" -> c = 0 [] op = "NE" -> c # 0
Relations == {"LT", "GT", "LE", "GE", "EQ", "NE"}
IntegerValue(op, a, b) ==
  CASE op = "MUL" -> a * b
    [] op = "DIV" -> Quotient(a, b)
    [] op = "REM" -> a - b * Quotient(a, b)
    [] op = "ADD" -> a + b
    [] op = "SUB" -> a - b
    [] op = "SHL" -> a * 2^b
    [] op = "SHR" -> a \div 2^b
    [] op = "AND" -> a & b
    [] op = "XOR" -> a ^^ b
    [] op = "OR" -> a | b
    [] op = "LOG_AND" -> Truth(a # 0 /\ b # 0)
    [] op = "LOG_OR" -> Truth(a # 0 \/ b # 0)
    [] op \in Relations -> Truth(Relation(op, a - b))
Fraction(n) == <<n, 1>>
FloatingValue(op, a, b) ==
  CASE op = "MUL" -> <<a[1] * b[1], a[2] * b[2]>>
    [] op = "DIV" -> IF b[1] < 0 THEN <<-(a[1] * b[2]), -(a[2] * b[1])>> ELSE <<a[1] * b[2], a[2] * b[1]>>
    [] op = "ADD" -> <<a[1] * b[2] + b[1] * a[2], a[2] * b[2]>>
    [] op = "SUB" -> <<a[1] * b[2] - b[1] * a[2], a[2] * b[2]>>
FloatingRelation(op, a, b) == Relation(op, a[1] * b[2] - b[1] * a[2])

----------------------------------------------------------------------------
\* Nodes of the tree.
Broken == [class |-> "broken", type |-> TUndefined, lvalue |-> FALSE]
node_is_correct(nd) == nd.class # "broken"
expression_literal(t, v) == [class |-> "literal", type |-> t, lvalue |-> FALSE, value |-> v]
expression_identifier(t, id) == [class |-> "identifier", type |-> t, lvalue |-> TRUE, id |-> id]
expression_subscript(t, base, index) ==
  [class |-> "subscript", type |-> t, lvalue |-> TRUE, base |-> base, index |-> index]
expression_call(t, callee, args) == [class |-> "call", type |-> t, lvalue |-> FALSE, callee |-> callee, args |-> args]
expression_member(t, category, index, arrow, base) ==
  [class |-> "member", type |-> t, lvalue |-> category, index |-> index, arrow |-> arrow, base |-> base]
expression_cast(t, nd) == [class |-> "cast", type |-> t, lvalue |-> FALSE, operand |-> nd]
expression_unary(t, category, nd, op) ==
  [class |-> "unary", type |-> t, lvalue |-> category, op |-> op, operand |-> nd]
expression_binary(t, l, r, op) == [class |-> "binary", type |-> t, lvalue |-> FALSE, op |-> op, LHS |-> l, RHS |-> r]
expression_assignment(t, l, r, op) ==
  [class |-> "assignment", type |-> t, lvalue |-> FALSE, op |-> op, LHS |-> l, RHS |-> r]
expression_ternary(t, c, l, r) ==
  [class |-> "ternary", type |-> t, lvalue |-> FALSE, condition |-> c, LHS |-> l, RHS |-> r]
expression_initializer(t, subs) == [class |-> "initializer", type |-> t, lvalue |-> FALSE, subs |-> subs]

\* The integer a literal holds: of a null literal it is what stands in its place.
expression_literal_get_integer(nd) == IF type_is_null_pointer(nd.type) THEN NullArgument ELSE nd.value

build_null_literal_expression == expression_literal(TNull, 0)
build_boolean_literal_expression(b) == expression_literal(TBool, Truth(b))
build_character_literal_expression(c) == expression_literal(TChar, c)
build_integer_literal_expression(n) == expression_literal(TInt, n)
build_floating_literal_expression(r) == expression_literal(TFloat, r)
build_string_literal_expression(s) == expression_literal(type_string, s)

\* An undeclared name is refused; a field of an enumeration is a literal.
build_identifier_expression(name) ==
  IF name \in EnumFields THEN expression_literal(TEnum, FieldValue[name])
  ELSE IF name \in Variables THEN expression_identifier(TypeOf[name], name)
  ELSE Broken

\* A literal is converted at once; the only conversion is of an integer to floating.
build_cast_expression(target, nd) ==
  IF ~node_is_correct(nd) THEN Broken
  ELSE IF target = nd.type THEN nd
  ELSE IF nd.class = "literal" THEN expression_literal(TFloat, Fraction(expression_literal_get_integer(nd)))
  ELSE expression_cast(target, nd)

\* The operands and the type of an arithmetic operation.
usual_arithmetic_conversions(l, r) ==
  IF type_is_floating(l.type) \/ type_is_floating(r.type)
  THEN <<build_cast_expression(TFloat, l), build_cast_expression(TFloat, r), TFloat>>
  ELSE <<l, r, TInt>>

\* An operation on a literal is computed, except on characters and strings.
fold_unary_expression(t, nd, op) ==
  LET kind == type_get_class(nd.type)
      v == nd.value
  IN IF nd.class # "literal" \/ kind \notin {"null", "bool", "enum", "int", "float"}
     THEN expression_unary(t, FALSE, nd, op)
     ELSE CASE kind = "null" -> build_boolean_literal_expression(TRUE)
            [] kind = "bool" -> build_boolean_literal_expression(v = 0)
            [] kind \in {"enum", "int"} ->
                 CASE op = "MINUS" -> build_integer_literal_expression(-v)
                   [] op = "NOT" -> build_integer_literal_expression(-v - 1)
                   [] op = "LOGNOT" -> build_boolean_literal_expression(v = 0)
                   [] op = "ABS" -> build_integer_literal_expression(Abs(v))
                   [] OTHER -> Broken
            [] kind = "float" ->
                 CASE op = "MINUS" -> build_floating_literal_expression(<<-v[1], v[2]>>)
                   [] op = "ABS" -> build_floating_literal_expression(<<Abs(v[1]), v[2]>>)
                   [] OTHER -> Broken

fold_binary_expression(t, l, r, op) ==
  LET kind == type_get_class(l.type)
  IN IF l.class # "literal" \/ r.class # "literal" \/ kind \notin {"enum", "int", "bool", "float"}
     THEN expression_binary(t, l, r, op)
     ELSE IF kind = "float"
     THEN IF op \in Relations THEN build_boolean_literal_expression(FloatingRelation(op, l.value, r.value))
          ELSE build_floating_literal_expression(FloatingValue(op, l.value, r.value))
     ELSE LET v == IntegerValue(op, expression_literal_get_integer(l), expression_literal_get_integer(r))
          IN IF op \in Relations \cup {"LOG_AND", "LOG_OR"} THEN build_boolean_literal_expression(v = 1)
             ELSE build_integer_literal_expression(v)

----------------------------------------------------------------------------
\* Whether init may be assigned to the type, and init as converted: <<allowed, node>>.
RECURSIVE check_assignment_operands(_, _, _)
check_assignment_operands(expected, init, is_declaration) ==
  LET want == Unqualified(expected)
      have == Unqualified(init.type)
      Members(types) ==
        LET checked == [i \in DOMAIN init.subs |-> check_assignment_operands(types[i], init.subs[i], is_declaration)]
        IN <<\A i \in DOMAIN checked : checked[i][1],
             expression_initializer(want, [i \in DOMAIN checked |-> checked[i][2]])>>
  IN IF ~node_is_correct(init) THEN <<TRUE, init>>
     ELSE IF type_is_const(expected) /\ ~is_declaration THEN <<FALSE, init>>
     ELSE IF init.class = "initializer"
     THEN CASE type_is_structure(want) -> IF Len(type_structure_members(want)) # Len(init.subs) THEN <<FALSE, init>>
                                          ELSE Members(type_structure_members(want))
            [] type_is_array(want) -> Members([i \in DOMAIN init.subs |-> type_array_get_element_type(want)])
            [] OTHER -> <<FALSE, init>>
     ELSE IF type_is_floating(want) /\ type_is_integer(have) THEN <<TRUE, build_cast_expression(want, init)>>
     ELSE IF type_is_pointer(want) /\ type_is_pointer(have)
             /\ ~type_is_const(type_pointer_get_element_type(want))
             /\ type_is_const(type_pointer_get_element_type(have))
     THEN <<FALSE, init>>
     ELSE << \/ type_is_integer(want) /\ type_is_integer(have)
             \/ type_is_pointer(want) /\ type_is_null_pointer(have)
             \/ /\ type_is_pointer(want) /\ type_is_pointer(have)
                /\ type_is_const(type_pointer_get_element_type(want))
                /\ type_pointer_get_element_type(have) = Unqualified(type_pointer_get_element_type(want))
             \/ want = have,
             init>>

build_subscript_expression(base, index) ==
  IF ~node_is_correct(base) \/ ~node_is_correct(index) THEN Broken
  ELSE IF ~(type_is_array(base.type) /\ type_is_integer(index.type)) THEN Broken
  ELSE expression_subscript(type_array_get_element_type(base.type), base, index)

\* A format is a sequence of pieces: text, "%", or a specifier.  The types it
\* asks for; a format that is refused counts as asking for nothing.
MaxPrintfArgs == 20
SpecifierType == [i |-> TInt, c |-> TInt, f |-> TFloat, s |-> type_string]
Specifiers(format) == SelectSeq(format, LAMBDA piece : piece \notin {"text", "%"})
FormatRefused(format) == \/ Len(Specifiers(format)) > MaxPrintfArgs
                         \/ ~(Range(Specifiers(format)) \subseteq DOMAIN SpecifierType)
evaluate_args(format) ==
  IF FormatRefused(format) THEN <<>>
  ELSE [i \in DOMAIN Specifiers(format) |-> SpecifierType[Specifiers(format)[i]]]

build_printf_expression(callee, args) ==
  IF args = <<>> \/ Len(args) >= MaxPrintfArgs THEN Broken
  ELSE IF ~(args[1].class = "literal" /\ type_is_string(args[1].type)) THEN Broken
  ELSE LET wanted == evaluate_args(args[1].value)
           checked == [i \in 1..Len(args) - 1 |-> check_assignment_operands(wanted[i], args[i + 1], TRUE)]
       IN IF Len(wanted) # Len(args) - 1 THEN Broken
          ELSE IF \E i \in DOMAIN checked : ~checked[i][1] THEN Broken
          ELSE expression_call(TInt, callee, <<args[1]>> \o [i \in DOMAIN checked |-> checked[i][2]])

\* A refused format is reported, and yet the call is built when it has no arguments.
ReportsFormat(callee, args) ==
  /\ node_is_correct(callee) /\ callee.class = "identifier" /\ callee.id = "printf"
  /\ Len(args) \in 1..MaxPrintfArgs - 1
  /\ args[1].class = "literal" /\ type_is_string(args[1].type)
  /\ FormatRefused(args[1].value)

build_print_expression(callee, args) ==
  IF args = <<>> \/ \E i \in DOMAIN args : type_is_pointer(args[i].type) THEN Broken
  ELSE expression_call(TVoid, callee, args)

build_printid_expression(callee, args) ==
  IF args = <<>> \/ \E i \in DOMAIN args : node_is_correct(args[i]) /\ args[i].class # "identifier" THEN Broken
  ELSE expression_call(TVoid, callee, args)

build_getid_expression(callee, args) == build_printid_expression(callee, args)

build_call_expression(callee, args) ==
  IF ~node_is_correct(callee) THEN Broken
  ELSE IF ~type_is_function(callee.type) THEN Broken
  ELSE IF callee.class = "identifier" /\ callee.id = "printf" THEN build_printf_expression(callee, args)
  ELSE IF callee.class = "identifier" /\ callee.id = "print" THEN build_print_expression(callee, args)
  ELSE IF callee.class = "identifier" /\ callee.id = "printid" THEN build_printid_expression(callee, args)
  ELSE IF callee.class = "identifier" /\ callee.id = "getid" THEN build_getid_expression(callee, args)
  ELSE LET parameters == callee.type[3]
           checked == [i \in DOMAIN args |-> check_assignment_operands(parameters[i], args[i], TRUE)]
       IN IF Len(parameters) # Len(args) THEN Broken
          ELSE IF \E i \in DOMAIN checked : ~checked[i][1] THEN Broken
          ELSE expression_call(callee.type[2], callee, [i \in DOMAIN checked |-> checked[i][2]])

member_category(base, is_arrow) == is_arrow \/ base.lvalue
\* A member is named by its position, 0 for a name the structure does not have.
build_member_expression(base, name, is_arrow) ==
  IF ~node_is_correct(base) THEN Broken
  ELSE IF ~is_arrow /\ ~type_is_structure(base.type) THEN Broken
  ELSE IF is_arrow /\ ~type_is_struct_pointer(base.type) THEN Broken
  ELSE LET struct == IF is_arrow THEN type_pointer_get_element_type(base.type) ELSE base.type
           member == type_structure_members(struct)[name]
       IN IF name \notin DOMAIN type_structure_members(struct) THEN Broken
          ELSE expression_member(IF type_is_const(struct) /\ ~type_is_const(member) THEN type_const(member) ELSE member,
                                 member_category(base, is_arrow), name, is_arrow, base)

build_unary_expression(nd, op) ==
  IF ~node_is_correct(nd) THEN Broken
  ELSE CASE op \in {"POSTINC", "POSTDEC", "PREINC", "PREDEC"} ->
              IF nd.lvalue /\ type_is_arithmetic(nd.type) THEN expression_unary(nd.type, FALSE, nd, op) ELSE Broken
         [] op = "ADDRESS" -> IF nd.lvalue THEN expression_unary(type_pointer(nd.type), FALSE, nd, op) ELSE Broken
         [] op = "INDIRECTION" -> IF type_is_pointer(nd.type)
                                  THEN expression_unary(type_pointer_get_element_type(nd.type), TRUE, nd, op)
                                  ELSE Broken
         [] op \in {"ABS", "MINUS"} -> IF type_is_arithmetic(nd.type) THEN fold_unary_expression(nd.type, nd, op)
                                       ELSE Broken
         [] op = "NOT" -> IF type_is_integer(nd.type) THEN fold_unary_expression(TInt, nd, op) ELSE Broken
         [] op = "LOGNOT" -> IF type_is_scalar(nd.type) THEN fold_unary_expression(TBool, nd, op) ELSE Broken
         [] op = "UPB" -> IF type_is_array(nd.type) THEN fold_unary_expression(TInt, nd, op) ELSE Broken

IntegerOps == {"REM", "SHL", "SHR", "AND", "XOR", "OR"}
ArithmeticOps == {"MUL", "DIV", "ADD", "SUB"}
Orders == {"LT", "GT", "LE", "GE"}
IntegerAssigns == {"REM_ASSIGN", "SHL_ASSIGN", "SHR_ASSIGN", "AND_ASSIGN", "XOR_ASSIGN", "OR_ASSIGN"}
ArithmeticAssigns == {"MUL_ASSIGN", "DIV_ASSIGN", "ADD_ASSIGN", "SUB_ASSIGN"}
operation_is_assignment(op) == op \in {"ASSIGN"} \cup IntegerAssigns \cup ArithmeticAssigns

build_assignment(l, r, op) ==
  LET checked == check_assignment_operands(l.type, r, FALSE)
  IN IF ~l.lvalue \/ ~checked[1] THEN Broken
     ELSE IF op \in IntegerAssigns /\ ~(type_is_integer(l.type) /\ type_is_integer(r.type)) THEN Broken
     ELSE IF op \in ArithmeticAssigns /\ ~(type_is_arithmetic(l.type) /\ type_is_arithmetic(r.type)) THEN Broken
     ELSE expression_assignment(l.type, l, checked[2], op)

build_binary_expression(l, r, op) ==
  LET converted == usual_arithmetic_conversions(l, r)
      arithmetic == type_is_arithmetic(l.type) /\ type_is_arithmetic(r.type)
  IN IF ~node_is_correct(l) \/ ~node_is_correct(r) THEN Broken
     ELSE CASE operation_is_assignment(op) -> build_assignment(l, r, op)
            [] op \in IntegerOps -> IF type_is_integer(l.type) /\ type_is_integer(r.type)
                                    THEN fold_binary_expression(TInt, l, r, op) ELSE Broken
            [] op \in ArithmeticOps -> IF arithmetic
                                       THEN fold_binary_expression(converted[3], converted[1], converted[2], op)
                                       ELSE Broken
            [] op \in Orders -> IF arithmetic THEN fold_binary_expression(TBool, converted[1], converted[2], op)
                                ELSE Broken
            [] op \in {"EQ", "NE"} ->
                 IF arithmetic THEN fold_binary_expression(TBool, converted[1], converted[2], op)
                 ELSE IF \/ type_is_pointer(l.type) /\ type_is_null_pointer(r.type)
                         \/ type_is_null_pointer(l.type) /\ type_is_pointer(r.type)
                         \/ l.type = r.type
                 THEN fold_binary_expression(TBool, l, r, op)
                 ELSE Broken
            [] op \in {"LOG_AND", "LOG_OR"} -> IF type_is_scalar(l.type) /\ type_is_scalar(r.type)
                                               THEN fold_binary_expression(TBool, l, r, op) ELSE Broken
            [] op = "COMMA" -> expression_binary(r.type, l, r, op)

build_ternary_expression(c, l, r) ==
  LET converted == usual_arithmetic_conversions(l, r)
  IN IF ~(node_is_correct(c) /\ node_is_correct(l) /\ node_is_correct(r)) THEN Broken
     ELSE IF l.class = "initializer" \/ r.class = "initializer" \/ ~type_is_scalar(c.type) THEN Broken
     ELSE IF type_is_arithmetic(l.type) /\ type_is_arithmetic(r.type)
     THEN expression_ternary(converted[3], c, converted[1], converted[2])
     ELSE IF type_is_pointer(l.type) /\ type_is_null_pointer(r.type) THEN expression_ternary(l.type, c, l, r)
     ELSE IF (type_is_null_pointer(l.type) /\ type_is_pointer(r.type)) \/ l.type = r.type
     THEN expression_ternary(r.type, c, l, r)
     ELSE Broken

build_initializer(exprs) == IF exprs = <<>> THEN Broken ELSE expression_initializer(TUndefined, exprs)

----------------------------------------------------------------------------
\* The type of a declared variable or member: the base, then the star, then const, then a dimension for each bound.
DeclaredType(base, was_star, was_const, bounds) ==
  LET pointed == IF was_star THEN type_pointer(base) ELSE base
      qualified == IF was_const THEN type_const(pointed) ELSE pointed
  IN FoldLeft(LAMBDA t, bound : type_array(t), qualified, bounds)
WrongBounds(bounds) == \E i \in DOMAIN bounds : ~type_is_integer(bounds[i].type)

RECURSIVE type_requires_initialization(_)
type_requires_initialization(t) ==
  CASE type_get_class(t) = "structure" ->
         \E i \in DOMAIN type_structure_members(t) : type_requires_initialization(type_structure_members(t)[i])
    [] type_get_class(t) = "array" -> type_requires_initialization(type_array_get_element_type(t))
    [] OTHER -> type_is_const(t)

\* A member or a declarator that is refused (its name is declared in Scopes) is reported and built all the same: <<declaration, reported>>.
build_member_declaration(base, was_star, was_const, bounds) ==
  <<[type |-> DeclaredType(base, was_star, was_const, bounds), bounds |-> bounds], type_is_void(base) \/ WrongBounds(bounds)>>
build_struct_declaration(members) ==
  [type |-> type_structure([i \in DOMAIN members |-> members[i].type]), members |-> members]
build_declarator(base, name, was_star, was_const, bounds, init) ==
  LET t == DeclaredType(base, was_star, was_const, bounds)
      checked == check_assignment_operands(t, init[1], TRUE)
  IN <<[class |-> "declaration", type |-> t, lvalue |-> FALSE, id |-> name, bounds |-> bounds,
        init |-> IF init = <<>> THEN <<>> ELSE <<checked[2]>>],
       \/ type_is_void(base) \/ WrongBounds(bounds)
       \/ IF init # <<>> THEN ~checked[1]
          ELSE type_requires_initialization(t) \/ \E i \in DOMAIN bounds : bounds[i].class = "empty_bound">>
=============================================================================
