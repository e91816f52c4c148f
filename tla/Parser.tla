------------------------------- MODULE Parser -------------------------------
(***************************************************************************)
(* The recursive-descent parser of libs/compiler/parser.c and its error    *)
(* recovery.  The source is a stream of token kinds, drawn one by one; the *)
(* C call stack is todo, the list of what is left to do: the parse         *)
(* functions not yet called and the rest of the ones that wait for a call  *)
(* to return.  An item is a tuple of its name and the locals it needs.     *)
(*                                                                         *)
(* What a built node contains does not steer the parser, only whether it   *)
(* is correct (node_is_correct), so a semantic check of the builder is a   *)
(* choice between a correct node and a reported error.  Semantic errors    *)
(* that change nothing but the error count are left out.                   *)
(***************************************************************************)
EXTENDS Naturals, Sequences, FiniteSets

CONSTANT Sources    \* [start, alphabet, length]: how a source starts, the token
                    \* kinds that may follow, and the bound on its length

Eof == "eof"
Unseen == "unseen"

\* An identifier is a "name" or, when the table says so, a "typename".
Identifiers == {"name", "typename"}
Basic == {"void", "type"}
Openers == {"(", "[", "{", "?"}
Closer == [t \in Openers |-> CASE t = "(" -> ")" [] t = "[" -> "]" [] t = "{" -> "}" [] t = "?" -> ":"]
UnaryOperators == {"*", "++"}

\* "=" and "*" stand for the assignment and for the other binary operators.
get_operator_precedence(t) ==
    CASE t = "," -> 1 [] t = "=" -> 2 [] t = "?" -> 3 [] t = "*" -> 4 [] OTHER -> 0

ASSUME ParserAssumption ==
    \A src \in Sources :
        /\ src.start \in Seq(STRING) /\ src.alphabet \subseteq STRING
        /\ src.length \in Nat

VARIABLES
    source,         \* the kind of source, of Sources; never changes
    tk,             \* prs->tk, the current token
    ahead,          \* the token peek_token has seen, or Unseen
    read,           \* tokens lexed so far
    todo,           \* the call stack
    correct,        \* node_is_correct of the last expression
    type,           \* class of the last type specifier
    errors,         \* sx->rprt.errors > 0
    is_in_loop, is_in_switch,
    func_def, was_type_def,
    blocks,         \* scopes entered and not left
    open            \* brackets consumed and not closed, a history variable

lexer == <<source, tk, ahead, read, open>>
flags == <<is_in_loop, is_in_switch, func_def, was_type_def, blocks>>
vars == <<source, tk, ahead, read, todo, correct, type, errors, is_in_loop, is_in_switch,
          func_def, was_type_def, blocks, open>>

-----------------------------------------------------------------------------
(***************************************************************************)
(* Tokens and the call stack.                                              *)
(***************************************************************************)
At(f) == todo # <<>> /\ Head(todo)[1] = f
Arg(i) == Head(todo)[i + 1]

Call(f) == <<f>>
Skip(tokens) == <<"skip_until", tokens>>
Try(t) == <<"try_consume_token", t>>
Expect(t) == <<"expect_and_consume", t>>

Token(i) == IF i <= Len(source.start) THEN {source.start[i]}
            ELSE IF i <= source.length THEN source.alphabet \cup {Eof} ELSE {Eof}

\* A mismatched closing bracket can never be made good.
Track(t) ==
    CASE t \in {"(", "[", "{"} -> Append(open, t)
      [] t \in {")", "]", "}"} ->
            IF open # <<>> /\ open[Len(open)] # "bad" /\ Closer[open[Len(open)]] = t
            THEN SubSeq(open, 1, Len(open) - 1) ELSE <<"bad">>
      [] OTHER -> open

\* The brackets of a source with errors are of no interest.
consume_token ==
    /\ tk' \in IF tk = Eof THEN {Eof} ELSE IF ahead # Unseen THEN {ahead} ELSE Token(read + 1)
    /\ read' = IF tk' = Eof THEN read ELSE read + 1
    /\ ahead' = Unseen
    /\ open' = IF errors' THEN <<>> ELSE Track(tk)
    /\ UNCHANGED source

\* A call's continuation: take a token or not, report an error or not.
Push(items) == todo' = items \o Tail(todo)
Consume(items) == Push(items) /\ errors' = errors /\ consume_token
Stay(items) == Push(items) /\ errors' = errors /\ UNCHANGED lexer
Fail(items) == Push(items) /\ errors' = TRUE
               /\ open' = <<>> /\ UNCHANGED <<source, tk, ahead, read>>
FailAndConsume(items) == Push(items) /\ errors' = TRUE /\ consume_token

\* build_...: with correct operands, a correct node or a semantic error.
Built(operands) == correct' = operands /\ errors' = errors
SemanticError == correct' = FALSE /\ errors' = TRUE
Build(operands) == Built(operands) \/ SemanticError

try_consume_token ==
    /\ At("try_consume_token")
    /\ IF tk = Arg(1) THEN Consume(<<>>) ELSE Stay(<<>>)
    /\ UNCHANGED <<correct, type, flags>>

\* Needed where the next token decides: before an unexpected bracket's `;` and
\* after the name in an external definition.
Peeking ==
    /\ todo # <<>> /\ ahead = Unseen
    /\ \/ At("expect_and_consume") /\ Arg(1) = ";" /\ tk \in {")", "]"}
       \/ At("external_name") /\ tk \in Identifiers

peek_token ==
    /\ Peeking
    /\ ahead' \in Token(read + 1)
    /\ UNCHANGED <<source, tk, read, todo, correct, type, errors, flags, open>>

\* The error of expect_and_consume: the token stays.
Missing == Fail(<<>>)

expect_and_consume ==
    /\ At("expect_and_consume") /\ ~Peeking
    /\ CASE tk = Arg(1) -> Consume(<<>>)
         [] tk # Arg(1) /\ Arg(1) = ";" /\ ahead = ";" /\ tk \in {")", "]"} ->
                FailAndConsume(<<Call("consume_token")>>)
         [] OTHER -> Missing
    /\ UNCHANGED <<correct, type, flags>>

ConsumeToken ==
    /\ At("consume_token")
    /\ Consume(<<>>)
    /\ UNCHANGED <<correct, type, flags>>

\* The tokens skip_until looks up in its set; the comma is not among them.
StopTokens == {")", "]", "}", ":", ";"}

skip_until ==
    /\ At("skip_until")
    /\ CASE tk = Eof -> Stay(<<>>)
         [] tk \in Openers -> Consume(<<Skip({Closer[tk]}), Head(todo)>>)
         [] tk \in StopTokens /\ tk \in Arg(1) -> Stay(<<>>)
         [] OTHER -> Consume(<<Head(todo)>>)
    /\ UNCHANGED <<correct, type, flags>>

-----------------------------------------------------------------------------
(***************************************************************************)
(* Expressions.                                                            *)
(***************************************************************************)
\* The value of a parse function whose recovery has run.
Broken ==
    /\ At("broken")
    /\ correct' = FALSE
    /\ Stay(<<>>)
    /\ UNCHANGED <<type, flags>>

parse_primary_expression ==
    /\ At("primary_expression")
    /\ \/ tk \in Identifiers /\ Build(TRUE) /\ Push(<<>>) /\ consume_token
       \/ tk = "literal" /\ correct' = TRUE /\ Consume(<<>>)
       \/ tk = "(" /\ Consume(<<Call("expression"), Call("close_paren")>>) /\ UNCHANGED correct
       \/ tk \notin Identifiers \cup {"literal", "("} /\ correct' = FALSE /\ Fail(<<>>)
    /\ UNCHANGED <<type, flags>>

ClosePrimary_Silent ==
    /\ At("close_paren")
    /\ IF tk = ")" THEN Consume(<<>>) /\ UNCHANGED correct ELSE Stay(<<>>) /\ correct' = FALSE
    /\ UNCHANGED <<type, flags>>

ClosePrimary ==
    /\ At("close_paren")
    /\ IF tk = ")" THEN Consume(<<>>) /\ UNCHANGED correct ELSE Fail(<<>>) /\ correct' = FALSE
    /\ UNCHANGED <<type, flags>>

parse_initializer_list ==
    /\ \/ At("initializer_list") /\ Stay(<<Call("initializer"), Call("more_initializers")>>)
       \/ /\ At("more_initializers")
          /\ IF tk = "," THEN Consume(<<Call("initializer_list")>>) ELSE Stay(<<>>)
    /\ UNCHANGED <<correct, type, flags>>

parse_postfix_expression ==
    /\ At("postfix_expression")
    /\ \/ tk = "[" /\ Consume(<<Call("expression"), <<"index", correct>>, Head(todo)>>) /\ UNCHANGED correct
       \/ tk = "(" /\ Consume(<<<<"call", correct>>, Head(todo)>>) /\ UNCHANGED correct
       \/ tk = "." /\ Consume(<<<<"member", correct>>, Head(todo)>>) /\ UNCHANGED correct
       \/ tk = "++" /\ Build(correct) /\ Push(<<Head(todo)>>) /\ consume_token
       \/ tk \notin {"[", "(", ".", "++"} /\ Stay(<<>>) /\ UNCHANGED correct
    /\ UNCHANGED <<type, flags>>

\* The rest of a subscript, a call and a member access, whose base was Arg(1);
\* build_call_expression does not ask whether the arguments are correct.
parse_postfix_operand ==
    /\ \/ At("index") /\ tk = "]" /\ Build(correct /\ Arg(1)) /\ Push(<<>>) /\ consume_token
       \/ At("index") /\ tk # "]" /\ Fail(<<Skip({"]", ";"}), Try("]"), Call("broken")>>) /\ UNCHANGED correct
       \/ At("call") /\ tk # ")" /\ Stay(<<Call("initializer_list"), <<"arguments", Arg(1)>>>>) /\ UNCHANGED correct
       \/ (At("call") \/ At("arguments")) /\ tk = ")" /\ Build(Arg(1)) /\ Push(<<>>) /\ consume_token
       \/ At("arguments") /\ tk # ")" /\ Fail(<<Skip({")", ";"}), Try(")"), Call("broken")>>) /\ UNCHANGED correct
       \/ At("member") /\ tk \in Identifiers /\ Build(Arg(1)) /\ Push(<<>>) /\ consume_token
       \/ At("member") /\ tk \notin Identifiers /\ correct' = FALSE /\ Fail(<<>>)
    /\ UNCHANGED <<type, flags>>

parse_unary_expression ==
    /\ \/ /\ At("unary_expression") /\ UNCHANGED correct
          /\ IF tk \in UnaryOperators THEN Consume(<<Call("unary_expression"), Call("unary_build")>>)
             ELSE Stay(<<Call("primary_expression"), Call("postfix_expression")>>)
       \/ At("unary_build") /\ Build(correct) /\ Push(<<>>) /\ UNCHANGED lexer
    /\ UNCHANGED <<type, flags>>

RightAssociative(p) == p \in {2, 3}

\* The left operand Arg(2) and the middle one have been parsed.
Operand(p, left, min) ==
    << IF tk = "{" THEN Call("initializer") ELSE Call("unary_expression"),
       <<"tail", p>>, <<"binary_build", left>>, <<"RHS", min>> >>

parse_RHS_of_binary_expression ==
    LET p == get_operator_precedence(tk) IN
    /\ \/ /\ At("RHS") /\ UNCHANGED correct
          /\ CASE p < Arg(1) -> Stay(<<>>)
               [] p >= Arg(1) /\ tk = "?" ->
                    Consume(<<Call("initializer"), <<"colon", correct, Arg(1)>>>>)
               [] OTHER -> Consume(<<<<"operand", p, correct, Arg(1)>>>>)
       \/ /\ At("colon") /\ UNCHANGED correct
          /\ LET rest == <<<<"operand", 3, correct /\ Arg(1), Arg(2)>>>>
             IN IF tk = ":" THEN Consume(rest) ELSE Fail(rest)
       \/ At("operand") /\ Stay(Operand(Arg(1), Arg(2), Arg(3))) /\ UNCHANGED correct
       \/ /\ At("tail") /\ UNCHANGED correct
          /\ CASE p > Arg(1) \/ (p = Arg(1) /\ RightAssociative(p)) ->
                    Stay(<<<<"RHS", IF RightAssociative(Arg(1)) THEN Arg(1) ELSE Arg(1) + 1>>>>)
               [] OTHER -> Stay(<<>>)
       \/ At("binary_build") /\ Build(correct /\ Arg(1)) /\ Push(<<>>) /\ UNCHANGED lexer
    /\ UNCHANGED <<type, flags>>

Assignment == <<Call("unary_expression"), <<"RHS", 2>>>>

parse_expression ==
    /\ At("expression")
    /\ Stay(Assignment \o <<<<"RHS", 1>>>>)
    /\ UNCHANGED <<correct, type, flags>>

parse_constant_expression ==
    /\ \/ /\ At("constant_expression") /\ UNCHANGED correct
          /\ Stay(<<Call("unary_expression"), <<"RHS", 3>>, Call("constant_build")>>)
       \/ At("constant_build") /\ Build(correct) /\ Push(<<>>) /\ UNCHANGED lexer
    /\ UNCHANGED <<type, flags>>

\* build_initializer does not ask whether the elements are correct.
parse_initializer ==
    /\ \/ /\ At("initializer") /\ UNCHANGED correct
          /\ IF tk = "{" THEN Consume(<<Call("initializers")>>) ELSE Stay(Assignment)
       \/ At("initializers") /\ tk = "}" /\ correct' = FALSE /\ FailAndConsume(<<>>)
       \/ /\ At("initializers") /\ tk # "}" /\ UNCHANGED correct
          /\ Stay(<<Call("initializer_list"), Call("close_initializer")>>)
       \/ At("close_initializer") /\ tk = "}" /\ correct' = TRUE /\ Consume(<<>>)
       \/ /\ At("close_initializer") /\ tk # "}" /\ UNCHANGED correct
          /\ Fail(<<Skip({"}", ";"}), Try("}"), Call("broken")>>)
    /\ UNCHANGED <<type, flags>>

Expressions ==
    \/ parse_primary_expression \/ ClosePrimary \/ parse_initializer_list
    \/ parse_postfix_expression \/ parse_postfix_operand \/ parse_unary_expression
    \/ parse_RHS_of_binary_expression \/ parse_expression \/ parse_constant_expression
    \/ parse_initializer \/ Broken

-----------------------------------------------------------------------------
(***************************************************************************)
(* Declarations.  type is "undefined" for TYPE_UNDEFINED, "void" and       *)
(* "const" for what type_is_void and type_is_const say, else "plain".      *)
(***************************************************************************)
Types == {"undefined", "void", "const", "plain"}

parse_type_specifier ==
    /\ At("type_specifier")
    /\ \/ tk \in Basic /\ type' = (IF tk = "void" THEN "void" ELSE "plain") /\ Consume(<<>>)
       \/ tk = "typename" /\ type' \in Types \ {"undefined"} /\ Consume(<<>>)
       \/ tk = "name" /\ type' = "undefined" /\ FailAndConsume(<<>>)
       \/ /\ tk \in {"const", "struct", "enum", "typedef"} /\ UNCHANGED type
          /\ Consume(IF tk \in {"const", "typedef"}
                     THEN <<Call("type_specifier"), Call(tk)>> ELSE <<Call(tk)>>)
       \/ /\ tk \notin Basic \cup Identifiers \cup {"const", "struct", "enum", "typedef"}
          /\ type' = "undefined" /\ Fail(<<>>)
    /\ UNCHANGED <<correct, flags>>

Qualify ==
    /\ At("const")
    /\ IF type = "const" THEN type' = "undefined" /\ Fail(<<>>)
       ELSE type' = (IF type = "undefined" THEN type ELSE "const") /\ Stay(<<>>)
    /\ UNCHANGED <<correct, flags>>

\* The new type's name enters the table, and may be there already.
Typedef ==
    /\ \/ /\ At("typedef") /\ UNCHANGED was_type_def
          /\ \/ type = "undefined" /\ Stay(<<Skip({";"})>>) /\ UNCHANGED type
             \/ type # "undefined" /\ tk = "*" /\ type' = "plain" /\ Consume(<<Call("typedef_name")>>)
             \/ type # "undefined" /\ tk # "*" /\ Stay(<<Call("typedef_name")>>) /\ UNCHANGED type
       \/ /\ At("typedef_name") /\ tk \in Identifiers /\ was_type_def' = TRUE
          /\ UNCHANGED type /\ Consume(<<Call("typedef_end")>>)
       \/ /\ At("typedef_name") /\ tk \notin Identifiers /\ UNCHANGED was_type_def
          /\ type' = "undefined" /\ Fail(<<Skip({";"})>>)
       \/ /\ At("typedef_end") /\ UNCHANGED was_type_def
          /\ IF tk = ";" THEN Stay(<<>>) /\ UNCHANGED type ELSE Fail(<<>>) /\ type' = "undefined"
    /\ UNCHANGED <<correct, is_in_loop, is_in_switch, func_def, blocks>>

\* A struct or enum name without a body: the type found, or none.
Reference ==
    \/ type' \in Types \ {"undefined"} /\ Stay(<<>>)
    \/ type' = "undefined" /\ Fail(<<>>)

parse_struct_specifier ==
    /\ \/ At("struct") /\ tk = "{" /\ Consume(<<Call("members")>>) /\ was_type_def' = TRUE /\ UNCHANGED type
       \/ At("struct") /\ tk \in Identifiers /\ Consume(<<Call("struct_name")>>) /\ UNCHANGED <<was_type_def, type>>
       \/ At("struct") /\ tk \notin Identifiers \cup {"{"} /\ Fail(<<>>) /\ type' = "undefined" /\ UNCHANGED was_type_def
       \/ At("struct_name") /\ tk = "{" /\ Consume(<<Call("members")>>) /\ was_type_def' = TRUE /\ UNCHANGED type
       \/ At("struct_name") /\ tk # "{" /\ Reference /\ UNCHANGED was_type_def
    /\ UNCHANGED <<correct, is_in_loop, is_in_switch, func_def, blocks>>

parse_struct_declaration ==
    /\ At("members")
    /\ IF tk = "}" THEN Consume(<<>>) /\ type' = "plain"
       ELSE Stay(<<Call("type_specifier"), Call("member_star"), Head(todo)>>) /\ UNCHANGED type
    /\ UNCHANGED <<correct, flags>>

\* `*` and `const` before the name of a member or a declarator.
Star(at, name) ==
    /\ At(at)
    /\ IF tk = "*" THEN Consume(<<Try("const"), Call(name)>>) ELSE Stay(<<Call(name)>>)
    /\ UNCHANGED <<correct, type, flags>>

MemberStops == {"]", ";"}
DeclaratorStops == {"]", ",", ";"}

parse_member_declaration ==
    \/ Star("member_star", "member_name")
    \/ /\ At("member_name")
       /\ IF tk \in Identifiers THEN Consume(<<<<"bounds", MemberStops>>, Expect(";")>>)
          ELSE Fail(<<Skip({";", "}"}), Try(";")>>)
       /\ UNCHANGED <<correct, type, flags>>

\* The bounds of a member or a declarator; only a member's must be given.
parse_bounds ==
    /\ \/ At("bounds") /\ tk = "[" /\ Consume(<<<<"bound_start", Arg(1)>>, Head(todo)>>)
       \/ At("bound_start") /\ tk = "]" /\ Arg(1) = MemberStops /\ FailAndConsume(<<>>)
       \/ At("bound_start") /\ tk = "]" /\ Arg(1) = DeclaratorStops /\ Consume(<<>>)
       \/ At("bound_start") /\ tk # "]" /\ Stay(<<Call("expression"), <<"bound", Arg(1)>>>>)
       \/ At("bounds") /\ tk # "[" /\ Stay(<<>>)
       \/ At("bound") /\ ~correct /\ Stay(<<Skip(Arg(1)), Try("]")>>)
       \/ At("bound") /\ correct /\ tk = "]" /\ Consume(<<>>)
       \/ At("bound") /\ correct /\ tk # "]" /\ Fail(<<Skip(Arg(1)), Try("]")>>)
    /\ UNCHANGED <<correct, type, flags>>

parse_enum_specifier ==
    /\ \/ /\ (At("enum") \/ At("enum_name")) /\ tk = "{"
          /\ Consume(<<Call("enum_first"), Call("enum_end")>>) /\ UNCHANGED <<type, was_type_def>>
       \/ At("enum") /\ tk \in Identifiers /\ Consume(<<Call("enum_name")>>) /\ UNCHANGED <<type, was_type_def>>
       \/ At("enum") /\ tk \notin Identifiers \cup {"{"} /\ Fail(<<>>) /\ type' = "undefined" /\ UNCHANGED was_type_def
       \/ At("enum_name") /\ tk # "{" /\ Reference /\ UNCHANGED was_type_def
       \/ At("enum_end") /\ was_type_def' = TRUE /\ Stay(<<>>) /\ UNCHANGED type
    /\ UNCHANGED <<correct, is_in_loop, is_in_switch, func_def, blocks>>

parse_enum_declaration_list ==
    /\ \/ At("enum_first") /\ tk = "}" /\ type' = "undefined" /\ FailAndConsume(<<>>)
       \/ At("enum_first") /\ tk # "}" /\ Stay(<<Call("enumerator")>>) /\ UNCHANGED type
       \/ /\ At("enumerator") /\ UNCHANGED type
          /\ LET rest == <<Call("consume_token"), Call("enum_value")>>
             IN IF tk \in Identifiers THEN Stay(rest) ELSE Fail(<<Skip({";", "}"})>> \o rest)
       \/ /\ At("enum_value") /\ UNCHANGED type
          /\ IF tk = "=" THEN Consume(<<Call("constant_expression"), Call("enum_constant")>>)
             ELSE Stay(<<Call("enum_comma")>>)
       \/ At("enum_constant") /\ ~correct /\ Stay(<<Call("enum_more")>>) /\ UNCHANGED type
       \/ At("enum_constant") /\ correct /\ Stay(<<Call("enum_comma")>>) /\ UNCHANGED type
       \/ At("enum_constant") /\ correct /\ Fail(<<>>) /\ type' = "undefined"
       \/ /\ At("enum_comma") /\ UNCHANGED type
          /\ Stay(IF tk = "}" THEN <<Call("enum_more")>> ELSE <<Expect(","), Call("enum_more")>>)
       \/ At("enum_more") /\ tk = "}" /\ type' = "plain" /\ Consume(<<>>)
       \/ At("enum_more") /\ tk # "}" /\ Stay(<<Call("enumerator")>>) /\ UNCHANGED type
    /\ UNCHANGED <<correct, flags>>

parse_init_declarator ==
    \/ Star("init_declarator", "declarator_name")
    \/ /\ At("declarator_name")
       /\ IF tk \in Identifiers THEN Consume(<<<<"bounds", DeclaratorStops>>, Call("init")>>)
          ELSE Fail(<<Skip({",", ";"})>>)
       /\ UNCHANGED <<correct, type, flags>>
    \/ /\ At("init")
       /\ IF tk = "=" THEN Consume(<<Call("initializer"), Call("init_end")>>) ELSE Stay(<<>>)
       /\ UNCHANGED <<correct, type, flags>>
    \/ /\ At("init_end")
       /\ IF correct THEN Stay(<<>>) ELSE Stay(<<Skip({",", ";"})>>)
       /\ UNCHANGED <<correct, type, flags>>

parse_declaration ==
    /\ \/ At("declaration") /\ Stay(<<Call("type_specifier"), Call("declarators")>>)
       \/ /\ At("declarators")
          /\ IF tk = ";" THEN Stay(<<Expect(";")>>)
             ELSE Stay(<<Call("init_declarator"), Call("more_declarators")>>)
       \/ /\ At("more_declarators")
          /\ IF tk = "," THEN Consume(<<Call("init_declarator"), Head(todo)>>) ELSE Stay(<<Expect(";")>>)
    /\ UNCHANGED <<correct, type, flags>>

Declarations ==
    \/ parse_type_specifier \/ Qualify \/ Typedef \/ parse_struct_specifier
    \/ parse_struct_declaration \/ parse_member_declaration \/ parse_bounds
    \/ parse_enum_specifier \/ parse_enum_declaration_list \/ parse_init_declarator
    \/ parse_declaration

-----------------------------------------------------------------------------
(***************************************************************************)
(* Statements.  The loop and switch flags are set for the body and put     *)
(* back by the items in_loop and in_switch; leave_block is                 *)
(* scope_block_exit.                                                       *)
(***************************************************************************)
is_declaration_specifier == tk \in Basic \cup {"typename", "struct", "enum", "typedef", "const"}

RestoreLoop_Clear ==
    /\ At("in_loop")
    /\ is_in_loop' = FALSE
    /\ Stay(<<>>)
    /\ UNCHANGED <<correct, type, is_in_switch, func_def, was_type_def, blocks>>

RestoreLoop ==
    /\ At("in_loop")
    /\ is_in_loop' = Arg(1)
    /\ Stay(<<>>)
    /\ UNCHANGED <<correct, type, is_in_switch, func_def, was_type_def, blocks>>

RestoreSwitch ==
    /\ At("in_switch")
    /\ is_in_switch' = Arg(1)
    /\ Stay(<<>>)
    /\ UNCHANGED <<correct, type, is_in_loop, func_def, was_type_def, blocks>>

LeaveBlock ==
    /\ At("leave_block")
    /\ blocks' = blocks - 1
    /\ Stay(<<>>)
    /\ UNCHANGED <<correct, type, is_in_loop, is_in_switch, func_def, was_type_def>>

LoopBody(rest) ==
    /\ is_in_loop' = TRUE
    /\ Stay(<<Call("statement"), <<"in_loop", is_in_loop>>>> \o rest)
    /\ UNCHANGED <<is_in_switch, func_def, was_type_def, blocks>>

parse_condition ==
    /\ \/ /\ At("condition")
          /\ IF tk = "(" THEN Consume(<<Call("expression"), Call("close_condition")>>)
             ELSE Fail(<<Skip({";"})>>)
       \/ At("close_condition") /\ ~correct /\ Stay(<<Skip({")", ";"}), Try(")")>>)
       \/ At("close_condition") /\ correct /\ tk = ")" /\ Consume(<<>>)
       \/ At("close_condition") /\ correct /\ tk # ")" /\ Fail(<<Skip({";"})>>)
    /\ UNCHANGED <<correct, type, flags>>

\* case and default: parse_case_statement and parse_default_statement.
parse_case_statement ==
    /\ \/ At("case") /\ ~is_in_switch /\ Fail(<<Skip({";"})>>)
       \/ At("case") /\ is_in_switch /\ Stay(<<Call("constant_expression"), Call("case_label")>>)
       \/ At("case_label") /\ ~correct /\ Stay(<<Skip({";", "}"})>>)
       \/ At("case_label") /\ correct /\ Stay(<<Expect(":"), Call("statement")>>)
    /\ UNCHANGED <<correct, type, flags>>

parse_default_statement ==
    /\ At("default")
    /\ IF is_in_switch THEN Stay(<<Expect(":"), Call("statement")>>) ELSE Fail(<<Skip({";"})>>)
    /\ UNCHANGED <<correct, type, flags>>

BodyEndsAt_Brace(t) == t = "}"

\* The source may end before the `}`.
BodyEndsAt(t) == t \in {"}", Eof}

UnclosedBody_Silent == Stay(<<>>)

UnclosedBody == Fail(<<>>)

parse_compound_statement_body ==
    /\ At("compound_body")
    /\ CASE BodyEndsAt(tk) /\ tk = "}" -> Consume(<<>>)
         [] BodyEndsAt(tk) /\ tk # "}" -> UnclosedBody
         [] OTHER -> Stay(<<Call(IF is_declaration_specifier THEN "declaration" ELSE "statement"), Head(todo)>>)
    /\ UNCHANGED <<correct, type, flags>>

parse_compound_statement ==
    /\ At("compound")
    /\ blocks' = blocks + 1
    /\ Consume(<<Call("compound_body"), Call("leave_block")>>)
    /\ UNCHANGED <<correct, type, is_in_loop, is_in_switch, func_def, was_type_def>>

parse_expression_statement ==
    /\ \/ At("expression_statement") /\ Stay(<<Call("expression"), Call("end_of_expression")>>)
       \/ /\ At("end_of_expression")
          /\ Stay(<<IF correct THEN Expect(";") ELSE Skip({";"})>>)
    /\ UNCHANGED <<correct, type, flags>>

parse_if_statement ==
    /\ \/ At("if") /\ Stay(<<Call("condition"), Call("statement"), Call("else")>>)
       \/ At("else") /\ IF tk = "else" THEN Consume(<<Call("statement")>>) ELSE Stay(<<>>)
    /\ UNCHANGED <<correct, type, flags>>

parse_switch_statement ==
    /\ \/ At("switch") /\ Stay(<<Call("condition"), Call("switch_body")>>) /\ UNCHANGED flags
       \/ /\ At("switch_body")
          /\ is_in_switch' = TRUE
          /\ Stay(<<Call("statement"), <<"in_switch", is_in_switch>>>>)
          /\ UNCHANGED <<is_in_loop, func_def, was_type_def, blocks>>
    /\ UNCHANGED <<correct, type>>

parse_while_statement ==
    /\ \/ At("while") /\ Stay(<<Call("condition"), Call("while_body")>>) /\ UNCHANGED flags
       \/ At("while_body") /\ LoopBody(<<>>)
    /\ UNCHANGED <<correct, type>>

parse_do_statement ==
    /\ \/ At("do") /\ LoopBody(<<Call("do_while")>>)
       \/ /\ At("do_while") /\ UNCHANGED flags
          /\ IF tk = "while" THEN Consume(<<Call("condition"), Expect(";")>>) ELSE Fail(<<Skip({";"})>>)
    /\ UNCHANGED <<correct, type>>

\* A syntax error in the header returns without scope_block_exit.
Header(next) ==
    \/ ~correct /\ Stay(<<Skip({";"})>>)
    \/ correct /\ tk = ";" /\ Consume(<<Call(next)>>)
    \/ correct /\ tk # ";" /\ Fail(<<Skip({";"})>>)

ForBody == LoopBody(<<Call("leave_block")>>)

parse_for_statement ==
    /\ \/ /\ At("for") /\ blocks' = blocks + 1
          /\ IF tk = "(" THEN Consume(<<Call("for_init")>>) ELSE Fail(<<Skip({";"})>>)
          /\ UNCHANGED <<is_in_loop, is_in_switch, func_def, was_type_def>>
       \/ /\ UNCHANGED flags
          /\ \/ At("for_init") /\ tk = ";" /\ Consume(<<Call("for_condition")>>)
             \/ At("for_init") /\ is_declaration_specifier /\ Stay(<<Call("declaration"), Call("for_condition")>>)
             \/ /\ At("for_init") /\ tk # ";" /\ ~is_declaration_specifier
                /\ Stay(<<Call("expression"), Call("for_init_end")>>)
             \/ At("for_init_end") /\ Header("for_condition")
             \/ At("for_condition") /\ tk = ";" /\ Consume(<<Call("for_increment")>>)
             \/ At("for_condition") /\ tk # ";" /\ Stay(<<Call("expression"), Call("for_condition_end")>>)
             \/ At("for_condition_end") /\ Header("for_increment")
             \/ At("for_increment") /\ tk = ")" /\ Consume(<<Call("for_body")>>)
             \/ At("for_increment") /\ tk # ")" /\ Stay(<<Call("expression"), Call("for_close")>>)
             \/ At("for_close") /\ ~correct /\ Stay(<<Skip({";"})>>)
             \/ At("for_close") /\ correct /\ tk = ")" /\ Consume(<<Call("for_body")>>)
             \/ At("for_close") /\ correct /\ tk # ")" /\ Fail(<<Skip({";"})>>)
       \/ At("for_body") /\ ForBody
    /\ UNCHANGED <<correct, type>>

\* continue asks for a loop, break for a loop or a switch.
parse_continue_statement ==
    /\ At("continue")
    /\ IF is_in_loop THEN Stay(<<Expect(";")>>) ELSE Fail(<<Skip({";"})>>)
    /\ UNCHANGED <<correct, type, flags>>

parse_break_statement ==
    /\ At("break")
    /\ IF is_in_loop \/ is_in_switch THEN Stay(<<Expect(";")>>) ELSE Fail(<<Skip({";"})>>)
    /\ UNCHANGED <<correct, type, flags>>

parse_return_statement ==
    /\ At("return")
    /\ IF tk = ";" THEN Consume(<<>>) ELSE Stay(<<Call("expression"), Call("end_of_expression")>>)
    /\ UNCHANGED <<correct, type, flags>>

Keywords == {"case", "default", "if", "switch", "while", "do", "for", "continue", "break", "return"}

\* Each of the functions it calls takes its keyword first.
parse_statement ==
    /\ At("statement")
    /\ CASE tk = "{" -> Stay(<<Call("compound")>>)
         [] tk = ";" -> Consume(<<>>)
         [] tk \in Keywords -> Consume(<<Call(tk)>>)
         [] OTHER -> Stay(<<Call("expression_statement")>>)
    /\ UNCHANGED <<correct, type, flags>>

Statements ==
    \/ RestoreLoop \/ RestoreSwitch \/ LeaveBlock \/ parse_condition \/ parse_case_statement
    \/ parse_default_statement \/ parse_compound_statement_body \/ parse_compound_statement
    \/ parse_expression_statement \/ parse_if_statement \/ parse_switch_statement
    \/ parse_while_statement \/ parse_do_statement \/ parse_for_statement
    \/ parse_continue_statement \/ parse_break_statement \/ parse_return_statement
    \/ parse_statement

-----------------------------------------------------------------------------
(***************************************************************************)
(* Functions and external definitions.  A parameter list item carries      *)
(* parse_function_declarator's arguments level and func_def, and then      *)
(* arg_func (0 plain, 1 after `*`, 2 after `[`) and was_ident.  The type   *)
(* the list returns does not steer the parser.                             *)
(***************************************************************************)
SetFuncDef ==
    /\ At("func_def")
    /\ func_def' = Arg(1)
    /\ Stay(<<>>)
    /\ UNCHANGED <<correct, type, is_in_loop, is_in_switch, was_type_def, blocks>>

parse_function_declarator ==
    /\ \/ /\ At("function_declarator") /\ UNCHANGED type
          /\ IF tk = ")" THEN Consume(<<<<"func_def", 0>>>>)
             ELSE Stay(<<<<"parameter", Arg(1), Arg(2)>>>>)
       \/ /\ At("parameter") /\ UNCHANGED type
          /\ Stay(<<Call("type_specifier"), <<"parameter_star", Arg(1), Arg(2)>>>>)
       \/ /\ At("parameter_star")
          /\ IF tk = "*" THEN type' = "plain" /\ Consume(<<Try("const"), <<"parameter_name", Arg(1), Arg(2), 1>>>>)
             ELSE Stay(<<<<"parameter_name", Arg(1), Arg(2), 0>>>>) /\ UNCHANGED type
       \/ /\ At("parameter_name") /\ UNCHANGED type
          /\ CASE tk \in Identifiers /\ Arg(1) = 1 -> Consume(<<<<"parameter_void", Arg(1), Arg(2), Arg(3), TRUE>>>>)
               [] tk \in Identifiers /\ Arg(1) = 0 -> Fail(<<Skip({")", ";"}), Try(")")>>)
               [] OTHER -> Stay(<<<<"parameter_void", Arg(1), Arg(2), Arg(3), FALSE>>>>)
       \/ /\ At("parameter_void") /\ UNCHANGED type
          /\ LET rest == <<<<"parameter_array", Arg(1), Arg(2), Arg(3), Arg(4)>>>>
             IN IF type = "void" /\ tk # "(" THEN Fail(rest) ELSE Stay(rest)
       \/ /\ At("parameter_array") /\ UNCHANGED type
          /\ LET again == <<<<"parameter_array", Arg(1), Arg(2), 2, Arg(4)>>>>
             IN IF tk = "[" THEN Consume(<<Call("array_close")>> \o again)
                ELSE Stay(<<<<"parameter_function", Arg(1), Arg(2), Arg(3), Arg(4)>>>>)
       \/ /\ At("array_close") /\ UNCHANGED type
          /\ IF tk = "]" THEN Consume(<<>>) ELSE Fail(<<Skip({"]", ",", ")", ";"}), Try("]")>>)
    /\ UNCHANGED <<correct, flags>>

\* A parameter that is a function, `type (*name)(...)`.
parse_function_parameter ==
    /\ \/ /\ At("parameter_function") /\ UNCHANGED type
          /\ IF tk = "(" THEN Consume(<<Expect("*"), <<"function_name", Arg(1), Arg(2), Arg(3), Arg(4)>>>>)
             ELSE Stay(<<<<"parameter_end", Arg(1), Arg(2), Arg(4)>>>>)
       \/ /\ At("function_name")
          /\ LET recovery == IF Arg(3) = 0 THEN <<>> ELSE <<Call("parameter_error"), Skip({",", ")", ";"})>>
                 rest(named) == <<Expect(")"), Expect("(")>> \o recovery
                    \o << <<"function_declarator", 0, 2>>, <<"func_def", func_def>>,
                          <<"parameter_end", Arg(1), Arg(2), named>> >>
             IN CASE tk \in Identifiers /\ Arg(1) = 1 /\ ~Arg(4) -> Consume(rest(TRUE)) /\ UNCHANGED type
                  [] tk \in Identifiers /\ (Arg(1) = 0 \/ Arg(4)) -> Fail(<<>>) /\ type' = "undefined"
                  [] OTHER -> Stay(rest(Arg(4))) /\ UNCHANGED type
       \/ At("parameter_error") /\ Fail(<<>>) /\ UNCHANGED type
    /\ UNCHANGED <<correct, flags>>

\* The names decide whether the list is a definition's (1) or a prototype's (2).
parse_parameter_end ==
    /\ \/ At("parameter_end") /\ Arg(2) = 3 /\ Stay(<<<<"more_parameters", Arg(1), IF Arg(3) THEN 1 ELSE 2>>>>)
       \/ At("parameter_end") /\ Arg(2) = 2 /\ Arg(3) /\ Fail(<<Skip({")", ";"}), Call("skip_braces")>>)
       \/ At("parameter_end") /\ Arg(2) = 1 /\ ~Arg(3) /\ Fail(<<Skip({")", ";"})>>)
       \/ At("parameter_end") /\ <<Arg(2), Arg(3)>> \in {<<1, TRUE>>, <<2, FALSE>>} /\ Stay(<<<<"more_parameters", Arg(1), Arg(2)>>>>)
       \/ At("skip_braces") /\ IF tk = "{" THEN Consume(<<Skip({"}"}), Try("}")>>) ELSE Stay(<<>>)
       \/ /\ At("more_parameters")
          /\ IF tk = "," THEN Consume(<<<<"parameter", Arg(1), Arg(2)>>>>)
             ELSE Stay(<<Expect(")"), <<"func_def", Arg(2)>>>>)
    /\ UNCHANGED <<correct, type, flags>>

SkipBody == <<Skip({"}"}), Try("}")>>

\* A second main, or a prototype of another type: the body is skipped.
parse_function_definition ==
    /\ \/ At("function_definition") /\ Fail(SkipBody) /\ UNCHANGED blocks
       \/ /\ At("function_definition") /\ blocks' = blocks + 1
          /\ Consume(<<Call("compound_body"), Call("leave_block")>>)
    /\ UNCHANGED <<correct, type, is_in_loop, is_in_switch, func_def, was_type_def>>

parse_function_declaration ==
    /\ \/ /\ At("function_declaration")
          /\ Consume(<<Call("consume_token"), <<"function_declarator", 1, 3>>, Call("function_rest")>>)
          /\ UNCHANGED func_def
       \/ /\ At("function_rest")
          /\ func_def' = IF func_def # 0 THEN func_def ELSE IF tk = "{" THEN 1 ELSE 2
          /\ CASE tk = "{" /\ func_def' = 1 -> Stay(<<Call("function_definition")>>)
               [] tk = "{" /\ func_def' # 1 -> Fail(SkipBody)
               [] tk # "{" /\ func_def' = 1 -> Fail(<<Try(";")>>)
               [] OTHER -> Stay(<<>>)
    /\ UNCHANGED <<correct, type, is_in_loop, is_in_switch, was_type_def, blocks>>

NoDeclarator == Fail(<<Skip({",", ";"})>>)

parse_external_definition ==
    /\ \/ /\ At("external_definition")
          /\ was_type_def' = FALSE /\ func_def' = 3
          /\ Stay(<<Call("type_specifier"), Call("group")>>)
       \/ /\ UNCHANGED <<was_type_def, func_def>>
          /\ \/ /\ At("group")
                /\ IF was_type_def /\ tk = ";" THEN Consume(<<>>)
                   ELSE Stay(<<<<"external", type>>, <<"more_externals", type>>>>)
             \/ /\ At("external")
                /\ IF tk = "*" THEN Consume(<<<<"external_name", Arg(1)>>>>)
                   ELSE Stay(<<<<"external_name", Arg(1)>>>>)
             \/ /\ At("external_name") /\ ~Peeking
                /\ CASE tk \in Identifiers /\ ahead = "(" -> Stay(<<Call("function_declaration")>>)
                     [] tk \in Identifiers /\ ahead # "(" /\ Arg(1) = "void" -> Fail(<<>>)
                     [] tk \in Identifiers /\ ahead # "(" /\ Arg(1) # "void" -> Stay(<<Call("init_declarator")>>)
                     [] OTHER -> NoDeclarator
             \/ /\ At("more_externals")
                /\ CASE tk = "," -> Consume(<<<<"external", Arg(1)>>, Head(todo)>>)
                     [] tk # "," /\ func_def # 1 -> Stay(<<Expect(";")>>)
                     [] OTHER -> Stay(<<>>)
    /\ UNCHANGED <<correct, type, is_in_loop, is_in_switch, blocks>>

parse_translation_unit ==
    /\ At("translation_unit")
    /\ Stay(IF tk = Eof THEN <<>> ELSE <<Call("external_definition"), Head(todo)>>)
    /\ UNCHANGED <<correct, type, flags>>

Definitions ==
    \/ SetFuncDef \/ parse_function_declarator \/ parse_function_parameter \/ parse_parameter_end
    \/ parse_function_definition \/ parse_function_declaration
    \/ parse_external_definition \/ parse_translation_unit

-----------------------------------------------------------------------------
Init ==
    /\ source \in Sources
    /\ tk \in Token(1) /\ ahead = Unseen /\ read = IF tk = Eof THEN 0 ELSE 1
    /\ todo = <<Call("external_definition"), Call("translation_unit")>>
    /\ correct = TRUE /\ type = "plain" /\ errors = FALSE
    /\ is_in_loop = FALSE /\ is_in_switch = FALSE
    /\ func_def = 0 /\ was_type_def = FALSE
    /\ blocks = 0 /\ open = <<>>

Tokens == peek_token \/ try_consume_token \/ expect_and_consume \/ ConsumeToken \/ skip_until

Next == Tokens \/ Expressions \/ Declarations \/ Statements \/ Definitions

\* parse() runs to its end without waiting for anything.
Spec == Init /\ [][Next]_vars /\ WF_vars(Next)

-----------------------------------------------------------------------------
(***************************************************************************)
(* Properties.                                                             *)
(***************************************************************************)
Pending(fs) == {i \in 1..Len(todo) : todo[i][1] \in fs}

\* The calls that will leave a scope: a for statement from its header on.
Leaving == {"leave_block", "for_init", "for_init_end", "for_condition", "for_condition_end",
            "for_increment", "for_close", "for_body"}

\* The source has ended in the list of a structure or an enumeration.
Unclosed == tk = Eof /\ Pending({"members", "enumerator", "enum_value", "enum_comma", "enum_more"}) # {}

\* parse() returns for every source but those: no other loop of a parse
\* function and no recovery goes round without taking a token.
EndsUnlessUnclosed == <>(todo = <<>> \/ Unclosed)

\* A source parse() accepts has its brackets matched, though each pair is
\* checked by another function and recovery skips brackets unchecked.
AcceptedIsBalanced == todo = <<>> /\ ~errors => open = <<>>

\* A break or continue is accepted in a loop's body (or a switch's) only:
\* is_in_loop and is_in_switch say exactly whether the parser is in one,
\* after every recovery and every early return too.  As long as no error was found,
\* the scopes entered are those of the statements that are being read.
NestingExact ==
    /\ is_in_loop = (Pending({"in_loop"}) # {})
    /\ is_in_switch = (Pending({"in_switch"}) # {})
    /\ ~errors => blocks = Cardinality(Pending(Leaving))

\* A node the parser took for broken was reported, so that parse() never
\* returns 0 with a broken tree.
BrokenReported == ~correct => errors

=============================================================================
