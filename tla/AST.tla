-------------------------------- MODULE AST --------------------------------
(***************************************************************************)
(* The syntax tree while the parser builds it (AST.c, the tree-moving      *)
(* parts of builder.c and parser.c).  Every node is first made under the   *)
(* context and then moved under its parent, so that the children of the    *)
(* context are the operands that wait.  Each operand stands beside the     *)
(* term it must be read back as.                                           *)
(***************************************************************************)
EXTENDS Tree

CONSTANTS Grammars      \* the sets of constructors that are explored together

VARIABLES grammar,      \* the grammar of this behaviour
          tree,         \* the vector
          context,      \* the node under which new nodes are made
          function,     \* the function whose body is read, or node_broken
          open,         \* the operands that wait: the node, and the term it stands for
          unit,         \* the external definitions read so far, likewise
          fuel          \* the steps left
vars == <<grammar, tree, context, function, open, unit, fuel>>

RVALUE == 0
LVALUE == 1
OperandOps == {"IDENTIFIER", "LITERAL", "FLOATING", "SLICE", "CALL", "SELECT", "CAST", "UNARY", "BINARY", "TERNARY", "ASSIGNMENT"}
StatementOps == {"NOP", "BREAK", "CASE", "DEFAULT", "BLOCK", "IF", "SWITCH", "WHILE", "DO", "FOR", "RETURN", "DECLSTMT"} \cup OperandOps

\* What each step writes into its node: a type, one more value, and a location.
TypeNow == 100 + fuel
ValueNow == 200 + fuel
LocationNow == <<300 + fuel, 400 + fuel>>
Term(op, label, location, parts) == [op |-> op, label |-> label, location |-> location, parts |-> parts]

----------------------------------------------------------------------------
node_create(t, type) == node_add_child(t, context, type)
\* The child is moved under the parent, in the place of a node made and removed for that.
node_set_child(t, parent, child) ==
  LET temp == node_add_child(t, parent, "NOP")
  IN node_remove(node_swap(temp[1], child, temp[2]), temp[2])
node_set_children(t, parent, children) == FoldLeft(LAMBDA v, child : node_set_child(v, parent, child), t, children)
AddArgs(t, nd, args) == FoldLeft(LAMBDA v, arg : node_add_arg(v, nd, arg), t, args)
SetArgs(t, nd, args) == FoldLeft(LAMBDA v, i : node_set_arg(v, nd, i - 1, args[i]), t, [i \in DOMAIN args |-> i])

\* A node made with its arguments, and then its children.
Created(op, args, children) ==
  LET nd == node_create(tree, op)
  IN <<node_set_children(AddArgs(nd[1], nd[2], args), nd[2], children), nd[2]>>
\* A node inserted over one operand, and then the other children.
Inserted(op, over, args, children) ==
  LET nd == node_insert(tree, over, op, Len(args))
  IN <<SetArgs(node_set_children(nd[1], nd[2], children), nd[2], args), nd[2]>>
ExpressionArgs(category) == <<TypeNow, category>> \o LocationNow
OperatorArgs(category) == <<TypeNow, category, ValueNow>> \o LocationNow

expression_identifier == Created("IDENTIFIER", OperatorArgs(LVALUE), <<>>)
expression_integer_literal == Created("LITERAL", OperatorArgs(RVALUE), <<>>)
expression_floating_literal == Created("FLOATING", <<TypeNow, RVALUE, ValueNow, ValueNow>> \o LocationNow, <<>>)
expression_empty_bound == Created("EMPTY_BOUND", ExpressionArgs(RVALUE), <<>>)
expression_subscript(p) == Inserted("SLICE", p[1], ExpressionArgs(LVALUE), Tail(p))
expression_call(p) == Inserted("CALL", p[1], ExpressionArgs(RVALUE), Tail(p))
expression_member(p) == Inserted("SELECT", p[1], <<TypeNow, RVALUE, ValueNow, 1>> \o LocationNow, <<>>)
expression_cast(p) == Inserted("CAST", p[1], OperatorArgs(RVALUE), <<>>)
expression_unary(p) == Inserted("UNARY", p[1], OperatorArgs(RVALUE), <<>>)
expression_binary(p) == Inserted("BINARY", p[1], OperatorArgs(RVALUE), Tail(p))
expression_assignment(p) == Inserted("ASSIGNMENT", p[1], OperatorArgs(RVALUE), Tail(p))
expression_ternary(p) == Inserted("TERNARY", p[1], ExpressionArgs(RVALUE), Tail(p))
expression_initializer(p) == Inserted("INITIALIZER", p[1], ExpressionArgs(RVALUE), Tail(p))

statement_null == Created("NOP", LocationNow, <<>>)
statement_break == Created("BREAK", LocationNow, <<>>)
statement_case(p) == Inserted("CASE", p[1], LocationNow, Tail(p))
statement_default(p) == Inserted("DEFAULT", p[1], LocationNow, <<>>)
statement_compound(p) == Created("BLOCK", LocationNow, p)
statement_if(p) == Inserted("IF", p[1], <<IF Len(p) = 3 THEN 1 ELSE 0>> \o LocationNow, Tail(p))
statement_switch(p) == Inserted("SWITCH", p[1], LocationNow, Tail(p))
statement_while(p) == Inserted("WHILE", p[1], LocationNow, Tail(p))
statement_do(p) == Inserted("DO", p[1], LocationNow, Tail(p))
\* The body is the first child; has tells which of the other three parts were written.
statement_for(p, has) ==
  Inserted("FOR", Last(p), [i \in 1..3 |-> IF has[i] THEN 1 ELSE 0] \o LocationNow, Front(p))
statement_return(p) == Created("RETURN", <<Len(p)>> \o LocationNow, p)
statement_declaration == Created("DECLSTMT", <<ITEM_MAX, ITEM_MAX>>, <<>>)
declaration_member(p) == Created("DECL_MEMBER", <<TypeNow, ValueNow>> \o LocationNow, p)
declaration_struct == Created("DECL_STRUCT", <<ValueNow, ITEM_MAX>> \o LocationNow, <<>>)
\* The bounds, and then the initializer when there is one.
declaration_variable(p, initialized) ==
  Created("DECL_VAR", <<ValueNow, IF initialized THEN 1 ELSE 0>> \o LocationNow, p)

----------------------------------------------------------------------------
(***************************************************************************)
(* What the functions that read the tree make of a node: the label, the    *)
(* location and the parts, an absent part being the empty sequence.        *)
(***************************************************************************)
node_get_location(t, nd) ==
  LET argc == node_get_argc(t, nd) IN <<node_get_arg(t, nd, argc - 2), node_get_arg(t, nd, argc - 1)>>
Label(t, nd) ==
  LET op == node_get_type(t, nd)
      Arg(i) == node_get_arg(t, nd, i)
  IN CASE op \in {"IDENTIFIER", "LITERAL", "SELECT", "CAST", "UNARY", "BINARY", "ASSIGNMENT"} -> <<Arg(0), Arg(2)>>
       [] op = "FLOATING" -> <<Arg(0), Arg(2), Arg(3)>>
       [] op \in {"EMPTY_BOUND", "SLICE", "CALL", "TERNARY", "INITIALIZER", "DECL_VAR", "FUNC_DEF"} -> <<Arg(0)>>
       [] op \in {"DECL_MEMBER", "DECL_STRUCT"} -> <<Arg(0), Arg(1)>>
       [] OTHER -> <<>>
Part(t, nd, i) == <<node_get_child(t, nd, i)>>
statement_if_parts(t, nd) ==
  <<Part(t, nd, 0), Part(t, nd, 1), IF node_get_arg(t, nd, 0) # 0 THEN Part(t, nd, 2) ELSE <<>>>>
statement_for_parts(t, nd) ==
  LET Has(i) == node_get_arg(t, nd, i) # 0
  IN <<IF Has(0) THEN Part(t, nd, 1) ELSE <<>>,
       IF Has(1) THEN Part(t, nd, IF Has(0) THEN 2 ELSE 1) ELSE <<>>,
       IF Has(2) THEN Part(t, nd, node_get_amount(t, nd) - 1) ELSE <<>>,
       Part(t, nd, 0)>>
declaration_variable_parts(t, nd) ==
  LET amount == node_get_amount(t, nd)
      has == node_get_arg(t, nd, 1) # 0
      bounds == IF has THEN amount - 1 ELSE amount
  IN [i \in 1..bounds |-> Part(t, nd, i - 1)] \o <<IF has THEN Part(t, nd, amount - 1) ELSE <<>>>>
Parts(t, nd) ==
  LET op == node_get_type(t, nd)
  IN CASE op = "IF" -> statement_if_parts(t, nd)
       [] op = "FOR" -> statement_for_parts(t, nd)
       [] op = "DECL_VAR" -> declaration_variable_parts(t, nd)
       [] OTHER -> [i \in 1..node_get_amount(t, nd) |-> Part(t, nd, i - 1)]

Waiting == {open[i].node : i \in DOMAIN open}
\* The root, a function, a declaration and a structure may be the context: the operands that wait under it are not parts of it.
MayBeContext(t, nd) == nd = 0 \/ node_get_type(t, nd) \in {"FUNC_DEF", "DECLSTMT", "DECL_STRUCT"}
Visible(t, nd) == IF MayBeContext(t, nd) THEN SelectSeq(Children(t, nd), LAMBDA child : child \notin Waiting) ELSE Children(t, nd)
\* A node read with everything below it.
RECURSIVE ReadBack(_, _)
ReadBack(t, nd) ==
  LET parts == IF MayBeContext(t, nd) THEN [i \in DOMAIN Visible(t, nd) |-> <<Visible(t, nd)[i]>>] ELSE Parts(t, nd)
  IN Term(node_get_type(t, nd), Label(t, nd), node_get_location(t, nd),
          [i \in DOMAIN parts |-> [j \in DOMAIN parts[i] |-> ReadBack(t, parts[i][j])]])

----------------------------------------------------------------------------
Present(term) == <<term>>
Absent == <<>>
Top(n) == SubSeq(open, Len(open) - n + 1, Len(open))
Nodes(operands) == [i \in DOMAIN operands |-> operands[i].node]
Terms(operands) == [i \in DOMAIN operands |-> operands[i].term]
AreOf(operands, ops) == \A i \in DOMAIN operands : operands[i].term.op \in ops

\* The top n operands become one, which built made of them.
Reduced(n, built, term) ==
  /\ fuel > 0 /\ fuel' = fuel - 1
  /\ tree' = built[1]
  /\ open' = Append(SubSeq(open, 1, Len(open) - n), [node |-> built[2], term |-> term])
  /\ UNCHANGED grammar

Init == /\ grammar \in Grammars
        /\ tree = node_get_root /\ context = 0 /\ function = node_broken
        /\ open = <<>> /\ unit = <<>> /\ fuel = grammar.size

Operator(op, parts) == Term(op, <<TypeNow, ValueNow>>, LocationNow, [i \in DOMAIN parts |-> Present(parts[i])])
Plain(op, parts) == Term(op, <<TypeNow>>, LocationNow, [i \in DOMAIN parts |-> Present(parts[i])])
Statement(op, parts) == Term(op, <<>>, LocationNow, [i \in DOMAIN parts |-> Present(parts[i])])

Leaf == \E op \in grammar.leaves :
  /\ Len(open) < grammar.width
  /\ LET made == CASE op = "IDENTIFIER" -> expression_identifier [] op = "LITERAL" -> expression_integer_literal
                   [] op = "FLOATING" -> expression_floating_literal [] op = "EMPTY_BOUND" -> expression_empty_bound
                   [] op = "NOP" -> statement_null [] op = "BREAK" -> statement_break
         term == CASE op \in {"IDENTIFIER", "LITERAL"} -> Operator(op, <<>>)
                   [] op = "FLOATING" -> Term(op, <<TypeNow, ValueNow, ValueNow>>, LocationNow, <<>>)
                   [] op = "EMPTY_BOUND" -> Plain(op, <<>>)
                   [] OTHER -> Statement(op, <<>>)
     IN Reduced(0, made, term)
  /\ UNCHANGED <<context, function, unit>>

Expression == \E op \in grammar.expressions, n \in 1..3 :
  /\ Len(open) >= n
  /\ LET operands == Top(n)
         p == Nodes(operands)
         terms == Terms(operands)
         made == CASE op = "SLICE" -> expression_subscript(p) [] op = "CALL" -> expression_call(p)
                   [] op = "SELECT" -> expression_member(p) [] op = "CAST" -> expression_cast(p)
                   [] op = "UNARY" -> expression_unary(p) [] op = "BINARY" -> expression_binary(p)
                   [] op = "ASSIGNMENT" -> expression_assignment(p) [] op = "TERNARY" -> expression_ternary(p)
                   [] op = "INITIALIZER" -> expression_initializer(p)
     IN /\ CASE op \in {"SELECT", "CAST", "UNARY"} -> n = 1 [] op \in {"SLICE", "BINARY", "ASSIGNMENT"} -> n = 2
             [] op = "TERNARY" -> n = 3 [] OTHER -> TRUE
        /\ AreOf(operands, OperandOps)
        /\ Reduced(n, made, IF op \in {"SLICE", "CALL", "TERNARY", "INITIALIZER"} THEN Plain(op, terms) ELSE Operator(op, terms))
  /\ UNCHANGED <<context, function, unit>>

\* Literals are removed and their value is a new one.
FoldedLiterals == \E n \in grammar.folds :
  /\ Len(open) >= n /\ AreOf(Top(n), {"LITERAL", "FLOATING"})
  /\ LET removed == FoldLeft(node_remove, tree, Nodes(Top(n)))
         nd == node_create(removed, "LITERAL")
     IN Reduced(n, <<AddArgs(nd[1], nd[2], OperatorArgs(RVALUE)), nd[2]>>, Operator("LITERAL", <<>>))
  /\ UNCHANGED <<context, function, unit>>
\* A literal converted to floating: a new literal over it, and then it is removed.
ConvertedLiteral ==
  /\ grammar.folds # {} /\ open # <<>> /\ Last(open).term.op = "LITERAL"
  /\ LET over == Inserted("FLOATING", Last(open).node, <<TypeNow, RVALUE, ValueNow, ValueNow>> \o LocationNow, <<>>)
     IN Reduced(1, <<node_remove(over[1], Last(open).node), over[2]>>,
                Term("FLOATING", <<TypeNow, ValueNow, ValueNow>>, LocationNow, <<>>))
  /\ UNCHANGED <<context, function, unit>>

Statements == \E op \in grammar.statements, n \in 0..3 :
  /\ Len(open) >= n
  /\ LET operands == Top(n)
         p == Nodes(operands)
         made == CASE op = "CASE" -> statement_case(p) [] op = "DEFAULT" -> statement_default(p)
                   [] op = "BLOCK" -> statement_compound(p) [] op = "IF" -> statement_if(p)
                   [] op = "SWITCH" -> statement_switch(p) [] op = "WHILE" -> statement_while(p)
                   [] op = "DO" -> statement_do(p) [] op = "RETURN" -> statement_return(p)
         parts == [i \in 1..n |-> Present(operands[i].term)]
     IN /\ CASE op \in {"CASE", "SWITCH", "WHILE"} -> n = 2 /\ operands[1].term.op \in OperandOps
             [] op = "DO" -> n = 2 /\ operands[2].term.op \in OperandOps
             [] op = "DEFAULT" -> n = 1
             [] op = "IF" -> n \in 2..3 /\ operands[1].term.op \in OperandOps
             [] op = "RETURN" -> n <= 1 /\ AreOf(operands, OperandOps)
             [] OTHER -> TRUE
        /\ AreOf(operands, StatementOps)
        /\ Reduced(n, made, Term(op, <<>>, LocationNow, IF op = "IF" /\ n = 2 THEN Append(parts, Absent) ELSE parts))
  /\ UNCHANGED <<context, function, unit>>

For == \E has \in [1..3 -> BOOLEAN] :
  /\ grammar.for
  /\ LET written == SelectSeq(<<1, 2, 3>>, LAMBDA i : has[i])
         n == Len(written) + 1
         operands == Top(n)
         At(i) == operands[CHOOSE j \in DOMAIN written : written[j] = i].term
     IN /\ Len(open) >= n /\ AreOf(Front(operands), OperandOps) /\ AreOf(operands, StatementOps)
        /\ Reduced(n, statement_for(Nodes(operands), has),
                   Term("FOR", <<>>, LocationNow, [i \in 1..4 |-> IF i = 4 THEN Present(Last(operands).term)
                                                                  ELSE IF has[i] THEN Present(At(i)) ELSE Absent]))
  /\ UNCHANGED <<context, function, unit>>

----------------------------------------------------------------------------
BoundOps == OperandOps \cup {"EMPTY_BOUND"}
\* The bounds of a variable or a member, and the initializer of a variable, are made before it is.
Declarator == \E op \in grammar.declarators, initialized \in BOOLEAN, n \in 0..2 :
  /\ Len(open) >= n /\ (initialized => n > 0 /\ op = "DECL_VAR")
  /\ LET operands == Top(n)
         parts == [i \in 1..n |-> Present(operands[i].term)]
     IN /\ AreOf(IF initialized THEN Front(operands) ELSE operands, BoundOps)
        /\ initialized => Last(operands).term.op \in OperandOps \cup {"INITIALIZER"}
        /\ IF op = "DECL_VAR"
           THEN Reduced(n, declaration_variable(Nodes(operands), initialized),
                        Term(op, <<ValueNow>>, LocationNow, IF initialized THEN parts ELSE Append(parts, Absent)))
           ELSE Reduced(n, declaration_member(Nodes(operands)), Term(op, <<TypeNow, ValueNow>>, LocationNow, parts))
  /\ UNCHANGED <<context, function, unit>>

BeginDeclaration ==
  /\ grammar.declares /\ function # node_broken /\ Len(open) < grammar.width
  /\ Reduced(0, statement_declaration, Term("DECLSTMT", <<>>, <<ITEM_MAX, ITEM_MAX>>, <<>>))
  /\ UNCHANGED <<context, function, unit>>
BeginStruct ==
  /\ "DECL_MEMBER" \in grammar.declarators /\ Len(open) < grammar.width
  /\ Reduced(0, declaration_struct, Term("DECL_STRUCT", <<ValueNow, ITEM_MAX>>, LocationNow, <<>>))
  /\ UNCHANGED <<context, function, unit>>

\* The operand under the top n takes them as its last parts; args are set from the given one on.
Extended(n, label, from, args) ==
  LET holder == open[Len(open) - n]
      moved == node_set_children(tree, holder.node, Nodes(Top(n)))
      set == FoldLeft(LAMBDA v, i : node_set_arg(v, holder.node, from + i - 1, args[i]), moved, [i \in DOMAIN args |-> i])
  IN Reduced(n + 1, <<set, holder.node>>,
             [holder.term EXCEPT !.parts = @ \o [i \in 1..n |-> Present(Top(n)[i].term)], !.label = label,
                                 !.location = LocationNow])
build_declaration == \E n \in 0..2 :
  /\ Len(open) > n /\ open[Len(open) - n].term.op = "DECLSTMT" /\ open[Len(open) - n].term.location[1] = ITEM_MAX
  /\ AreOf(Top(n), {"DECL_VAR"})
  /\ n > 0 \/ open[Len(open) - n].term.parts # <<>>
  /\ Extended(n, <<>>, 0, LocationNow)
  /\ UNCHANGED <<context, function, unit>>
\* The structure is complete, and is moved under the node its specifier was read for.
build_struct_declaration == \E n \in 1..2 :
  /\ Len(open) > n /\ open[Len(open) - n].term.op = "DECL_STRUCT" /\ open[Len(open) - n].term.label[2] = ITEM_MAX
  /\ AreOf(Top(n), {"DECL_MEMBER"})
  /\ Extended(n, <<open[Len(open) - n].term.label[1], TypeNow>>, 1, <<TypeNow>> \o LocationNow)
  /\ UNCHANGED <<context, function, unit>>

IsComplete(operand) == CASE operand.term.op = "DECLSTMT" -> operand.term.location[1] # ITEM_MAX
                         [] operand.term.op = "DECL_STRUCT" -> operand.term.label[2] # ITEM_MAX [] OTHER -> TRUE
\* The specifier of a declaration, or of a member, in which a structure or an enumeration is declared.
Holder(i) == i \in DOMAIN open /\ ~IsComplete(open[i])
MoveStructToHolder ==
  /\ open # <<>> /\ Last(open).term.op = "DECL_STRUCT" /\ IsComplete(Last(open)) /\ Holder(Len(open) - 1) /\ fuel > 0
  /\ LET holder == open[Len(open) - 1]
     IN /\ tree' = node_set_child(tree, holder.node, Last(open).node)
        /\ open' = Append(SubSeq(open, 1, Len(open) - 2),
                          [holder EXCEPT !.term.parts = Append(@, Present(Last(open).term))])
  /\ fuel' = fuel - 1 /\ UNCHANGED <<grammar, context, function, unit>>

\* An enumerator with a value: the context becomes the node the specifier is read for, and stays it.
EnumeratorValue ==
  /\ grammar.declares /\ fuel > 0
  /\ \E parent \in {0} \cup {open[i].node : i \in {i \in DOMAIN open : i = Len(open) /\ Holder(i)}} :
       /\ parent = 0 => open = <<>> /\ function = node_broken
       /\ LET nd == node_add_child(tree, parent, "LITERAL")
          IN tree' = node_remove(AddArgs(nd[1], nd[2], OperatorArgs(RVALUE)), nd[2])
       /\ context' = parent
  /\ fuel' = fuel - 1 /\ UNCHANGED <<grammar, function, open, unit>>

----------------------------------------------------------------------------
\* A declarator or a structure outside the functions goes to the root.
ExternalDeclaration ==
  /\ function = node_broken /\ Len(open) = 1 /\ fuel > 0
  /\ open[1].term.op \in {"DECL_VAR", "DECL_STRUCT"} /\ IsComplete(open[1])
  /\ tree' = node_set_child(tree, 0, open[1].node)
  /\ unit' = Append(unit, open[1]) /\ open' = <<>>
  /\ fuel' = fuel - 1 /\ UNCHANGED <<grammar, context, function>>

\* The function's node and its parameters are made in place; it is the context from then on.
BeginFunction == \E parameters \in 0..1 :
  /\ function = node_broken /\ open = <<>> /\ fuel > 0 /\ Len(unit) < grammar.functions
  /\ LET nd == node_add_child(tree, 0, "FUNC_DEF")
         named == AddArgs(nd[1], nd[2], <<ValueNow, 0>>)
         param == node_add_child(named, nd[2], "DECL_PARAM")
         label == Term("FUNC_DEF", <<ValueNow>>, <<ValueNow, 0>>, <<>>)
     IN /\ tree' = IF parameters = 0 THEN named ELSE AddArgs(param[1], param[2], <<TypeNow, 0, 0>>)
        /\ function' = nd[2] /\ context' = nd[2]
        /\ unit' = Append(unit, [node |-> nd[2],
                    term |-> [label EXCEPT !.parts = IF parameters = 0 THEN <<>>
                                                     ELSE <<Present(Term("DECL_PARAM", <<>>, <<0, 0>>, <<>>))>>]])
  /\ fuel' = fuel - 1 /\ UNCHANGED <<grammar, open>>
EndFunction ==
  /\ function # node_broken /\ Len(open) = 1 /\ open[1].term.op = "BLOCK" /\ fuel > 0
  /\ tree' = node_set_arg(node_set_child(tree, function, open[1].node), function, 1, TypeNow)
  /\ unit' = [unit EXCEPT ![Len(unit)].term.parts = Append(@, Present(open[1].term)),
                          ![Len(unit)].term.location[2] = TypeNow]
  /\ open' = <<>> /\ function' = node_broken
  /\ fuel' = fuel - 1 /\ UNCHANGED <<grammar, context>>

Next == \/ Leaf \/ Expression \/ FoldedLiterals \/ ConvertedLiteral \/ Statements \/ For
        \/ Declarator \/ BeginDeclaration \/ BeginStruct \/ build_declaration \/ build_struct_declaration
        \/ MoveStructToHolder \/ EnumeratorValue \/ ExternalDeclaration \/ BeginFunction \/ EndFunction
Spec == Init /\ [][Next]_vars

----------------------------------------------------------------------------
All == open \o unit
RECURSIVE Below(_)
\* The node and the nodes below it, in the order of the text.
Below(nd) ==
  LET children == Visible(tree, nd)
  IN <<nd>> \o FlattenSeq([i \in DOMAIN children |-> Below(children[i])])
Cells(nd) == (IF nd = 0 THEN 0 ELSE nd - 2)..ref_get_argc(nd) + node_get_argc(tree, nd)

\* Every operand that waits and every external definition is read back, through the functions of AST.c, as what was
\* written: no removal, truncation or move of another node changed it (node_set_child, node_remove, node_insert).
TermsReadBack == \A i \in DOMAIN All : ReadBack(tree, All[i].node) = All[i].term

\* No two nodes share a cell of the vector, and none reaches past its end, although removed nodes gave their cells back.
CellsApart ==
  LET nodes == <<0>> \o FlattenSeq([i \in DOMAIN All |-> Below(All[i].node)])
  IN /\ \A i \in DOMAIN nodes : Cells(nodes[i]) \subseteq 0..Len(tree) - 1
     /\ \A i, j \in DOMAIN nodes : i # j => Cells(nodes[i]) \cap Cells(nodes[j]) = {}

\* When nothing waits, going from the root to the next node again and again visits the tree in the order of the text and
\* ends, and every node finds its parent (node_get_next, node_search_parent).  Until then an operand that waits is a child
\* of a node that is or was the context, in the place it is looked for, and the other children of the root are the external
\* definitions in their order.
WalkComplete ==
  /\ \A nd \in Waiting : LET up == node_search_parent(tree, nd)
                         IN MayBeContext(tree, up[1]) /\ node_get_child(tree, up[1], up[2]) = nd
  /\ Visible(tree, 0) = Nodes(unit)
  /\ open = <<>> /\ function = node_broken =>
    LET order == Below(0)
    IN /\ \A i \in 1..Len(order) - 1 : node_get_next(tree, order[i]) = order[i + 1]
       /\ Len(order) > 1 => node_get_next(tree, Last(order)) = node_broken
       /\ \A i \in DOMAIN order : \A j \in DOMAIN Children(tree, order[i]) :
            node_search_parent(tree, Children(tree, order[i])[j]) = <<order[i], j - 1>>
=============================================================================
