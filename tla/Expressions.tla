---------------------------- MODULE Expressions ----------------------------
(***************************************************************************)
(* Expressions of RuC from the source to the virtual machine.  The state   *)
(* is the stack of operands a postfix reading of the source has built so   *)
(* far: the node the builder made of each and, beside it, what was         *)
(* written.  A complete expression is emitted and executed, and compared   *)
(* with the value and the effects that what was written has.               *)
(***************************************************************************)
EXTENDS Machine

CONSTANTS Declared,       \* the variables, in the order of their declarations
          Content,        \* the cells each variable holds
          Heap,           \* the cells of the arrays
          Structures,     \* the structures that are declared
          Profiles,       \* the languages that are explored
          VoidOps         \* the operators that are written where no value is wanted

VARIABLES profile,        \* the language of this behaviour
          work,           \* the operands built so far: the node, and what was written
          errors,         \* whether the builder reported one
          fuel            \* the steps left
vars == <<profile, work, errors, fuel>>

Placed == FoldLeft(displacements_add, enc_create, Declared)
Encoder == FoldLeft(emit_struct_declaration, Placed, Structures)
Place(id) == Addr(Placed.displs[id])
Memory ==
  LET variables == UNION {{<<Place(v) + i - 1, Content[v][i]>> : i \in DOMAIN Content[v]} : v \in Range(Declared)}
      heap == {<<a, Heap[a]>> : a \in DOMAIN Heap}
      cells == variables \cup heap
  IN [a \in {c[1] : c \in cells} |-> (CHOOSE c \in cells : c[1] = a)[2]]

----------------------------------------------------------------------------
(***************************************************************************)
(* What a source expression means.  A value carries its own kind: <<"n",k>> *)
(* an integer or a bool, <<"d", r>> a floating value, <<"p", a, t>> a       *)
(* pointer, <<"a", a, t>> an array, <<"s", cells, t>> a structure, <<"i",   *)
(* values>> an initializer and <<"u">> none.  w is the world: the memory,   *)
(* what was printed, and whether there was no error at run time.            *)
(***************************************************************************)
ValueAt(mem, a, t) ==
  CASE type_is_structure(t) -> <<"s", [i \in 1..type_size(t) |-> mem[a + i - 1]], Unqualified(t)>>
    [] type_is_floating(t) -> <<"d", mem[a][2]>>
    [] type_is_pointer(t) -> <<"p", mem[a][2], type_pointer_get_element_type(t)>>
    [] type_is_array(t) -> <<"a", mem[a][2], type_array_get_element_type(t)>>
    [] OTHER -> <<"n", mem[a][2]>>
\* The cells of a value stored where the type is t.
RECURSIVE CellsAs(_, _)
CellsAs(v, t) ==
  CASE v[1] = "i" -> LET members == type_structure_members(t)
                     IN FlattenSeq([i \in DOMAIN members |-> CellsAs(v[2][i], members[i])])
    [] v[1] = "d" -> Double(v[2])
    [] v[1] = "n" -> IF type_is_floating(t) THEN Double(Fraction(v[2])) ELSE <<Number(v[2])>>
    [] v[1] = "s" -> v[2]
    [] v[1] = "u" -> <<>>
    [] OTHER -> <<Number(v[2])>>
Offset(t, index) == MemberDispl(type_structure_members(t), index)
AsFloat(v) == IF v[1] = "d" THEN v[2] ELSE Fraction(v[2])
Computed(op, v1, v2) ==
  IF v1[1] = "d" \/ v2[1] = "d"
  THEN IF op \in Relations THEN <<"n", Truth(FloatingRelation(op, AsFloat(v1), AsFloat(v2)))>>
       ELSE <<"d", FloatingValue(op, AsFloat(v1), AsFloat(v2))>>
  ELSE <<"n", IntegerValue(op, v1[2], v2[2])>>
Fails(op, v) == op \in {"DIV", "REM"} /\ (IF v[1] = "d" THEN v[2][1] ELSE v[2]) = 0
Failed(w) == [w EXCEPT !.ok = FALSE]


\* Means(what, src, w): the value of an expression, the place it designates, or the values of several.
RECURSIVE IsPlace(_), Means(_, _, _)
IsPlace(src) ==
  \/ src.k = "id" /\ src.name \notin EnumFields
  \/ src.k = "index"
  \/ src.k = "unary" /\ src.op = "INDIRECTION"
  \/ src.k = "member" /\ (src.arrow \/ IsPlace(src.base))
Nothing(w) == <<<<"u">>, w>>
Nowhere(w) == <<0, TUndefined, w>>

\* <<address, type, world>> of the object an expression designates.
PlaceOf(src, w) ==
  LET base == Means("value", src.base, w)
      index == Means("value", src.index, base[2])
      pointer == Means("value", IF src.k = "unary" THEN src.operand ELSE src.base, w)
      struct == Means("place", src.base, w)
  IN CASE src.k = "id" -> <<Place(src.name), TypeOf[src.name], w>>
       [] src.k = "index" ->
            IF ~index[2].ok THEN Nowhere(index[2])
            ELSE IF index[1][2] \notin 0..index[2].mem[base[1][2] - 1][2] - 1 THEN Nowhere(Failed(index[2]))
            ELSE <<base[1][2] + index[1][2] * type_size(base[1][3]), base[1][3], index[2]>>
       [] src.k = "unary" -> IF ~pointer[2].ok THEN Nowhere(pointer[2])
                             ELSE <<pointer[1][2], pointer[1][3], pointer[2]>>
       [] src.k = "member" /\ src.arrow ->
            IF ~pointer[2].ok THEN Nowhere(pointer[2])
            ELSE <<pointer[1][2] + Offset(pointer[1][3], src.name), type_structure_members(pointer[1][3])[src.name],
                   pointer[2]>>
       [] src.k = "member" /\ ~src.arrow ->
            IF ~struct[3].ok THEN struct
            ELSE <<struct[1] + Offset(struct[2], src.name), type_structure_members(struct[2])[src.name], struct[3]>>

\* There must be an object at the address that is read or written.
Reached(p) == IF p[3].ok /\ p[1] \notin DOMAIN p[3].mem THEN Nowhere(Failed(p[3])) ELSE p

\* The values of several expressions, left to right: <<values, world>>.
MeantAll(srcs, w) ==
  FoldLeft(LAMBDA acc, src : LET r == Means("value", src, acc[2]) IN <<Append(acc[1], r[1]), r[2]>>, <<<<>>, w>>, srcs)

\* The place p gets the value; what is left is the value it held before, or holds now.
Stored(p, value, after) ==
  LET mem == Written(p[3].mem, p[1], CellsAs(value, p[2]))
  IN <<ValueAt(IF after THEN mem ELSE p[3].mem, p[1], p[2]), [p[3] EXCEPT !.mem = mem]>>

MeantUnary(src, w) ==
  LET r == Means("value", src.operand, w)
      v == r[1]
      place == Means("place", src.operand, w)
      target == Reached(place)
      changed == Computed(IF src.op \in {"POSTINC", "PREINC"} THEN "ADD" ELSE "SUB",
                          ValueAt(target[3].mem, target[1], target[2]), <<"n", 1>>)
  IN CASE src.op \in {"POSTINC", "POSTDEC", "PREINC", "PREDEC"} ->
            IF ~target[3].ok THEN Nothing(target[3]) ELSE Stored(target, changed, src.op \in {"PREINC", "PREDEC"})
       [] src.op = "ADDRESS" -> IF ~place[3].ok THEN Nothing(place[3]) ELSE <<<<"p", place[1], place[2]>>, place[3]>>
       [] OTHER ->
            IF ~r[2].ok THEN r
            ELSE <<CASE src.op = "MINUS" -> Computed("SUB", <<"n", 0>>, v)
                     [] src.op = "NOT" -> <<"n", -v[2] - 1>>
                     [] src.op = "LOGNOT" -> <<"n", Truth(v[2] = 0)>>
                     [] src.op = "ABS" -> IF v[1] = "d" THEN <<"d", <<Abs(v[2][1]), v[2][2]>>>> ELSE <<"n", Abs(v[2])>>
                     [] src.op = "UPB" -> <<"n", r[2].mem[v[2] - 1][2]>>, r[2]>>

MeantAssignment(src, w) ==
  LET place == Means("place", src.LHS, w)
      r == Means("value", src.RHS, place[3])
      at == Reached(<<place[1], place[2], r[2]>>)
      op == OperationOf[src.op]
  IN IF ~at[3].ok THEN Nothing(at[3])
     ELSE IF src.op = "ASSIGN" THEN Stored(at, r[1], TRUE)
     ELSE IF Fails(op, r[1]) THEN Nothing(Failed(r[2]))
     ELSE Stored(at, Computed(op, ValueAt(r[2].mem, place[1], place[2]), r[1]), TRUE)

MeantBinary(src, w) ==
  LET l == Means("value", src.LHS, w)
      r == Means("value", src.RHS, l[2])
      decided == l[2].ok /\ (l[1][2] = 0) = (src.op = "LOG_AND")
  IN IF src.op \in {"LOG_AND", "LOG_OR"}
     THEN IF decided THEN <<<<"n", Truth(src.op = "LOG_OR")>>, l[2]>>
          ELSE IF ~r[2].ok THEN r ELSE <<<<"n", Truth(r[1][2] # 0)>>, r[2]>>
     ELSE IF src.op = "COMMA" \/ ~r[2].ok THEN r
     ELSE IF Fails(src.op, r[1]) THEN Nothing(Failed(r[2]))
     ELSE <<Computed(src.op, l[1], r[1]), r[2]>>

\* The two branches of a conditional have one type: a floating one makes
\* both floating, a pointer makes a null one of its type.
MeantTernary(src, w) ==
  LET c == Means("value", src.condition, w)
      r == Means("value", IF c[1][2] # 0 THEN src.LHS ELSE src.RHS, c[2])
      other == Means("value", IF c[1][2] # 0 THEN src.RHS ELSE src.LHS, c[2])
  IN IF ~c[2].ok THEN c
     ELSE IF r[2].ok /\ r[1][1] = "n" /\ other[1][1] = "d" THEN <<<<"d", Fraction(r[1][2])>>, r[2]>>
     ELSE IF r[2].ok /\ r[1][1] = "n" /\ other[1][1] = "p" THEN <<<<"p", r[1][2], other[1][3]>>, r[2]>>
     ELSE r

\* The cells of the arguments as the parameters take them; an initializer lies apart as an array.
MeantCall(src, w) ==
  LET args == Means("values", src.args, w)
      parameters == TypeOf[src.callee][3]
      cells == FlattenSeq([i \in DOMAIN parameters |-> CellsAs(args[1][i], parameters[i])])
      result == TypeOf[src.callee][2]
      Of(cs) == CASE type_is_structure(result) -> <<"s", cs, result>>
                  [] type_is_floating(result) -> <<"d", cs[1][2]>>
                  [] OTHER -> <<"n", cs[1][2]>>
      out == CASE src.callee = "printf" -> [i \in 1..Len(src.args) - 1 |->
                                              CellsAs(args[1][i + 1], evaluate_args(src.args[1].value)[i])[1]]
               [] src.callee = "print" -> FlattenSeq([i \in DOMAIN args[1] |-> CellsAs(args[1][i], TUndefined)])
               [] OTHER -> [i \in DOMAIN src.args |-> <<"ident", src.args[i].name>>]
  IN IF ~args[2].ok THEN Nothing(args[2])
     ELSE IF src.callee \in {"printf", "print", "printid", "getid"} THEN Nothing([args[2] EXCEPT !.out = @ \o out])
     ELSE IF src.callee = "first" /\ src.args[1].k = "initializer"
     THEN <<<<"n", 10 * Len(src.args[1].subs) + args[1][1][2][1][2]>>, args[2]>>
     ELSE <<Of(Called(<<>>, args[2], src.callee, cells)), args[2]>>

Meant(src, w) ==
  LET place == Reached(Means("place", src, w))
      base == Means("value", src.base, w)
      members == type_structure_members(base[1][3])
      at == Offset(base[1][3], src.name)
  IN IF ~w.ok THEN Nothing(w)
     ELSE IF src.k = "id" /\ src.name \in DOMAIN FunctionNumber THEN <<<<"n", FunctionNumber[src.name]>>, w>>
     ELSE IF IsPlace(src) THEN IF ~place[3].ok THEN Nothing(place[3])
                               ELSE <<ValueAt(place[3].mem, place[1], place[2]), place[3]>>
     ELSE CASE src.k = "id" -> <<<<"n", FieldValue[src.name]>>, w>>
            [] src.k = "literal" -> <<<<IF src.type = TFloat THEN "d" ELSE IF src.type = type_string THEN "f" ELSE "n",
                                        src.value>>, w>>
            [] src.k = "member" -> IF ~base[2].ok THEN base
                                   ELSE <<ValueAt([i \in 1..Len(base[1][2]) |-> base[1][2][i]], at + 1, members[src.name]),
                                          base[2]>>
            [] src.k = "unary" -> MeantUnary(src, w)
            [] src.k = "binary" -> IF operation_is_assignment(src.op) THEN MeantAssignment(src, w) ELSE MeantBinary(src, w)
            [] src.k = "ternary" -> MeantTernary(src, w)
            [] src.k = "call" -> MeantCall(src, w)
            [] src.k = "initializer" -> LET all == Means("values", src.subs, w) IN <<<<"i", all[1]>>, all[2]>>

Means(what, src, w) ==
  CASE what = "value" -> Meant(src, w)
    [] what = "place" -> PlaceOf(src, w)
    [] what = "values" -> MeantAll(src, w)

----------------------------------------------------------------------------
(***************************************************************************)
(* The fragment that is explored: README lists what it leaves out.         *)
(***************************************************************************)
Printing == {"printf", "print", "printid", "getid"}
\* An expression that stands where no value is wanted.
Discarded(nd) == \/ nd.class = "assignment" /\ nd.op \in VoidOps
                 \/ nd.class = "unary" /\ nd.op \in {"POSTINC", "POSTDEC", "PREINC", "PREDEC"}
                 \/ nd.class = "call" /\ nd.callee.id \in Printing
HasValue(nd) == /\ node_is_correct(nd) /\ nd.class \notin {"initializer", "declaration"}
                /\ ~type_is_function(nd.type) /\ ~type_is_string(nd.type)
                /\ ~(nd.class = "assignment" /\ type_is_structure(nd.type))
                /\ ~(nd.class = "call" /\ nd.callee.id \in Printing)
Passed(nd) == HasValue(nd) \/ nd.class = "initializer" \/ type_is_function(nd.type) \/ type_is_string(nd.type)
Named(nd) == nd.class = "identifier" \/ (nd.class = "member" /\ ~nd.arrow /\ nd.base.class = "identifier")
Settable(nd) == type_is_array(nd.type) \/ type_is_pointer(nd.type) => Named(nd) /\ ~type_is_array(nd.type)
UnaryWritten(nd, op) ==
  /\ HasValue(nd)
  /\ op = "INDIRECTION" => nd.class \in {"identifier", "member"} \/ ~type_is_pointer(nd.type)
  /\ op = "ADDRESS" => Settable(nd)
ZeroLiteral(nd) == /\ nd.class = "literal" /\ type_is_arithmetic(nd.type)
                   /\ (IF type_is_floating(nd.type) THEN nd.value[1] ELSE nd.value) = 0
BinaryWritten(l, r, op) ==
  /\ IF op = "COMMA" THEN Discarded(l) ELSE HasValue(l)
  /\ HasValue(r) \/ (op = "ASSIGN" /\ r.class = "initializer")
  /\ op = "ASSIGN" => Settable(l)
  /\ op \in {"EQ", "NE"} => ~type_is_structure(l.type)
  /\ op = "LOG_OR" => type_is_boolean(l.type) \/ l.class = "literal"
  /\ op \in {"LOG_AND", "LOG_OR"} => ~(l.class = "literal" /\ r.type = TNull)
  /\ op \in {"DIV", "REM"} => ~ZeroLiteral(r)

----------------------------------------------------------------------------
Top(n) == SubSeq(work, Len(work) - n + 1, Len(work))
\* The top n operands become one.
Reduced(n, nd, src, reported) ==
  /\ Len(work) >= n /\ fuel > 0 /\ ~errors
  /\ errors' = (reported \/ ~node_is_correct(nd))
  /\ work' = Append(SubSeq(work, 1, Len(work) - n), [node |-> nd, src |-> src])
  /\ fuel' = fuel - 1
  /\ UNCHANGED profile

Init == /\ profile \in Profiles
        /\ work = <<>> /\ errors = FALSE
        /\ fuel = profile.size

LeafNode(leaf) ==
  CASE leaf.k = "id" -> build_identifier_expression(leaf.name)
    [] leaf.k = "literal" ->
         CASE leaf.type = TNull -> build_null_literal_expression
           [] leaf.type = TBool -> build_boolean_literal_expression(leaf.value = 1)
           [] leaf.type = TChar -> build_character_literal_expression(leaf.value)
           [] leaf.type = TInt -> build_integer_literal_expression(leaf.value)
           [] leaf.type = TFloat -> build_floating_literal_expression(leaf.value)
           [] leaf.type = type_string -> build_string_literal_expression(leaf.value)
Leaf == \E leaf \in profile.leaves :
  /\ Len(work) < profile.width
  /\ Reduced(0, LeafNode(leaf), leaf, FALSE)

Subscript ==
  /\ profile.subscript /\ Len(work) >= 2
  /\ LET base == Top(2)[1]
         index == Top(2)[2]
     IN /\ HasValue(base.node) /\ HasValue(index.node)
        /\ Reduced(2, build_subscript_expression(base.node, index.node),
                   [k |-> "index", base |-> base.src, index |-> index.src], FALSE)

Member == \E name \in profile.members, arrow \in BOOLEAN :
  /\ Len(work) >= 1
  /\ LET base == Top(1)[1]
     IN /\ HasValue(base.node)
        /\ Reduced(1, build_member_expression(base.node, name, arrow),
                   [k |-> "member", name |-> name, arrow |-> arrow, base |-> base.src], FALSE)

Call == \E callee \in profile.callees, n \in 0..2 :
  /\ Len(work) >= n
  /\ LET args == Top(n)
         nodes == [i \in 1..n |-> args[i].node]
         function == build_identifier_expression(callee)
     IN /\ \A i \in 1..n : IF callee \in Printing /\ i > Truth(callee = "printf") THEN HasValue(args[i].node)
                              ELSE Passed(args[i].node)
        /\ Reduced(n, build_call_expression(function, nodes),
                   [k |-> "call", callee |-> callee, args |-> [i \in 1..n |-> args[i].src]],
                   ReportsFormat(function, nodes))

Unary == \E op \in profile.unary :
  /\ Len(work) >= 1
  /\ LET operand == Top(1)[1]
     IN /\ UnaryWritten(operand.node, op)
        /\ Reduced(1, build_unary_expression(operand.node, op), [k |-> "unary", op |-> op, operand |-> operand.src],
                   FALSE)

Binary == \E op \in profile.binary :
  /\ Len(work) >= 2
  /\ LET l == Top(2)[1]
         r == Top(2)[2]
     IN /\ BinaryWritten(l.node, r.node, op)
        /\ Reduced(2, build_binary_expression(l.node, r.node, op), [k |-> "binary", op |-> op, LHS |-> l.src, RHS |-> r.src],
                   FALSE)

Ternary ==
  /\ profile.ternary /\ Len(work) >= 3
  /\ LET ops == Top(3)
     IN /\ \A i \in 1..3 : HasValue(ops[i].node)
        /\ Reduced(3, build_ternary_expression(ops[1].node, ops[2].node, ops[3].node),
                   [k |-> "ternary", condition |-> ops[1].src, LHS |-> ops[2].src, RHS |-> ops[3].src], FALSE)

Initializer == \E n \in profile.initializers :
  /\ Len(work) >= n
  /\ \A i \in 1..n : HasValue(Top(n)[i].node)
  /\ Reduced(n, build_initializer([i \in 1..n |-> Top(n)[i].node]),
             [k |-> "initializer", subs |-> [i \in 1..n |-> Top(n)[i].src]], FALSE)

\* A declaration ends the behaviour: its bounds and its initializer are the operands.
Declare == \E d \in profile.declarations, initialized \in BOOLEAN :
  /\ Len(work) = d.bounds + Truth(initialized) /\ (initialized => d.bounds = 0)
  /\ \A i \in DOMAIN work : HasValue(work[i].node) \/ (initialized /\ work[i].node.class = "initializer")
  /\ LET nodes == [i \in DOMAIN work |-> work[i].node]
         srcs == [i \in DOMAIN work |-> work[i].src]
         built == build_declarator(d.base, d.name, d.star, d.const, SubSeq(nodes, 1, d.bounds),
                                   SubSeq(nodes, d.bounds + 1, Len(nodes)))
     IN Reduced(Len(work), built[1],
                [k |-> "declaration", name |-> d.name, bounds |-> SubSeq(srcs, 1, d.bounds),
                 init |-> SubSeq(srcs, d.bounds + 1, Len(srcs))], built[2])

Next == Leaf \/ Declare \/ Subscript \/ Member \/ Call \/ Unary \/ Binary \/ Ternary \/ Initializer
Spec == Init /\ [][Next]_vars

----------------------------------------------------------------------------
World == [mem |-> Memory, out |-> <<>>, ok |-> TRUE]
Complete == Len(work) = 1 /\ ~errors
Node == work[1].node
Source == work[1].src
\* A reference the machine is given stands for the identifier its tables lead to.
Resolved(enc, out) ==
  [i \in DOMAIN out |->
     IF out[i][1] # "ref" THEN out[i]
     ELSE LET at == out[i][2] + 1
          IN <<"ident", enc.representations[enc.identifiers[at + 1][2] + 3]>>]
Same(enc, st, cells, w) == enc.errors \/
  /\ st.ok = w.ok
  /\ st.ok => st.stack = cells /\ st.mem = w.mem /\ Resolved(enc, st.out) = w.out
\* The code leaves the cells and does what the world w shows.
Leaves(enc, cells, w) == Same(enc, Execute(enc.mem, Initial(enc.mem, Memory)), cells, w)

\* The code emit_expression makes of an expression leaves on the stack exactly the cells of its value, of the width of
\* its type, and has exactly its effects on memory and output, whatever was folded, converted or inserted on the way.
\* The builder takes it for a place exactly when it designates an object.
ValueExact ==
  (Complete /\ HasValue(Node)) =>
     LET Agree(enc, meant) == Leaves(enc, CellsAs(meant[1], Node.type), meant[2])
     IN Node.lvalue = IsPlace(Source) /\ Agree(emit("expression", Encoder, Node), Means("value", Source, World))

\* The code emit_void_expression makes of an expression whose value is not wanted has its effects and leaves the stack
\* as it was: the cell it rewrites is the last instruction and never an operand.
VoidExact ==
  (Complete /\ Discarded(Node)) => Leaves(emit("void", Encoder, Node), <<>>, Means("value", Source, World)[2])

----------------------------------------------------------------------------
(***************************************************************************)
(* What a declaration makes.  A block is an array's length, the address of *)
(* its first cell and its cells; it lists the blocks of the arrays in it.  *)
(***************************************************************************)
RECURSIVE Blocks(_, _, _, _), MemberBlocks(_, _, _)
Blocks(mem, a, bounds, t) ==
  LET n == bounds[1]
      width == IF Len(bounds) = 1 THEN type_size(t) ELSE 1
      Inner(i) == IF Len(bounds) > 1 THEN Blocks(mem, mem[a + i][2], Tail(bounds), t)
                  ELSE MemberBlocks(mem, a + i * width, t)
  IN <<[first |-> a, length |-> n, cells |-> a - 1..a + n * width - 1]>> \o FlattenSeq([i \in 1..n |-> Inner(i - 1)])
\* The arrays of a structure that stands at a: the bounds of its members are literals.
MemberBlocks(mem, a, t) ==
  LET of == {i \in DOMAIN Structures : Structures[i].type = Unqualified(t)}
      members == Structures[CHOOSE i \in of : TRUE].members
      Of(i) == IF ~type_is_array(members[i].type) THEN <<>>
               ELSE Blocks(mem, mem[a + Offset(t, i)][2], [j \in DOMAIN members[i].bounds |-> members[i].bounds[j].value],
                           ElementType(members[i].type))
  IN IF of = {} THEN <<>> ELSE FlattenSeq([i \in DOMAIN members |-> Of(i)])
\* Every block has its length in front and shares no cell with another one or with what there was.
Separate(mem, blocks, taken) ==
  /\ \A i \in DOMAIN blocks : /\ mem[blocks[i].first - 1] = Number(blocks[i].length)
                              /\ blocks[i].cells \cap taken = {} /\ blocks[i].cells \subseteq DOMAIN mem
  /\ \A i, j \in DOMAIN blocks : i # j => blocks[i].cells \cap blocks[j].cells = {}

\* The machine st made the variable at the address; bounds and init are the values that were written, memory is what
\* there was before.
Makes(enc, at, st, bounds, init, memory) ==
  LET own == at..at + type_size(Node.type) - 1
      lengths == [i \in DOMAIN bounds |-> bounds[i][2]]
      made == IF type_is_array(Node.type) THEN Blocks(st.mem, st.mem[at][2], lengths, ElementType(Node.type))
              ELSE MemberBlocks(st.mem, at, Node.type)
  IN /\ own \cap DOMAIN memory = {}
     /\ st.ok = (init[2].ok /\ \A i \in DOMAIN lengths : lengths[i] > 0)
     /\ st.ok => /\ st.stack = <<>> /\ Resolved(enc, st.out) = init[2].out
                 /\ \A a \in DOMAIN memory : st.mem[a] = init[2].mem[a]
                 /\ IF init[1] # <<>> THEN [i \in 1..type_size(Node.type) |-> st.mem[at + i - 1]] = CellsAs(init[1][1], Node.type)
                    ELSE Separate(st.mem, made, own \cup DOMAIN memory)
DeclaredBy(enc, bounds, memory) ==
  LET at == Addr(enc.displs[Node.id])
      fresh == [a \in at..at + type_size(Node.type) - 1 |-> Number(0)]
  IN \/ enc.errors
     \/ Makes(enc, at, Execute(enc.mem, Initial(enc.mem, fresh @@ memory)), bounds[1],
              Means("values", Source.init, bounds[2]), memory)

\* A declaration takes fresh cells, leaves the stack and every other variable as its bounds and its initializer leave them,
\* gives the variable the value of the initializer, and makes for an array, or for the arrays of a structure, blocks of
\* the declared lengths that overlap nothing (emit_variable_declaration, emit_array_declaration, emit_struct_declaration).
DeclaredExact ==
  (Complete /\ Node.class = "declaration") =>
     DeclaredBy(emit("variable", Encoder, Node), Means("values", Source.bounds, World), Memory)
=============================================================================
