------------------------------ MODULE Emitter ------------------------------
(***************************************************************************)
(* The virtual-machine code of expressions and declarations (codegen.c,    *)
(* instructions.c).  The code is a sequence of cells: a number, a          *)
(* character of a string, or half of a floating value.  An emit operator   *)
(* takes the encoder and returns it with the code appended.                *)
(***************************************************************************)
EXTENDS Builder

CONSTANTS Globals,        \* the identifiers declared outside the function
          FunctionNumber  \* the number each user function has

\* The instructions from 9001 on, in the order of the enumeration.
MinInstructionCode == 9000
Assigns == <<"REM_ASSIGN", "SHL_ASSIGN", "SHR_ASSIGN", "AND_ASSIGN", "XOR_ASSIGN", "OR_ASSIGN",
             "ASSIGN", "ADD_ASSIGN", "SUB_ASSIGN", "MUL_ASSIGN", "DIV_ASSIGN">>
Increments == <<"POSTINC", "POSTDEC", "PREINC", "PREDEC">>
Numbered == Assigns \o Assigns
            \o <<"REM", "SHL", "SHR", "AND", "XOR", "OR", "LOG_AND", "LOG_OR", "EQ", "NE", "LT", "GT", "LE", "GE",
                 "ADD", "SUB", "MUL", "DIV">>
            \o Increments \o Increments \o <<"MINUS">>
FirstOf(name) == MinInstructionCode + (CHOOSE i \in DOMAIN Numbered :
                     Numbered[i] = name /\ \A j \in 1..i - 1 : Numbered[j] # name)
IC == [NOT |-> 9052, LOG_NOT |-> 9053, ASSIGN |-> 9007, DIV_ASSIGN |-> 9011, ASSIGN_AT |-> 9018, DIV_ASSIGN_AT |-> 9022,
       EQ |-> 9031, POST_INC |-> 9041, PRE_DEC_AT |-> 9048, UNMINUS |-> 9049,
       ASSIGN_R |-> 9057, DIV_ASSIGN_AT_R |-> 9072, POST_INC_R |-> 9091, PRE_DEC_AT_R |-> 9098, UNMINUS_R |-> 9099,
       ASSIGN_V |-> 9207, ASSIGN_R_V |-> 9257,
       COPY0ST |-> 9304, COPY1ST |-> 9305, COPY0ST_ASSIGN |-> 9306, COPY1ST_ASSIGN |-> 9307, COPYST |-> 9308,
       NOP |-> 9453, DEFARR |-> 9454, LI |-> 9455, LID |-> 9456, LOAD |-> 9457, LOADD |-> 9458, LAT |-> 9459,
       LATD |-> 9460, STOP |-> 9461, SELECT |-> 9462, LA |-> 9464, CALL1 |-> 9465, CALL2 |-> 9466, B |-> 9469,
       BE0 |-> 9470, BNE0 |-> 9471, SLICE |-> 9472, WIDEN |-> 9473, DUPLICATE |-> 9475, ARR_INIT |-> 9477,
       STRUCT_WITH_ARR |-> 9478, BEG_INIT |-> 9481, ABS |-> 9534, SQRT |-> 9535, ROUND |-> 9543, UPB |-> 9588,
       ABSI |-> 9651, GETID |-> -27, PRINTF |-> -25, PRIN |-> -24, PRINTID |-> -23]

builtin_to_instruction(func) == CASE func = "sqrt" -> IC.SQRT [] func = "round" -> IC.ROUND
unary_to_instruction(op) == FirstOf(op)
binary_to_instruction(op) == FirstOf(op)
instruction_to_address_ver(k) ==
  CASE k \in 9001..9011 -> k + Len(Assigns)
    [] k \in IC.POST_INC..IC.POST_INC + 3 -> k + Len(Increments)
    [] OTHER -> k
instruction_to_floating_ver_assigns(k) ==
  IF k \in IC.ASSIGN..IC.DIV_ASSIGN \/ k \in IC.ASSIGN_AT..IC.DIV_ASSIGN_AT THEN k + 50 ELSE k
instruction_to_floating_ver(k) ==
  IF k \in IC.ASSIGN..IC.DIV_ASSIGN \/ k \in IC.ASSIGN_AT..IC.DIV_ASSIGN_AT \/ k \in IC.EQ..IC.UNMINUS
  THEN k + 50 ELSE k
instruction_to_void_ver_variables(k) ==
  IF k \in IC.ASSIGN..IC.DIV_ASSIGN \/ k \in IC.POST_INC..IC.POST_INC + 3 THEN k + 200 ELSE k
instruction_to_void_ver(k) ==
  IF \/ k \in IC.ASSIGN..IC.DIV_ASSIGN_AT \/ k \in IC.POST_INC..IC.PRE_DEC_AT
     \/ k \in IC.ASSIGN_R..IC.DIV_ASSIGN_AT_R \/ k \in IC.POST_INC_R..IC.PRE_DEC_AT_R
  THEN k + 200 ELSE k

----------------------------------------------------------------------------
Number(k) == <<"n", k>>
Double(r) == <<<<"d1", r>>, <<"d2", r>>>>
Character(c) == <<"c", c>>
\* The number in a cell; half of a floating value and a character count as small.
Numeric(cell) == IF cell[1] = "n" THEN cell[2] ELSE 0
mem_size(enc) == Len(enc.mem)
mem_add(enc, k) == [enc EXCEPT !.mem = Append(@, Number(k))]
mem_add_all(enc, ks) == [enc EXCEPT !.mem = @ \o [i \in DOMAIN ks |-> Number(ks[i])]]
mem_add_cells(enc, cells) == [enc EXCEPT !.mem = @ \o cells]
mem_set(enc, addr, k) == [enc EXCEPT !.mem[addr + 1] = Number(k)]

\* A variable gets the next displacement: of the frame, or downwards in the globals.
displacements_add(enc, id) ==
  LET size == type_size(TypeOf[id])
  IN IF id \in Globals
     THEN [enc EXCEPT !.displs[id] = -enc.global, !.global = @ + size]
     ELSE [enc EXCEPT !.displs[id] = enc.displ, !.displ = @ + size]
enc_create == [mem |-> <<Number(0), Number(0), Number(0), Number(0)>>, displs |-> [v \in Variables |-> 0], displ |-> 3,
               global |-> 3, identifiers |-> <<>>, representations |-> <<>>, compressed |-> <<>>, iniprocs |-> <<>>, errors |-> FALSE]
proc_get(enc, t) == IF t \in DOMAIN enc.iniprocs THEN enc.iniprocs[t] ELSE 0

AtVariable(t, displ) == [kind |-> "VARIABLE", type |-> t, displ |-> displ]
AtAddress(t) == [kind |-> "ADDRESS", type |-> t, displ |-> 0]

emit_load_of_lvalue(enc, value) ==
  LET t == value.type
  IN IF value.kind = "VARIABLE"
     THEN CASE type_is_structure(t) -> mem_add_all(enc, <<IC.COPY0ST, value.displ, type_size(t)>>)
            [] OTHER -> mem_add_all(enc, <<IF type_is_floating(t) THEN IC.LOADD ELSE IC.LOAD, value.displ>>)
     ELSE CASE type_is_structure(t) -> mem_add_all(enc, <<IC.COPY1ST, type_size(t)>>)
            [] type_is_array(t) \/ type_is_pointer(t) -> enc
            [] OTHER -> mem_add(enc, IF type_is_integer(t) THEN IC.LAT ELSE IC.LATD)

emit_literal_expression(enc, nd) ==
  LET t == Kind(nd.type)
      reserved == mem_size(enc) + 1 + 4
  IN CASE t = "null" -> mem_add_all(enc, <<IC.LI, 0>>)
       [] t \in {"bool", "char", "int", "enum"} -> mem_add_all(enc, <<IC.LI, nd.value>>)
       [] t = "float" -> mem_add_cells(mem_add(enc, IC.LID), Double(nd.value))
       [] t = "array" -> mem_add_cells(mem_add_all(enc, <<IC.LI, reserved, IC.B, reserved + Len(nd.value), Len(nd.value)>>),
                                       [i \in DOMAIN nd.value |-> Character(nd.value[i])])

\* The identifier as the machine's tables hold it: added once, and then referred to.
compress_ident(enc, id) ==
  IF id \in DOMAIN enc.compressed THEN mem_add(enc, enc.compressed[id])
  ELSE LET new_ref == Len(enc.identifiers) - 1
       IN mem_add([enc EXCEPT !.identifiers = @ \o <<<<"name", Len(enc.representations) - 2>>,
                                                     <<"type", Unqualified(TypeOf[id])>>,
                                                     <<"displ", enc.displs[id]>>>>,
                              !.representations = @ \o <<id, "end">>,
                              !.compressed = [i \in DOMAIN @ \cup {id} |-> IF i = id THEN new_ref ELSE @[i]]],
                  new_ref)

MemberDispl(members, index) == FoldSeq(LAMBDA m, sum : sum + type_size(m), 0, SubSeq(members, 1, index - 1))

\* A call of one of the builtins that print or read by name.
emit_idents(enc, args, instruction) ==
  FoldLeft(LAMBDA e, arg : compress_ident(mem_add(e, instruction), arg.id), enc, args)
emit_printid_expression(enc, nd) == emit_idents(enc, nd.args, IC.PRINTID)
emit_getid_expression(enc, nd) == emit_idents(enc, nd.args, IC.GETID)

----------------------------------------------------------------------------
\* emit(what, enc, nd): the functions that call each other on the parts of a node.
RECURSIVE emit(_, _, _)

emit_identifier_lvalue(enc, nd) == <<enc, AtVariable(Unqualified(TypeOf[nd.id]), enc.displs[nd.id])>>

emit_subscript_lvalue(enc, nd) ==
  LET sliced == mem_add_all(emit("expression", emit("expression", enc, nd.base), nd.index), <<IC.SLICE, type_size(nd.type)>>)
  IN <<IF type_is_array(nd.type) THEN mem_add(sliced, IC.LAT) ELSE sliced, AtAddress(nd.type)>>

emit_member_lvalue(enc, nd) ==
  LET struct == IF nd.arrow THEN type_pointer_get_element_type(nd.base.type) ELSE nd.base.type
      displ == MemberDispl(type_structure_members(struct), nd.index)
      Selected(e) == LET s == mem_add_all(e, <<IC.SELECT, displ>>)
                     IN <<IF type_is_array(nd.type) \/ type_is_pointer(nd.type) THEN mem_add(s, IC.LAT) ELSE s,
                          AtAddress(nd.type)>>
      base == emit("lvalue", enc, nd.base)
  IN IF nd.arrow THEN Selected(emit("expression", enc, nd.base))
     ELSE IF base[2].kind = "ADDRESS" THEN Selected(base[1])
     ELSE <<base[1], AtVariable(nd.type, IF base[2].displ > 0 THEN base[2].displ + displ ELSE base[2].displ - displ)>>

emit_indirection_lvalue(enc, nd) ==
  LET value == emit("lvalue", enc, nd.operand)
  IN <<IF value[2].kind = "VARIABLE" THEN mem_add_all(value[1], <<IC.LOAD, value[2].displ>>) ELSE value[1],
       AtAddress(Unqualified(nd.type))>>

emit_lvalue(enc, nd) ==
  CASE nd.class = "identifier" -> emit_identifier_lvalue(enc, nd)
    [] nd.class = "subscript" -> emit_subscript_lvalue(enc, nd)
    [] nd.class = "member" -> emit_member_lvalue(enc, nd)
    [] nd.class = "unary" -> emit_indirection_lvalue(enc, nd)

\* An initializer given to a function lies in the code, its elements after
\* its length; an element that is not a literal is an error.
emit_literal_block(enc, nd) ==
  LET wrong == \E i \in DOMAIN nd.subs : nd.subs[i].class # "literal"
      reserved == mem_size(enc) + 1 + 4
      cells == FlattenSeq([i \in DOMAIN nd.subs |->
                  IF type_is_integer(nd.subs[1].type) THEN <<Number(expression_literal_get_integer(nd.subs[i]))>>
                  ELSE Double(nd.subs[i].value)])
  IN IF wrong THEN [enc EXCEPT !.errors = TRUE]
     ELSE mem_add_cells(mem_add_all(enc, <<IC.LI, reserved, IC.B, reserved + Len(cells), Len(nd.subs)>>), cells)

emit_argument(enc, nd) ==
  CASE type_is_function(nd.type) ->
         LET displ == IF nd.id \in DOMAIN FunctionNumber THEN FunctionNumber[nd.id] ELSE enc.displs[nd.id]
         IN mem_add_all(enc, <<IF displ >= 0 THEN IC.LI ELSE IC.LOAD, Abs(displ)>>)
    [] nd.class = "initializer" -> emit_literal_block(enc, nd)
    [] OTHER -> emit("expression", enc, nd)

emit_printf_expression(enc, nd) ==
  LET sized == FoldLeft(LAMBDA acc, arg : <<emit("expression", acc[1], arg), acc[2] + type_size(arg.type)>>,
                        <<enc, 0>>, Tail(nd.args))
  IN mem_add_all(emit("expression", sized[1], nd.args[1]), <<IC.PRINTF, sized[2]>>)

\* The operand of this instruction is a type.
emit_print_expression(enc, nd) ==
  FoldLeft(LAMBDA e, arg : mem_add_cells(mem_add(emit("expression", e, arg), IC.PRIN), <<<<"t", Unqualified(arg.type)>>>>),
           enc, nd.args)

emit_call_expression(enc, nd) ==
  LET func == nd.callee.id
      user == func \in DOMAIN FunctionNumber
      begun == IF user THEN mem_add(enc, IC.CALL1) ELSE enc
      passed == FoldLeft(emit_argument, begun, nd.args)
  IN CASE func = "printf" -> emit_printf_expression(enc, nd)
       [] func = "print" -> emit_print_expression(enc, nd)
       [] func = "printid" -> emit_printid_expression(enc, nd)
       [] func = "getid" -> emit_getid_expression(enc, nd)
       [] OTHER -> IF user THEN mem_add_all(passed, <<IC.CALL2, FunctionNumber[func]>>)
                   ELSE mem_add(passed, builtin_to_instruction(func))

emit_member_expression(enc, nd) ==
  mem_add_all(emit("expression", enc, nd.base),
              <<IC.COPYST, MemberDispl(type_structure_members(nd.base.type), nd.index), type_size(nd.type),
                type_size(nd.base.type)>>)

emit_cast_expression(enc, nd) ==
  LET e == emit("expression", enc, nd.operand)
  IN IF type_is_integer(nd.operand.type) /\ type_is_floating(nd.type) THEN mem_add(e, IC.WIDEN) ELSE e

\* The instruction that changes a place: its address and floating versions, then the displacement of a variable.
emit_change(enc, value, op, t) ==
  LET plain == unary_to_instruction(op)
      addressed == IF value.kind = "ADDRESS" THEN instruction_to_address_ver(plain) ELSE plain
      e == mem_add(enc, IF type_is_floating(t) THEN instruction_to_floating_ver(addressed) ELSE addressed)
  IN IF value.kind = "VARIABLE" THEN mem_add(e, value.displ) ELSE e

emit_increment_expression(enc, nd) ==
  LET place == emit("lvalue", enc, nd.operand) IN emit_change(place[1], place[2], nd.op, nd.type)

emit_unary_expression(enc, nd) ==
  LET e == emit("expression", enc, nd.operand)
      place == emit("lvalue", enc, nd.operand)
      integer == type_is_integer(nd.type)
  IN CASE nd.op \in {"POSTINC", "POSTDEC", "PREINC", "PREDEC"} -> emit_increment_expression(enc, nd)
       [] nd.op = "ADDRESS" -> IF place[2].kind = "VARIABLE" THEN mem_add_all(place[1], <<IC.LA, place[2].displ>>)
                               ELSE place[1]
       [] nd.op = "MINUS" -> mem_add(e, IF integer THEN IC.UNMINUS ELSE IC.UNMINUS_R)
       [] nd.op = "NOT" -> mem_add(e, IC.NOT)
       [] nd.op = "LOGNOT" -> mem_add(e, IC.LOG_NOT)
       [] nd.op = "ABS" -> mem_add(e, IF integer THEN IC.ABSI ELSE IC.ABS)
       [] nd.op = "UPB" -> mem_add(emit("expression", mem_add_all(enc, <<IC.LI, 0>>), nd.operand), IC.UPB)

emit_binary_expression(enc, nd) ==
  LET logical == nd.op \in {"LOG_AND", "LOG_OR"}
      left == emit("expression", enc, nd.LHS)
      branch == mem_add_all(left, <<IC.DUPLICATE, IF nd.op = "LOG_AND" THEN IC.BE0 ELSE IC.BNE0, 0>>)
      right == emit("expression", IF logical THEN branch ELSE left, nd.RHS)
      patched == IF logical THEN mem_set(right, mem_size(branch) - 1, mem_size(right) + 1) ELSE right
      instruction == binary_to_instruction(nd.op)
  IN IF nd.op = "COMMA" THEN emit("expression", emit("void", enc, nd.LHS), nd.RHS)
     ELSE mem_add(patched, IF type_is_floating(nd.LHS.type) THEN instruction_to_floating_ver(instruction)
                           ELSE instruction)

emit_ternary_expression(enc, nd) ==
  LET tested == mem_add_all(emit("expression", enc, nd.condition), <<IC.BE0, 0>>)
      left == emit("expression", tested, nd.LHS)
      over == mem_add_all(mem_set(left, mem_size(tested) - 1, mem_size(left) + 2), <<IC.B, 0>>)
      right == emit("expression", over, nd.RHS)
  IN mem_set(right, mem_size(over) - 1, mem_size(right))

emit_assignment_expression(enc, nd) ==
  LET place == emit("lvalue", enc, nd.LHS)
      e == emit("expression", place[1], nd.RHS)
  IN IF ~type_is_structure(nd.type) THEN emit_change(e, place[2], nd.op, nd.type)
     ELSE IF place[2].kind = "VARIABLE" THEN mem_add_all(e, <<IC.COPY0ST_ASSIGN, place[2].displ, type_size(nd.type)>>)
     ELSE mem_add_all(e, <<IC.COPY1ST_ASSIGN, type_size(nd.type)>>)

emit_initializer(enc, nd) ==
  LET begun == IF type_is_array(nd.type) THEN mem_add_all(enc, <<IC.BEG_INIT, Len(nd.subs)>>) ELSE enc
  IN FoldLeft(LAMBDA e, part : emit("expression", e, part), begun, nd.subs)

emit_expression(enc, nd) ==
  IF nd.lvalue THEN LET place == emit("lvalue", enc, nd) IN emit_load_of_lvalue(place[1], place[2])
  ELSE CASE nd.class = "literal" -> emit_literal_expression(enc, nd)
         [] nd.class = "call" -> emit_call_expression(enc, nd)
         [] nd.class = "member" -> emit_member_expression(enc, nd)
         [] nd.class = "cast" -> emit_cast_expression(enc, nd)
         [] nd.class = "unary" -> emit_unary_expression(enc, nd)
         [] nd.class = "binary" -> emit_binary_expression(enc, nd)
         [] nd.class = "ternary" -> emit_ternary_expression(enc, nd)
         [] nd.class = "assignment" -> emit_assignment_expression(enc, nd)
         [] nd.class = "initializer" -> emit_initializer(enc, nd)

\* The last instruction is changed to the version that leaves no value; the
\* last cell is taken for the instruction when it is not below the codes.
emit_void_expression(enc, nd) ==
  LET e == emit("expression", enc, nd)
      last == mem_size(e) - 1
      index == IF Numeric(e.mem[last + 1]) < MinInstructionCode THEN last - 1 ELSE last
  IN IF nd.lvalue THEN emit("lvalue", enc, nd)[1]
     ELSE IF e.mem[index + 1][1] # "n" THEN e
     ELSE mem_set(e, index, instruction_to_void_ver(e.mem[index + 1][2]))

----------------------------------------------------------------------------
RECURSIVE ElementType(_)
ElementType(t) == IF type_is_array(t) THEN ElementType(type_array_get_element_type(t)) ELSE t
emit_bounds(enc, bounds) == FoldLeft(LAMBDA e, part : emit("expression", e, part), enc, bounds)
RECURSIVE only_strings(_)
only_strings(nd) == CASE nd.class = "literal" -> type_is_string(nd.type)
                      [] nd.class = "initializer" -> \A i \in DOMAIN nd.subs : only_strings(nd.subs[i])
                      [] OTHER -> FALSE

\* An array: its bounds, then DEFARR N, d, displ, iniproc, usual, has initializer, in structure, then its initializer.
\* A bound may be left empty in the last dimension.
emit_array_declaration(enc, nd) ==
  LET t == Unqualified(ElementType(nd.type))
      N == Len(nd.bounds)
      Empty(i) == nd.bounds[i].class = "empty_bound"
      bounded == emit_bounds(enc, SelectSeq(nd.bounds, LAMBDA bound : bound.class # "empty_bound"))
      checked == [bounded EXCEPT !.errors = @ \/ \E i \in 1..N - 1 : Empty(i)]
      placed == displacements_add(checked, nd.id)
      displ == placed.displs[nd.id]
      initialized == nd.init # <<>>
      bare == IF \E i \in 1..N : Empty(i) THEN 0 ELSE 1
      usual == IF initialized /\ only_strings(nd.init[1]) THEN bare + 2 ELSE bare
      defined == mem_add_all(placed, <<IC.DEFARR, IF initialized THEN N - 1 ELSE N, type_size(t), displ, proc_get(enc, t), usual,
                                       IF initialized THEN 1 ELSE 0, 0>>)
  IN IF ~initialized THEN defined
     ELSE mem_add_all(emit("expression", defined, nd.init[1]), <<IC.ARR_INIT, N, type_size(t), displ, usual>>)

\* A variable is placed before its initializer is emitted, and a structure's arrays are made before both.
emit_variable_declaration(enc, nd) ==
  LET t == Unqualified(nd.type)
      placed == displacements_add(enc, nd.id)
      displ == placed.displs[nd.id]
      made == IF proc_get(enc, t) = 0 THEN placed
              ELSE mem_add_all(placed, <<IC.STRUCT_WITH_ARR, displ, proc_get(enc, t)>>)
      value == emit("expression", made, nd.init[1])
  IN IF type_is_array(nd.type) THEN emit_array_declaration(enc, nd)
     ELSE IF nd.init = <<>> THEN made
     ELSE IF type_is_structure(t) THEN mem_add_all(value, <<IC.COPY0ST_ASSIGN, displ, type_size(t)>>)
     ELSE mem_add_all(value, <<IF type_is_floating(t) THEN IC.ASSIGN_R_V ELSE IC.ASSIGN_V, displ>>)

emit(what, enc, nd) ==
  CASE what = "expression" -> emit_expression(enc, nd)
    [] what = "lvalue" -> emit_lvalue(enc, nd)
    [] what = "void" -> emit_void_expression(enc, nd)
    [] what = "variable" -> emit_variable_declaration(enc, nd)

emit_member_declaration_outside(enc, member, displ) ==
  LET t == ElementType(member.type)
  IN IF ~type_is_array(member.type) THEN enc
     ELSE mem_add_all(emit_bounds(enc, member.bounds),
                      <<IC.DEFARR, Len(member.bounds), type_size(t), displ, proc_get(enc, t), 1, 0, 0>>)
emit_member_declaration(enc, member, displ) ==
  LET t == ElementType(member.type)
  IN IF ~type_is_array(member.type) THEN enc
     ELSE mem_add_all(emit_bounds(enc, member.bounds),
                      <<IC.DEFARR, Len(member.bounds), type_size(t), displ, proc_get(enc, t), 1, 0, 1>>)

\* A structure with arrays gets a procedure that makes them, jumped over where it stands.
emit_struct_declaration(enc, declaration) ==
  LET members == declaration.members
      over == mem_add_all(enc, <<IC.B, 0>>)
      addr == mem_size(over) - 1
      known == [over EXCEPT !.iniprocs = (declaration.type :> addr + 1) @@ @]
      made == FoldLeft(LAMBDA acc, member : <<emit_member_declaration(acc[1], member, acc[2]), acc[2] + type_size(member.type)>>,
                       <<known, 0>>, members)[1]
      stopped == mem_add(made, IC.STOP)
  IN IF \A i \in DOMAIN members : ~type_is_array(members[i].type) THEN enc
     ELSE mem_set(stopped, addr, mem_size(stopped))
=============================================================================
