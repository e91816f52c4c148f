-------------------------------- MODULE Mips --------------------------------
(***************************************************************************)
(* The MIPS generator (libs/compiler/mipsgen.c): how it hands out          *)
(* temporary registers, numbers labels, lays out frames and passes         *)
(* arguments while it walks the syntax tree.                               *)
(*                                                                         *)
(* The recursion is unrolled: todo is the C stack, its head is done next,  *)
(* and vals are the values computed and not yet used, newest first.  The   *)
(* program is chosen while it is emitted.  An instruction is its effect on *)
(* labels, on $sp and on the argument slots.  A failed assertion stops the *)
(* compiler: ok is FALSE.                                                  *)
(***************************************************************************)
EXTENDS Integers, Sequences, FiniteSetsExt, SequencesExt

CONSTANTS
    TempRegs,       \* TEMP_REG_AMOUNT: slots for temporaries
    TRegs,          \* how many of them R_T0 + i names correctly (see get_register)
    FloatRegs,      \* TEMP_FP_REG_AMOUNT / 2, single precision takes two
    Functions,      \* types of the parameters of the user's functions
    Strings,        \* for every string literal, its conversion specifications
    Bodies,         \* bodies of a switch, sequences over {"case", "default", "stmt"}
    Statements,     \* the statements, expressions and declarations used
    Expressions,
    Declarations,
    MaxBodies,      \* bound on the functions with statements
    MaxDeclarators, \* bound on the declarators of a declaration
    MaxNodes        \* bound on the statements and expressions of the program

WORD_LENGTH == 4
ARG_REG_AMOUNT == 4
FUNC_DISPL_PRESERVED == 60

Structures == {"struct", "pair"}
Members == [struct |-> <<"pair", "int">>, pair |-> <<"int">>]
Types == {"int", "float", "ptr", "array"} \cup Structures

ASSUME MipsAssumption ==
    /\ TempRegs \in Nat \ {0} /\ TRegs \in 1..TempRegs /\ FloatRegs \in Nat
    /\ Functions \in Seq(Seq(Types))
    /\ Strings \in Seq(Nat)
    /\ Bodies \subseteq Seq({"case", "default", "stmt"})
    /\ {MaxBodies, MaxDeclarators, MaxNodes} \subseteq Nat

VARIABLES
    enc,            \* the encoder, see Init
    vals,           \* pending values
    todo,           \* what is left to do
    nodes           \* nodes of the tree so far

vars == <<enc, vals, todo, nodes>>

\* Size of a value in bytes, that of a structure the sum of its members'.
mips_type_size ==
    LET pair == WORD_LENGTH
    IN  [type \in Types |-> CASE type = "struct" -> pair + WORD_LENGTH
                             [] type = "pair" -> pair
                             [] OTHER -> WORD_LENGTH]

-----------------------------------------------------------------------------
(* Registers and values.  A register is a bank and a number in it. *)

R_FP == <<"fp", 0>>
R_GP == <<"gp", 0>>
R_SP == <<"sp", 0>>
Argument(type, n) == IF type = "float" THEN <<"fa", n>> ELSE <<"a", n>>
Returned(type) == IF type = "float" THEN <<"fv", 0>> ELSE <<"v", 0>>

\* The register that is handed out for a slot: the last slots are meant for $t8 and
\* $t9, but R_T0 + i names $s0 and $s1.
Name(slot) == IF slot[1] = "t" /\ slot[2] >= TRegs THEN <<"s", slot[2] - TRegs>> ELSE slot
SlotOf(reg) == IF reg[1] = "s" THEN <<"t", reg[2] + TRegs>> ELSE reg
IsTemp(reg) == reg[1] \in {"t", "s", "ft"}

Const(n, type) == [kind |-> "const", reg |-> <<"none", 0>>, n |-> n, type |-> type, from_lvalue |-> FALSE]
Reg(r, type)   == [kind |-> "reg", reg |-> r, n |-> 0, type |-> type, from_lvalue |-> FALSE]
Stack(base, displ, type) ==     \* LVALUE_KIND_STACK
    [kind |-> "stack", reg |-> base, n |-> displ, type |-> type, from_lvalue |-> FALSE]
Variable(r, type) ==            \* LVALUE_KIND_REGISTER
    [kind |-> "variable", reg |-> r, n |-> 0, type |-> type, from_lvalue |-> FALSE]
RVALUE_VOID == Const(0, "int")

Fail(e) == [e EXCEPT !.ok = FALSE]

lock_register(e, reg) ==
    IF reg[1] \in {"t", "ft"} THEN [e EXCEPT !.registers = @ \cup {reg}] ELSE e

\* The first free slot, in e.got.
FirstFree(e, bank, amount) ==
    LET free == {i \in 0..amount - 1 : <<bank, i>> \notin e.registers}
    IN  IF free = {} THEN Fail(e)
        ELSE [e EXCEPT !.registers = @ \cup {<<bank, Min(free)>>}, !.got = Name(<<bank, Min(free)>>)]

get_register(e) == FirstFree(e, "t", TempRegs)
get_float_register(e) == FirstFree(e, "ft", FloatRegs)
GetFor(e, type) == IF type = "float" THEN get_float_register(e) ELSE get_register(e)

\* Registers that are not temporaries, $s0 and $s1 among them, are not freed.
free_register(e, reg) == [e EXCEPT !.registers = @ \ {reg}]

free_rvalue(e, value) ==
    IF value.kind = "reg" /\ ~value.from_lvalue THEN free_register(e, value.reg) ELSE e

-----------------------------------------------------------------------------
(* Labels *)

Label(kind, num) == <<kind, num>>
NoLabel == Label("none", 0)

emit_label_declaration(e, lbl) ==
    [e EXCEPT !.declared = @ \cup {lbl}, !.twice = @ \/ lbl \in e.declared]

emit_unconditional_branch(e, lbl) == [e EXCEPT !.used = @ \cup {lbl}]

\* A constant condition is decided now.
emit_conditional_branch(e, value, lbl) ==
    IF value.kind = "const" /\ value.n # 0 THEN e ELSE emit_unconditional_branch(e, lbl)

TakeLabel(e) == [e EXCEPT !.label_num = @ + 1]

-----------------------------------------------------------------------------
(* Loads, stores and operations *)

emit_load_of_immediate(e, value) == GetFor(e, value.type)

\* A constant is loaded into a register; e.got is where the value is.
Loaded(e, value) ==
    IF value.kind = "const" THEN emit_load_of_immediate(e, value) ELSE [e EXCEPT !.got = value.reg]

emit_load_of_lvalue(e, lval) ==
    IF lval.kind = "variable" THEN [e EXCEPT !.got = lval.reg]
    ELSE IF lval.type \in Structures \cup {"array"} THEN get_register(e)
    ELSE free_register(GetFor(e, lval.type), lval.reg)

\* The value that emit_load_of_lvalue returns.
ValueOf(e, lval) ==
    [Reg(emit_load_of_lvalue(e, lval).got, lval.type) EXCEPT !.from_lvalue = lval.kind = "variable"]

emit_store_of_rvalue(e, target, value) ==
    LET loaded == Loaded(e, value)
    IN  IF target.kind = "variable" \/ target.type \in Structures \cup {"array"} THEN loaded
        ELSE free_register(IF value.kind = "const" THEN free_register(loaded, loaded.got) ELSE loaded,
                           target.reg)

\* Operators by the operands they need in registers: "cmp" comparisons, "both" for
\* sub, div, mul and rem, "shift", and "imm" for add, and, or and xor.
Operators == {"cmp", "both", "shift", "imm"}

emit_operand_load(e, operand, operator, is_first_operand) ==
    IF \/ operator \in {"cmp", "both"}
       \/ operator = "shift" /\ is_first_operand
    THEN Loaded(e, operand) ELSE e

\* A comparison takes a label; constants that were loaded stay in their registers.
emit_binary_operation(e, dest, first, second, operator) ==
    LET registers == first.kind = "reg" /\ second.kind = "reg"
        ready == IF registers THEN e
                 ELSE emit_operand_load(emit_operand_load(e, first, operator, TRUE), second, operator, FALSE)
        lbl == Label(IF registers THEN "END" ELSE "ELSE", e.label_num)
    IN  CASE dest.kind # "reg" -> Fail(e)
          [] dest.kind = "reg" /\ operator # "cmp" -> ready
          [] dest.kind = "reg" /\ operator = "cmp" ->
                emit_label_declaration(emit_conditional_branch(TakeLabel(ready), dest, lbl), lbl)

-----------------------------------------------------------------------------
(* The unrolled recursion *)

Item(do) == [do |-> do]
With(do, x) == [do |-> do, x |-> x]
Expr(type) == [do |-> "expr", type |-> type, lv |-> TRUE]
Void(type) == [do |-> "void", type |-> type]
Lvalue(type) == [do |-> "lvalue", type |-> type]
Stmt == Item("stmt")

Do(what) == enc.ok /\ todo # <<>> /\ Head(todo).do = what
X == Head(todo).x

Then(items) == todo' = items \o Tail(todo)
Done == Then(<<>>)

\* The values are used up and others take their place.
Use(n, pushed) == vals' = pushed \o SubSeq(vals, n + 1, Len(vals))
Keep == UNCHANGED vals
First == vals[1]
Second == vals[2]

\* Between two steps nothing depends on e.got.
Settled(e) == [e EXCEPT !.got = <<"none", 0>>]

NewNode == nodes < MaxNodes /\ nodes' = nodes + 1
SameNodes == UNCHANGED nodes

\* An expression of class, which is not an lvalue, is emitted.
Begin(class, types) ==
    /\ Do("expr") /\ class \in Expressions /\ Head(todo).type \in types
    /\ IF class = "literal" THEN SameNodes ELSE NewNode
T == Head(todo).type

-----------------------------------------------------------------------------
(* Lvalues *)

\* emit_expression on an lvalue
LvalueExpression ==
    /\ Do("expr") /\ Head(todo).lv /\ SameNodes /\ Keep /\ UNCHANGED enc
    /\ Then(<<Lvalue(T), Item("load")>>)

\* The value of an expression is dropped and an lvalue is not even loaded.
emit_void_expression ==
    /\ Do("void") /\ SameNodes /\ Keep /\ UNCHANGED enc
    /\ \/ Then(<<Lvalue(T), Item("forget")>>)
       \/ Then(<<[Expr(T) EXCEPT !.lv = FALSE], Item("drop")>>)

DropValue ==
    /\ Do("drop") /\ Done /\ SameNodes
    /\ enc' = free_rvalue(enc, First)
    /\ Use(1, <<>>)

\* Nothing is freed.
ForgetLvalue == Do("forget") /\ Use(1, <<>>) /\ Done /\ SameNodes /\ UNCHANGED enc

LoadLvalue ==
    /\ Do("load") /\ Done /\ SameNodes
    /\ enc' = Settled(emit_load_of_lvalue(enc, First))
    /\ Use(1, <<ValueOf(enc, First)>>)

BeginLvalue(class) ==
    /\ Do("lvalue") /\ class \in Expressions
    /\ IF class = "identifier" THEN SameNodes ELSE NewNode

emit_identifier_lvalue ==
    /\ BeginLvalue("identifier") /\ Done /\ UNCHANGED enc
    /\ \E v \in enc.visible : v.type = T /\ Use(0, <<v>>)

BeginSubscript ==
    /\ BeginLvalue("subscript") /\ T = "int" /\ Keep /\ UNCHANGED enc
    /\ Then(<<Expr("array"), Expr("int"), Item("subscript")>>)

\* The size of an element is loaded for the multiplication and stays loaded.
emit_subscript_lvalue ==
    /\ Do("subscript") /\ Done /\ SameNodes
    /\ IF First.kind = "const"
       THEN /\ UNCHANGED enc
            /\ Use(2, <<Stack(Second.reg, -First.n * WORD_LENGTH, "int")>>)
       ELSE LET e1 == get_register(enc)
                offset == Reg(e1.got, "int")
                e2 == emit_binary_operation(e1, offset, First, Const(WORD_LENGTH, "int"), "both")
                e3 == emit_binary_operation(free_rvalue(e2, First), Second, Second, offset, "both")
            IN  /\ enc' = free_rvalue(e3, offset)
                /\ Use(2, <<Stack(Second.reg, 0, "int")>>)

\* base.member, base->member and *pointer; the member is the last of a structure.
BeginMember(arrow) ==
    /\ BeginLvalue("member") /\ Keep /\ UNCHANGED enc
    /\ \E s \in Structures :
          /\ T = Members[s][Len(Members[s])]
          /\ Then(<<IF arrow THEN Expr("ptr") ELSE Lvalue(s),
                    With("member", [type |-> T, displ |-> mips_type_size[s] - mips_type_size[T]])>>)

emit_member_lvalue ==
    /\ Do("member") /\ Done /\ SameNodes /\ UNCHANGED enc
    /\ Use(1, <<Stack(First.reg, (IF First.kind = "stack" THEN First.n ELSE 0) + X.displ, X.type)>>)

BeginIndirection ==
    /\ BeginLvalue("indirection") /\ T \in {"int", "struct"} /\ Keep /\ UNCHANGED enc
    /\ Then(<<Expr("ptr"), With("indirection", T)>>)

emit_indirection_lvalue ==
    /\ Do("indirection") /\ Done /\ SameNodes /\ UNCHANGED enc
    /\ Use(1, <<Stack(First.reg, 0, X)>>)

-----------------------------------------------------------------------------
(* Expressions *)

\* Where it makes a difference whether a constant is zero.
Tests == {"then", "leave", "enddo", "ternary", "logical", "endlogical"}

emit_literal_expression ==
    /\ Begin("literal", {"int", "float"}) /\ Done /\ UNCHANGED enc
    /\ \E n \in {0, 1} : (todo[2].do \in Tests \/ n = 1) /\ Use(0, <<Const(n, T)>>)

\* printf prints one piece of the format per argument.
BeginPrintf ==
    /\ Begin("printf", {"int"}) /\ Keep /\ UNCHANGED enc
    /\ \E s \in DOMAIN Strings, types \in {<<"int", "int">>, <<"float", "int">>} :
          Then([i \in 1..2 * Strings[s] |->
                   IF i % 2 = 1 THEN Expr(types[(i + 1) \div 2]) ELSE With("printarg", [s |-> s, i |-> i \div 2])]
               \o <<With("printend", s)>>)

\* The label of piece i of string s.
StringLabel(s, i) == Label("STRING", (s - 1) + i * Len(Strings))

Move(e, words) == [e EXCEPT !.sp = @ + words * WORD_LENGTH]

\* An argument register is read back from the stack through a temporary.
Restore(e, addr, type) ==
    LET e1 == emit_load_of_lvalue(e, Stack(R_SP, addr, type)) IN free_rvalue(e1, Reg(e1.got, type))

\* The copy of $a2 that is read back after a floating argument is never freed.
PrintArgument ==
    /\ Do("printarg") /\ Done /\ SameNodes
    /\ LET e1 == Loaded(enc, First)
           arg == IF First.kind = "const" THEN Reg(e1.got, First.type) ELSE First
           words == IF arg.type = "float" THEN 2 ELSE 1
           slot(i) == Stack(R_SP, i * WORD_LENGTH, arg.type)
           e2 == emit_store_of_rvalue(Move(e1, -words), slot(0), Reg(Argument("int", 0), "int"))
           e3 == emit_store_of_rvalue(e2, slot(1), Reg(Argument("int", 1), "int"))
           e4 == IF arg.type = "float"
                 THEN emit_store_of_rvalue(e3, [slot(2) EXCEPT !.type = "int"], Reg(Argument("int", 2), "int"))
                 ELSE e3
           e5 == emit_unconditional_branch(e4, StringLabel(X.s, X.i - 1))
           e6 == IF arg.type = "float" THEN get_register(e5) ELSE e5
           e7 == Restore(Restore(free_rvalue(e6, arg), 0, arg.type), WORD_LENGTH, arg.type)
       IN  enc' = Settled(Move(e7, words))
    /\ Use(1, <<>>)

EndPrintf ==
    /\ Do("printend") /\ Done /\ SameNodes
    /\ LET e1 == emit_store_of_rvalue(enc, Stack(R_SP, 0, "int"), Reg(Argument("int", 0), "int"))
           e2 == emit_unconditional_branch(e1, StringLabel(X, Strings[X]))
       IN  enc' = Restore(e2, 0, "int")
    /\ Use(0, <<RVALUE_VOID>>)

\* emit_builtin_call of any other function: the arguments are not emitted.
BuiltinCall == Begin("builtin", {"int"}) /\ Done /\ UNCHANGED enc /\ Use(0, <<RVALUE_VOID>>)

\* Room for the arguments but one; for none, -1 wraps around and $sp goes up.
displ_for_parameters(amount) == amount - 1

Call(f) == [f |-> f, done |-> 0, ints |-> 0, floats |-> 0, places |-> <<>>, saves |-> <<>>]

BeginCall ==
    /\ Begin("call", {"int"}) /\ Keep
    /\ \E f \in DOMAIN Functions :
          /\ enc' = Move(enc, -displ_for_parameters(Len(Functions[f])))
          /\ Then(IF Functions[f] = <<>> THEN <<With("jal", Call(f))>>
                  ELSE <<Expr(Functions[f][1]), With("argument", Call(f))>>)

\* Mutant: the counter of floating registers moves by one.
FloatStep_One == 1

FloatStep == 2

\* An argument that goes to a register saves it in the slot where one that goes to
\* the stack would be.
PassArgument ==
    /\ Do("argument") /\ SameNodes
    /\ LET e1 == Loaded(enc, First)
           arg == IF First.kind = "const" THEN Reg(e1.got, First.type) ELSE First
           count == IF arg.type = "float" THEN X.floats ELSE X.ints
           in_register == count < ARG_REG_AMOUNT
           reg == Argument(arg.type, count)
           addr == X.done * WORD_LENGTH
           e2 == emit_store_of_rvalue(e1, Stack(R_SP, addr, arg.type), IF in_register THEN Reg(reg, arg.type) ELSE arg)
           call == [X EXCEPT !.done = @ + 1,
                             !.ints = IF arg.type = "float" THEN @ ELSE @ + 1,
                             !.floats = IF arg.type = "float" THEN @ + FloatStep ELSE @,
                             !.places = Append(@, IF in_register THEN reg ELSE <<"stack", addr>>),
                             !.saves = IF in_register THEN Append(@, [addr |-> addr, reg |-> reg, type |-> arg.type]) ELSE @]
       IN  /\ enc' = Settled(free_rvalue(e2, arg))
           /\ Then(IF call.done = Len(Functions[X.f]) THEN <<With("jal", call)>>
                   ELSE <<Expr(Functions[X.f][call.done + 1]), With("argument", call)>>)
    /\ Use(1, <<>>)

\* The register the k-th saved argument is read back into: those of a bank in turn.
RestoredTo(saves, k) ==
    LET before == Cardinality({j \in 1..k - 1 : (saves[j].type = "float") = (saves[k].type = "float")})
    IN  Argument(saves[k].type, IF saves[k].type = "float" THEN 2 * before ELSE before)

JumpToFunction ==
    /\ Do("jal") /\ SameNodes /\ Keep
    /\ enc' = [enc EXCEPT !.used = @ \cup {Label("FUNC", X.f)}]
    /\ Then([k \in DOMAIN X.saves |-> With("restore", X.saves[k])] \o <<With("endcall", X)>>)

RestoreArgument ==
    /\ Do("restore") /\ Done /\ SameNodes /\ Keep
    /\ enc' = Settled(Restore(enc, X.addr, X.type))

EndCall ==
    /\ Do("endcall") /\ Done /\ SameNodes
    /\ enc' = Move([enc EXCEPT !.call = [f |-> X.f, places |-> X.places,
                                         saves |-> [k \in DOMAIN X.saves |-> X.saves[k].reg],
                                         restores |-> [k \in DOMAIN X.saves |-> RestoredTo(X.saves, k)]]],
                    displ_for_parameters(Len(Functions[X.f])))
    /\ Use(0, <<Reg(Returned("int"), "int")>>)

emit_member_expression ==
    /\ Begin("member_rvalue", {"int"}) /\ Done /\ UNCHANGED enc /\ Use(0, <<RVALUE_VOID>>)

BeginCast ==
    /\ Begin("cast", {"int", "float"}) /\ Keep /\ UNCHANGED enc
    /\ Then(<<Expr("int"), With("cast", T)>>)

emit_cast_expression ==
    /\ Do("cast") /\ Done /\ SameNodes
    /\ IF X = "float"
       THEN LET e1 == get_float_register(enc)
            IN  enc' = free_rvalue(e1, First) /\ Use(1, <<Reg(e1.got, "float")>>)
       ELSE UNCHANGED enc /\ Use(1, <<[First EXCEPT !.type = "int"]>>)

BeginIncrement(prefix) ==
    /\ Begin("increment", {"int"}) /\ Keep /\ UNCHANGED enc
    /\ Then(<<Lvalue("int"), With("increment", prefix)>>)

emit_increment_expression ==
    /\ Do("increment") /\ Done /\ SameNodes
    /\ LET e1 == emit_load_of_lvalue(enc, First)
           value == ValueOf(enc, First)
           e2 == IF X THEN e1 ELSE get_register(e1)
           result == IF X THEN value ELSE Reg(e2.got, "int")
           e3 == emit_binary_operation(e2, result, value, Const(1, "int"), "imm")
           e4 == emit_store_of_rvalue(e3, First, result)
       IN  /\ enc' = IF X THEN e4 ELSE free_rvalue(e4, result)
           /\ Use(1, <<value>>)

\* Minus and not; logical not and abs work in place.
BeginUnary ==
    /\ Begin("unary", {"int"}) /\ Keep /\ UNCHANGED enc
    /\ \E operator \in {"both", "imm", "place"} : Then(<<Expr("int"), With("unary", operator)>>)

EndUnary ==
    /\ Do("unary") /\ Done /\ SameNodes /\ Keep
    /\ enc' = IF X = "place" THEN enc ELSE emit_binary_operation(enc, First, First, Const(-1, "int"), X)

BeginAddress ==
    /\ Begin("address", {"ptr"}) /\ Keep /\ UNCHANGED enc
    /\ \E type \in {"int", "struct"} : Then(<<Lvalue(type), Item("address")>>)

EndAddress ==
    /\ Do("address") /\ Done /\ SameNodes
    /\ LET e1 == get_register(enc)
       IN  enc' = (IF First.kind = "variable" THEN Fail(enc) ELSE e1) /\ Use(1, <<Reg(e1.got, "int")>>)

BeginUpb ==
    /\ Begin("upb", {"int"}) /\ Keep /\ UNCHANGED enc
    /\ Then(<<Expr("array"), Item("upb")>>)

EndUpb ==
    /\ Do("upb") /\ Done /\ SameNodes
    /\ LET e1 == emit_load_of_lvalue(enc, Stack(First.reg, WORD_LENGTH, "int"))
       IN  enc' = e1 /\ Use(1, <<Reg(e1.got, "int")>>)

BeginBinary ==
    /\ Begin("binary", {"int", "float"}) /\ Keep /\ UNCHANGED enc
    /\ \/ \E operator \in Operators : Then(<<Expr(T), Expr(T), With("binary", operator)>>)
       \/ Then(<<Void("int"), Expr(T)>>)      \* comma

EndBinary ==
    /\ Do("binary") /\ Done /\ SameNodes
    /\ enc' = free_rvalue(emit_binary_operation(enc, Second, Second, First, X), First)
    /\ Use(2, <<Second>>)

BeginLogical ==
    /\ Begin("logical", {"int"}) /\ Keep /\ UNCHANGED enc
    /\ Then(<<Expr("int"), Item("logical")>>)

LogicalBranch ==
    /\ Do("logical") /\ SameNodes
    /\ LET lbl == Label("END", enc.label_num)
       IN  /\ enc' = free_rvalue(emit_conditional_branch(TakeLabel(enc), First, lbl), First)
           /\ Then(<<Expr("int"), With("endlogical", [lbl |-> lbl, lhs |-> First])>>)
    /\ Use(1, <<>>)

\* Both operands must be in the same register.
EndLogical ==
    /\ Do("endlogical") /\ Done /\ SameNodes /\ Keep
    /\ enc' = IF X.lhs.reg = First.reg /\ X.lhs.n = First.n
              THEN emit_label_declaration(enc, X.lbl) ELSE Fail(enc)

BeginTernary ==
    /\ Begin("ternary", {"int"}) /\ Keep /\ UNCHANGED enc
    /\ Then(<<Expr("int"), Item("ternary")>>)

TernaryBranch ==
    /\ Do("ternary") /\ SameNodes
    /\ LET n == enc.label_num
           e1 == emit_conditional_branch(TakeLabel(enc), First, Label("ELSE", n))
           e2 == get_register(free_rvalue(e1, First))
       IN  /\ enc' = e2
           /\ Use(1, <<Reg(e2.got, "int")>>)
           /\ Then(<<Expr("int"), With("ternaryelse", n), Expr("int"), With("endternary", n)>>)

TernaryElse ==
    /\ Do("ternaryelse") /\ Done /\ SameNodes
    /\ enc' = emit_label_declaration(
                  emit_unconditional_branch(free_rvalue(enc, First), Label("END", X)), Label("ELSE", X))
    /\ Use(1, <<>>)

EndTernary ==
    /\ Do("endternary") /\ Done /\ SameNodes
    /\ enc' = emit_label_declaration(free_rvalue(enc, First), Label("END", X))
    /\ Use(1, <<>>)

BeginAssignment ==
    /\ Begin("assignment", {"int", "float"}) /\ Keep /\ UNCHANGED enc
    /\ \E operator \in Operators \cup {"assign"} :
          operator # "cmp" /\ Then(<<Lvalue(T), Expr(T), With("assignment", operator)>>)

\* A compound assignment frees the register of the address when it loads the target,
\* and stores through it afterwards.
emit_assignment_expression ==
    /\ Do("assignment") /\ Done /\ SameNodes
    /\ IF X = "assign"
       THEN /\ enc' = emit_store_of_rvalue(enc, Second, First)
            /\ Use(2, <<First>>)
       ELSE LET e1 == emit_load_of_lvalue(enc, Second)
                target == ValueOf(enc, Second)
                e2 == free_rvalue(emit_binary_operation(e1, target, target, First, X), First)
            IN  /\ enc' = emit_store_of_rvalue(e2, Second, target)
                /\ Use(2, <<target>>)

BeginStructAssignment ==
    /\ Begin("structure", Structures) /\ Keep /\ UNCHANGED enc
    /\ Then(<<Lvalue(T), Item("struct")>>)

\* The words, one or two, are copied one by one.
CopyWord(e, target, source, i) ==
    LET e1 == emit_load_of_lvalue(e, Stack(source.reg, source.n + i, "int"))
        proxy == Reg(e1.got, "int")
    IN  free_rvalue(emit_store_of_rvalue(e1, Stack(target.reg, target.n + i, "int"), proxy), proxy)

CopyWords(e, target, source) ==
    LET first == CopyWord(e, target, source, 0)
    IN  IF mips_type_size[target.type] = WORD_LENGTH THEN first ELSE CopyWord(first, target, source, WORD_LENGTH)

\* From an initializer or from a variable; the result is the address of the target.
emit_struct_assignment ==
    /\ Do("struct") /\ SameNodes
    /\ \/ UNCHANGED enc /\ Keep /\ Then(<<With("init", <<1, First>>), Item("load")>>)
       \/ \E v \in enc.visible : /\ v.type = First.type
                                 /\ enc' = CopyWords(enc, First, v)
                                 /\ Keep /\ Then(<<Item("load")>>)

\* The members in turn: an inner initializer, another structure, or a value.  X is the
\* member and the structure.
emit_structure_init ==
    /\ Do("init") /\ SameNodes /\ X[1] <= Len(Members[X[2].type])
    /\ LET type == Members[X[2].type][X[1]]
           displ == IF X[1] = 1 THEN 0 ELSE mips_type_size[Members[X[2].type][1]]
           member == Stack(X[2].reg, X[2].n + displ, type)
           rest == With("init", <<X[1] + 1, X[2]>>)
       IN  \/ /\ type \in Structures
              /\ Then(<<With("init", <<1, member>>), rest>>) /\ Keep /\ UNCHANGED enc
           \/ \E v \in enc.visible :
                 /\ type \in Structures /\ v.type = type
                 /\ enc' = emit_load_of_lvalue(CopyWords(enc, member, v), member)     \* not freed
                 /\ Then(<<rest>>) /\ Keep
           \/ /\ type \notin Structures
              /\ Then(<<Expr(type), With("store", member), rest>>) /\ Keep /\ UNCHANGED enc

EndStructureInit ==
    /\ Do("init") /\ SameNodes /\ X[1] > Len(Members[X[2].type])
    /\ Done /\ Keep /\ UNCHANGED enc

\* A value is stored and freed.
StoreValue ==
    /\ Do("store") /\ Done /\ SameNodes
    /\ enc' = Settled(free_rvalue(emit_store_of_rvalue(enc, X, First), First))
    /\ Use(1, <<>>)

-----------------------------------------------------------------------------
(* Declarations *)

\* Mutant: the variable is at the displacement before it is added.
displacements_add_Before(e, type) ==
    LET scope == e.scope_displ + mips_type_size[type]
        variable == Stack(R_FP, -e.scope_displ, type)
    IN  [e EXCEPT !.scope_displ = scope, !.max_displ = Max({@, scope}), !.visible = @ \cup {variable},
                  !.variable = variable]

\* A local variable is below $fp, a global one above $gp; e.variable is where.
displacements_add(e, type) ==
    LET scope == e.scope_displ + mips_type_size[type]
        variable == IF e.function # 0 THEN Stack(R_FP, -scope, type) ELSE Stack(R_GP, e.global_displ, type)
        added == [e EXCEPT !.visible = @ \cup {variable}, !.variable = variable]
    IN  IF e.function # 0 THEN [added EXCEPT !.scope_displ = scope, !.max_displ = Max({@, scope})]
        ELSE [added EXCEPT !.global_displ = @ + mips_type_size[type]]

BeginDeclaration(type) == Do("declare") /\ type \in Declarations /\ SameNodes

emit_variable_declaration(type, initialised) ==
    /\ BeginDeclaration(type) /\ type # "array"
    /\ LET e1 == displacements_add(enc, type)
       IN  /\ enc' = e1
           /\ IF initialised /\ type \in Structures
              THEN Use(0, <<e1.variable>>) /\ Then(<<Item("struct"), Item("drop")>>)
              ELSE Keep /\ Then(IF initialised THEN <<Expr(type), With("store", e1.variable)>> ELSE <<>>)

\* A bound may be left out when there is an initializer.
Bound == Item("bound")

BoundExpression ==
    /\ Do("bound") /\ SameNodes /\ UNCHANGED enc
    /\ \/ Then(<<Expr("int")>>) /\ Keep
       \/ Done /\ Use(0, <<RVALUE_VOID>>)

\* The address of an array is stored in the variable, then its bounds are evaluated.
emit_array_declaration(dim, initialised) ==
    /\ BeginDeclaration("array") /\ Keep
    /\ LET e1 == displacements_add(enc, "array")
           e2 == get_register(e1)
           value == Reg(e2.got, "int")
           e3 == emit_store_of_rvalue(e2, [e1.variable EXCEPT !.type = "int"], value)
       IN  /\ enc' = free_rvalue(e3, value)
           /\ Then(<<Bound, Item("loadbound")>>
                   \o (IF dim = 2 THEN <<Bound, Item("loadbound")>> ELSE <<>>)
                   \o (IF initialised THEN <<With("arrayinit", [dim |-> dim, variable |-> e1.variable])>> ELSE <<>>))

LoadBound ==
    /\ Do("loadbound") /\ Done /\ SameNodes
    /\ LET e1 == Loaded(enc, First) IN enc' = free_rvalue(e1, IF First.kind = "const" THEN Reg(e1.got, "int") ELSE First)
    /\ Use(1, <<>>)

InitializeArray ==
    /\ Do("arrayinit") /\ SameNodes
    /\ enc' = emit_load_of_lvalue(enc, X.variable)
    /\ Use(0, <<ValueOf(enc, X.variable)>>)
    /\ Then(<<With("dimension", X.dim), Item("drop")>>)

\* One dimension of the initializer: its size is checked, then two elements are stored
\* or, for another dimension, the address of a row is loaded.
emit_array_init ==
    /\ Do("dimension") /\ SameNodes /\ Keep
    /\ enc' = emit_unconditional_branch(enc, Label("error", 0))
    /\ Then(<<Bound, Item("loadbound")>>
            \o IF X = 1 THEN <<Expr("int"), Item("element"), Expr("int"), Item("element")>>
               ELSE <<Item("row"), With("dimension", X - 1), Item("drop")>>)

BeginRow ==
    /\ Do("row") /\ Done /\ SameNodes
    /\ LET e1 == get_register(enc) IN enc' = e1 /\ Use(0, <<Reg(e1.got, "int")>>)

\* Mutant: the register of the address is not taken back.
StoreElement_Unlocked ==
    /\ Do("element") /\ Done /\ SameNodes
    /\ enc' = free_rvalue(emit_store_of_rvalue(enc, Stack(Second.reg, 0, "int"), First), First)
    /\ Use(1, <<>>)

\* The store frees the register of the address, which is still needed.
StoreElement ==
    /\ Do("element") /\ Done /\ SameNodes
    /\ enc' = free_rvalue(lock_register(emit_store_of_rvalue(enc, Stack(Second.reg, 0, "int"), First), Second.reg), First)
    /\ Use(1, <<>>)

emit_declaration_statement ==
    /\ Do("stmt") /\ "decl" \in Statements /\ NewNode /\ Keep /\ UNCHANGED enc
    /\ \E n \in 1..MaxDeclarators : Then([i \in 1..n |-> Item("declare")])

-----------------------------------------------------------------------------
(* Statements *)

BeginStmt(class) == Do("stmt") /\ class \in Statements /\ NewNode /\ Keep

emit_expression_statement(type) == BeginStmt("expr") /\ Then(<<Void(type)>>) /\ UNCHANGED enc

\* A null statement, or a label that is not directly in the body of its switch, which
\* is an internal error: nothing is emitted for its statement either.
NothingEmitted == Do("stmt") /\ SameNodes /\ Keep /\ Done /\ UNCHANGED enc

\* What the block declares is visible in it only.
BeginCompound ==
    /\ BeginStmt("compound") /\ UNCHANGED enc
    /\ \E n \in 1..2 : Then([i \in 1..n |-> Stmt] \o <<With("endcompound", [displ |-> enc.scope_displ, visible |-> enc.visible])>>)

EndCompound ==
    /\ Do("endcompound") /\ Done /\ SameNodes /\ Keep
    /\ enc' = [enc EXCEPT !.max_displ = Max({@, enc.scope_displ}), !.scope_displ = X.displ, !.visible = X.visible]

BeginIf(has_else) ==
    /\ BeginStmt("if") /\ UNCHANGED enc
    /\ Then(<<Expr("int"), With("then", has_else)>>)

IfBranch ==
    /\ Do("then") /\ SameNodes
    /\ LET n == enc.label_num
       IN  /\ enc' = free_rvalue(emit_conditional_branch(TakeLabel(enc), First, Label(IF X THEN "ELSE" ELSE "END", n)), First)
           /\ Then(<<Stmt>> \o (IF X THEN <<With("else", n), Stmt>> ELSE <<>>) \o <<With("endif", n)>>)
    /\ Use(1, <<>>)

IfElse ==
    /\ Do("else") /\ Done /\ SameNodes /\ Keep
    /\ enc' = emit_label_declaration(emit_unconditional_branch(enc, Label("END", X)), Label("ELSE", X))

EndIf ==
    /\ Do("endif") /\ Done /\ SameNodes /\ Keep
    /\ enc' = emit_label_declaration(enc, Label("END", X))

\* What a loop or switch saves: the labels of those around it, and its own.
Saved(e, num, continue) ==
    [num |-> num, old_break |-> e.label_break, old_continue |-> e.label_continue,
     break |-> Label("END", num), continue |-> continue, displ |-> e.scope_displ, visible |-> e.visible]

BeginSwitch ==
    /\ BeginStmt("switch")
    /\ LET n == enc.label_num
       IN  /\ enc' = [TakeLabel(enc) EXCEPT !.label_break = Label("END", n)]
           /\ \E body \in Bodies :
                 Then(<<Expr("int"), With("switch", body), With("endswitch", Saved(enc, n, enc.label_continue))>>)

\* The condition is in a register while it is compared.
SwitchCondition ==
    /\ Do("switch") /\ SameNodes
    /\ LET e1 == Loaded(enc, First)
       IN  /\ enc' = Settled(e1)
           /\ Use(1, <<IF First.kind = "const" THEN Reg(e1.got, "int") ELSE First>>)
    /\ Then([i \in DOMAIN X |-> With("test", X[i])] \o <<With("bodies", [body |-> X, first |-> enc.case_label_num])>>)

\* One test per case; default takes a label too.
SwitchTest ==
    /\ Do("test") /\ Done /\ SameNodes /\ Keep
    /\ LET numbered == [enc EXCEPT !.case_label_num = @ + 1]
           e1 == get_register(numbered)
           result == Reg(e1.got, "int")
           e2 == emit_binary_operation(e1, result, First, Const(1, "int"), "cmp")
           e3 == emit_conditional_branch(e2, result, Label("CASE", enc.case_label_num))
       IN  enc' = CASE X = "stmt" -> enc
                    [] X = "default" -> numbered
                    [] X = "case" -> Settled(free_rvalue(e3, result))

\* A jump to default or behind the switch, then the bodies, which are numbered again
\* from the first label.
SwitchJump ==
    /\ Do("bodies") /\ SameNodes
    /\ LET labels == {i \in DOMAIN X.body : X.body[i] # "stmt"}
           num(i) == X.first + Cardinality({j \in labels : j < i})
           defaults == {i \in labels : X.body[i] = "default"}
           last == {i \in defaults : \A j \in defaults : j <= i}
       IN  /\ \E lbl \in IF defaults = {} THEN {enc.label_break} ELSE {Label("CASE", num(i)) : i \in last} :
                 enc' = free_rvalue(emit_unconditional_branch(enc, lbl), First)
           /\ Then([i \in DOMAIN X.body |-> IF i \in labels THEN With("label", num(i)) ELSE Stmt])
    /\ Use(1, <<>>)

\* emit_case_statement and emit_default_statement
LabelStatement ==
    /\ Do("label") /\ SameNodes /\ Keep
    /\ enc' = emit_label_declaration(enc, Label("CASE", X))
    /\ Then(<<Stmt>>)

\* Mutant: the break label of the statement around the switch is forgotten.
EndSwitch_Kept ==
    /\ Do("endswitch") /\ Done /\ SameNodes /\ Keep
    /\ enc' = [emit_label_declaration(enc, enc.label_break) EXCEPT !.visible = X.visible]

\* The displacement of the variables of the body is not taken back.
EndSwitch ==
    /\ Do("endswitch") /\ Done /\ SameNodes /\ Keep
    /\ enc' = [emit_label_declaration(enc, enc.label_break) EXCEPT !.label_break = X.old_break, !.visible = X.visible]

Enter(e, num, continue) == [e EXCEPT !.label_continue = continue, !.label_break = Label("END", num)]
Leave(e, saved) == [e EXCEPT !.label_continue = saved.old_continue, !.label_break = saved.old_break]

BeginWhile ==
    /\ BeginStmt("while")
    /\ LET n == enc.label_num
           begin == Label("BEGIN_CYCLE", n)
       IN  /\ enc' = emit_label_declaration(Enter(TakeLabel(enc), n, begin), begin)
           /\ Then(<<Expr("int"), With("leave", n), Stmt, With("endwhile", Saved(enc, n, begin))>>)

\* A false condition leaves the loop.
LeaveBranch ==
    /\ Do("leave") /\ Done /\ SameNodes
    /\ enc' = free_rvalue(emit_conditional_branch(enc, First, Label("END", X)), First)
    /\ Use(1, <<>>)

EndWhile ==
    /\ Do("endwhile") /\ Done /\ SameNodes /\ Keep
    /\ enc' = Leave(emit_label_declaration(
                  emit_unconditional_branch(enc, Label("BEGIN_CYCLE", X.num)), Label("END", X.num)), X)

BeginDo ==
    /\ BeginStmt("do")
    /\ LET n == enc.label_num
       IN  /\ enc' = Enter(emit_label_declaration(TakeLabel(enc), Label("BEGIN_CYCLE", n)), n, Label("NEXT", n))
           /\ Then(<<Stmt, With("docondition", n), Expr("int"), With("enddo", Saved(enc, n, Label("NEXT", n)))>>)

DoCondition ==
    /\ Do("docondition") /\ Done /\ SameNodes /\ Keep
    /\ enc' = emit_label_declaration(enc, Label("NEXT", X))

EndDo ==
    /\ Do("enddo") /\ Done /\ SameNodes
    /\ enc' = Leave(free_rvalue(emit_label_declaration(
                  emit_conditional_branch(enc, First, Label("BEGIN_CYCLE", X.num)), Label("END", X.num)), First), X)
    /\ Use(1, <<>>)

\* The first part of the header is a statement of its own.
BeginFor(has_inition) ==
    /\ BeginStmt("for") /\ UNCHANGED enc
    /\ Then((IF has_inition THEN <<Stmt>> ELSE <<>>)
            \o <<With("for", [displ |-> enc.scope_displ, visible |-> enc.visible])>>)

\* continue leads to the condition, not to the increment.
EnterFor(has_condition, has_increment) ==
    /\ Do("for") /\ SameNodes /\ Keep
    /\ LET n == enc.label_num
           begin == Label("BEGIN_CYCLE", n)
           saved == [Saved(enc, n, begin) EXCEPT !.displ = X.displ, !.visible = X.visible]
       IN  /\ enc' = emit_label_declaration(Enter(TakeLabel(enc), n, begin), begin)
           /\ Then((IF has_condition THEN <<Expr("int"), With("leave", n)>> ELSE <<>>) \o <<Stmt>>
                   \o (IF has_increment THEN <<Void("int")>> ELSE <<>>) \o <<With("endfor", saved)>>)

EndFor ==
    /\ Do("endfor") /\ Done /\ SameNodes /\ Keep
    /\ enc' = [Leave(emit_label_declaration(
                  emit_unconditional_branch(enc, Label("BEGIN_CYCLE", X.num)), Label("END", X.num)), X)
               EXCEPT !.scope_displ = X.displ, !.visible = X.visible]

Loops == {"endwhile", "enddo", "endfor"}
Inside(ends) == \E i \in DOMAIN todo : todo[i].do \in ends

emit_continue_statement ==
    /\ BeginStmt("continue") /\ Inside(Loops) /\ Done
    /\ enc' = emit_unconditional_branch(enc, enc.label_continue)

emit_break_statement ==
    /\ BeginStmt("break") /\ Inside(Loops \cup {"endswitch"}) /\ Done
    /\ enc' = emit_unconditional_branch(enc, enc.label_break)

BeginReturn(has_expression) ==
    /\ BeginStmt("return") /\ UNCHANGED enc
    /\ Then((IF has_expression THEN <<Expr("int"), With("store", Variable(Returned("int"), "int"))>> ELSE <<>>)
            \o <<Item("return")>>)

EndReturn ==
    /\ Do("return") /\ Done /\ SameNodes /\ Keep
    /\ enc' = emit_unconditional_branch(enc, Label("FUNCEND", enc.function))

-----------------------------------------------------------------------------
(* The program *)

\* Where emit_function_definition finds parameter i: in a register, or at a displacement
\* from $fp, which is FUNC_DISPL_PRESERVED + WORD_LENGTH below the $sp of the caller.
ParameterPlace(types, i) ==
    LET before == Cardinality({j \in 1..i - 1 : (types[j] = "float") = (types[i] = "float")})
    IN  IF types[i] = "float"
        THEN IF before < ARG_REG_AMOUNT \div 2 THEN <<"fa", 2 * before>>
             ELSE <<"frame", (i - 1) * WORD_LENGTH + FUNC_DISPL_PRESERVED + WORD_LENGTH>>
        ELSE IF before < ARG_REG_AMOUNT THEN <<"a", before>>
             ELSE <<"frame", (i - 1) * WORD_LENGTH + FUNC_DISPL_PRESERVED + WORD_LENGTH>>

Parameter(types, i) ==
    LET place == ParameterPlace(types, i)
    IN  IF place[1] = "frame" THEN Stack(R_FP, place[2], types[i]) ELSE Variable(place, types[i])

\* The first functions have statements and the others none.  The frame is laid out anew
\* for every function, and its prologue is emitted when the body is known.
BeginFunction ==
    /\ Do("unit") /\ SameNodes /\ Keep
    /\ LET f == Cardinality({l \in enc.declared : l[1] = "FUNC"}) + 1
           types == Functions[f]
       IN  /\ f \in DOMAIN Functions
           /\ enc' = [emit_label_declaration(enc, Label("FUNC", f)) EXCEPT
                          !.function = f, !.max_displ = 0, !.scope_displ = 0,
                          !.visible = @ \cup {Parameter(types, i) : i \in DOMAIN types}]
           /\ Then((IF f <= MaxBodies THEN <<Stmt, Stmt>> ELSE <<>>) \o <<With("endfunction", enc.visible), Item("unit")>>)

EndFunction ==
    /\ Do("endfunction") /\ Done /\ SameNodes /\ Keep
    /\ enc' = [emit_label_declaration(enc, Label("FUNCEND", enc.function)) EXCEPT !.function = 0, !.visible = X]

GlobalDeclaration ==
    /\ Do("unit") /\ Keep /\ NewNode /\ UNCHANGED enc
    /\ ~\E l \in enc.declared : l[1] = "FUNC"
    /\ Then(<<Item("declare"), Item("unit")>>)

\* Every function that is called is defined.
EndUnit ==
    /\ Do("unit") /\ Done /\ SameNodes /\ Keep /\ UNCHANGED enc
    /\ \A f \in DOMAIN Functions : Label("FUNC", f) \in enc.declared

\* A string is cut into pieces behind its conversion specifications.
Pieces == UNION {{s} \X (0..Strings[s]) : s \in DOMAIN Strings}

strings_declaration(e) ==
    [e EXCEPT !.declared = {StringLabel(p[1], p[2]) : p \in Pieces},
              !.twice = \E p, q \in Pieces : p # q /\ StringLabel(p[1], p[2]) = StringLabel(q[1], q[2])]

Init ==
    /\ enc = strings_declaration(
             [registers |-> {}, got |-> <<"none", 0>>, ok |-> TRUE,
              label_num |-> 1, case_label_num |-> 1, label_continue |-> NoLabel, label_break |-> NoLabel,
              scope_displ |-> 0, max_displ |-> 0, global_displ |-> 0, function |-> 0,
              variable |-> RVALUE_VOID, visible |-> {}, sp |-> 0,
              declared |-> {}, twice |-> FALSE, used |-> {},
              call |-> [f |-> 0, places |-> <<>>, saves |-> <<>>, restores |-> <<>>]])
    /\ vals = <<>>
    /\ todo = <<Item("unit")>>
    /\ nodes = 0

NextLvalue ==
    \/ LvalueExpression \/ LoadLvalue \/ ForgetLvalue \/ emit_identifier_lvalue
    \/ BeginSubscript \/ emit_subscript_lvalue
    \/ \E arrow \in BOOLEAN : BeginMember(arrow)
    \/ emit_member_lvalue \/ BeginIndirection \/ emit_indirection_lvalue

NextExpression ==
    \/ emit_void_expression \/ DropValue \/ emit_literal_expression
    \/ BeginPrintf \/ PrintArgument \/ EndPrintf \/ BuiltinCall
    \/ BeginCall \/ PassArgument \/ JumpToFunction \/ RestoreArgument \/ EndCall \/ emit_member_expression
    \/ BeginCast \/ emit_cast_expression
    \/ \E prefix \in BOOLEAN : BeginIncrement(prefix)
    \/ emit_increment_expression \/ BeginUnary \/ EndUnary \/ BeginAddress \/ EndAddress \/ BeginUpb \/ EndUpb
    \/ BeginBinary \/ EndBinary \/ BeginLogical \/ LogicalBranch \/ EndLogical
    \/ BeginTernary \/ TernaryBranch \/ TernaryElse \/ EndTernary
    \/ BeginAssignment \/ emit_assignment_expression
    \/ BeginStructAssignment \/ emit_struct_assignment \/ emit_structure_init \/ EndStructureInit \/ StoreValue

NextDeclaration ==
    \/ \E type \in Types, initialised \in BOOLEAN : emit_variable_declaration(type, initialised)
    \/ \E dim \in 1..2, initialised \in BOOLEAN : emit_array_declaration(dim, initialised)
    \/ BoundExpression \/ LoadBound \/ InitializeArray \/ emit_array_init \/ BeginRow \/ StoreElement
    \/ BeginFunction \/ EndFunction \/ GlobalDeclaration \/ EndUnit

NextStatement ==
    \/ emit_declaration_statement \/ NothingEmitted
    \/ \E type \in {"int", "struct"} : emit_expression_statement(type)
    \/ BeginCompound \/ EndCompound
    \/ \E has_else \in BOOLEAN : BeginIf(has_else)
    \/ IfBranch \/ IfElse \/ EndIf
    \/ BeginSwitch \/ SwitchCondition \/ SwitchTest \/ SwitchJump \/ LabelStatement \/ EndSwitch
    \/ BeginWhile \/ LeaveBranch \/ EndWhile \/ BeginDo \/ DoCondition \/ EndDo
    \/ \E has_inition \in BOOLEAN : BeginFor(has_inition)
    \/ \E has_condition, has_increment \in BOOLEAN : EnterFor(has_condition, has_increment)
    \/ EndFor \/ emit_continue_statement \/ emit_break_statement
    \/ \E has_expression \in BOOLEAN : BeginReturn(has_expression)
    \/ EndReturn

Next == NextLvalue \/ NextExpression \/ NextDeclaration \/ NextStatement

Spec == Init /\ [][Next]_vars

-----------------------------------------------------------------------------
(* Properties *)

Slots == ({"t"} \X (0..TempRegs - 1)) \cup ({"ft"} \X (0..FloatRegs - 1))

InnermostOf(ends) ==
    IF Inside(ends) THEN {todo[Min({i \in DOMAIN todo : todo[i].do \in ends})].x} ELSE {}

\* No label is declared twice, though comparisons, statements, case labels and string pieces
\* draw their numbers from shared counters, and every label a branch names is declared in the
\* end (error belongs to the run-time library).  label_break and label_continue always belong
\* to the innermost loop or switch under emission, although they are two fields that every
\* statement saves and restores.
JumpTargets ==
    /\ ~enc.twice
    /\ todo = <<>> => enc.used \ enc.declared \subseteq {Label("error", 0)}
    /\ \A s \in InnermostOf(Loops \cup {"endswitch"}) : enc.label_break = s.break
    /\ \A s \in InnermostOf(Loops) : enc.label_continue = s.continue
    /\ ~Inside(Loops \cup {"endswitch"}) => enc.label_break = NoLabel /\ enc.label_continue = NoLabel

\* A value in a temporary, or an address of a scalar in one.
Held(v) ==
    /\ IsTemp(v.reg)
    /\ \/ v.kind = "reg" /\ ~v.from_lvalue
       \/ v.kind = "stack" /\ v.type \notin Structures

\* Values that are pending at the same time are in different temporaries, and the
\* encoder knows them to be taken, so that nothing loaded in between overwrites one; only
\* registers that exist are taken.
TempsApart ==
    /\ enc.registers \subseteq Slots
    /\ enc.ok => \A i, j \in DOMAIN vals :
         Held(vals[i]) /\ Held(vals[j]) =>
             /\ SlotOf(vals[i].reg) \in enc.registers
             /\ vals[i].reg = vals[j].reg => i = j

Bytes(v) == v.n..v.n + mips_type_size[v.type] - 1
OnFrame == {v \in enc.visible : v.reg = R_FP /\ v.kind = "stack"}

\* No function takes a structure: emit_function_definition leaves one a single word on
\* the stack, so that the next parameter lies in it.
WordParameters ==
    \A f \in DOMAIN Functions : \A i \in DOMAIN Functions[f] : Functions[f][i] \notin Structures

\* Variables visible at the same time share no byte of the frame; locals lie between
\* $sp and $fp and parameters above the registers saved there.
FrameLayout ==
    /\ \A v, w \in OnFrame : v # w => Bytes(v) \cap Bytes(w) = {}
    /\ \A v \in OnFrame : \/ Bytes(v) \subseteq -enc.max_displ..-1
                          \/ v.n >= WORD_LENGTH + FUNC_DISPL_PRESERVED

\* A call leaves every argument where the function it calls looks for it, and reads
\* back into every argument register what it saved from it.
ArgumentsMeetParameters ==
    enc.call.f # 0 =>
        /\ enc.call.restores = enc.call.saves
        /\ \A i \in DOMAIN enc.call.places :
              LET place == enc.call.places[i]
                  parameter == ParameterPlace(Functions[enc.call.f], i)
              IN  IF place[1] = "stack"
                  THEN parameter = <<"frame", place[2] + FUNC_DISPL_PRESERVED + WORD_LENGTH>>
                  ELSE parameter = place
=============================================================================
