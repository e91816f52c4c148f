-------------------------------- MODULE Llvm --------------------------------
(***************************************************************************)
(* The LLVM generator (libs/compiler/llvmgen.c): how it numbers registers, *)
(* labels and blocks, and what it answers about the place of a value,      *)
(* while it walks the syntax tree.                                         *)
(*                                                                         *)
(* The recursion is unrolled: todo is the C stack, its head is done next,  *)
(* and vals are the locals of unfinished functions, newest first.  The     *)
(* program is chosen while it is emitted.  An instruction is the register  *)
(* it defines, the registers it reads and the blocks it may continue with; *)
(* what LLVM would refuse is recorded in info.faults.                      *)
(***************************************************************************)
EXTENDS Integers, Sequences, FiniteSets, SequencesExt

CONSTANTS
    Functions,      \* the functions defined, [params, void, main, nodes], nodes a bound on its body
    Globals,        \* the global declarations, over {"scalar", "list", "table"}
    Callees,        \* what may be called, [name, args, void, builtin, pointer]
    Bodies,         \* bodies of a switch, over {"case", "default", "break"}
    Statements,     \* the statements, expressions, declarations and operands used
    Expressions,
    Declarations,
    Operands,
    ValuesInDo,     \* whether && and || are values where a do or a for has yet to branch
    MaxNodes,       \* bound on the statements and expressions of the program
    MaxSwitches     \* bound on the switches of a function, see emit_switch_statement

VARIABLES
    info,           \* the encoder, see Init
    vals,           \* saved locals
    todo,           \* what is left to do
    nodes           \* nodes of the tree so far

vars == <<info, vals, todo, nodes>>

ElementTypes == {"int", "bool", "char", "float", "ptr", "null", "array", "string"}

ASSUME LlvmAssumption ==
    /\ Functions \in Seq([params: Seq(ElementTypes), void: BOOLEAN, main: BOOLEAN, nodes: Nat])
    /\ Globals \in Seq({"scalar", "list", "table"})
    /\ \A f \in Callees : f.args \in Seq(ElementTypes)
    /\ \A b \in Bodies : b \in Seq({"case", "default", "break"}) /\ b # <<>>
    /\ Operands \subseteq ElementTypes \X ElementTypes
    /\ ValuesInDo \in BOOLEAN
    /\ {MaxNodes, MaxSwitches} \subseteq Nat

-----------------------------------------------------------------------------
(* Instructions *)

\* Blocks that have no label: the first one, and what follows a terminator.
Entry == 1000
Dead == 1001

Fault(i, refused, what) == IF refused THEN [i EXCEPT !.faults = @ \cup {what}] ELSE i

Reads(i, regs) == Fault(i, ~(regs \subseteq i.defined), "undefined")

\* %.register_num = ..., of the registers regs
Define(i, regs) ==
    LET j == Reads(i, regs)
    IN  Fault([j EXCEPT !.defined = @ \cup {i.register_num}], i.register_num \in i.defined, "redefined")

Advance(i) == [i EXCEPT !.register_num = @ + 1]
Newest(i) == i.register_num - 1

to_code_operation_reg_reg(i, fst, snd) == Advance(Define(i, {fst, snd}))
to_code_operation_reg_const_integer(i, fst) == Advance(Define(i, {fst}))
to_code_operation_const_reg_integer(i, snd) == Advance(Define(i, {snd}))
to_code_operation_reg_null(i, fst) == Advance(Define(i, {fst}))
to_code_operation_null_reg(i, snd) == Advance(Define(i, {snd}))
to_code_char_to_int(i, reg) == Advance(Define(i, {reg}))

\* The address is a register or, for a variable, nothing.
to_code_load(i, address) == Advance(Define(i, address))
to_code_store_reg(i, reg, address) == Reads(i, {reg} \cup address)
to_code_store_const_integer(i, address) == Reads(i, address)

\* The answer is the newest register.
Answer(i, kind) == [i EXCEPT !.kind = kind, !.reg = Newest(i)]

at(i, location) == [i EXCEPT !.location = location]

\* The register of the answer is used, so it must be one.
Answered(i) == Fault(Reads(i, {i.reg}), i.kind \notin {"AREG", "ALOGIC"}, "undefined")

to_code_label(i, label) ==
    LET j == Fault(Fault(i, label \in i.declared, "twice"), i.block # Dead, "open")
    IN  [j EXCEPT !.declared = @ \cup {label}, !.block = label]

\* A terminator
Leave(i, labels) ==
    [i EXCEPT !.used = @ \cup labels, !.edges = @ \cup {<<i.block, l>> : l \in labels}, !.block = Dead]

to_code_unconditional_branch(i, label) == Leave(i, {label})
to_code_conditional_branch(i) == Leave(Reads(i, {i.reg}), {i.label_true, i.label_false})

\* The state of the stack is kept in %dyn.index.
to_code_stack_save(i, index) ==
    Advance(Define(Fault([i EXCEPT !.was_stack_functions = TRUE, !.slots = @ \cup {index}, !.helpers = @ \cup {"stack"}],
                         index \in i.slots, "slot"), {}))

to_code_stack_load(i, index) ==
    Advance(Define(Fault([i EXCEPT !.was_stack_functions = TRUE, !.helpers = @ \cup {"stack"}],
                         index \notin i.slots, "slot"), {}))

\* An element or a row of array a; index is the answer.
to_code_slice(i, a, cur_dimension, prev_slice) ==
    Advance(Define(i, (IF cur_dimension = a.dimensions - 1 THEN {} ELSE {prev_slice})
                      \cup (IF i.kind = "AREG" THEN {i.reg} ELSE {})))

\* The size in bytes of an array with dynamic bounds
to_code_alloc_array_dynamic(i, a) ==
    IF a.dimensions = 1 THEN Reads(i, {a.bounds[1]})
    ELSE to_code_operation_reg_reg(i, a.bounds[1], a.bounds[2])

check_type_and_branch(i) ==
    LET test == IF i.kind = "AREG" THEN Answer(to_code_operation_reg_const_integer(i, i.reg), "AREG") ELSE i
    IN  CASE i.kind = "ACONST" -> to_code_unconditional_branch(i, IF i.const THEN i.label_true ELSE i.label_false)
          [] i.kind \in {"AREG", "ALOGIC"} /\ i.location = "LNOLOG" -> to_code_unconditional_branch(test, i.label_false)
          [] i.kind \in {"AREG", "ALOGIC"} /\ i.location # "LNOLOG" -> to_code_conditional_branch(test)
          [] OTHER -> i

TakeLabels(i, n) == [i EXCEPT !.label_num = @ + n]

-----------------------------------------------------------------------------
(* The unrolled recursion *)

Item(do) == [do |-> do]
With(do, x) == [do |-> do, x |-> x]

\* A request for an expression of a class of "of", as a condition or not, and inside
\* the operand of a ternary or not.
Expr(type) == [do |-> "expr", type |-> type, of |-> Expressions, cond |-> FALSE, inner |-> FALSE]
Cond(type) == [Expr(type) EXCEPT !.cond = TRUE]
Stmt == Item("stmt")

Do(what) == todo # <<>> /\ Head(todo).do = what
X == Head(todo).x
T == Head(todo).type

\* Operands of the expression that is emitted.  The builder folds literals, so operators
\* expect an answer in a register; what else may be constant is not used with them.
Registers == Expressions \ {"literal", "assignment", "list", "comma", "string"}
Sub(type) == [Expr(type) EXCEPT !.inner = Head(todo).inner]
SubOf(type, classes) == [Sub(type) EXCEPT !.of = classes]
NonLiteral(type) == SubOf(type, Registers)
Lvalue(type) == SubOf(type, {"subscript", "member", "indirection"})

Then(items) == todo' = items \o Tail(todo)
Done == Then(<<>>)

Push(v) == vals' = <<v>> \o vals
Pop(n) == vals' = SubSeq(vals, n + 1, Len(vals))
Keep == UNCHANGED vals

Room == nodes < MaxNodes /\ nodes < info.limit
NewNode == Room /\ nodes' = nodes + 1
SameNodes == UNCHANGED nodes

\* A branch of a ternary may be a ternary, but contain none (see emit_ternary_expression).
Begin(class, types) ==
    /\ Do("expr") /\ class \in Head(todo).of /\ T \in types
    /\ class = "ternary" /\ Head(todo).inner => Head(todo).of = {"ternary"}
    /\ IF class \in {"identifier", "literal"} THEN SameNodes ELSE NewNode

-----------------------------------------------------------------------------
(* Expressions *)

\* In memory: the variable is a pointer and what it points to is loaded.
emit_identifier_expression ==
    /\ Begin("identifier", {"int", "bool", "char", "float", "ptr"}) /\ Done /\ Keep
    /\ LET p == at(to_code_load(info, {}), "LREG")
       IN  info' = Answer(IF info.location = "LMEM" THEN to_code_load(p, {Newest(p)}) ELSE to_code_load(info, {}), "AREG")

\* An array is the address of its first element.
ArrayIdentifier ==
    /\ Begin("identifier", {"array"}) /\ Done /\ Keep
    /\ \E a \in info.arrays :
          info' = Answer(to_code_slice([info EXCEPT !.kind = "ACONST"], a, a.dimensions - 1, 0), "AREG")

\* In memory: the constant is stored and the register of the answer is what it was.
emit_literal_expression ==
    /\ Begin("literal", {"int", "bool", "float", "null", "string"}) /\ Done /\ Keep
    /\ CASE T = "null" -> info' = [info EXCEPT !.kind = "ANULL"]
         [] T = "string" -> info' = [info EXCEPT !.kind = "ASTR"]
         [] T \in {"int", "bool", "float"} /\ info.location = "LMEM" -> info' = [info EXCEPT !.kind = "AREG"]
         [] T \in {"int", "bool", "float"} /\ info.location # "LMEM" ->
               \E c \in {TRUE, Head(todo).cond} : info' = [info EXCEPT !.kind = "ACONST", !.const = c]

BeginCast == Begin("cast", {"float"}) /\ Keep /\ UNCHANGED info /\ Then(<<NonLiteral("int"), Item("cast")>>)

emit_cast_expression ==
    /\ Do("cast") /\ Done /\ Keep /\ SameNodes
    /\ LET i == Advance(Define(Answered(info), {info.reg})) IN info' = [i EXCEPT !.reg = Newest(i)]

\* The indices of a, from the first
Indices(a, n) ==
    [k \in 1..3 * n |-> CASE k % 3 = 1 -> Item("index")
                         [] k % 3 = 2 -> Sub("int")
                         [] OTHER -> With("slice", [a |-> a, cur |-> a.dimensions - k \div 3])]

BeginSubscript ==
    /\ Begin("subscript", {"int"}) /\ Keep /\ UNCHANGED info
    /\ \E a \in info.arrays : Then(Indices(a, a.dimensions) \o <<With("element", info.location)>>)

\* A row of a: the indices but the last.
BeginRow ==
    /\ Begin("subscript", {"array"}) /\ Keep /\ UNCHANGED info
    /\ \E a \in info.arrays : a.dimensions > 1 /\ Then(Indices(a, a.dimensions - 1) \o <<With("row", a)>>)

\* The slice so far is the newest register, before the index is emitted.
BeginIndex == Do("index") /\ Done /\ SameNodes /\ Push(Newest(info)) /\ info' = at(info, "LFREE")

emit_one_dimension_subscript ==
    /\ Do("slice") /\ Done /\ SameNodes /\ Pop(1)
    /\ info' = to_code_slice(info, X.a, X.cur, vals[1])

emit_subscript_expression ==
    /\ Do("element") /\ Done /\ SameNodes /\ Keep
    /\ info' = Answer(IF X = "LMEM" THEN info ELSE to_code_load(info, {Newest(info)}), "AREG")

RowAddress ==
    /\ Do("row") /\ Done /\ SameNodes /\ Keep
    /\ info' = Answer(to_code_slice([info EXCEPT !.kind = "ACONST"], X, 0, Newest(info)), "AREG")

\* "abc"[i] answers i.
StringSubscript == Begin("string", {"int"}) /\ Keep /\ UNCHANGED info /\ Then(<<NonLiteral("int")>>)

\* A function that is not local is loaded from a variable.
BeginCall ==
    /\ Begin("call", {"int", "void"})
    /\ \E f \in Callees :
          /\ f.void = (T = "void")
          /\ LET i == [info EXCEPT !.was_function = IF f.builtin THEN @ \cup {f.name} ELSE @]
                 j == IF f.pointer THEN to_code_load(i, {}) ELSE i
             IN  info' = IF f.args = <<>> THEN j ELSE at(j, "LFREE")
          /\ IF f.pointer THEN Push(info.register_num) ELSE Keep
          /\ Then([k \in 1..2 * Len(f.args) |-> IF k % 2 = 1 THEN Sub(f.args[(k + 1) \div 2]) ELSE Item("argument")]
                  \o <<With("call", f)>>)

PassArgument ==
    /\ Do("argument") /\ Done /\ SameNodes
    /\ Push(IF info.kind \in {"AREG", "ALOGIC"} THEN info.reg ELSE 0)
    /\ info' = IF Head(Tail(todo)).do = "call" THEN info ELSE at(info, "LFREE")

\* round calls llvm.round and converts the result.
emit_call_expression ==
    /\ Do("call") /\ Done /\ SameNodes
    /\ LET n == Len(X.args) + (IF X.pointer THEN 1 ELSE 0)
           i == Reads([info EXCEPT !.helpers = IF X.builtin THEN @ \cup {X.name} ELSE @], {vals[k] : k \in 1..n} \ {0})
           j == IF X.void THEN i ELSE Answer(Advance(Define(i, {})), "AREG")
       IN  /\ info' = IF X.name = "round" THEN Answer(Advance(Define(j, {j.reg})), "AREG") ELSE j
           /\ Pop(n)

\* Mutant: the address in memory does not take a register number.
Member_Shared(i, is_complex) ==
    LET field == Define(i, IF is_complex THEN {Newest(i)} ELSE {})
    IN  IF i.location = "LMEM" THEN [field EXCEPT !.reg = i.register_num]
        ELSE Answer(to_code_load(Advance(field), {i.register_num}), "AREG")

\* The address of a member, and unless that is asked for, its value.
Member(i, is_complex) ==
    LET field == Advance(Define(i, IF is_complex THEN {Newest(i)} ELSE {}))
    IN  IF i.location = "LMEM" THEN [field EXCEPT !.reg = Newest(field)]
        ELSE Answer(to_code_load(field, {Newest(field)}), "AREG")

\* s.m and p->m
emit_member_expression(arrow) ==
    /\ Begin("member", {"int"}) /\ Done /\ Keep
    /\ info' = Member(IF arrow THEN to_code_load(info, {}) ELSE info, arrow)

\* a[i].m, s.t.m and f().m: the base is asked for in memory.
BeginMemberOf(base) ==
    /\ Begin("member", {"int"}) /\ Keep
    /\ info' = at(info, "LMEM")
    /\ \/ /\ base \in {"subscript", "member"}
          /\ Then(<<SubOf("int", {base}), With("member", info.location)>>)
       \/ base = "call" /\ Then(<<SubOf("int", {"call"}), With("extract", info.location)>>)

MemberOf == Do("member") /\ Done /\ SameNodes /\ Keep /\ info' = Member(at(info, X), TRUE)

ExtractMember ==
    /\ Do("extract") /\ Done /\ SameNodes /\ Keep
    /\ info' = LET i == Advance(Define(at(info, X), {Newest(info)})) IN [i EXCEPT !.reg = Newest(i)]

\* x++, ++x of a variable, and of what has to be asked for in memory.
BeginIncrement(prefix, is_complex) ==
    /\ Begin("increment", {"int"}) /\ Keep
    /\ info' = IF is_complex THEN at(info, "LMEM") ELSE info
    /\ Then((IF is_complex THEN <<Lvalue("int")>> ELSE <<>>)
            \o <<With("increment", [prefix |-> prefix, is_complex |-> is_complex])>>)

emit_inc_dec_expression ==
    /\ Do("increment") /\ Done /\ SameNodes /\ Keep
    /\ LET address == IF X.is_complex THEN {info.reg} ELSE {}
           old == Answer(to_code_load(info, address), "AREG")
           new == to_code_operation_reg_const_integer(old, Newest(old))
       IN  info' = to_code_store_reg(IF X.prefix THEN Answer(new, "AREG") ELSE new, Newest(new), address)

BeginMinus ==
    Begin("minus", {"int"}) /\ Keep /\ info' = at(info, "LREG") /\ Then(<<NonLiteral("int"), Item("minus")>>)

EndMinus ==
    /\ Do("minus") /\ Done /\ SameNodes /\ Keep
    /\ info' = Answer(to_code_operation_const_reg_integer(Answered(info), info.reg), "AREG")

\* The labels are exchanged, and not back.
BeginNegation ==
    /\ Begin("negation", {"bool"}) /\ Head(todo).cond /\ Keep
    /\ info' = [info EXCEPT !.label_true = info.label_false, !.label_false = info.label_true]
    /\ \E t \in {"int", "bool"} : Then(<<[NonLiteral(t) EXCEPT !.cond = TRUE], With("negation", t)>>)

\* An integer is branched on at once and what follows is dead code.
EndNegation ==
    /\ Do("negation") /\ Done /\ SameNodes /\ Keep
    /\ info' = IF info.kind # "AREG" THEN info
               ELSE LET i == IF X = "int" THEN check_type_and_branch(info) ELSE info
                    IN  Answer(to_code_operation_reg_const_integer(i, i.reg), "AREG")

\* &x answers the number of the variable, not a register.
AddressOfVariable == Begin("address", {"ptr"}) /\ Done /\ Keep /\ info' = [info EXCEPT !.kind = "AMEM", !.reg = 0]

AddressOfElement ==
    /\ Begin("address", {"ptr"}) /\ Keep
    /\ info' = at([info EXCEPT !.kind = "AMEM"], "LMEM")
    /\ Then(<<Lvalue("int")>>)

\* *p in memory is the value of p.
emit_indirection ==
    /\ Begin("indirection", {"int"}) /\ Done /\ Keep
    /\ LET p == to_code_load(info, {})
       IN  info' = at(Answer(IF info.location = "LMEM" THEN p ELSE to_code_load(p, {Newest(p)}), "AREG"), "LREG")

AbsUsed(i) == [i EXCEPT !.was_abs = TRUE, !.helpers = @ \cup {"abs"}]

BeginAbs == Begin("abs", {"int", "float"}) /\ Keep /\ info' = at(info, "LFREE") /\ Then(<<NonLiteral(T), With("abs", T)>>)

EndAbs ==
    /\ Do("abs") /\ Done /\ SameNodes /\ Keep
    /\ LET i == IF X = "int" THEN AbsUsed(info) ELSE [info EXCEPT !.was_fabs = TRUE, !.helpers = @ \cup {"fabs"}]
       IN  info' = Answer(Advance(Define(Answered(i), {i.reg})), "AREG")

\* The bounds of a dynamic array are registers; those of a parameter are not known.
emit_upb ==
    /\ Begin("upb", {"int"}) /\ Done /\ Keep
    /\ \E a \in {a \in info.arrays : ~a.parameter} :
          info' = CASE a.is_static -> Answer(Advance(Define(info, {})), "AREG")
                    [] ~a.is_static /\ a.dimensions > 1 ->
                          Answer(to_code_operation_reg_reg(info, a.bounds[1], a.bounds[2]), "AREG")
                    [] OTHER -> [info EXCEPT !.kind = "AREG", !.reg = a.bounds[1]]

BeginIntegral ==
    /\ \/ Begin("integral", {"int"})
       \/ Begin("comparison", {"bool"})
    /\ Keep /\ info' = at(info, "LFREE")
    /\ \E types \in Operands :
          /\ T = "int" => types \notin {<<"ptr", "null">>, <<"float", "float">>}
          /\ Then(<<IF types[1] = "ptr" THEN SubOf("ptr", {"identifier"}) ELSE Sub(types[1]), With("right", Sub(types[2])),
                    With("integral", [types |-> types, kind |-> IF T = "bool" THEN "ALOGIC" ELSE "AREG"])>>)

\* The builder has folded two literals.
RightOperand ==
    /\ Do("right") /\ SameNodes
    /\ Push([kind |-> info.kind, reg |-> info.reg])
    /\ info' = at(info, "LFREE")
    /\ Then(<<IF info.kind = "ACONST" THEN [X EXCEPT !.of = Registers] ELSE X>>)

\* Characters are widened; two of them are compared as they are.
emit_integral_expression ==
    /\ Do("integral") /\ Done /\ SameNodes /\ Pop(1)
    /\ LET left == vals[1]
           right == [kind |-> info.kind, reg |-> info.reg]
           wide_left == X.types = <<"char", "int">> /\ left.kind # "ACONST"
           wide_right == X.types = <<"int", "char">> /\ right.kind # "ACONST"
           i == CASE wide_left -> to_code_char_to_int(info, left.reg)
                  [] wide_right -> to_code_char_to_int(info, right.reg)
                  [] OTHER -> info
           fst == IF wide_left THEN Newest(i) ELSE left.reg
           snd == IF wide_right THEN Newest(i) ELSE right.reg
           j == CASE <<left.kind, right.kind>> = <<"AREG", "AREG">> -> to_code_operation_reg_reg(i, fst, snd)
                  [] <<left.kind, right.kind>> = <<"AREG", "ACONST">> -> to_code_operation_reg_const_integer(i, fst)
                  [] <<left.kind, right.kind>> = <<"ACONST", "AREG">> -> to_code_operation_const_reg_integer(i, snd)
                  [] <<left.kind, right.kind>> = <<"AREG", "ANULL">> -> to_code_operation_reg_null(i, fst)
                  [] <<left.kind, right.kind>> = <<"ANULL", "AREG">> -> to_code_operation_null_reg(i, snd)
                  [] OTHER -> Advance(i)
       IN  info' = Answer(IF X.types = <<"char", "char">> /\ X.kind = "AREG" THEN to_code_char_to_int(j, Newest(j)) ELSE j,
                          X.kind)

\* What may be assigned: to an integer also a character, to a pointer also null.
Assignable(type) == {type} \cup (CASE type = "int" -> {"char"} [] type = "ptr" -> {"null"} [] OTHER -> {})

\* The answer to &x is not in a register, and is not handed on by another assignment.
Value(type, inner) ==
    [Expr(type) EXCEPT !.inner = inner, !.of = IF type = "ptr" THEN @ \ {"assignment"} ELSE @]

\* A boolean is assigned where && and || have no labels to go to.
BeginAssignment(compound, is_complex) ==
    /\ Begin("assignment", {"int", "bool", "ptr"}) /\ Keep
    /\ compound \/ is_complex => T = "int"
    /\ info' = at(info, IF is_complex THEN "LMEM" ELSE "LNOLOG")
    /\ \E from \in IF compound THEN {"int"} ELSE Assignable(T) :
          Then((IF is_complex THEN <<Lvalue(T), Item("target")>> ELSE <<>>)
               \o <<Value(from, Head(todo).inner), With("assign", [compound |-> compound, is_complex |-> is_complex, type |-> T, from |-> from])>>)

Target == Do("target") /\ Done /\ SameNodes /\ Push(info.reg) /\ info' = at(info, "LNOLOG")

emit_assignment_expression ==
    /\ Do("assign") /\ Done /\ SameNodes
    /\ LET address == IF X.is_complex THEN {vals[1]} ELSE {}
           widen == X.type = "int" /\ X.from = "char" /\ info.kind # "ACONST"
           i == IF widen THEN to_code_char_to_int(info, info.reg) ELSE info
           old == to_code_load(i, address)
           new == [(IF i.kind = "AREG" THEN to_code_operation_reg_reg(old, Newest(old), i.reg)
                    ELSE to_code_operation_reg_const_integer(old, Newest(old))) EXCEPT !.kind = "AREG"]
           j == IF X.compound THEN new ELSE i
           result == IF X.compound \/ widen THEN Newest(j) ELSE info.reg
       IN  /\ info' = CASE j.kind \in {"AREG", "ALOGIC"} ->
                              [to_code_store_reg(j, result, address) EXCEPT !.kind = "AREG", !.reg = result]
                        [] j.kind = "AMEM" -> [j EXCEPT !.kind = "AREG"]
                        [] OTHER -> to_code_store_const_integer(j, address)
           /\ IF X.is_complex THEN Pop(1) ELSE Keep

\* a[i] = {1, 2}: the members are stored through the newest register.
AssignList ==
    /\ Begin("list", {"int"}) /\ Keep /\ info' = at(info, "LMEM")
    /\ Then(<<Lvalue("int"), Item("list")>>)

\* A list of two members, each with an address of its own.
Initializer(i) ==
    LET Store(j) == Advance(Define(j, {Newest(i)})) IN Store(Store(i))

emit_initializer_expression ==
    /\ Do("list") /\ Done /\ SameNodes /\ Keep
    /\ info' = [Initializer(at(info, "LFREE")) EXCEPT !.kind = "ACONST"]

\* Where the labels of a condition do not apply, two are taken and the value is a phi.
\* The right operand of such a value is neither constant nor again && or ||, whose labels
\* would take the place of these.
BeginLogical(or) ==
    /\ Begin("logical", {"bool"}) /\ Keep
    /\ Head(todo).cond = (info.location # "LNOLOG")
    /\ Head(todo).cond \/ ValuesInDo \/ \A k \in DOMAIN todo : todo[k].do \notin {"do_condition", "for_condition"}
    /\ LET value == info.location = "LNOLOG"
           fresh == info.label_num
           old_true == IF value THEN fresh ELSE info.label_true
           old_false == IF value THEN fresh + 1 ELSE info.label_false
           next == IF value THEN fresh + 2 ELSE fresh
           x == [or |-> or, value |-> value, old_true |-> old_true, old_false |-> old_false, next |-> next,
                 right |-> [Sub("int") EXCEPT !.cond = ~value,
                                              !.of = IF value THEN Registers \ {"logical"} ELSE @]]
       IN  /\ info' = [TakeLabels(info, IF value THEN 3 ELSE 1) EXCEPT
                           !.label_true = IF ~or THEN next ELSE IF value THEN old_false ELSE old_true,
                           !.label_false = IF or THEN next ELSE old_false,
                           !.location = IF value THEN "LNOLOG" ELSE "LFREE"]
           /\ \E t \in {"int", "bool"} :
                 Then(<<[Sub(t) EXCEPT !.cond = ~value], With("logical", x)>>)

LeftLogical ==
    /\ Do("logical") /\ SameNodes /\ Keep
    /\ LET i == IF ~X.value THEN info
                ELSE [info EXCEPT !.label_true = IF X.or THEN X.old_false ELSE X.next,
                                  !.label_false = IF X.or THEN X.next ELSE X.old_false]
           j == to_code_label(check_type_and_branch(at(i, "LFREE")), X.next)
       IN  info' = [j EXCEPT !.label_true = X.old_true, !.label_false = X.old_false,
                             !.location = IF X.value THEN "LNOLOG" ELSE "LFREE"]
    /\ \E t \in {"int", "bool"} :
          Then(<<[X.right EXCEPT !.type = t, !.of = IF info.kind = "ACONST" THEN @ \cap Registers ELSE @],
                 With("endlogical", X)>>)

\* The other predecessor of the phi is where the last one was, or the first block.
EndLogical ==
    /\ Do("endlogical") /\ Done /\ SameNodes /\ Keep
    /\ LET i == check_type_and_branch(at(info, IF X.value THEN "LNOLOG" ELSE "LFREE"))
           j == to_code_label(i, i.label_false)
       IN  info' = IF X.value
                   THEN [Answer(Advance(Define(j, {Newest(j)})), "AREG") EXCEPT !.label_phi_previous = j.label_false]
                   ELSE [i EXCEPT !.kind = "ALOGIC"]

Comma == Begin("comma", {"int"}) /\ Keep /\ UNCHANGED info /\ Then(<<Sub("int"), Sub("int")>>)

BeginTernary ==
    /\ Begin("ternary", {"int"}) /\ Keep
    /\ \E then_is_ternary, else_is_ternary \in BOOLEAN, t \in {"int", "bool"} :
          LET x == [old_true |-> info.label_true, old_false |-> info.label_false, label_then |-> info.label_num,
                    label_else |-> info.label_num + 1, label_end |-> info.label_num + 2,
                    then_is_ternary |-> then_is_ternary, else_is_ternary |-> else_is_ternary]
              branch(is_ternary) ==
                  [Expr("int") EXCEPT !.inner = TRUE, !.of = IF is_ternary THEN {"ternary"} ELSE @ \ {"ternary"}]
          IN  /\ info' = [TakeLabels(info, 3) EXCEPT !.label_true = x.label_then, !.label_false = x.label_else,
                                                     !.location = "LFREE"]
              /\ Then(<<[Sub(t) EXCEPT !.cond = TRUE], With("then", x.label_then), branch(then_is_ternary),
                        With("else", x), branch(else_is_ternary), With("ternary", x)>>)

\* The condition of a statement or a ternary is branched on.
BeginBranch ==
    /\ Do("then") /\ Done /\ SameNodes /\ Keep
    /\ info' = at(to_code_label(check_type_and_branch(info), X), "LFREE")

\* Mutant: a branch is taken to end in the block where it begins.
Ends_Begin(label, is_ternary) == label

\* The block that a branch ends in: another one only if it is a ternary itself.
Ends(label, is_ternary) == IF is_ternary THEN info.label_ternary_end ELSE label

BeginElse ==
    /\ Do("else") /\ Done /\ SameNodes
    /\ Push([kind |-> info.kind, reg |-> info.reg, label |-> Ends(X.label_then, X.then_is_ternary)])
    /\ info' = at(to_code_label(to_code_unconditional_branch(info, X.label_end), X.label_else), "LFREE")

emit_ternary_expression ==
    /\ Do("ternary") /\ Done /\ SameNodes /\ Pop(1)
    /\ LET listed == {vals[1].label, Ends(X.label_else, X.else_is_ternary)}
           i == to_code_label(to_code_unconditional_branch(info, X.label_end), X.label_end)
           regs == (IF vals[1].kind = "AREG" THEN {vals[1].reg} ELSE {}) \cup (IF info.kind = "AREG" THEN {info.reg} ELSE {})
           j == Fault(i, listed # {e[1] : e \in {e \in i.edges : e[2] = X.label_end}}, "phi")
       IN  info' = [Answer(Advance(Define(j, regs)), "AREG") EXCEPT
                       !.label_true = X.old_true, !.label_false = X.old_false, !.label_ternary_end = X.label_end]

-----------------------------------------------------------------------------
(* Declarations *)

\* The elements of a list, two in every dimension.  Rows keep their slice in vals.
ElementsOf(a) ==
    LET elements == With("slot", [a |-> a, cur |-> 0])
        row == <<With("slot", [a |-> a, cur |-> 1]), elements, elements, Item("endrow")>>
    IN  IF a.dimensions = 1 THEN <<elements, elements>> ELSE row \o row

\* An element is an expression, or the list of a structure.
emit_one_dimension_initialization ==
    /\ Do("slot") /\ SameNodes /\ Push(info.register_num)
    /\ info' = at(to_code_slice([info EXCEPT !.kind = "ACONST"], X.a, X.cur, IF vals = <<>> THEN 0 ELSE vals[1]), "LFREE")
    /\ IF X.cur > 0 THEN Done
       ELSE \/ Then(<<Expr("int"), Item("store")>>)
            \/ Then(<<Item("list"), Item("store")>>)

EndRow == Do("endrow") /\ Done /\ SameNodes /\ Pop(1) /\ UNCHANGED info

StoreElement ==
    /\ Do("store") /\ Done /\ SameNodes /\ Pop(1)
    /\ info' = IF info.kind = "AREG" THEN to_code_store_reg(info, info.reg, {vals[1]})
               ELSE to_code_store_const_integer(info, {vals[1]})

MemberSlot == Do("field") /\ Done /\ SameNodes /\ Push(info.register_num) /\ info' = Advance(Define(info, {}))

Array(dimensions, bounds, parameter) ==
    [dimensions |-> dimensions, is_static |-> bounds = <<>> /\ ~parameter, bounds |-> bounds, parameter |-> parameter]

Declare(kind) == Do("declare") /\ kind \in Declarations /\ NewNode

\* int a; and int a = e;
DeclareScalar == Declare("scalar") /\ Done /\ Keep /\ UNCHANGED info

DeclareInitialized ==
    /\ Declare("initialized") /\ Keep /\ info' = at(info, "LFREE")
    /\ \E type \in {"int", "ptr"} : \E from \in Assignable(type) :
          Then(<<Value(from, FALSE), With("init", type = "int" /\ from = "char")>>)

\* An answer that is neither constant nor in a register is not stored.
StoreInitial ==
    /\ Do("init") /\ Done /\ SameNodes /\ Keep
    /\ LET i == IF X THEN [to_code_char_to_int(info, info.reg) EXCEPT !.reg = info.register_num] ELSE info
       IN  info' = IF i.kind = "AREG" THEN to_code_store_reg(i, i.reg, {}) ELSE i

\* struct s a = {e, e}; the place of the variable is not asked for again.
emit_initialization ==
    /\ Declare("record") /\ Keep /\ info' = at(info, "LFREE")
    /\ \/ Then(<<Item("field"), Expr("int"), Item("store"), Item("field"), Expr("int"), Item("store")>>)
       \/ Then(<<[Expr("int") EXCEPT !.of = {"call"}], With("init", FALSE)>>)

\* Literal bounds, or none and a list, or none and a string.
DeclareArray(dimensions) ==
    LET a == Array(dimensions, <<>>, FALSE)
        known == [at(info, "LFREE") EXCEPT !.kind = "ACONST", !.arrays = @ \cup {a}]
    IN  /\ Declare("array") /\ Keep
        /\ \/ info' = known /\ Done
           \/ info' = [info EXCEPT !.arrays = @ \cup {a}] /\ Then(ElementsOf(a))

DeclareString ==
    /\ Declare("string") /\ Done /\ Keep
    /\ LET a == Array(1, <<>>, FALSE)
           Store(i) == to_code_store_const_integer(to_code_slice([i EXCEPT !.kind = "ACONST"], a, 0, 0), {i.register_num})
       IN  info' = Store(Store([info EXCEPT !.arrays = @ \cup {a}]))

BeginDynamicArray(dimensions) ==
    /\ Declare("dynamic") /\ Keep /\ info' = at(info, "LFREE")
    /\ LET bound == <<[Expr("int") EXCEPT !.of = Registers], Item("bound")>>
       IN  Then((IF dimensions = 1 THEN bound ELSE bound \o bound) \o <<With("dynamic", dimensions)>>)

Bound == Do("bound") /\ Done /\ SameNodes /\ Push(info.reg) /\ info' = at(info, "LFREE")

\* The first dynamic array of a function saves the stack.
EndDynamicArray ==
    /\ Do("dynamic") /\ Done /\ SameNodes /\ Pop(X)
    /\ LET a == Array(X, IF X = 1 THEN <<vals[1]>> ELSE <<vals[2], vals[1]>>, FALSE)
           i == IF info.was_dynamic THEN info ELSE to_code_stack_save(info, -1)
       IN  info' = [to_code_alloc_array_dynamic(i, a) EXCEPT !.was_dynamic = TRUE, !.arrays = @ \cup {a}]

-----------------------------------------------------------------------------
(* Statements *)

Statement(kind) == Do("stmt") /\ kind \in Statements /\ NewNode
Block(num, is_function_body) == With("block", [num |-> num, is_function_body |-> is_function_body, empty |-> TRUE])

emit_declaration_statement == Statement("declaration") /\ Keep /\ UNCHANGED info /\ Then(<<Item("declare")>>)

\* Nothing says where the value is wanted.
Effects == {"assignment", "call", "increment", "list", "comma"}

ExpressionStatement ==
    /\ Do("stmt") /\ SameNodes /\ Keep /\ UNCHANGED info
    /\ \E t \in {"int", "bool", "ptr", "void"} : Then(<<[Expr(t) EXCEPT !.of = @ \cap Effects]>>)

emit_compound_statement ==
    /\ Statement("compound") /\ Keep
    /\ info' = to_code_stack_save([info EXCEPT !.block_num = @ + 1], info.block_num)
    /\ Then(<<Block(info.block_num, FALSE)>>)

Substatement ==
    /\ Do("block") /\ SameNodes /\ Keep /\ UNCHANGED info
    /\ Room
    /\ Then(<<Stmt, With("block", [X EXCEPT !.empty = FALSE])>>)

\* After the last of the statements; an empty block restores nothing.
EndBlock ==
    /\ Do("block") /\ Done /\ SameNodes /\ Keep
    /\ info' = IF X.empty \/ X.is_function_body THEN info ELSE to_code_stack_load(info, X.num)

\* What a statement with labels of its own puts back.
Saved == [true |-> info.label_true, false |-> info.label_false, break |-> info.label_break, continue |-> info.label_continue]
Restore(i, old) ==
    [i EXCEPT !.label_true = old.true, !.label_false = old.false, !.label_break = old.break, !.label_continue = old.continue]
Conditional(i, if_true, if_false) == [i EXCEPT !.label_true = if_true, !.label_false = if_false]
Loop(i, if_true, if_false) == [Conditional(i, if_true, if_false) EXCEPT !.label_break = if_false, !.label_continue = if_true]

Labelled(i, label) == to_code_label(to_code_unconditional_branch(i, label), label)

BeginIf(has_else) ==
    /\ Statement("if") /\ Keep
    /\ LET l == info.label_num
           x == [old |-> Saved, else |-> l + 1, end |-> l + 2]
       IN  /\ info' = at(Conditional(TakeLabels(info, 3), l, l + 1), "LFREE")
           /\ \E t \in {"int", "bool"} :
                 Then(<<Cond(t), With("branch", l), Stmt, With("else_part", x)>>
                      \o (IF has_else THEN <<Stmt>> ELSE <<>>) \o <<With("endif", x)>>)

BranchOn == Do("branch") /\ Done /\ SameNodes /\ Keep /\ info' = to_code_label(check_type_and_branch(info), X)

ElsePart ==
    /\ Do("else_part") /\ Done /\ SameNodes /\ Keep
    /\ info' = to_code_label(to_code_unconditional_branch(info, X.end), X.else)

emit_if_statement ==
    /\ Do("endif") /\ Done /\ SameNodes /\ Keep
    /\ info' = [Labelled(info, X.end) EXCEPT !.label_true = X.old.true, !.label_false = X.old.false]

\* continue goes to the body, past the condition.
BeginWhile ==
    /\ Statement("while") /\ Keep
    /\ LET l == info.label_num
       IN  /\ info' = at(Labelled(Loop(TakeLabels(info, 3), l + 1, l + 2), l), "LFREE")
           /\ \E t \in {"int", "bool"} :
                 Then(<<Cond(t), With("branch", l + 1), Stmt, With("endloop", [old |-> Saved, next |-> l, end |-> l + 2])>>)

\* while and for end in the same way, with a jump back.
emit_while_statement ==
    /\ Do("endloop") /\ Done /\ SameNodes /\ Keep
    /\ info' = Restore(to_code_label(to_code_unconditional_branch(info, X.next), X.end), X.old)

BeginDo ==
    /\ Statement("do") /\ Keep
    /\ LET l == info.label_num
           x == [old |-> Saved, loop |-> l, end |-> l + 1]
       IN  /\ info' = Labelled(Loop(TakeLabels(info, 2), l, l + 1), l)
           /\ Then(<<Stmt, With("do_condition", x)>>)

DoCondition ==
    /\ Do("do_condition") /\ SameNodes /\ Keep
    /\ info' = at(info, "LFREE")
    /\ \E t \in {"int", "bool"} : Then(<<Cond(t), With("enddo", X)>>)

emit_do_statement ==
    /\ Do("enddo") /\ Done /\ SameNodes /\ Keep
    /\ info' = Restore(to_code_label(check_type_and_branch(info), X.end), X.old)

\* The labels: condition, body, increment, end.
BeginFor(has_inition, has_condition, has_increment) ==
    /\ Statement("for") /\ Keep
    /\ LET l == info.label_num
           part == [Expr("int") EXCEPT !.of = @ \cap Effects]
           x == [condition |-> l, next |-> l + 2, body |-> l + 1, end |-> l + 3, old |-> Saved, has_condition |-> has_condition]
       IN  /\ info' = Loop(TakeLabels(info, 4), l + 1, l + 3)
           /\ \E t \in {"int", "bool"} :
                 Then((IF has_inition THEN <<part>> ELSE <<>>)
                      \o (IF has_condition THEN <<With("for_condition", x), Cond(t)>> ELSE <<>>)
                      \o <<With("for_increment", x)>> \o (IF has_increment THEN <<part>> ELSE <<>>)
                      \o <<With("for_body", x), Stmt, With("endloop", x)>>)

ForCondition ==
    Do("for_condition") /\ Done /\ SameNodes /\ Keep /\ info' = at(Labelled(info, X.condition), "LFREE")

ForIncrement ==
    /\ Do("for_increment") /\ Done /\ SameNodes /\ Keep
    /\ info' = to_code_label(IF X.has_condition THEN check_type_and_branch(info)
                             ELSE to_code_unconditional_branch(info, X.next), X.next)

\* Mutant: the increment is left for the condition in any case.
emit_for_statement_Condition ==
    /\ Do("for_body") /\ Done /\ SameNodes /\ Keep
    /\ info' = to_code_label(to_code_unconditional_branch(info, X.condition), X.body)

emit_for_statement ==
    /\ Do("for_body") /\ Done /\ SameNodes /\ Keep
    /\ info' = to_code_label(to_code_unconditional_branch(info, IF X.has_condition THEN X.condition ELSE X.body), X.body)

\* The parser lets them stand only where there is something to leave.
Encloses(what) == \E k \in DOMAIN todo : todo[k].do \in what
Loops == {"endloop", "do_condition"}

ContinueStatement ==
    /\ Statement("continue") /\ Encloses(Loops) /\ Done /\ Keep
    /\ info' = to_code_unconditional_branch(info, info.label_continue)

BreakStatement ==
    /\ Statement("break") /\ Encloses(Loops \cup {"endswitch"}) /\ Done /\ Keep
    /\ info' = to_code_unconditional_branch(info, info.label_break)

Return(i) == [i EXCEPT !.block = Dead]

\* In main the value is not emitted, and neither is a return.
BeginReturn ==
    /\ Statement("return") /\ Keep
    /\ LET i == IF info.was_dynamic THEN to_code_stack_load(info, -1) ELSE info
       IN  CASE info.is_main -> info' = i /\ Done
             [] ~info.is_main /\ info.is_void -> info' = Return(i) /\ Done
             [] OTHER -> info' = at(i, "LREG") /\ Then(<<Expr("int"), Item("return")>>)

emit_return_statement ==
    /\ Do("return") /\ Done /\ SameNodes /\ Keep
    /\ info' = Return(IF info.kind = "AREG" THEN Reads(info, {info.reg}) ELSE info)

\* The condition is asked for nowhere in particular.
BeginSwitch ==
    /\ Statement("switch") /\ info.switches < MaxSwitches /\ Keep
    /\ info' = [info EXCEPT !.switches = @ + 1]
    /\ \E body \in Bodies : Then(<<[Expr("int") EXCEPT !.of = Registers], With("cases", body)>>)

\* Labels of a switch go down from label_switch, -n stands for 2^64 - n.  The next switch
\* begins with the label that this one ends with.
emit_switch_statement ==
    /\ Do("cases") /\ SameNodes /\ Keep
    /\ LET cases == Cardinality({k \in DOMAIN X : X[k] = "case"})
           has_default == IF Contains(X, "default") THEN 1 ELSE 0
           end == info.label_switch - cases - has_default
           i == IF cases = 0 THEN info ELSE [info EXCEPT !.kind = IF info.location = "LMEM" THEN "AREG" ELSE "ACONST"]
       IN  /\ info' = [Leave(Answered(info), {end} \cup {info.label_switch - k : k \in 0..cases - 1}) EXCEPT
                           !.kind = i.kind, !.label_break = end, !.block_num = @ + 1]
           /\ Then([k \in DOMAIN X |-> Item(IF X[k] = "break" THEN "break" ELSE "case")]
                   \o (IF X[Len(X)] = "break" THEN <<>> ELSE <<Item("lastcase")>>) \o <<Item("endswitch")>>)

emit_case_statement ==
    /\ Do("case") /\ Then(<<Stmt>>) /\ SameNodes /\ Keep
    /\ info' = [Labelled(info, info.label_switch) EXCEPT !.label_switch = @ - 1]

LastCase == Do("lastcase") /\ Done /\ SameNodes /\ Keep /\ info' = to_code_unconditional_branch(info, info.label_switch)

BreakSwitch == Do("break") /\ Done /\ SameNodes /\ Keep /\ info' = to_code_unconditional_branch(info, info.label_break)

EndSwitch == Do("endswitch") /\ Done /\ SameNodes /\ Keep /\ info' = to_code_label(info, info.label_break)

-----------------------------------------------------------------------------
(* The translation unit *)

\* A list is initialised in main, a table of two dimensions is not.
GlobalArray(kind) ==
    CASE kind = "scalar" -> {}
      [] kind = "list" -> {Array(1, <<>>, FALSE)}
      [] kind = "table" -> {Array(2, <<>>, FALSE)}

DeclareGlobal ==
    /\ Do("global") /\ Done /\ SameNodes /\ Keep
    /\ info' = [info EXCEPT !.arrays = @ \cup GlobalArray(X)]

\* Mutant: a function is taken to have dynamic arrays when the one before has.
EnterFunction_Kept(i, f) ==
    [i EXCEPT !.defined = {}, !.declared = {}, !.used = {}, !.edges = {}, !.slots = {}, !.block = Entry, !.switches = 0,
              !.is_main = f.main, !.is_void = f.void]

\* The names that are local to a function begin anew, the numbers do not.
EnterFunction(i, f) ==
    [i EXCEPT !.defined = {}, !.declared = {}, !.used = {}, !.edges = {}, !.slots = {}, !.block = Entry, !.switches = 0,
              !.is_main = f.main, !.is_void = f.void, !.was_dynamic = FALSE]

global_initialization == [k \in DOMAIN Globals |-> With("initial", Globals[k])]

InitializeGlobal ==
    /\ Do("initial") /\ SameNodes /\ Keep /\ UNCHANGED info
    /\ Then(IF X = "list" THEN ElementsOf(Array(1, <<>>, FALSE)) ELSE <<>>)

emit_function_definition ==
    /\ Do("function") /\ SameNodes /\ Keep
    /\ LET f == Functions[X]
           parameters == {Array(1, <<>>, TRUE) : k \in {k \in DOMAIN f.params : f.params[k] = "array"}}
       IN  /\ info' = [EnterFunction(info, f) EXCEPT !.arrays = (UNION {GlobalArray(Globals[k]) : k \in DOMAIN Globals}) \cup parameters,
                                                    !.block_num = @ + 1,
                                                    !.limit = nodes + f.nodes]
           /\ Then((IF f.main THEN global_initialization ELSE <<>>)
                   \o <<Block(info.block_num, TRUE), Item("endfunction")>>)

EndFunction ==
    /\ Do("endfunction") /\ Done /\ SameNodes /\ Keep
    /\ info' = [Return(IF info.is_void /\ ~info.is_main /\ info.was_dynamic THEN to_code_stack_load(info, -1) ELSE info)
                    EXCEPT !.is_main = FALSE]

\* The library functions that were called; assert and print come with the runtime.
builin_functions_declaration(i) == i.was_function

\* Declarations of what was used.
emit_translation_unit ==
    /\ Do("finish") /\ Done /\ SameNodes /\ Keep
    /\ info' = [info EXCEPT !.declares = builin_functions_declaration(info)
                                \cup (IF info.was_stack_functions THEN {"stack"} ELSE {})
                                \cup (IF info.was_abs THEN {"abs"} ELSE {})
                                \cup (IF info.was_fabs THEN {"fabs"} ELSE {})]

Stopped == todo = <<>> /\ UNCHANGED vars

-----------------------------------------------------------------------------

\* The code of assert, which comes with every program, calls printf.
runtime == {"printf"}

Init ==
    /\ info = [register_num |-> 1, label_num |-> 1, block_num |-> 1, label_switch |-> 0, switches |-> 0,
               location |-> "LREG", kind |-> "ACONST", reg |-> 0, const |-> FALSE,
               label_true |-> 0, label_false |-> 0, label_break |-> 0, label_continue |-> 0,
               label_ternary_end |-> 0, label_phi_previous |-> 0, arrays |-> {},
               was_stack_functions |-> FALSE, was_dynamic |-> FALSE, was_abs |-> FALSE, was_fabs |-> FALSE,
               was_function |-> runtime, is_main |-> FALSE, is_void |-> FALSE,
               defined |-> {}, declared |-> {}, used |-> {}, edges |-> {}, block |-> Entry, slots |-> {},
               helpers |-> runtime, declares |-> {}, faults |-> {}, limit |-> 0]
    /\ vals = <<>>
    /\ todo = [k \in DOMAIN Globals |-> With("global", Globals[k])]
              \o [k \in DOMAIN Functions |-> With("function", k)] \o <<Item("finish")>>
    /\ nodes = 0

Expression ==
    \/ emit_identifier_expression \/ ArrayIdentifier \/ emit_literal_expression
    \/ BeginCast \/ emit_cast_expression
    \/ BeginSubscript \/ BeginRow \/ BeginIndex \/ emit_one_dimension_subscript \/ emit_subscript_expression
    \/ RowAddress \/ StringSubscript
    \/ BeginCall \/ PassArgument \/ emit_call_expression
    \/ \E arrow \in BOOLEAN : emit_member_expression(arrow)
    \/ \E base \in {"subscript", "member", "call"} : BeginMemberOf(base)
    \/ MemberOf \/ ExtractMember
    \/ \E prefix, is_complex \in BOOLEAN : BeginIncrement(prefix, is_complex)
    \/ emit_inc_dec_expression \/ BeginMinus \/ EndMinus \/ BeginNegation \/ EndNegation
    \/ AddressOfVariable \/ AddressOfElement \/ emit_indirection \/ BeginAbs \/ EndAbs \/ emit_upb
    \/ BeginIntegral \/ RightOperand \/ emit_integral_expression
    \/ \E compound, is_complex \in BOOLEAN : BeginAssignment(compound, is_complex)
    \/ Target \/ emit_assignment_expression \/ AssignList \/ emit_initializer_expression
    \/ \E or \in BOOLEAN : BeginLogical(or)
    \/ LeftLogical \/ EndLogical \/ Comma
    \/ BeginTernary \/ BeginBranch \/ BeginElse \/ emit_ternary_expression

Declaration ==
    \/ emit_one_dimension_initialization \/ EndRow \/ StoreElement \/ MemberSlot
    \/ DeclareScalar \/ DeclareInitialized \/ StoreInitial \/ emit_initialization \/ DeclareString
    \/ \E dimensions \in 1..2 : DeclareArray(dimensions) \/ BeginDynamicArray(dimensions)
    \/ Bound \/ EndDynamicArray
    \/ DeclareGlobal \/ InitializeGlobal \/ emit_function_definition \/ EndFunction \/ emit_translation_unit

StatementStep ==
    \/ emit_declaration_statement \/ ExpressionStatement
    \/ emit_compound_statement \/ Substatement \/ EndBlock
    \/ \E has_else \in BOOLEAN : BeginIf(has_else)
    \/ BranchOn \/ ElsePart \/ emit_if_statement \/ BeginWhile \/ emit_while_statement
    \/ BeginDo \/ DoCondition \/ emit_do_statement
    \/ \E has_inition, has_condition, has_increment \in BOOLEAN : BeginFor(has_inition, has_condition, has_increment)
    \/ ForCondition \/ ForIncrement \/ emit_for_statement
    \/ ContinueStatement \/ BreakStatement \/ BeginReturn \/ emit_return_statement
    \/ BeginSwitch \/ emit_switch_statement \/ emit_case_statement \/ LastCase \/ BreakSwitch \/ EndSwitch

Next == Expression \/ Declaration \/ StatementStep \/ Stopped

Spec == Init /\ [][Next]_vars

-----------------------------------------------------------------------------
(* Properties *)

\* A register of a function is defined by one instruction and read only after it, although
\* operands are found by "the register before the next one" (register_num - 1).  When the module
\* is complete, the functions that it calls outside of it are declared, and no others.
NamesDefinedOnce ==
    /\ {"redefined", "undefined"} \cap info.faults = {}
    /\ todo = <<>> => info.declares = info.helpers

\* No two blocks of a function have the same label, and when the function is complete every
\* branch has a block to go to; labels of switches count down and the others up.  A block is
\* left by a terminator before the label of the next one.
BranchesLand ==
    /\ {"twice", "open"} \cap info.faults = {}
    /\ todo # <<>> /\ Head(todo).do = "endfunction" => info.used \subseteq info.declared

\* The state of the stack is restored only from a place where this function has saved it,
\* and no place is used twice: those of blocks and, for dynamic arrays, that of the function.
StackRestored == "slot" \notin info.faults

\* The phi of a ternary names the blocks that really jump to it, also when its operands are
\* ternaries and end in a block of their own.
PhiPredecessors == "phi" \notin info.faults

=============================================================================
