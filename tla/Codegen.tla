------------------------------ MODULE Codegen ------------------------------
(***************************************************************************)
(* How the encoder of the virtual machine (libs/compiler/codegen.c) emits  *)
(* the statements of one function.                                         *)
(*                                                                         *)
(* Jumps are emitted before their targets are known.  The operands of the  *)
(* breaks of a loop or switch form a chain threaded through the code       *)
(* itself: addr_break is the newest operand and every operand holds the    *)
(* one before it, 0 ending the chain; continue uses addr_cond in the same  *)
(* way, and addr_case is the operand of the last case test.  When a        *)
(* statement ends its chain is walked and every operand overwritten with   *)
(* the target.  The three heads are shared by all statements, which save   *)
(* and restore them on the C stack, each a different selection.            *)
(*                                                                         *)
(* The recursion of emit_statement is unrolled: frames is its call stack,  *)
(* and one iteration of a patching loop is one step.  Expressions are      *)
(* abstracted to the cells they leave, jumps included.  opened, jumps,     *)
(* marks and locals are history: they say what the program text means.     *)
(***************************************************************************)
EXTENDS Integers, Sequences, FiniteSetsExt

CONSTANTS
    Statements,     \* the kinds of statements a program may use
    Expressions,    \* the shapes of expressions, of ExpressionShapes
    CaseValues,     \* values of case labels
    Sizes,          \* sizes of the types of local variables
    MaxStatements,  \* bound on the statements of the function
    MaxNesting      \* bound on their nesting

ExpressionShapes == {"value", "ternary"}
Loops == {"while", "do", "for"}

ASSUME CodegenAssumption ==
    /\ Expressions \subseteq ExpressionShapes
    /\ CaseValues \subseteq Int
    /\ Sizes \subseteq Nat \ {0}
    /\ {MaxStatements, MaxNesting} \subseteq Nat

VARIABLES
    memory,         \* the code; the cell at address a is memory[a + 1]
    addr_cond,      \* newest operand of a continue, see emit_while_statement
    addr_case,      \* operand of the last case test, 0 if none is open
    addr_break,     \* newest operand of a break
    displ,          \* next free word of the frame
    max_local_displ,
    frames,         \* statements under way, outermost first
    todo,           \* "stmt": the innermost one needs a substatement; "next": it
                    \* goes on; "cond", "break": it walks a chain; "end": all is emitted
    opened,         \* number of statements so far
    jumps,          \* [cell, label]: the jump whose operand is there must lead to label
    marks,          \* [label, addr]: where label is
    locals          \* [depth, words]: live local variables

vars == <<memory, addr_cond, addr_case, addr_break, displ, max_local_displ,
          frames, todo, opened, jumps, marks, locals>>
history == <<jumps, marks, locals>>
heads == <<addr_cond, addr_case, addr_break>>

-----------------------------------------------------------------------------
(* Cells *)

Code(op) == [kind |-> "code", op |-> op, arg |-> 0]
Arg(n)   == [kind |-> "arg", op |-> "none", arg |-> n]

mem_size == Len(memory)
mem_get(addr) == memory[addr + 1].arg
mem_set(mem, addr, n) == [mem EXCEPT ![addr + 1] = Arg(n)]

\* The cells of an expression that starts at addr: a value or a conditional
\* expression, which stands for all those that hold branches of their own.
Expression(shape, addr) ==
    CASE shape = "value"   -> <<Code("value")>>
      [] shape = "ternary" -> <<Code("value"), Code("be0"), Arg(addr + 6), Code("value"),
                                Code("b"), Arg(addr + 7), Code("value")>>

\* A condition and the conditional branch after it; its operand is the last cell.
Condition(shape, op, arg) == Expression(shape, mem_size) \o <<Code(op), Arg(arg)>>

Label(id, what, n) == [id |-> id, what |-> what, n |-> n]
Jump(cell, label) == [cell |-> cell, label |-> label]
Mark(label, addr) == [label |-> label, addr |-> addr]

-----------------------------------------------------------------------------
(* The stack of statements *)

Depth == Len(frames)
Top == frames[Depth]
Enclosing(kinds) == {k \in 1..Depth : frames[k].kind \in kinds}
Innermost(kinds) == frames[Max(Enclosing(kinds))]

\* is_in_loop and is_in_switch of the parser
InLoop == Enclosing(Loops) # {}
InSwitch == Enclosing({"switch"}) # {}

\* emit_statement is called for a statement of this kind.
Begin(kind) ==
    /\ todo = "stmt" /\ kind \in Statements
    /\ opened < MaxStatements
    /\ opened' = opened + 1

\* A statement without substatements is emitted at once.
Simple(kind) == Begin(kind) /\ todo' = "next" /\ UNCHANGED frames

\* The frame of emit_*_statement: its local variables, and the number of labels of a switch.
Frame(kind, addr, flag) ==
    [kind |-> kind, id |-> opened', addr |-> addr, flag |-> flag, labels |-> 0,
     old_cond |-> addr_cond, old_case |-> addr_case, old_break |-> addr_break, old_displ |-> displ]

Push(kind, addr, flag) ==
    /\ Depth < MaxNesting
    /\ frames' = Append(frames, Frame(kind, addr, flag))
    /\ todo' = "stmt"

Pop ==
    /\ frames' = SubSeq(frames, 1, Depth - 1)
    /\ todo' = "next"

Resume(kind) == todo = "next" /\ Depth > 0 /\ Top.kind = kind /\ UNCHANGED opened

-----------------------------------------------------------------------------
(* Statements without substatements *)

emit_expression_statement(shape) ==
    /\ Simple("expr")
    /\ memory' = memory \o Expression(shape, mem_size)
    /\ UNCHANGED <<heads, displ, max_local_displ, history>>

\* A declaration with or without code, where the grammar allows one.
emit_declaration_statement(size) ==
    /\ Simple("decl")
    /\ Depth > 0 => Top.kind = "compound"
    /\ displ' = displ + size
    /\ max_local_displ' = IF displ' > max_local_displ THEN displ' ELSE max_local_displ
    /\ locals' = locals \cup {[depth |-> Depth, words |-> displ..displ' - 1]}
    /\ UNCHANGED <<memory, heads, jumps, marks>>

emit_return_statement ==
    /\ Simple("return")
    /\ memory' = memory \o <<Code("return")>>
    /\ UNCHANGED <<heads, displ, max_local_displ, history>>

emit_continue_statement ==
    /\ Simple("continue") /\ InLoop
    /\ memory' = memory \o <<Code("b"), Arg(addr_cond)>>
    /\ addr_cond' = mem_size + 1
    /\ jumps' = jumps \cup {Jump(mem_size + 1, Label(Innermost(Loops).id, "continue", 0))}
    /\ UNCHANGED <<addr_case, addr_break, displ, max_local_displ, marks, locals>>

emit_break_statement ==
    /\ Simple("break") /\ (InLoop \/ InSwitch)
    /\ memory' = memory \o <<Code("b"), Arg(addr_break)>>
    /\ addr_break' = mem_size + 1
    /\ jumps' = jumps \cup {Jump(mem_size + 1, Label(Innermost(Loops \cup {"switch"}).id, "end", 0))}
    /\ UNCHANGED <<addr_cond, addr_case, displ, max_local_displ, marks, locals>>

-----------------------------------------------------------------------------
(* Compound, if *)

BeginCompound ==
    /\ Begin("compound")
    /\ Depth < MaxNesting
    /\ frames' = Append(frames, Frame("compound", 0, FALSE))
    /\ todo' \in {"stmt", "next"}
    /\ UNCHANGED <<memory, heads, displ, max_local_displ, history>>

NextInCompound ==
    /\ Resume("compound")
    /\ todo' = "stmt"
    /\ UNCHANGED <<memory, heads, displ, max_local_displ, frames, history>>

\* Mutant: all words of the frame are free again.
Free_All == displ' = 3 /\ locals' = {v \in locals : v.depth < Depth}

\* The words of the variables of a statement are free again when it ends.
Free == displ' = Top.old_displ /\ locals' = {v \in locals : v.depth < Depth}

EndCompound ==
    /\ Resume("compound")
    /\ Free /\ Pop
    /\ UNCHANGED <<memory, heads, max_local_displ, jumps, marks>>

BeginIf(shape, has_else) ==
    /\ Begin("if")
    /\ memory' = memory \o Condition(shape, "be0", 0)
    /\ Push("if", Len(memory') - 1, has_else)
    /\ jumps' = jumps \cup {Jump(Len(memory') - 1, Label(opened', "else", 0))}
    /\ UNCHANGED <<heads, displ, max_local_displ, marks, locals>>

BeginElse ==
    /\ Resume("if") /\ Top.flag
    /\ memory' = mem_set(memory, Top.addr, mem_size + 2) \o <<Code("b"), Arg(0)>>
    /\ frames' = [frames EXCEPT ![Depth].addr = mem_size + 1, ![Depth].flag = FALSE]
    /\ todo' = "stmt"
    /\ jumps' = jumps \cup {Jump(mem_size + 1, Label(Top.id, "end", 0))}
    /\ marks' = marks \cup {Mark(Label(Top.id, "else", 0), mem_size + 2)}
    /\ UNCHANGED <<heads, displ, max_local_displ, locals>>

EndIf ==
    /\ Resume("if") /\ ~Top.flag
    /\ memory' = mem_set(memory, Top.addr, mem_size)
    /\ Pop
    /\ marks' = marks \cup {Mark(Label(Top.id, what, 0), mem_size) : what \in
                     IF \E m \in marks : m.label = Label(Top.id, "else", 0) THEN {"end"} ELSE {"else", "end"}}
    /\ UNCHANGED <<heads, displ, max_local_displ, jumps, locals>>

-----------------------------------------------------------------------------
(* Switch *)

BeginSwitch(shape) ==
    /\ Begin("switch")
    /\ memory' = memory \o Expression(shape, mem_size)
    /\ Push("switch", 0, FALSE)
    /\ addr_break' = 0
    /\ addr_case' = 0
    /\ UNCHANGED <<addr_cond, displ, max_local_displ, history>>

\* The label after the last one of the switch, where a failed test of the last goes.
NextLabel(switch) == Label(switch.id, "label", switch.labels + 1)

\* A failed test of the label before leads here.
SettleCase == IF addr_case # 0 THEN mem_set(memory, addr_case, mem_size) ELSE memory

BeginCase(value) ==
    /\ Begin("case") /\ InSwitch
    /\ memory' = SettleCase \o <<Code("duplicate"), Code("li"), Arg(value), Code("eq"),
                                 Code("be0"), Arg(0)>>
    /\ addr_case' = mem_size + 5
    /\ Depth < MaxNesting
    /\ LET k == Max(Enclosing({"switch"}))
           labelled == [frames EXCEPT ![k].labels = @ + 1]
       IN  /\ frames' = Append(labelled, Frame("case", 0, FALSE))
           /\ marks' = marks \cup {Mark(NextLabel(frames[k]), mem_size)}
           /\ jumps' = jumps \cup {Jump(mem_size + 5, NextLabel(labelled[k]))}
    /\ todo' = "stmt"
    /\ UNCHANGED <<addr_cond, addr_break, displ, max_local_displ, locals>>

\* Mutant: the last test is not told where default is.
BeginDefault_Unsettled ==
    /\ Begin("default") /\ InSwitch
    /\ Depth < MaxNesting
    /\ LET k == Max(Enclosing({"switch"}))
       IN  /\ frames' = Append([frames EXCEPT ![k].labels = @ + 1], Frame("default", 0, FALSE))
           /\ marks' = marks \cup {Mark(NextLabel(frames[k]), mem_size)}
    /\ todo' = "stmt"
    /\ UNCHANGED <<memory, heads, displ, max_local_displ, jumps, locals>>

BeginDefault ==
    /\ Begin("default") /\ InSwitch
    /\ memory' = SettleCase
    /\ addr_case' = 0
    /\ Depth < MaxNesting
    /\ LET k == Max(Enclosing({"switch"}))
       IN  /\ frames' = Append([frames EXCEPT ![k].labels = @ + 1], Frame("default", 0, FALSE))
           /\ marks' = marks \cup {Mark(NextLabel(frames[k]), mem_size)}
    /\ todo' = "stmt"
    /\ UNCHANGED <<addr_cond, addr_break, displ, max_local_displ, jumps, locals>>

EndLabelled ==
    /\ Resume("case") \/ Resume("default")
    /\ Pop
    /\ UNCHANGED <<memory, heads, displ, max_local_displ, history>>

EndSwitchBody ==
    /\ Resume("switch")
    /\ memory' = SettleCase
    /\ todo' = "break"
    /\ marks' = marks \cup {Mark(NextLabel(Top), mem_size)}
    /\ UNCHANGED <<heads, displ, max_local_displ, frames, jumps, locals>>

-----------------------------------------------------------------------------
(* Loops *)

\* The chain of continues of a while ends in the address of the loop, which is known.
BeginWhile(shape) ==
    /\ Begin("while")
    /\ memory' = memory \o Condition(shape, "be0", 0)
    /\ Push("while", mem_size, FALSE)
    /\ addr_cond' = mem_size
    /\ addr_break' = Len(memory') - 1
    /\ jumps' = jumps \cup {Jump(addr_break', Label(opened', "end", 0))}
    /\ marks' = marks \cup {Mark(Label(opened', what, 0), mem_size) : what \in {"top", "continue"}}
    /\ UNCHANGED <<addr_case, displ, max_local_displ, locals>>

BeginDo ==
    /\ Begin("do")
    /\ Push("do", mem_size, FALSE)
    /\ addr_cond' = 0
    /\ addr_break' = 0
    /\ marks' = marks \cup {Mark(Label(opened', "top", 0), mem_size)}
    /\ UNCHANGED <<memory, addr_case, displ, max_local_displ, jumps, locals>>

\* size is the size of a variable declared in the header, 0 if there is none.
BeginFor(size, has_condition, has_increment) ==
    /\ Begin("for")
    /\ memory' = IF has_condition THEN memory \o Condition("value", "be0", 0) ELSE memory
    /\ Push("for", mem_size, has_increment)
    /\ addr_cond' = 0
    /\ addr_break' = IF has_condition THEN Len(memory') - 1 ELSE 0
    /\ displ' = displ + size
    /\ max_local_displ' = IF displ' > max_local_displ THEN displ' ELSE max_local_displ
    /\ locals' = locals \cup {[depth |-> Depth + 1, words |-> displ..displ' - 1]}
    /\ jumps' = IF has_condition THEN jumps \cup {Jump(addr_break', Label(opened', "end", 0))} ELSE jumps
    /\ marks' = marks \cup {Mark(Label(opened', "top", 0), mem_size)}
    /\ UNCHANGED addr_case

\* The body is emitted: the continues are next.  Those of do and for lead here.
EndLoopBody ==
    /\ \E kind \in Loops : Resume(kind)
    /\ todo' = "cond"
    /\ marks' = IF Top.kind = "while" THEN marks
                ELSE marks \cup {Mark(Label(Top.id, "continue", 0), mem_size)}
    /\ UNCHANGED <<memory, heads, displ, max_local_displ, frames, jumps, locals>>

\* addr_begin_condition and addr_end_condition: where the chain ends, and what its
\* operands become.
LastCond == IF Top.kind = "while" THEN Top.addr ELSE 0
CondTarget == IF Top.kind = "while" THEN Top.addr ELSE mem_size

\* Mutant: the head is advanced after the operand has been overwritten.
PatchCond_Late ==
    /\ todo = "cond" /\ addr_cond # LastCond
    /\ memory' = mem_set(memory, addr_cond, CondTarget)
    /\ addr_cond' = IF Top.kind = "while" THEN Top.addr ELSE 0
    /\ UNCHANGED <<addr_case, addr_break, displ, max_local_displ, frames, todo, opened, history>>

PatchCond ==
    /\ todo = "cond" /\ addr_cond # LastCond
    /\ memory' = mem_set(memory, addr_cond, CondTarget)
    /\ addr_cond' = mem_get(addr_cond)
    /\ UNCHANGED <<addr_case, addr_break, displ, max_local_displ, frames, todo, opened, history>>

\* The increment of a for, the condition of a do, and the jump back.
JumpBack(shape) ==
    /\ todo = "cond" /\ addr_cond = LastCond
    /\ memory' = CASE Top.kind = "while" -> memory \o <<Code("b"), Arg(Top.addr)>>
                   [] Top.kind = "do"    -> memory \o Condition(shape, "bne0", Top.addr)
                   [] Top.kind = "for"   -> memory \o (IF Top.flag THEN <<Code("value")>> ELSE <<>>)
                                                  \o <<Code("b"), Arg(Top.addr)>>
    /\ jumps' = jumps \cup {Jump(Len(memory') - 1, Label(Top.id, "top", 0))}
    /\ todo' = "break"
    /\ UNCHANGED <<heads, displ, max_local_displ, frames, opened, marks, locals>>

\* addr_end_break
PatchBreak ==
    /\ todo = "break" /\ addr_break # 0
    /\ memory' = mem_set(memory, addr_break, mem_size)
    /\ addr_break' = mem_get(addr_break)
    /\ UNCHANGED <<addr_cond, addr_case, displ, max_local_displ, frames, todo, opened, history>>

\* A switch leaves addr_cond alone and a loop addr_case.
Restore ==
    /\ addr_break' = Top.old_break
    /\ IF Top.kind = "switch"
       THEN addr_case' = Top.old_case /\ UNCHANGED addr_cond
       ELSE addr_cond' = Top.old_cond /\ UNCHANGED addr_case

EndBreaks ==
    /\ todo = "break" /\ addr_break = 0
    /\ Restore
    /\ IF Top.kind = "for" THEN Free ELSE UNCHANGED <<displ, locals>>
    /\ Pop
    /\ marks' = marks \cup {Mark(Label(Top.id, "end", 0), mem_size)}
    /\ UNCHANGED <<memory, max_local_displ, opened, jumps>>

-----------------------------------------------------------------------------
(* The function *)

\* The first cells of the memory are reserved, so no operand is at address 0; then
\* the header of the function: the size of its frame and the address after it.
Init ==
    /\ memory = [n \in 1..4 |-> Code("none")] \o <<Code("func_beg"), Arg(0), Arg(0)>>
    /\ addr_cond = 0 /\ addr_case = 0 /\ addr_break = 0
    /\ displ = 3 /\ max_local_displ = 3
    /\ frames = <<>>
    /\ todo = "stmt"
    /\ opened = 0
    /\ jumps = {} /\ marks = {} /\ locals = {}

\* The body is a sequence of statements without a frame of its own.
NextInBody ==
    /\ todo = "next" /\ Depth = 0
    /\ todo' = "stmt"
    /\ UNCHANGED <<memory, heads, displ, max_local_displ, frames, opened, history>>

EndFunction ==
    /\ todo = "next" /\ Depth = 0
    /\ memory' = mem_set(mem_set(memory, 5, max_local_displ), 6, mem_size + 1) \o <<Code("return")>>
    /\ todo' = "end"
    /\ UNCHANGED <<heads, displ, max_local_displ, frames, opened, history>>

Next ==
    \/ \E shape \in Expressions :
          \/ emit_expression_statement(shape)
          \/ \E has_else \in BOOLEAN : BeginIf(shape, has_else)
          \/ BeginSwitch(shape)
          \/ BeginWhile(shape)
          \/ JumpBack(shape)
    \/ \E size \in Sizes : emit_declaration_statement(size)
    \/ emit_return_statement
    \/ emit_continue_statement
    \/ emit_break_statement
    \/ BeginCompound \/ NextInCompound \/ EndCompound
    \/ BeginElse \/ EndIf
    \/ \E value \in CaseValues : BeginCase(value)
    \/ BeginDefault \/ EndLabelled \/ EndSwitchBody
    \/ BeginDo
    \/ \E size \in Sizes \cup {0}, has_condition, has_increment \in BOOLEAN :
          BeginFor(size, has_condition, has_increment)
    \/ EndLoopBody \/ PatchCond \/ PatchBreak \/ EndBreaks
    \/ NextInBody \/ EndFunction

Spec == Init /\ [][Next]_vars

-----------------------------------------------------------------------------
(* Properties *)

\* When a statement sequence of the function body is complete, every jump leads where
\* the program text says: break to the end of the innermost loop or switch, continue
\* to the condition or increment of the innermost loop, a failed case test to the next
\* label of its own switch or to its end, although all share three chain heads; and no
\* chain is left open for what is emitted next.  No finished function jumps into the middle
\* of an instruction or beyond its end.
JumpsResolved ==
    /\ Depth = 0 => /\ \A j \in jumps : \E m \in marks : m.label = j.label /\ mem_get(j.cell) = m.addr
                    /\ addr_cond = 0 /\ addr_case = 0 /\ addr_break = 0
    /\ todo = "end" => \A a \in 1..mem_size - 1 :
         memory[a].op \in {"b", "be0", "bne0"} =>
             mem_get(a) \in 7..mem_size - 1 /\ memory[mem_get(a) + 1].kind = "code"

\* The encoder lays out the frame again, apart from the parser: variables alive at
\* the same time never share a word, and the frame holds all of them.
LocalsDisjoint ==
    /\ \A v, w \in locals : v # w => v.words \cap w.words = {}
    /\ \A v \in locals : v.words \subseteq 3..max_local_displ - 1
=============================================================================
