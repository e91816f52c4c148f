----------------------------- MODULE SwitchRun -----------------------------
(***************************************************************************)
(* A function whose body is one switch, emitted by Codegen and then run on *)
(* the virtual machine, compared with the meaning docs/Language.md gives   *)
(* the switch statement (10.4.2).  The body is a block of labels,          *)
(* expression statements and breaks, with distinct case values and at most *)
(* one default.                                                            *)
(*                                                                         *)
(* The machine is not part of the repository: its instructions are         *)
(* modelled from the code the encoder emits for it.                        *)
(***************************************************************************)
EXTENDS Codegen

CONSTANTS
    Values,         \* values of the controlling expression
    SwitchLabels,   \* values of the cases
    MaxAny,         \* bounds on the statements and the nesting of a function that
    MaxAnyNesting   \* is emitted and not run
ASSUME RunAssumption == 0 \notin Values /\ SwitchLabels \subseteq Nat /\ {MaxAny, MaxAnyNesting} \subseteq Nat

VARIABLES
    source,         \* the body of the switch: [item, arg]
    value,          \* the value of the controlling expression, or 0: any function, not run
    pc, stack,      \* the machine
    trace           \* the addresses of the statements it executed

machine == <<value, pc, stack, trace>>
runVars == <<vars, source, machine>>

Item(item, arg) == [item |-> item, arg |-> arg]
Write(item, arg) == source' = Append(source, Item(item, arg))
Written(item, arg) == \E i \in DOMAIN source : source[i] = Item(item, arg)

-----------------------------------------------------------------------------
(* Emission of the program *)

InBlock == Depth > 1

EmitItem ==
    /\ InBlock
    /\ \/ emit_expression_statement("value") /\ Write("stmt", mem_size)
       \/ emit_break_statement /\ Write("break", 0)
       \/ \E v \in SwitchLabels : ~Written("case", v) /\ BeginCase(v) /\ Write("case", v)
       \/ ~Written("default", 0) /\ BeginDefault /\ Write("default", 0)

EmitRest ==
    /\ \/ opened = 0 /\ BeginSwitch("value")
       \/ opened = 1 /\ BeginCompound
       \/ NextInCompound \/ EndCompound
       \/ EndLabelled \/ EndSwitchBody \/ PatchBreak \/ EndBreaks
       \/ EndFunction
    /\ UNCHANGED source

-----------------------------------------------------------------------------
(* The machine *)

Running == todo = "end" /\ value # 0
Instruction == memory[pc + 1].op
Halted == Running /\ Instruction = "return"
Pushed(x) == Append(stack, x)
TopOfStack == stack[Len(stack)]
Popped(n) == SubSeq(stack, 1, Len(stack) - n)

StatementAt(addr) == Written("stmt", addr)

\* An expression statement leaves nothing on the stack; the controlling expression
\* leaves its value.
ExecuteValue ==
    /\ Instruction = "value"
    /\ pc' = pc + 1
    /\ IF StatementAt(pc) THEN trace' = Append(trace, pc) /\ UNCHANGED stack
       ELSE stack' = Pushed(value) /\ UNCHANGED trace

ExecuteStack ==
    /\ \/ Instruction = "duplicate" /\ stack' = Pushed(TopOfStack) /\ pc' = pc + 1
       \/ Instruction = "li" /\ stack' = Pushed(mem_get(pc + 1)) /\ pc' = pc + 2
       \/ /\ Instruction = "eq"
          /\ stack' = Append(Popped(2), IF stack[Len(stack) - 1] = TopOfStack THEN 1 ELSE 0)
          /\ pc' = pc + 1
    /\ UNCHANGED trace

ExecuteBranch ==
    /\ \/ Instruction = "b" /\ pc' = mem_get(pc + 1) /\ UNCHANGED stack
       \/ /\ Instruction = "be0"
          /\ pc' = IF TopOfStack = 0 THEN mem_get(pc + 1) ELSE pc + 2
          /\ stack' = Popped(1)
    /\ UNCHANGED trace

Execute ==
    /\ Running
    /\ ExecuteValue \/ ExecuteStack \/ ExecuteBranch
    /\ UNCHANGED <<vars, source, value>>

-----------------------------------------------------------------------------
\* The code of the body begins after the header of the function.
RunInit ==
    /\ Init
    /\ source = <<>>
    /\ value \in Values \cup {0}
    /\ pc = 7 /\ stack = <<>> /\ trace = <<>>

EmitSwitch == value # 0 /\ (EmitItem \/ EmitRest) /\ UNCHANGED machine
EmitAny == value = 0 /\ Next /\ opened' <= MaxAny /\ Len(frames') <= MaxAnyNesting /\ UNCHANGED <<source, machine>>
RunNext == EmitSwitch \/ Execute \/ EmitAny

RunSpec == RunInit /\ [][RunNext]_runVars

-----------------------------------------------------------------------------
(* Properties *)

Positions(item) == {i \in DOMAIN source : source[i].item = item}

\* Where control enters the body, and the first break from there on.
Entry ==
    LET hits == {i \in Positions("case") : source[i].arg = value}
    IN  IF hits # {} THEN Min(hits) ELSE Min(Positions("default") \cup {Len(source) + 1})

Exit == Min({i \in Positions("break") : i >= Entry} \cup {Len(source) + 1})

\* The statements that docs/Language.md says are executed.
Documented ==
    LET executed == SelectSeq(SubSeq(source, Entry, Exit - 1), LAMBDA x : x.item = "stmt")
    IN  [i \in DOMAIN executed |-> executed[i].arg]

LabelFirst == source = <<>> \/ source[1].item \in {"case", "default"}
DefaultLast == \A i \in Positions("default"), j \in Positions("case") : j < i
BreakBeforeCase == \A j \in Positions("case") : j > 1 => source[j - 1].item = "break"

\* The machine always finds an instruction it can execute until the function returns, and a
\* switch whose statements are labelled, whose default comes last and whose cases end in a
\* break does what the documentation says, fall-through into default included.
SwitchAsDocumented ==
    /\ Running => Halted \/ ENABLED Execute
    /\ Halted /\ LabelFirst /\ DefaultLast /\ BreakBeforeCase => trace = Documented

=============================================================================
