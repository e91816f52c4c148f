------------------------------- MODULE Calls -------------------------------
(***************************************************************************)
(* How the encoder of the virtual machine (libs/compiler/codegen.c) links  *)
(* calls to functions: functions_add, functions_get and the code that uses *)
(* them, over the functions of one translation unit.                       *)
(*                                                                         *)
(* A function is called by number.  A call that precedes the definition    *)
(* refers to the identifier of the prototype, whose displacement is then   *)
(* minus the address of the newest such call; every call's operand holds   *)
(* the address of the one before it.  The definition walks the chain.      *)
(* One iteration of that loop is one step.                                 *)
(*                                                                         *)
(* Every function has one parameter that is itself a function.             *)
(***************************************************************************)
EXTENDS Integers, Sequences

CONSTANTS
    Funs,           \* the functions of the program
    Announced,      \* those with a prototype before everything else
    MaxUses         \* bound on calls and function arguments

Nobody == "nobody"     \* no function is being emitted

ASSUME CallsAssumption == Announced \subseteq Funs /\ Nobody \notin Funs /\ MaxUses \in Nat

VARIABLES
    memory,         \* the cells of the code; the cell at address a is memory[a + 1]
    displacements,  \* by identifier
    functions,      \* the functions table: addresses; number n is functions[n + 1]
    curr_func,      \* the function being emitted
    link,           \* call_address of the loop in functions_add, 0 when it is done
    uses,           \* history: [cell, fun, how] for every call and argument
    start           \* history: start[f], the address of a defined function

vars == <<memory, displacements, functions, curr_func, link, uses, start>>

ITEM_MAX == 2147483647

\* Identifiers: the prototype, the definition and the parameter of a function.
Proto(f) == <<f, "proto">>
Def(f)   == <<f, "def">>
Param(f) == <<f, "param">>
Identifiers == Funs \X {"proto", "def", "param"}

mem_size == Len(memory)
mem_get(addr) == memory[addr + 1]
Absolute(n) == IF n < 0 THEN -n ELSE n

\* The declaration a use of f refers to: the latest one so far.
Visible(f) == IF f \in DOMAIN start THEN Def(f) ELSE Proto(f)
Usable(f) == f \in DOMAIN start \/ f \in Announced

-----------------------------------------------------------------------------
\* ident_get_prev; without a prototype the index is out of the table and
\* vector_get answers ITEM_MAX.
PredeclDispl(f) == IF f \in Announced THEN displacements[Proto(f)] ELSE ITEM_MAX

\* functions_add up to its loop, and the displacement of the parameter.
functions_add(f) ==
    /\ functions' = Append(functions, mem_size)
    /\ displacements' = [displacements EXCEPT ![Def(f)] = Len(functions), ![Param(f)] = -3]
    /\ link' = IF PredeclDispl(f) < 0 THEN Absolute(PredeclDispl(f)) ELSE 0

BeginFunction(f) ==
    /\ curr_func = Nobody /\ f \notin DOMAIN start
    /\ functions_add(f)
    /\ curr_func' = f
    /\ start' = [g \in DOMAIN start \cup {f} |-> IF g = f THEN mem_size ELSE start[g]]
    /\ UNCHANGED <<memory, uses>>

\* Mutant: the chain is cut after the newest call.
LinkCall_Newest ==
    /\ link # 0
    /\ memory' = [memory EXCEPT ![link + 1] = displacements[Def(curr_func)]]
    /\ link' = 0
    /\ UNCHANGED <<displacements, functions, curr_func, uses, start>>

\* One iteration of the loop of functions_add.
LinkCall ==
    /\ link # 0
    /\ memory' = [memory EXCEPT ![link + 1] = displacements[Def(curr_func)]]
    /\ link' = mem_get(link)
    /\ UNCHANGED <<displacements, functions, curr_func, uses, start>>

Emitting == curr_func # Nobody /\ link = 0
Use(how, f, cell) ==
    /\ Emitting
    /\ Len(uses) < MaxUses
    /\ uses' = Append(uses, [cell |-> cell, fun |-> f, how |-> how])

IsParameter(id) == id = Param(curr_func)

\* Mutant: the address of the instruction, not of its operand, is remembered.
functions_get_Instruction(id) ==
    displacements' = IF ~IsParameter(id) /\ displacements[id] <= 0
                     THEN [displacements EXCEPT ![id] = -(mem_size + 1)] ELSE displacements

\* functions_get, called when the operand is the next cell
functions_get(id) ==
    displacements' = IF ~IsParameter(id) /\ displacements[id] <= 0
                     THEN [displacements EXCEPT ![id] = -(mem_size + 2)] ELSE displacements

Operand(id) == IF IsParameter(id) THEN displacements[id] ELSE Absolute(displacements[id])

\* emit_call_expression: IC_CALL1, IC_CALL2 and the operand
Call(f) ==
    /\ Usable(f) /\ Use("call", f, mem_size + 2)
    /\ functions_get(Visible(f))
    /\ memory' = memory \o <<0, 0, Operand(Visible(f))>>
    /\ UNCHANGED <<functions, curr_func, link, start>>

CallParameter ==
    /\ Use("param", curr_func, mem_size + 2)
    /\ functions_get(Param(curr_func))
    /\ memory' = memory \o <<0, 0, Operand(Param(curr_func))>>
    /\ UNCHANGED <<functions, curr_func, link, start>>

\* emit_argument of a function: a load instruction and the operand
PassFunction(f) ==
    /\ Usable(f) /\ Use("pass", f, mem_size + 1)
    /\ memory' = memory \o <<0, Absolute(displacements[Visible(f)])>>
    /\ UNCHANGED <<displacements, functions, curr_func, link, start>>

EndFunction ==
    /\ Emitting
    /\ curr_func' = Nobody
    /\ memory' = Append(memory, 0)
    /\ UNCHANGED <<displacements, functions, link, uses, start>>

\* enc_create
Init ==
    /\ memory = <<0, 0, 0, 0>>
    /\ displacements = [id \in Identifiers |-> 0]
    /\ functions = <<0, 0>>
    /\ curr_func = Nobody
    /\ link = 0
    /\ uses = <<>>
    /\ start = [f \in {} |-> 0]

Next ==
    \/ \E f \in Funs : BeginFunction(f) \/ Call(f) \/ PassFunction(f)
    \/ LinkCall \/ CallParameter \/ EndFunction

Spec == Init /\ [][Next]_vars

-----------------------------------------------------------------------------
(* Properties *)

\* The function numbered n starts at address functions[n + 1].
Reaches(n, f) == n + 1 \in DOMAIN functions /\ functions[n + 1] = start[f]

Uses(how) == {uses[i] : i \in {j \in DOMAIN uses : uses[j].how = how}}
Linked(f) == f \in DOMAIN start /\ (curr_func = f => link = 0)

\* Every call of a function that has been defined reaches it, whether the call comes
\* before the definition, after it or inside it, and however the calls of several
\* announced functions interleave in the code; linking them leaves the calls through a
\* parameter alone, whose operand stays the parameter's word.
CallsReachDefinitions ==
    /\ \A u \in Uses("call") : Linked(u.fun) => Reaches(mem_get(u.cell), u.fun)
    /\ \A u \in Uses("param") : mem_get(u.cell) = -3

\* Calls that wait for a definition form one chain per function: each operand leads to
\* an earlier call of the same function or ends the chain.
ChainsSeparate ==
    \A u \in Uses("call") : u.fun \notin DOMAIN start =>
        \/ mem_get(u.cell) = 0
        \/ \E v \in Uses("call") : v.fun = u.fun /\ v.cell = mem_get(u.cell) /\ v.cell < u.cell

=============================================================================
