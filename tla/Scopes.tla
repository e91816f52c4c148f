------------------------------- MODULE Scopes -------------------------------
(***************************************************************************)
(* The identifier table of the RuC compiler (libs/compiler/syntax.c) and   *)
(* the parser operations that change it (parser.c, builder.c).             *)
(*                                                                         *)
(* The compiler keeps ONE mutable reference per spelling (the value of the *)
(* representations map): the declaration the spelling means now.  A        *)
(* declaration appends a record that remembers the reference it hides, and *)
(* leaving a scope undoes the declarations made since it was entered.      *)
(* Records are never removed, so the records of closed inner scopes are    *)
(* undone a second time when the outer scope is left.                      *)
(*                                                                         *)
(* A record is addressed by its number, 1, 2, ...; the source uses the     *)
(* offset 4 * number - 2 of its first cell.  A spelling is a positive      *)
(* integer; 0 is the spelling of a builtin (the only key that hashes to    *)
(* slot 0 of the map), and is also what an unfinished record holds.        *)
(* Labels (kind 1) are left out: the parser never declares one.            *)
(***************************************************************************)
EXTENDS Integers, Sequences, FiniteSetsExt

CONSTANTS
    Reprs,          \* spellings that are identifiers, positive
    Main,           \* the spelling of main
    Builtin,        \* the spelling of a builtin function
    Sizes,          \* type_size of the types of variables
    FuncTypes,      \* indices of function types in the types table
    EnumValues,     \* values of enumerators
    MaxIds,         \* bound on the identifier table
    MaxDepth,       \* bound on the nesting of scopes
    MaxParams       \* bound on the parameters of a function

ASSUME ScopesAssumption ==
    /\ Reprs \subseteq Nat \ {0}
    /\ {Main, Builtin} \subseteq Reprs /\ Main # Builtin
    /\ Sizes \subseteq Nat \ {0}
    /\ FuncTypes \subseteq Nat
    /\ EnumValues \subseteq Int
    /\ {MaxIds, MaxDepth, MaxParams} \subseteq Nat

VARIABLES
    identifiers,    \* the records, in order of declaration
    reference,      \* reference[r]: the declaration that spelling r means now
    cur_id,         \* the first record of the current scope
    displ, lg,      \* next displacement and its direction: 1 local, -1 global
    max_displ,      \* top of the frame of the current function
    max_displg,     \* size of the global area
    ref_main,       \* the declaration of main, 0 if there is none
    predef,         \* functions announced and not yet defined
    functions,      \* size of the functions table, the next function number
    scopes,         \* the scope structures on the parser's call stack
    params,         \* parameters of the current function still to be declared
    errors          \* an error was reported

vars == <<identifiers, reference, cur_id, displ, lg, max_displ, max_displg,
          ref_main, predef, functions, scopes, params, errors>>

-----------------------------------------------------------------------------
ITEM_MAX == -1      \* "no reference": ITEM_MAX in the source
NO_PREV  == -2      \* "hides nothing": ITEM_MAX - 1 in the source
TYPE_BASE == 1000   \* displacements from here on mark type specifiers

AllReprs == Reprs \cup {0}
last_id == Len(identifiers) + 1
InFunction == scopes # <<>>
Global == scopes = <<>>

\* The record of repr's next declaration; kind is a history field, not in the
\* source: what the declaration was, "bad" for an unfinished record.
Hidden(repr) == IF reference[repr] = ITEM_MAX THEN NO_PREV ELSE reference[repr]

Record(repr, name, kind, type, place) ==
    [prev |-> Hidden(repr), repr |-> name, kind |-> kind, type |-> type, displ |-> place]

\* Only main is ever hidden by reference 0, and main may be declared once.
IsSecondMain(repr) == reference[repr] = 0 /\ ref_main # 0

\* A name is declared in this scope already; only a definition may follow a prototype.
IsRepeated(repr, func_def) ==
    /\ Hidden(repr) # NO_PREV
    /\ Hidden(repr) >= cur_id
    /\ func_def = 1 => identifiers[Hidden(repr)].repr > 0

Accepted(repr, func_def) == ~IsSecondMain(repr) /\ ~IsRepeated(repr, func_def)

\* The reference of main is never changed: 0 marks it as main.
Refer(repr) ==
    IF Hidden(repr) = 0 THEN reference ELSE [reference EXCEPT ![repr] = last_id]

NoteMain(repr) == IF reference[repr] = 0 THEN last_id ELSE ref_main

-----------------------------------------------------------------------------
(* ident_add *)

\* Successful part common to all kinds: append the record and make it current.
Enlist(repr, name, kind, type, place) ==
    /\ identifiers' = Append(identifiers, Record(repr, name, kind, type, place))
    /\ reference' = Refer(repr)
    /\ ref_main' = NoteMain(repr)

\* Failure: the record has been appended already and keeps its zeros, and the
\* reference has been moved to it (except for main).
Reject(repr, func_def) ==
    /\ ~Accepted(repr, func_def)
    /\ identifiers' = Append(identifiers, Record(repr, 0, "bad", 0, 0))
    /\ reference' = Refer(repr)
    /\ errors' = TRUE
    /\ UNCHANGED ref_main

\* Mutants: the global area shrinks; every variable takes one word; the frame top
\* follows the last declaration.
get_static_Sign(size) ==
    /\ displ' = displ + lg * size
    /\ max_displ' = IF lg > 0 /\ displ' > max_displ THEN displ' ELSE max_displ
    /\ max_displg' = IF lg > 0 THEN max_displg ELSE displ'

get_static_OneWord(size) ==
    /\ displ' = displ + lg
    /\ max_displ' = IF lg > 0 /\ displ' > max_displ THEN displ' ELSE max_displ
    /\ max_displg' = IF lg > 0 THEN max_displg ELSE -displ'

get_static_NoMax(size) ==
    /\ displ' = displ + lg * size
    /\ max_displ' = IF lg > 0 THEN displ' ELSE max_displ
    /\ max_displg' = IF lg > 0 THEN max_displg ELSE -displ'

\* get_static: the displacement of a variable of the given size.
get_static(size) ==
    /\ displ' = displ + lg * size
    /\ max_displ' = IF lg > 0 /\ displ' > max_displ THEN displ' ELSE max_displ
    /\ max_displg' = IF lg > 0 THEN max_displg ELSE -displ'

\* Room for one more record, and not between a function header and its body.
CanDeclare == Len(identifiers) < MaxIds /\ params = 0

DeclareVariable(repr, size) ==
    /\ CanDeclare
    /\ UNCHANGED <<cur_id, lg, predef, functions, scopes, params>>
    /\ \/ /\ Accepted(repr, 3)
          /\ Enlist(repr, repr, "var", size, displ)
          /\ get_static(size)
          /\ UNCHANGED errors
       \/ /\ Reject(repr, 3)
          /\ UNCHANGED <<displ, max_displ, max_displg>>

\* The parser's func_def while a declaration is parsed.
FuncDef == IF InFunction THEN 1 ELSE 3

\* typedef and enum tags pass the parser's func_def, struct tags pass 0.
DeclareType(repr, func_def) ==
    /\ CanDeclare
    /\ \/ /\ Accepted(repr, func_def)
          /\ Enlist(repr, repr, "type", 1, TYPE_BASE)
          /\ UNCHANGED errors
       \/ Reject(repr, func_def)
    /\ UNCHANGED <<cur_id, displ, lg, max_displ, max_displg, predef, functions, scopes, params>>

\* An enumerator takes a word like a variable, then its value replaces the
\* displacement.  For a second main ident_add returns SIZE_MAX, and the
\* displacement cell of that index is the first cell of the table's first record.
DeclareEnumerator(repr, value) ==
    /\ CanDeclare
    /\ UNCHANGED <<cur_id, lg, predef, functions, scopes, params>>
    /\ \/ /\ Accepted(repr, FuncDef)
          /\ Enlist(repr, repr, "enum", 1, value)
          /\ get_static(1)
          /\ UNCHANGED errors
       \/ /\ ~IsSecondMain(repr)
          /\ Reject(repr, FuncDef)
          /\ UNCHANGED <<displ, max_displ, max_displg>>
       \/ /\ IsSecondMain(repr)
          /\ identifiers' = Append([identifiers EXCEPT ![1].prev = value],
                                   Record(repr, 0, "bad", 0, 0))
          /\ errors' = TRUE
          /\ UNCHANGED <<reference, ref_main, displ, max_displ, max_displg>>

-----------------------------------------------------------------------------
(* Functions *)

\* A function with a small number and a small type is tracked as announced or
\* defined; a large number reads as a type specifier, and a large type leaves
\* the record without a number.
Tracked(type) == functions < TYPE_BASE /\ type < TYPE_BASE
FunctionPlace(type) == IF functions >= TYPE_BASE \/ Tracked(type) THEN functions ELSE 0

\* parse_function_declaration of a prototype; a body after it is an error.
DeclareFunction(repr, type) ==
    /\ Global /\ CanDeclare
    /\ functions' = functions + 1
    /\ \/ /\ Accepted(repr, 2)
          /\ Enlist(repr, IF Tracked(type) THEN -repr ELSE repr, "func", type, FunctionPlace(type))
          /\ predef' = IF Tracked(type) THEN predef \cup {repr} ELSE predef
          /\ errors' \in {errors \/ repr = Main, TRUE}
       \/ Reject(repr, 2) /\ UNCHANGED predef
    /\ UNCHANGED <<cur_id, displ, lg, max_displ, max_displg, scopes, params>>

\* The prototype that the definition of repr completes.
HasPrototype(repr) == Hidden(repr) > 0

\* Mutant: the definition is not compared with its prototype.
SameType_Any(repr, type) == TRUE

SameType(repr, type) == HasPrototype(repr) => identifiers[Hidden(repr)].type = type

\* scope_func_enter
EnterFunctionScope ==
    /\ scopes' = <<[kind |-> "func", displ |-> displ, lg |-> lg, cur_id |-> cur_id,
                    saved |-> reference']>>
    /\ cur_id' = Len(identifiers') + 1
    /\ displ' = 3
    /\ max_displ' = 3
    /\ lg' = 1

\* parse_function_declaration with a body: header, then parse_function_definition
\* up to the opening of the body.  n is the number of parameters.
DefineFunction(repr, type, n) ==
    /\ Global /\ CanDeclare /\ Len(identifiers) + n < MaxIds
    /\ functions' = functions + 1 + n
    /\ UNCHANGED max_displg
    /\ \/ /\ Accepted(repr, 1)
          /\ reference' = Refer(repr)
          /\ ref_main' = NoteMain(repr)
          /\ predef' = IF Tracked(type) THEN predef \ {repr} ELSE predef
          /\ LET record == Record(repr, repr, "func", type, FunctionPlace(type))
             IN  \/ /\ SameType(repr, type)
                    /\ identifiers' =
                          Append(IF HasPrototype(repr)
                                 THEN [identifiers EXCEPT ![Hidden(repr)].displ = record.displ]
                                 ELSE identifiers, record)
                    /\ EnterFunctionScope
                    /\ params' = n
                    /\ errors' = (errors \/ (repr = Main /\ n > 1))
                 \/ /\ identifiers' = Append(identifiers, record)
                    /\ errors' = TRUE          \* no body, or a type that differs
                    /\ UNCHANGED <<scopes, cur_id, displ, max_displ, lg, params>>
       \/ /\ Reject(repr, 1)
          /\ UNCHANGED <<predef, scopes, cur_id, displ, max_displ, lg, params>>

\* The next parameter of the function: a variable ...
DeclareParameter(repr, size) ==
    /\ params > 0
    /\ params' = params - 1
    /\ \/ /\ Accepted(repr, 1)
          /\ Enlist(repr, repr, "var", size, displ)
          /\ get_static(size)
          /\ UNCHANGED errors
       \/ /\ Reject(repr, 1)
          /\ UNCHANGED <<displ, max_displ, max_displg>>
    /\ UNCHANGED <<cur_id, lg, predef, functions, scopes>>

\* ... or a function, whose displacement is negated and whose frame top is not a maximum.
DeclareFunctionParameter(repr) ==
    /\ params > 0
    /\ params' = params - 1
    /\ \/ /\ Accepted(repr, 1)
          /\ Enlist(repr, repr, "funcparam", 1, -displ)
          /\ displ' = displ + 1
          /\ max_displ' = displ + 1
          /\ UNCHANGED errors
       \/ /\ Reject(repr, 1)
          /\ UNCHANGED <<displ, max_displ>>
    /\ UNCHANGED <<cur_id, lg, max_displg, predef, functions, scopes>>

-----------------------------------------------------------------------------
(* Scopes *)

\* Mutants: the exit loop runs upwards, so that the newest record decides; the
\* "hides nothing" mark is not turned back into "no reference".
Undone_Upwards ==
    [r \in AllReprs |->
        LET mine == {i \in cur_id..Len(identifiers) : identifiers[i].repr = r}
            prev == identifiers[Max(mine)].prev
        IN  IF mine = {} THEN reference[r]
            ELSE IF prev = NO_PREV THEN ITEM_MAX ELSE prev]

Undone_RawMark ==
    [r \in AllReprs |->
        LET mine == {i \in cur_id..Len(identifiers) : identifiers[i].repr = r}
        IN  IF mine = {} THEN reference[r] ELSE identifiers[Min(mine)].prev]

\* What the exit loop leaves in the references: it undoes the records of the
\* scope from the last one down, so the oldest record of a spelling decides.
\* A negative spelling (a prototype) is out of the map's range and is skipped.
Undone ==
    [r \in AllReprs |->
        LET mine == {i \in cur_id..Len(identifiers) : identifiers[i].repr = r}
            prev == identifiers[Min(mine)].prev
        IN  IF mine = {} THEN reference[r]
            ELSE IF prev = NO_PREV THEN ITEM_MAX ELSE prev]

\* scope_block_enter: a compound statement or a for statement.
EnterBlock(kind) ==
    /\ InFunction /\ params = 0 /\ Len(scopes) < MaxDepth
    /\ scopes' = Append(scopes, [kind |-> kind, displ |-> displ, lg |-> lg, cur_id |-> cur_id,
                                 saved |-> reference])
    /\ cur_id' = last_id
    /\ UNCHANGED <<identifiers, reference, displ, lg, max_displ, max_displg,
                   ref_main, predef, functions, params, errors>>

InnerScope == scopes[Len(scopes)]
LeaveScope == scopes' = SubSeq(scopes, 1, Len(scopes) - 1)

\* scope_block_exit
ExitBlock ==
    /\ Len(scopes) > 1 /\ params = 0
    /\ reference' = Undone
    /\ displ' = InnerScope.displ
    /\ lg' = InnerScope.lg
    /\ cur_id' = InnerScope.cur_id
    /\ LeaveScope
    /\ UNCHANGED <<identifiers, max_displ, max_displg, ref_main, predef, functions, params, errors>>

\* A syntax error in the header of a for statement returns without scope_block_exit.
AbandonFor ==
    /\ Len(scopes) > 1 /\ params = 0
    /\ InnerScope.kind = "for"
    /\ errors' = TRUE
    /\ LeaveScope
    /\ UNCHANGED <<identifiers, reference, cur_id, displ, lg, max_displ, max_displg,
                   ref_main, predef, functions, params>>

\* scope_func_exit: back to the one level of all functions.
ExitFunction ==
    /\ Len(scopes) = 1 /\ params = 0
    /\ reference' = Undone
    /\ cur_id' = 1
    /\ lg' = -1
    /\ displ' = InnerScope.displ
    /\ LeaveScope
    /\ UNCHANGED <<identifiers, max_displ, max_displg, ref_main, predef, functions, params, errors>>

-----------------------------------------------------------------------------
\* The state sx_create leaves: one builtin, with a second spelling 0.
Init ==
    /\ identifiers = <<[prev |-> NO_PREV, repr |-> Builtin, kind |-> "func",
                        type |-> 0, displ |-> 2]>>
    /\ reference = [r \in AllReprs |-> IF r \in {Builtin, 0} THEN 1
                                       ELSE IF r = Main THEN 0 ELSE ITEM_MAX]
    /\ cur_id = 1
    /\ displ = -3 /\ lg = -1
    /\ max_displ = 3 /\ max_displg = 3
    /\ ref_main = 0
    /\ predef = {}
    /\ functions = 2
    /\ scopes = <<>>
    /\ params = 0
    /\ errors = FALSE

Next ==
    \/ \E repr \in Reprs :
          \/ \E size \in Sizes : DeclareVariable(repr, size) \/ DeclareParameter(repr, size)
          \/ DeclareFunctionParameter(repr)
          \/ \E func_def \in {0, FuncDef} : DeclareType(repr, func_def)
          \/ \E value \in EnumValues : DeclareEnumerator(repr, value)
          \/ \E type \in FuncTypes :
                DeclareFunction(repr, type) \/ \E n \in 0..MaxParams : DefineFunction(repr, type, n)
    \/ \E kind \in {"block", "for"} : EnterBlock(kind)
    \/ ExitBlock
    \/ AbandonFor
    \/ ExitFunction

Spec == Init /\ [][Next]_vars

\* sx_is_correct as the link check of compile_from_io uses it: after a parse
\* without errors, main exists and every announced function is defined.
LinkCheck == ~errors /\ Global /\ ref_main # 0 /\ predef = {}

-----------------------------------------------------------------------------
(* Properties *)

IdRecord == [prev : Int, repr : Int, type : Nat, displ : Int,
             kind : {"var", "funcparam", "enum", "type", "func", "bad"}]

ScopeRecord == [kind : {"func", "block", "for"}, displ : Int, lg : {1, -1}, cur_id : Nat,
                saved : [AllReprs -> Int]]

\* Type correctness of the tables of syntax.c.
TypeOK ==
    /\ identifiers \in Seq(IdRecord)
    /\ reference \in [AllReprs -> Int]
    /\ cur_id \in 1..last_id
    /\ displ \in Int /\ lg \in {1, -1}
    /\ max_displ \in Nat /\ max_displg \in Nat
    /\ ref_main \in 0..Len(identifiers)
    /\ predef \subseteq Reprs
    /\ functions \in Nat /\ params \in Nat
    /\ scopes \in Seq(ScopeRecord)
    /\ errors \in BOOLEAN

\* The environments of the open scopes, outermost first, and where each begins.
Depth == Len(scopes) + 1
EnvOf(k) == IF k = Depth THEN reference ELSE scopes[k].saved
BaseOf(k) == IF k = Depth THEN cur_id ELSE scopes[k].cur_id

Names == Reprs \ {Main}

Lexical == INSTANCE LexicalScope WITH
    Names <- Names,
    Start <- [r \in Names |-> IF r = Builtin THEN 1 ELSE ITEM_MAX],
    Undeclared <- ITEM_MAX,
    env <- [k \in 1..Depth |-> [r \in Names |-> EnvOf(k)[r]]],
    own <- [k \in 1..Depth |-> {r \in Names : EnvOf(k)[r] >= BaseOf(k)}],
    announced <- {r \in Names : /\ EnvOf(1)[r] > 0
                                /\ identifiers[EnvOf(1)[r]].repr < 0},
    failed <- errors

\* Until an error is reported, the undo chains of ident_add, scope_block_exit and
\* scope_func_exit implement a stack of environments: a name means after a scope
\* what it meant before, and redeclarations are found exactly per scope.
ImplementsLexicalScope == Lexical!AbsSpec

\* The parser goes on after an error, and scope exit then works on unfinished
\* records and on scopes that were never closed.  It still never leads a spelling
\* outside the table, and no open scope begins beyond its end.
IndicesInRange ==
    /\ \A k \in 1..Depth : BaseOf(k) \in 1..last_id
    /\ \A k \in 1..Depth, r \in AllReprs :
          EnvOf(k)[r] \in {ITEM_MAX} \cup 0..Len(identifiers)

\* The words of the frame that a local declaration occupies; enumerators reserve
\* a word that is never used.
Slots(i) ==
    LET id == identifiers[i]
    IN  CASE id.kind = "var" -> id.displ .. id.displ + id.type - 1
          [] id.kind = "funcparam" -> {-id.displ}
          [] OTHER -> {}

Live == {EnvOf(k)[r] : k \in 2..Depth, r \in Names} \cap BaseOf(2)..Len(identifiers)

\* Local variables that are alive at the same time, shadowed ones included, never
\* share a word of the frame, although get_static reuses the words of closed blocks.
FrameDisjoint ==
    InFunction /\ ~errors =>
        \A i, j \in Live : i # j => Slots(i) \cap Slots(j) = {}

\* The frame size that scope_func_exit reports covers every local of the function,
\* those of closed blocks included.
FrameFits ==
    InFunction /\ ~errors =>
        \A i \in BaseOf(2)..Len(identifiers) : Slots(i) \subseteq 3..max_displ - 1

\* When the link check passes, every prototype has a definition of the same type
\* after it and carries that definition's number, so calls compiled against the
\* prototype reach it.
PrototypesLinked ==
    LinkCheck => \A i \in 1..Len(identifiers) :
        identifiers[i].repr < 0 =>
            \E j \in i + 1..Len(identifiers) :
                /\ identifiers[j].repr = -identifiers[i].repr
                /\ identifiers[j].kind = "func"
                /\ identifiers[j].type = identifiers[i].type
                /\ identifiers[j].displ = identifiers[i].displ
=============================================================================
