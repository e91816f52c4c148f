------------------------------- MODULE Types -------------------------------
(***************************************************************************)
(* The table of types of the RuC compiler (libs/compiler/syntax.c).        *)
(*                                                                         *)
(* A basic type is a negative number, any other type the index of its      *)
(* record in one vector of cells.  The cell before a record links it to    *)
(* the record before; start_type is the newest link.  The compiler         *)
(* compares types by number, so type_add must give equal types one number  *)
(* and different types different ones: it appends the record, looks for an *)
(* equal one along the links and, if there is one, cuts the table back.    *)
(*                                                                         *)
(* made is history: what was asked for, and the number that was returned.  *)
(* A description is a sequence of numbers in prefix form, so that          *)
(* descriptions are equal exactly if the types are.                        *)
(***************************************************************************)
EXTENDS Integers, Sequences, SequencesExt

CONSTANTS
    Basic,          \* the basic types of the program, of BasicTypes
    Names,          \* the names of members and enumerators
    Makers,         \* the constructors used: a set of TYPE_ codes
    MaxTypes        \* bound on the types asked for

TYPE_FUNCTION  == 1002
TYPE_STRUCTURE == 1003
TYPE_ARRAY     == 1004
TYPE_POINTER   == 1005
TYPE_ENUM      == 1006
TYPE_CONST     == 1007
TYPE_INTEGER   == -1
TYPE_FLOATING  == -3
BasicTypes == -9..-1
ITEM_MAX == 2147483647

ASSUME TypesAssumption ==
    /\ Basic \subseteq BasicTypes
    /\ Names \subseteq Nat
    /\ MaxTypes \in Nat

VARIABLES
    types,          \* the cells; the cell of index i is types[i + 1]
    start_type,     \* the link cell of the newest record
    made            \* sequence of [type, desc]

vars == <<types, start_type, made>>

-----------------------------------------------------------------------------
\* vector_get: an index outside the table, such as a negative number taken for an
\* unsigned one, reads as ITEM_MAX.
Cell(table, i) == IF i + 1 \in DOMAIN table THEN table[i + 1] ELSE ITEM_MAX

type_is_const(table, type) == type > 0 /\ Cell(table, type) = TYPE_CONST
type_const_get_unqualified_type(table, type) == Cell(table, type + 1)

\* Mutant: only the class and one cell of a record are compared.
FieldsToCompare_One(table, type) == 1

\* The cells compared after the class of a record; those of an array or pointer are
\* one, and so is the cell after an enumeration.
FieldsToCompare(table, type) ==
    IF Cell(table, type) \in {TYPE_STRUCTURE, TYPE_FUNCTION} THEN 2 + Cell(table, type + 2) ELSE 1

\* type_is_equal; its recursion on const types follows the unqualified types.
type_is_equal(table, first, second) ==
    LET equal[p \in Int \X Int] ==
            /\ Cell(table, p[1]) = Cell(table, p[2])
            /\ IF Cell(table, p[1]) = TYPE_CONST
               THEN equal[<<type_const_get_unqualified_type(table, p[1]),
                            type_const_get_unqualified_type(table, p[2])>>]
               ELSE \A i \in 1..FieldsToCompare(table, p[1]) :
                        Cell(table, p[1] + i) = Cell(table, p[2] + i)
    IN  equal[<<first, second>>]

\* The link cells of the records, newest first, as the search visits them.
Links(table, start) ==
    LET links[link \in Nat] == IF link = 0 THEN <<>> ELSE <<link>> \o links[Cell(table, link)]
    IN  links[start]

\* The older record that type_add finds equal to the one it has appended, 0 if none.
Duplicate(table, start) ==
    LET equals == SelectSeq(Links(table, Cell(table, start)),
                            LAMBDA old : type_is_equal(table, start + 1, old + 1))
    IN  IF equals = <<>> THEN 0 ELSE equals[1]

vector_resize(table, size) == [i \in 1..size |-> IF i \in DOMAIN table THEN table[i] ELSE 0]

\* Mutant: start_type is set back before it is saved as the size to cut to.
Cut_Late(table, start) == vector_resize(table, Cell(table, start))

\* What is left of the table, the record at start appended, when it turns out a duplicate.
Cut(table, start) == vector_resize(table, start)

\* type_add: [table, start, type] after a record was added.
type_add(record) ==
    LET table == types \o <<start_type>> \o record
        start == Len(types)
        old == Duplicate(table, start)
    IN  IF old # 0 THEN [table |-> Cut(table, start), start |-> Cell(table, start), type |-> old + 1]
        ELSE [table |-> table, start |-> start, type |-> start + 1]

\* The fields of an enumeration go behind the table, whose last cell must be its class.
type_enum_add_fields(table, fields) ==
    IF Cell(table, Len(table) - 1) = TYPE_ENUM THEN table \o fields ELSE table

-----------------------------------------------------------------------------
\* What a number was returned for.
Desc(type) == IF type < 0 THEN <<type>>
              ELSE made[CHOOSE i \in DOMAIN made : made[i].type = type].desc
Known == Basic \cup {made[i].type : i \in DOMAIN made}

Keep(added, table, desc) ==
    /\ types' = table
    /\ start_type' = added.start
    /\ made' = Append(made, [type |-> added.type, desc |-> desc])

Add(record, desc) ==
    LET added == type_add(record) IN Keep(added, added.table, desc)

CanMake(class) == class \in Makers /\ Len(made) < MaxTypes

\* type_array, type_pointer, type_const
Derive(class, type) ==
    /\ CanMake(class)
    /\ Add(<<class, type>>, <<class>> \o Desc(type))

\* type_function, and the type that parse_function_declarator adds
type_function(return_type, args) ==
    /\ CanMake(TYPE_FUNCTION)
    /\ Add(<<TYPE_FUNCTION, return_type, Len(args)>> \o args,
           <<TYPE_FUNCTION, Len(args)>> \o Desc(return_type)
               \o FlattenSeq([i \in DOMAIN args |-> Desc(args[i])]))

\* type_size
type_size(type) ==
    LET size[t \in Int] ==
            IF type_is_const(types, t) THEN size[type_const_get_unqualified_type(types, t)]
            ELSE IF t > 0 /\ Cell(types, t) = TYPE_STRUCTURE THEN Cell(types, t + 1)
            ELSE IF t = TYPE_FLOATING THEN 2 ELSE 1
    IN  size[type]

\* Type and name of each member in turn.
MemberCells(members) ==
    [k \in 1..2 * Len(members) |-> IF k % 2 = 1 THEN members[(k + 1) \div 2][1] ELSE members[k \div 2][2]]

\* members: sequence of <<type, name>>
type_structure(members) ==
    /\ CanMake(TYPE_STRUCTURE)
    /\ LET size == FoldLeft(LAMBDA sum, m : sum + type_size(m[1]), 0, members)
       IN  Add(<<TYPE_STRUCTURE, size, 2 * Len(members)>> \o MemberCells(members),
               <<TYPE_STRUCTURE, Len(members)>>
                   \o FlattenSeq([i \in DOMAIN members |-> Desc(members[i][1]) \o <<members[i][2]>>]))

\* parse_enum_declaration_list: the record is added with its class only and the fields
\* by type_enum_add_fields; every enumeration is a type of its own.
MakeEnum(value, name) ==
    /\ CanMake(TYPE_ENUM)
    /\ LET added == type_add(<<TYPE_ENUM>>)
       IN  Keep(added, type_enum_add_fields(added.table, <<value \div 2, 2, value, name>>),
                <<TYPE_ENUM, Len(made)>>)

\* type_init: the record of the type of messages
Init ==
    /\ types = <<0, 0, TYPE_STRUCTURE, 2, 4, TYPE_INTEGER, 0, TYPE_INTEGER, 1>>
    /\ start_type = 1
    /\ made = <<[type |-> 2, desc |-> <<TYPE_STRUCTURE, 2, TYPE_INTEGER, 0, TYPE_INTEGER, 1>>]>>

Next ==
    \/ \E class \in {TYPE_ARRAY, TYPE_POINTER, TYPE_CONST}, type \in Known : Derive(class, type)
    \/ \E type \in Known, args \in BoundedSeq(Known, 1) : type_function(type, args)
    \/ \E first, second \in Known \X Names : type_structure(<<first>>) \/ type_structure(<<first, second>>)
    \/ \E name \in Names : MakeEnum(0, name)

Spec == Init /\ [][Next]_vars

-----------------------------------------------------------------------------
(* Properties *)

HasConst(desc) == \E i \in DOMAIN desc : desc[i] = TYPE_CONST

\* A type that is built twice gets the same number, however many others were built in
\* between, and different types without const get different ones: assignments and calls
\* compare types by number only.
NumbersExact ==
    \A i, j \in DOMAIN made :
        /\ made[i].desc = made[j].desc => made[i].type = made[j].type
        /\ made[i].type = made[j].type /\ ~HasConst(made[i].desc) => made[i].desc = made[j].desc

\* What was handed out stays: no step changes a cell of an older record or cuts it off,
\* although every type_add writes past the end and cuts the table back when it finds a
\* duplicate, and start_type only ever moves to a record that is linked to the one it was
\* at, so that the search of later calls still comes past every record.
RecordsStable ==
    [][/\ \A i \in DOMAIN types : Cell(types', i - 1) = types[i]
       /\ start_type' # start_type => Cell(types', start_type') = start_type]_vars
=============================================================================
