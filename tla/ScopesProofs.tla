---------------------------- MODULE ScopesProofs ----------------------------
(***************************************************************************)
(* Proofs about Scopes, for every set of spellings, sizes and types and    *)
(* without any bound on the table.                                         *)
(***************************************************************************)
EXTENDS Scopes, SequenceTheorems, WellFoundedInduction, TLAPS

(***************************************************************************)
(* Where the displacement stands: above the frame header inside a          *)
(* function, below the global header outside; every open scope begins      *)
(* inside the table.  TypeOK is not inductive without it: the value that   *)
(* scope exit restores comes from a saved scope.                           *)
(***************************************************************************)
Layout ==
    /\ scopes = <<>> => lg = -1 /\ displ <= -3 /\ params = 0
    /\ scopes # <<>> => lg = 1 /\ displ >= 3 /\ scopes[1].displ <= -3
    /\ \A k \in 2..Len(scopes) : scopes[k].displ >= 3 /\ scopes[k].lg = 1
    /\ \A k \in 1..Len(scopes) : scopes[k].cur_id \in 1..last_id

TypeInv == TypeOK /\ Layout

-----------------------------------------------------------------------------
(* Lemmas about the operators of Scopes. *)

\* A new record is a record, whatever its spelling hides.
LEMMA RecordType ==
    ASSUME TypeOK, NEW repr \in AllReprs, NEW name \in Int, NEW type \in Nat, NEW place \in Int,
           NEW kind \in {"var", "funcparam", "enum", "type", "func", "bad"}
    PROVE  Record(repr, name, kind, type, place) \in IdRecord
BY DEF Record, IdRecord, Hidden, TypeOK, NO_PREV, ITEM_MAX

\* Moving a reference keeps the map of references a map.
LEMMA ReferType ==
    ASSUME TypeOK, NEW repr \in AllReprs
    PROVE  Refer(repr) \in [AllReprs -> Int]
BY DEF Refer, TypeOK, last_id

\* Every non-empty set of naturals has a least element, and Min finds it.
LEMMA MinProperty ==
    ASSUME NEW S \in SUBSET Nat, S # {}
    PROVE  Min(S) \in S /\ \A y \in S : Min(S) <= y
<1> DEFINE less == {ss \in Nat \X Nat : ss[1] < ss[2]}
<1>1. less = OpToRel(<, Nat)
  BY Zenon DEF OpToRel
<1>2. IsWellFoundedOn(less, Nat)
  BY <1>1, NatLessThanWellFounded
<1> HIDE DEF less
<1>3. PICK x \in S : \A y \in S : ~ (<<y, x>> \in less)
  BY <1>2, WFMin
<1>4. ASSUME NEW y \in S
      PROVE  x <= y
  <2>1. ~ (y < x)
    <3>1. <<y, x>> \in Nat \X Nat
      OBVIOUS
    <3>2. y < x => <<y, x>> \in less
      BY <3>1 DEF less
    <3> QED BY <3>2, <1>3
  <2> QED BY <2>1
<1> QED
  BY <1>4 DEF Min

\* The undo loop of scope exit keeps the map of references a map.
LEMMA UndoneType ==
    ASSUME TypeOK
    PROVE  Undone \in [AllReprs -> Int]
<1> SUFFICES ASSUME NEW r \in AllReprs
             PROVE  Undone[r] \in Int
  BY DEF Undone
<1> DEFINE mine == {i \in cur_id..Len(identifiers) : identifiers[i].repr = r}
<1>1. CASE mine = {}
  BY <1>1 DEF Undone, TypeOK
<1>2. CASE mine # {}
  <2>1. Min(mine) \in mine
    <3>1. mine \in SUBSET Nat
      BY DEF TypeOK, last_id
    <3> QED BY <1>2, <3>1, MinProperty
  <2>2. identifiers[Min(mine)] \in IdRecord
    BY <2>1 DEF TypeOK, last_id
  <2> QED BY <1>2, <2>2 DEF Undone, IdRecord, ITEM_MAX
<1> QED BY <1>1, <1>2

\* The part of TypeOK that ident_add is responsible for.
TableOK ==
    /\ identifiers \in Seq(IdRecord)
    /\ reference \in [AllReprs -> Int]
    /\ ref_main \in 0..Len(identifiers)

\* A successful ident_add appends one record and keeps the tables well typed.
LEMMA EnlistType ==
    ASSUME TypeOK, NEW repr \in Reprs, NEW name \in Int, NEW type \in Nat, NEW place \in Int,
           NEW kind \in {"var", "funcparam", "enum", "type", "func", "bad"},
           Enlist(repr, name, kind, type, place)
    PROVE  TableOK' /\ Len(identifiers') = Len(identifiers) + 1
<1>1. Record(repr, name, kind, type, place) \in IdRecord
  BY RecordType DEF AllReprs
<1>2. Refer(repr) \in [AllReprs -> Int]
  BY ReferType DEF AllReprs
<1>3. NoteMain(repr) \in 0..Len(identifiers) + 1
  BY DEF NoteMain, TypeOK, last_id
<1> QED BY <1>1, <1>2, <1>3 DEF Enlist, TableOK, TypeOK

\* A rejected declaration leaves an unfinished record and well typed tables.
LEMMA RejectType ==
    ASSUME TypeOK, NEW repr \in Reprs, NEW func_def, Reject(repr, func_def)
    PROVE  TableOK' /\ Len(identifiers') = Len(identifiers) + 1 /\ errors' \in BOOLEAN
<1>1. Record(repr, 0, "bad", 0, 0) \in IdRecord
  BY RecordType DEF AllReprs
<1>2. Refer(repr) \in [AllReprs -> Int]
  BY ReferType DEF AllReprs
<1> QED BY <1>1, <1>2 DEF Reject, TableOK, TypeOK

-----------------------------------------------------------------------------
(* Type correctness *)

\* The state sx_create builds satisfies the inductive invariant.
LEMMA InitTypeInv == Init => TypeInv
<1> SUFFICES ASSUME Init PROVE TypeInv
  OBVIOUS
<1>0. Builtin \in Int
  <2>1. Builtin \in Reprs /\ Reprs \subseteq Int
    BY ScopesAssumption
  <2> QED BY <2>1
<1> USE DEF Init
<1>1. Len(identifiers) = 1 /\ identifiers \in Seq(IdRecord)
  <2>2. [prev |-> NO_PREV, repr |-> Builtin, kind |-> "func", type |-> 0, displ |-> 2] \in IdRecord
    BY <1>0 DEF IdRecord, NO_PREV
  <2> QED BY <2>2
<1>2. reference \in [AllReprs -> Int]
  BY DEF ITEM_MAX
<1>3. TypeOK
  <2>1. scopes \in Seq(ScopeRecord)
    BY EmptySeq
  <2>2. errors \in BOOLEAN
    OBVIOUS
  <2>3. /\ cur_id \in 1..last_id /\ displ \in Int /\ lg \in {1, -1}
        /\ max_displ \in Nat /\ max_displg \in Nat /\ ref_main \in 0..Len(identifiers)
        /\ functions \in Nat /\ params \in Nat /\ predef \subseteq Reprs
    BY <1>1 DEF last_id
  <2> QED BY <1>1, <1>2, <2>1, <2>2, <2>3 DEF TypeOK
<1>4. Layout
  BY DEF Layout
<1> QED BY <1>3, <1>4 DEF TypeInv

\* Declarations other than functions leave the scopes alone.
LEMMA DeclarationTypeInv ==
    ASSUME TypeInv, TableOK', Len(identifiers') = Len(identifiers) + 1, errors' \in BOOLEAN,
           UNCHANGED <<cur_id, lg, predef, scopes>>,
           functions' \in Nat, params' \in Nat, params = 0 => params' = 0,
           displ' \in Int, max_displ' \in Nat, max_displg' \in Nat,
           scopes = <<>> => displ' <= displ,
           scopes # <<>> => displ' >= displ
    PROVE  TypeInv'
<1>1. TypeOK'
  BY SMTT(30) DEF TypeInv, TypeOK, TableOK, last_id
<1>2. Layout'
  BY SMTT(30) DEF TypeInv, Layout, last_id, TypeOK
<1> QED BY <1>1, <1>2 DEF TypeInv

\* get_static moves the displacement away from the header, up or down.
LEMMA GetStaticType ==
    ASSUME TypeInv, NEW size \in Nat, get_static(size)
    PROVE  /\ displ' \in Int /\ max_displ' \in Nat /\ max_displg' \in Nat
           /\ scopes = <<>> => displ' <= displ
           /\ scopes # <<>> => displ' >= displ
BY DEF TypeInv, TypeOK, Layout, get_static

\* The actions that declare anything but a function.
LEMMA DeclareTypeInv ==
    ASSUME TypeInv, NEW repr \in Reprs,
           \/ \E size \in Sizes : DeclareVariable(repr, size) \/ DeclareParameter(repr, size)
           \/ DeclareFunctionParameter(repr)
           \/ \E func_def \in {0, FuncDef} : DeclareType(repr, func_def)
           \/ \E value \in EnumValues : DeclareEnumerator(repr, value)
    PROVE  TypeInv'
<1> DEFINE Table == TableOK' /\ Len(identifiers') = Len(identifiers) + 1 /\ errors' \in BOOLEAN
<1>0. /\ TypeOK /\ Reprs \subseteq Int /\ Sizes \subseteq Nat /\ EnumValues \subseteq Int
      /\ displ \in Int /\ -displ \in Int /\ errors \in BOOLEAN
      /\ max_displ \in Nat /\ max_displg \in Nat /\ functions \in Nat /\ params \in Nat
  BY ScopesAssumption DEF TypeInv, TypeOK
<1>1. ASSUME NEW size \in Sizes, DeclareVariable(repr, size)
      PROVE  TypeInv'
  <2>1. CASE Accepted(repr, 3) /\ Enlist(repr, repr, "var", size, displ) /\ get_static(size) /\ UNCHANGED errors
    <3>1. Table
      BY <1>0, <2>1, EnlistType
    <3> QED BY <1>0, <1>1, <2>1, <3>1, GetStaticType, DeclarationTypeInv DEF DeclareVariable
  <2>2. CASE Reject(repr, 3) /\ UNCHANGED <<displ, max_displ, max_displg>>
    <3>1. Table
      BY <1>0, <2>2, RejectType
    <3> QED BY <1>0, <1>1, <2>2, <3>1, DeclarationTypeInv DEF DeclareVariable
  <2> QED BY <1>1, <2>1, <2>2 DEF DeclareVariable
<1>2. ASSUME NEW size \in Sizes, DeclareParameter(repr, size)
      PROVE  TypeInv'
  <2>1. CASE Accepted(repr, 1) /\ Enlist(repr, repr, "var", size, displ) /\ get_static(size) /\ UNCHANGED errors
    <3>1. Table
      BY <1>0, <2>1, EnlistType
    <3> QED BY <1>0, <1>2, <2>1, <3>1, GetStaticType, DeclarationTypeInv DEF DeclareParameter
  <2>2. CASE Reject(repr, 1) /\ UNCHANGED <<displ, max_displ, max_displg>>
    <3>1. Table
      BY <1>0, <2>2, RejectType
    <3> QED BY <1>0, <1>2, <2>2, <3>1, DeclarationTypeInv DEF DeclareParameter
  <2> QED BY <1>2, <2>1, <2>2 DEF DeclareParameter
<1>3. ASSUME DeclareFunctionParameter(repr)
      PROVE  TypeInv'
  <2>1. Table
    BY <1>0, <1>3, EnlistType, RejectType DEF DeclareFunctionParameter
  <2>2. displ >= 3 /\ scopes # <<>>
    BY <1>3 DEF TypeInv, Layout, DeclareFunctionParameter
  <2> QED BY <1>0, <1>3, <2>1, <2>2, DeclarationTypeInv DEF DeclareFunctionParameter
<1>4. ASSUME NEW func_def \in {0, FuncDef}, DeclareType(repr, func_def)
      PROVE  TypeInv'
  <2>1. Table
    BY <1>0, <1>4, EnlistType, RejectType DEF DeclareType, TYPE_BASE
  <2> QED BY <1>0, <1>4, <2>1, DeclarationTypeInv DEF DeclareType
<1>5. ASSUME NEW value \in EnumValues, DeclareEnumerator(repr, value)
      PROVE  TypeInv'
  <2>1. CASE IsSecondMain(repr)
    <3>1. Record(repr, 0, "bad", 0, 0) \in IdRecord
      BY <1>0, RecordType DEF AllReprs
    <3>2. identifiers' = Append([identifiers EXCEPT ![1].prev = value], Record(repr, 0, "bad", 0, 0))
      BY <1>5, <2>1 DEF DeclareEnumerator, Accepted
    <3>3. /\ [identifiers EXCEPT ![1].prev = value] \in Seq(IdRecord)
          /\ Len([identifiers EXCEPT ![1].prev = value]) = Len(identifiers)
      <4>1. Len(identifiers) >= 1
        BY <2>1 DEF IsSecondMain, TypeInv, TypeOK
      <4>2. [identifiers[1] EXCEPT !.prev = value] \in IdRecord
        <5>1. identifiers[1] \in IdRecord
          BY <1>0, <4>1 DEF TypeOK
        <5>2. value \in Int
          BY <1>0
        <5> QED BY <5>1, <5>2 DEF IdRecord
      <4> QED BY <4>1, <4>2, ExceptSeq DEF TypeInv, TypeOK
    <3>4. UNCHANGED <<reference, ref_main>> /\ errors' = TRUE
      BY <1>5, <2>1 DEF DeclareEnumerator, Accepted
    <3>5. identifiers' \in Seq(IdRecord) /\ Len(identifiers') = Len(identifiers) + 1
      BY <3>1, <3>2, <3>3
    <3>6. Table
      BY <3>4, <3>5 DEF TypeInv, TypeOK, TableOK
    <3> QED BY <1>0, <1>5, <2>1, <3>6, DeclarationTypeInv DEF DeclareEnumerator, Accepted
  <2>2. CASE Reject(repr, FuncDef) /\ UNCHANGED <<displ, max_displ, max_displg>>
    <3>1. Table
      BY <1>0, <2>2, RejectType
    <3> QED BY <1>0, <1>5, <2>2, <3>1, DeclarationTypeInv DEF DeclareEnumerator
  <2>3. CASE Enlist(repr, repr, "enum", 1, value) /\ get_static(1) /\ UNCHANGED errors
    <3>1. Table
      BY <1>0, <2>3, EnlistType
    <3> QED BY <1>0, <1>5, <2>3, <3>1, GetStaticType, DeclarationTypeInv DEF DeclareEnumerator
  <2> QED BY <1>5, <2>1, <2>2, <2>3 DEF DeclareEnumerator
<1> QED BY <1>1, <1>2, <1>3, <1>4, <1>5

\* A prototype.
LEMMA DeclareFunctionTypeInv ==
    ASSUME TypeInv, NEW repr \in Reprs, NEW type \in FuncTypes, DeclareFunction(repr, type)
    PROVE  TypeInv'
<1>0. /\ TypeOK /\ repr \in Int /\ -repr \in Int /\ type \in Nat /\ errors \in BOOLEAN
      /\ functions \in Nat /\ params \in Nat
  BY ScopesAssumption DEF TypeInv, TypeOK
<1>1. FunctionPlace(type) \in Int /\ (IF Tracked(type) THEN -repr ELSE repr) \in Int
  BY <1>0 DEF FunctionPlace
<1>2. TableOK' /\ Len(identifiers') = Len(identifiers) + 1
  BY <1>0, <1>1, EnlistType, RejectType DEF DeclareFunction
<1>3. errors' \in BOOLEAN
  BY <1>0, RejectType DEF DeclareFunction
<1>4. predef' \subseteq Reprs
  BY DEF DeclareFunction, TypeInv, TypeOK
<1>5. /\ UNCHANGED <<cur_id, displ, lg, max_displ, max_displg, scopes, params>>
      /\ functions' \in Nat
  BY <1>0 DEF DeclareFunction
<1>6. TypeOK'
  BY <1>2, <1>3, <1>4, <1>5 DEF TypeInv, TypeOK, TableOK, last_id
<1>7. Layout'
  BY <1>2, <1>5 DEF TypeInv, TypeOK, Layout, last_id
<1> QED BY <1>6, <1>7 DEF TypeInv

\* A definition, with or without an error, and the opening of the function's scope.
LEMMA DefineFunctionTypeInv ==
    ASSUME TypeInv, NEW repr \in Reprs, NEW type \in FuncTypes, NEW n \in 0..MaxParams,
           DefineFunction(repr, type, n)
    PROVE  TypeInv'
<1>0. /\ TypeOK /\ repr \in Int /\ type \in Nat /\ errors \in BOOLEAN
      /\ functions \in Nat /\ params \in Nat /\ scopes = <<>> /\ repr \in AllReprs /\ n \in Nat
  BY ScopesAssumption, SMTT(30) DEF TypeInv, TypeOK, DefineFunction, Global, AllReprs
<1> DEFINE record == Record(repr, repr, "func", type, FunctionPlace(type))
           linked == [identifiers EXCEPT ![Hidden(repr)].displ = record.displ]
<1>1. functions' \in Nat /\ max_displg' = max_displg
  BY <1>0 DEF DefineFunction
<1>2. CASE Reject(repr, 1) /\ UNCHANGED <<predef, scopes, cur_id, displ, max_displ, lg, params>>
  <2>1. TableOK' /\ Len(identifiers') = Len(identifiers) + 1 /\ errors' \in BOOLEAN
    BY <1>0, <1>2, RejectType
  <2> QED BY <1>0, <1>1, <1>2, <2>1, DeclarationTypeInv DEF TypeInv, TypeOK
<1>3. CASE /\ reference' = Refer(repr)
           /\ ref_main' = NoteMain(repr)
           /\ predef' = IF Tracked(type) THEN predef \ {repr} ELSE predef
           /\ \/ /\ identifiers' = Append(IF HasPrototype(repr) THEN linked ELSE identifiers, record)
                 /\ EnterFunctionScope
                 /\ params' = n
                 /\ errors' = (errors \/ (repr = Main /\ n > 1))
              \/ /\ identifiers' = Append(identifiers, record)
                 /\ errors' = TRUE
                 /\ UNCHANGED <<scopes, cur_id, displ, max_displ, lg, params>>
  <2>1. FunctionPlace(type) \in Int
    BY <1>0 DEF FunctionPlace
  <2>2. record \in IdRecord /\ record.displ \in Int
    BY <1>0, <2>1, RecordType DEF IdRecord
  <2> HIDE DEF record
  <2>3. linked \in Seq(IdRecord) /\ Len(linked) = Len(identifiers)
    <3>1. CASE Hidden(repr) \in 1..Len(identifiers)
      <4>1. identifiers[Hidden(repr)] \in IdRecord
        BY <1>0, <3>1 DEF TypeOK
      <4>2. [identifiers[Hidden(repr)] EXCEPT !.displ = record.displ] \in IdRecord
        BY <2>2, <4>1 DEF IdRecord
      <4> QED BY <1>0, <3>1, <4>2, ExceptSeq DEF TypeOK
    <3>2. CASE Hidden(repr) \notin 1..Len(identifiers)
      <4>1. linked = identifiers
        BY <1>0, <3>2 DEF TypeOK
      <4> QED BY <1>0, <4>1 DEF TypeOK
    <3> QED BY <3>1, <3>2
  <2> HIDE DEF linked
  <2>4. identifiers' \in Seq(IdRecord) /\ Len(identifiers') = Len(identifiers) + 1
    <3> DEFINE table == IF HasPrototype(repr) THEN linked ELSE identifiers
    <3>1. table \in Seq(IdRecord) /\ Len(table) = Len(identifiers)
      BY <1>0, <2>3 DEF TypeOK
    <3>2. identifiers \in Seq(IdRecord)
      BY <1>0 DEF TypeOK
    <3>3. identifiers' = Append(table, record) \/ identifiers' = Append(identifiers, record)
      BY <1>3
    <3> HIDE DEF table
    <3>4. Append(table, record) \in Seq(IdRecord) /\ Len(Append(table, record)) = Len(table) + 1
      BY <2>2, <3>1, AppendProperties
    <3>5. /\ Append(identifiers, record) \in Seq(IdRecord)
          /\ Len(Append(identifiers, record)) = Len(identifiers) + 1
      BY <2>2, <3>2, AppendProperties
    <3> QED BY <3>1, <3>3, <3>4, <3>5
  <2>5. reference' \in [AllReprs -> Int]
    BY <1>0, <1>3, ReferType
  <2>6. ref_main' \in 0..Len(identifiers')
    BY <1>0, <1>3, <2>4 DEF NoteMain, last_id, TypeOK
  <2>7. errors' \in BOOLEAN /\ predef' \subseteq Reprs
    BY <1>0, <1>3 DEF TypeOK
  <2>8. CASE UNCHANGED <<scopes, cur_id, displ, max_displ, lg, params>>
    <3>1. TypeOK'
      BY <1>0, <1>1, <2>4, <2>5, <2>6, <2>7, <2>8 DEF TypeOK, last_id
    <3>2. Layout'
      BY <1>0, <2>4, <2>8 DEF TypeInv, TypeOK, Layout, last_id
    <3> QED BY <3>1, <3>2 DEF TypeInv
  <2>9. CASE EnterFunctionScope /\ params' = n
    <3> DEFINE sc == [kind |-> "func", displ |-> displ, lg |-> lg, cur_id |-> cur_id,
                      saved |-> reference']
    <3>1. scopes' = <<sc>> /\ cur_id' = Len(identifiers') + 1 /\ displ' = 3 /\ max_displ' = 3 /\ lg' = 1
      BY <2>9 DEF EnterFunctionScope
    <3>2. sc \in ScopeRecord
      BY <1>0, <2>5 DEF ScopeRecord, TypeOK, last_id
    <3>3. sc.displ = displ /\ sc.cur_id = cur_id
      OBVIOUS
    <3> HIDE DEF sc
    <3>4. scopes' \in Seq(ScopeRecord) /\ Len(scopes') = 1 /\ scopes'[1] = sc /\ scopes' # <<>>
      BY <3>1, <3>2
    <3>5. TypeOK'
      BY <1>0, <1>1, <2>4, <2>5, <2>6, <2>7, <2>9, <3>1, <3>4 DEF TypeOK, last_id
    <3>6. Layout'
      BY <1>0, <2>4, <3>1, <3>3, <3>4 DEF TypeInv, TypeOK, Layout, last_id
    <3> QED BY <3>5, <3>6 DEF TypeInv
  <2> QED BY <1>3, <2>8, <2>9
<1> QED BY <1>2, <1>3 DEF DefineFunction

\* Opening a block.
LEMMA EnterBlockTypeInv ==
    ASSUME TypeInv, NEW kind \in {"block", "for"}, EnterBlock(kind)
    PROVE  TypeInv'
<1> DEFINE sc == [kind |-> kind, displ |-> displ, lg |-> lg, cur_id |-> cur_id, saved |-> reference]
<1>1. /\ scopes' = Append(scopes, sc) /\ cur_id' = last_id /\ scopes # <<>>
      /\ UNCHANGED <<identifiers, reference, displ, lg, max_displ, max_displg,
                     ref_main, predef, functions, params, errors>>
  BY DEF EnterBlock, InFunction
<1>2. sc \in ScopeRecord
  BY DEF ScopeRecord, TypeInv, TypeOK, last_id
<1>3. sc.displ = displ /\ sc.lg = lg /\ sc.cur_id = cur_id
  OBVIOUS
<1> HIDE DEF sc
<1>4. /\ scopes' \in Seq(ScopeRecord) /\ Len(scopes') = Len(scopes) + 1 /\ scopes' # <<>>
      /\ \A k \in 1..Len(scopes) : scopes'[k] = scopes[k]
      /\ scopes'[Len(scopes) + 1] = sc
  BY <1>1, <1>2 DEF TypeInv, TypeOK
<1>5. Len(scopes) \in Nat /\ Len(scopes) >= 1
  BY <1>1 DEF TypeInv, TypeOK
<1>6. TypeOK'
  BY <1>1, <1>4 DEF TypeInv, TypeOK, last_id
<1>7. Layout'
  BY <1>1, <1>3, <1>4, <1>5 DEF TypeInv, TypeOK, Layout, last_id
<1> QED BY <1>6, <1>7 DEF TypeInv

\* What is left of the scopes when the innermost one is discarded.
LEMMA LeaveScopeType ==
    ASSUME TypeInv, LeaveScope, scopes # <<>>
    PROVE  /\ Len(scopes) \in Nat \ {0}
           /\ InnerScope \in ScopeRecord
           /\ scopes' \in Seq(ScopeRecord)
           /\ Len(scopes') = Len(scopes) - 1
           /\ \A k \in 1..Len(scopes') : scopes'[k] = scopes[k]
           /\ Len(scopes) = 1 => scopes' = <<>>
           /\ Len(scopes) > 1 => scopes' # <<>>
<1>1. scopes \in Seq(ScopeRecord) /\ Len(scopes) \in Nat /\ Len(scopes) >= 1
  BY DEF TypeInv, TypeOK
<1>2. InnerScope \in ScopeRecord
  BY <1>1 DEF InnerScope
<1>3. /\ scopes' \in Seq(ScopeRecord)
      /\ Len(scopes') = Len(scopes) - 1
      /\ \A k \in 1..Len(scopes') : scopes'[k] = scopes[k]
  <2> DEFINE n == Len(scopes) - 1
  <2>1. n \in Int /\ \A i \in 1..n : scopes[i] \in ScopeRecord
    BY <1>1
  <2>2. scopes' = SubSeq(scopes, 1, n)
    BY DEF LeaveScope
  <2>3. /\ SubSeq(scopes, 1, n) \in Seq(ScopeRecord)
        /\ Len(SubSeq(scopes, 1, n)) = IF 1 <= n THEN n - 1 + 1 ELSE 0
        /\ \A i \in 1..n - 1 + 1 : SubSeq(scopes, 1, n)[i] = scopes[1 + i - 1]
    BY <2>1, SubSeqProperties
  <2>4. n \in Nat
    BY <1>1
  <2> HIDE DEF n
  <2>5. n - 1 + 1 = n /\ \A i \in 1..n : 1 + i - 1 = i
    BY <2>4
  <2>6. Len(scopes') = n
    BY <2>2, <2>3, <2>4
  <2>7. \A k \in 1..n : scopes'[k] = scopes[k]
    BY <2>2, <2>3, <2>5
  <2> QED BY <2>2, <2>3, <2>6, <2>7 DEF n
<1> QED BY <1>1, <1>2, <1>3

\* Leaving a scope in the three ways there are.
LEMMA LeaveTypeInv ==
    ASSUME TypeInv, ExitBlock \/ AbandonFor \/ ExitFunction
    PROVE  TypeInv'
<1>1. scopes # <<>> /\ LeaveScope
  BY DEF ExitBlock, AbandonFor, ExitFunction
<1>2. /\ Len(scopes) \in Nat \ {0}
      /\ InnerScope \in ScopeRecord
      /\ scopes' \in Seq(ScopeRecord)
      /\ Len(scopes') = Len(scopes) - 1
      /\ \A k \in 1..Len(scopes') : scopes'[k] = scopes[k]
      /\ Len(scopes) = 1 => scopes' = <<>>
      /\ Len(scopes) > 1 => scopes' # <<>>
  BY <1>1, LeaveScopeType
<1>3. Undone \in [AllReprs -> Int]
  BY UndoneType DEF TypeInv
<1>4. /\ UNCHANGED <<identifiers, max_displ, max_displg, ref_main, predef, functions, params>>
      /\ errors' \in BOOLEAN
      /\ params = 0
  BY DEF ExitBlock, AbandonFor, ExitFunction, TypeInv, TypeOK
<1>5. /\ InnerScope.displ \in Int /\ InnerScope.lg \in {1, -1}
      /\ InnerScope.cur_id \in 1..last_id
      /\ Len(scopes) = 1 => InnerScope.displ <= -3
      /\ Len(scopes) > 1 => InnerScope.displ >= 3 /\ InnerScope.lg = 1
  BY <1>1, <1>2 DEF TypeInv, Layout, InnerScope, ScopeRecord
<1>6. /\ reference' \in [AllReprs -> Int]
      /\ displ' \in Int /\ lg' \in {1, -1} /\ cur_id' \in 1..last_id
      /\ Len(scopes) = 1 => lg' = -1 /\ displ' <= -3
      /\ Len(scopes) > 1 => lg' = 1 /\ displ' >= 3
  <2>1. CASE ExitBlock
    BY <1>2, <1>3, <1>5, <2>1 DEF ExitBlock
  <2>2. CASE AbandonFor
    BY <1>1, <1>2, <2>2 DEF AbandonFor, TypeInv, TypeOK, Layout
  <2>3. CASE ExitFunction
    BY <1>2, <1>3, <1>5, <2>3 DEF ExitFunction, last_id, TypeInv, TypeOK
  <2> QED BY <2>1, <2>2, <2>3
<1>7. TypeOK'
  BY <1>2, <1>4, <1>6 DEF TypeInv, TypeOK, last_id
<1>8. Layout'
  BY <1>1, <1>2, <1>4, <1>6, SMTT(30) DEF TypeInv, Layout, last_id
<1> QED BY <1>7, <1>8 DEF TypeInv

\* Every step of the parser keeps the inductive invariant.
LEMMA NextTypeInv == TypeInv /\ [Next]_vars => TypeInv'
<1> SUFFICES ASSUME TypeInv, [Next]_vars PROVE TypeInv'
  OBVIOUS
<1>1. CASE UNCHANGED vars
  BY <1>1 DEF vars, TypeInv, TypeOK, Layout, last_id
<1>2. CASE Next
  BY <1>2, DeclareTypeInv, DeclareFunctionTypeInv, DefineFunctionTypeInv, EnterBlockTypeInv,
     LeaveTypeInv DEF Next
<1> QED BY <1>1, <1>2

\* The tables of syntax.c stay well typed through every sequence of declarations and
\* scopes, errors included: in particular the frame top and the size of the global
\* area never become negative and no scope begins outside the table.
THEOREM TypeCorrect == Spec => []TypeOK
<1>1. TypeInv => TypeOK
  BY DEF TypeInv
<1> QED BY <1>1, InitTypeInv, NextTypeInv, PTL DEF Spec

-----------------------------------------------------------------------------
(* The indices that recovery leaves in the table *)

Targets == {ITEM_MAX} \cup 0..Len(identifiers)

(***************************************************************************)
(* Scope exit copies the `prev` of a record into a reference, so those of  *)
(* the records it may undo have to be in range too.  The first record, the *)
(* one an enumerator called main overwrites, is not among them: no scope   *)
(* of a function begins there.                                             *)
(***************************************************************************)
InRange ==
    /\ scopes # <<>> => cur_id >= 2
    /\ \A k \in 2..Len(scopes) : scopes[k].cur_id >= 2
    /\ Len(identifiers) >= 1
    /\ \A i \in 2..Len(identifiers) : identifiers[i].prev \in {NO_PREV} \cup 0..Len(identifiers)
    /\ \A r \in AllReprs : reference[r] \in Targets
    /\ \A k \in 1..Len(scopes), r \in AllReprs : scopes[k].saved[r] \in Targets

IndexInv == TypeInv /\ InRange

\* The table grows by one record, which hides what its spelling meant.
Grows(repr) ==
    /\ Len(identifiers') = Len(identifiers) + 1
    /\ \A i \in 2..Len(identifiers) : identifiers'[i].prev = identifiers[i].prev
    /\ identifiers'[Len(identifiers) + 1].prev = Hidden(repr)
    /\ reference' \in {reference, Refer(repr)}

\* Every declaration makes the table grow so.
LEMMA EnlistGrows ==
    ASSUME TypeOK, NEW repr \in Reprs, NEW name, NEW kind, NEW type, NEW place,
           \/ Enlist(repr, name, kind, type, place)
           \/ /\ identifiers' = Append(identifiers, Record(repr, name, kind, type, place))
              /\ reference' = Refer(repr)
    PROVE  Grows(repr)
<1> DEFINE record == Record(repr, name, kind, type, place)
<1>1. record.prev = Hidden(repr)
  BY DEF Record
<1>2. identifiers' = Append(identifiers, record) /\ reference' = Refer(repr)
  BY DEF Enlist
<1> HIDE DEF record
<1>3. identifiers \in Seq(IdRecord) /\ Len(identifiers) \in Nat
  BY DEF TypeOK
<1>4. /\ Len(identifiers') = Len(identifiers) + 1
      /\ \A i \in 1..Len(identifiers) : identifiers'[i] = identifiers[i]
      /\ identifiers'[Len(identifiers) + 1] = record
  BY <1>2, <1>3
<1> QED BY <1>1, <1>2, <1>3, <1>4 DEF Grows

\* What the new record hides and the reference to it are in range.
LEMMA GrowsInRange ==
    ASSUME IndexInv, NEW repr \in Reprs, Grows(repr)
    PROVE  /\ Len(identifiers') >= 1
           /\ \A i \in 2..Len(identifiers') :
                 identifiers'[i].prev \in {NO_PREV} \cup 0..Len(identifiers')
           /\ \A r \in AllReprs : reference'[r] \in Targets'
           /\ Targets \subseteq Targets'
<1>1. Len(identifiers) \in Nat /\ Len(identifiers') = Len(identifiers) + 1 /\ repr \in AllReprs
  BY DEF IndexInv, TypeInv, TypeOK, Grows, AllReprs
<1>2. Hidden(repr) \in {NO_PREV} \cup 0..Len(identifiers)
  BY <1>1 DEF IndexInv, InRange, Hidden, Targets
<1>3. Targets \subseteq Targets' /\ last_id \in Targets'
  BY <1>1 DEF Targets, last_id
<1>4. \A i \in 2..Len(identifiers') : identifiers'[i].prev \in {NO_PREV} \cup 0..Len(identifiers')
  BY <1>1, <1>2 DEF Grows, IndexInv, InRange
<1>5. \A r \in AllReprs : reference'[r] \in Targets'
  <2>1. \A r \in AllReprs : reference[r] \in Targets
    BY DEF IndexInv, InRange
  <2>2. reference \in [AllReprs -> Int]
    BY DEF IndexInv, TypeInv, TypeOK
  <2>3. \A r \in AllReprs : Refer(repr)[r] \in {reference[r], last_id}
    BY <1>1, <2>2 DEF Refer
  <2> QED BY <1>3, <2>1, <2>3 DEF Grows
<1> QED BY <1>1, <1>3, <1>4, <1>5

\* A declaration that opens no scope.
LEMMA DeclarationInRange ==
    ASSUME IndexInv, NEW repr \in Reprs, Grows(repr), UNCHANGED <<cur_id, scopes>>
    PROVE  InRange'
<1>1. \A k \in 1..Len(scopes), r \in AllReprs : scopes'[k].saved[r] \in Targets'
  BY GrowsInRange DEF IndexInv, InRange
<1> QED BY <1>1, GrowsInRange DEF IndexInv, InRange

\* The actions that declare anything but a function.
LEMMA DeclareInRange ==
    ASSUME IndexInv, NEW repr \in Reprs,
           \/ \E size \in Sizes : DeclareVariable(repr, size) \/ DeclareParameter(repr, size)
           \/ DeclareFunctionParameter(repr)
           \/ \E func_def \in {0, FuncDef} : DeclareType(repr, func_def)
           \/ \E value \in EnumValues : DeclareEnumerator(repr, value)
    PROVE  InRange'
<1>0. TypeOK
  BY DEF IndexInv, TypeInv
<1>1. UNCHANGED <<cur_id, scopes>>
  BY DEF DeclareVariable, DeclareParameter, DeclareFunctionParameter, DeclareType, DeclareEnumerator
<1>2. CASE \E value \in EnumValues : DeclareEnumerator(repr, value) /\ IsSecondMain(repr)
  <2>1. PICK value \in EnumValues : DeclareEnumerator(repr, value) /\ IsSecondMain(repr)
    BY <1>2
  <2> DEFINE spoilt == [identifiers EXCEPT ![1].prev = value]
             record == Record(repr, 0, "bad", 0, 0)
  <2>2. identifiers' = Append(spoilt, record) /\ reference' = reference
    BY <2>1 DEF DeclareEnumerator, Accepted
  <2>3. record.prev = Hidden(repr)
    BY DEF Record
  <2>4. identifiers \in Seq(IdRecord) /\ Len(identifiers) \in Nat
    BY <1>0 DEF TypeOK
  <2>5. /\ DOMAIN spoilt = 1..Len(identifiers)
        /\ \A i \in 2..Len(identifiers) : spoilt[i] = identifiers[i]
    BY <2>4
  <2>6. spoilt \in Seq(IdRecord) /\ Len(spoilt) = Len(identifiers)
    <3>1. value \in Int /\ Len(identifiers) >= 1
      BY ScopesAssumption DEF IndexInv, InRange
    <3>2. identifiers[1] \in IdRecord
      BY <2>4, <3>1
    <3>3. [identifiers[1] EXCEPT !.prev = value] \in IdRecord
      BY <3>1, <3>2 DEF IdRecord
    <3> QED BY <2>4, <3>1, <3>3, ExceptSeq
  <2> HIDE DEF spoilt, record
  <2>7. /\ Len(identifiers') = Len(identifiers) + 1
        /\ \A i \in 1..Len(identifiers) : identifiers'[i] = spoilt[i]
        /\ identifiers'[Len(identifiers) + 1] = record
    BY <2>2, <2>4, <2>6
  <2>8. Grows(repr)
    BY <2>2, <2>3, <2>4, <2>5, <2>7 DEF Grows
  <2> QED BY <1>1, <2>8, DeclarationInRange
<1>3. CASE ~ \E value \in EnumValues : DeclareEnumerator(repr, value) /\ IsSecondMain(repr)
  <2>1. \E name, kind, type, place :
           /\ identifiers' = Append(identifiers, Record(repr, name, kind, type, place))
           /\ reference' = Refer(repr)
    <3>1. ASSUME NEW func_def, Reject(repr, func_def)
          PROVE  /\ identifiers' = Append(identifiers, Record(repr, 0, "bad", 0, 0))
                 /\ reference' = Refer(repr)
      BY <3>1 DEF Reject
    <3>2. ASSUME NEW name, NEW kind, NEW type, NEW place, Enlist(repr, name, kind, type, place)
          PROVE  /\ identifiers' = Append(identifiers, Record(repr, name, kind, type, place))
                 /\ reference' = Refer(repr)
      BY <3>2 DEF Enlist
    <3>3. \/ \E func_def \in {0, 1, 3} : Reject(repr, func_def)
          \/ \E name, kind, type, place : Enlist(repr, name, kind, type, place)
      BY <1>3 DEF DeclareVariable, DeclareParameter, DeclareFunctionParameter, DeclareType,
                  DeclareEnumerator, FuncDef
    <3> QED BY <3>1, <3>2, <3>3
  <2> QED BY <1>0, <1>1, <2>1, EnlistGrows, DeclarationInRange
<1> QED BY <1>2, <1>3

\* A prototype, a definition with an error, and a definition that opens its scope.
LEMMA FunctionInRange ==
    ASSUME IndexInv, NEW repr \in Reprs, NEW type \in FuncTypes,
           DeclareFunction(repr, type) \/ \E n \in 0..MaxParams : DefineFunction(repr, type, n)
    PROVE  InRange'
<1>0. TypeOK /\ identifiers \in Seq(IdRecord) /\ Len(identifiers) \in Nat
  BY DEF IndexInv, TypeInv, TypeOK
<1>1. CASE DeclareFunction(repr, type)
  <2>1. Grows(repr)
    BY <1>0, <1>1, EnlistGrows DEF DeclareFunction, Reject
  <2> QED BY <1>1, <2>1, DeclarationInRange DEF DeclareFunction
<1>2. ASSUME NEW n \in 0..MaxParams, DefineFunction(repr, type, n)
      PROVE  InRange'
  <2> DEFINE record == Record(repr, repr, "func", type, FunctionPlace(type))
             linked == [identifiers EXCEPT ![Hidden(repr)].displ = record.displ]
             table == IF HasPrototype(repr) THEN linked ELSE identifiers
  <2>1. \/ Reject(repr, 1) /\ UNCHANGED <<scopes, cur_id>>
        \/ reference' = Refer(repr) /\ identifiers' = Append(identifiers, record) /\ UNCHANGED <<scopes, cur_id>>
        \/ reference' = Refer(repr) /\ identifiers' = Append(table, record) /\ EnterFunctionScope
    BY <1>2 DEF DefineFunction
  <2>2. CASE \/ Reject(repr, 1) /\ UNCHANGED <<scopes, cur_id>>
             \/ reference' = Refer(repr) /\ identifiers' = Append(identifiers, record) /\ UNCHANGED <<scopes, cur_id>>
    BY <1>0, <2>2, EnlistGrows, DeclarationInRange DEF Reject
  <2>3. CASE reference' = Refer(repr) /\ identifiers' = Append(table, record) /\ EnterFunctionScope
    <3>1. record.prev = Hidden(repr)
      BY DEF Record
    <3>2. /\ DOMAIN linked = 1..Len(identifiers)
          /\ \A i \in 1..Len(identifiers) : linked[i].prev = identifiers[i].prev
      <4>1. DOMAIN linked = 1..Len(identifiers)
        BY <1>0
      <4>2. ASSUME NEW i \in 1..Len(identifiers)
            PROVE  linked[i].prev = identifiers[i].prev
        <5>1. identifiers[i] \in IdRecord
          BY <1>0
        <5>2. CASE i = Hidden(repr)
          <6>1. linked[i] = [identifiers[i] EXCEPT !.displ = record.displ]
            BY <1>0, <5>2
          <6> HIDE DEF linked, record
          <6> QED BY <5>1, <6>1 DEF IdRecord
        <5>3. CASE i # Hidden(repr)
          BY <1>0, <5>3
        <5> QED BY <5>2, <5>3
      <4> QED BY <4>1, <4>2
    <3>3. linked \in Seq({linked[i] : i \in 1..Len(identifiers)}) /\ Len(linked) = Len(identifiers)
      <4>1. linked = [i \in 1..Len(identifiers) |-> linked[i]]
        BY <1>0
      <4> HIDE DEF linked
      <4> QED BY <1>0, <3>2, <4>1
    <3> HIDE DEF linked
    <3>4. /\ table \in Seq({table[i] : i \in 1..Len(identifiers)}) /\ Len(table) = Len(identifiers)
          /\ \A i \in 1..Len(identifiers) : table[i].prev = identifiers[i].prev
      BY <1>0, <3>2, <3>3
    <3> HIDE DEF table, record
    <3>5. /\ Len(identifiers') = Len(identifiers) + 1
          /\ \A i \in 1..Len(identifiers) : identifiers'[i] = table[i]
          /\ identifiers'[Len(identifiers) + 1] = record
      <4>1. identifiers' = Append(table, record)
        BY <2>3
      <4> QED BY <1>0, <3>4, <4>1
    <3>6. Grows(repr)
      BY <1>0, <2>3, <3>1, <3>4, <3>5 DEF Grows
    <3>7. cur_id' >= 2 /\ Len(scopes') = 1 /\ scopes'[1].saved = reference'
      BY <1>0, <2>3, <3>5 DEF EnterFunctionScope, IndexInv, InRange
    <3> QED BY <3>6, <3>7, GrowsInRange DEF InRange
  <2> QED BY <2>1, <2>2, <2>3
<1> QED BY <1>1, <1>2

\* Opening a block saves references and a position that are in range.
LEMMA EnterBlockInRange ==
    ASSUME IndexInv, NEW kind \in {"block", "for"}, EnterBlock(kind)
    PROVE  InRange'
<1> DEFINE sc == [kind |-> kind, displ |-> displ, lg |-> lg, cur_id |-> cur_id, saved |-> reference]
<1>1. /\ scopes' = Append(scopes, sc) /\ cur_id' = last_id /\ scopes # <<>>
      /\ UNCHANGED <<identifiers, reference>>
  BY DEF EnterBlock, InFunction
<1>2. sc.cur_id = cur_id /\ sc.saved = reference
  OBVIOUS
<1> HIDE DEF sc
<1>3. /\ scopes \in Seq(ScopeRecord) /\ Len(scopes) \in Nat /\ Len(scopes') = Len(scopes) + 1
      /\ \A k \in 1..Len(scopes) : scopes'[k] = scopes[k]
      /\ scopes'[Len(scopes) + 1] = sc
  BY <1>1 DEF IndexInv, TypeInv, TypeOK
<1>4. cur_id' >= 2 /\ Targets' = Targets
  BY <1>1 DEF IndexInv, InRange, last_id, TypeInv, TypeOK, Targets
<1>5. \A k \in 2..Len(scopes') : scopes'[k].cur_id >= 2
  BY <1>1, <1>2, <1>3 DEF IndexInv, InRange
<1>6. \A k \in 1..Len(scopes'), r \in AllReprs : scopes'[k].saved[r] \in Targets'
  BY <1>1, <1>2, <1>3, <1>4 DEF IndexInv, InRange
<1> QED BY <1>1, <1>4, <1>5, <1>6 DEF IndexInv, InRange

\* Undoing the records of a function's scope yields references in range.
LEMMA UndoneInRange ==
    ASSUME IndexInv, scopes # <<>>
    PROVE  \A r \in AllReprs : Undone[r] \in Targets
<1> SUFFICES ASSUME NEW r \in AllReprs
             PROVE  Undone[r] \in Targets
  OBVIOUS
<1> DEFINE mine == {i \in cur_id..Len(identifiers) : identifiers[i].repr = r}
           prev == identifiers[Min(mine)].prev
<1>1. Undone[r] = IF mine = {} THEN reference[r] ELSE IF prev = NO_PREV THEN ITEM_MAX ELSE prev
  BY DEF Undone
<1>2. cur_id \in Nat /\ cur_id >= 2 /\ Len(identifiers) \in Nat
  BY DEF IndexInv, InRange, TypeInv, TypeOK
<1>3. CASE mine = {}
  BY <1>1, <1>3 DEF IndexInv, InRange
<1>4. CASE mine # {}
  <2>1. Min(mine) \in mine
    BY <1>2, <1>4, MinProperty, SMTT(30)
  <2>2. prev \in {NO_PREV} \cup 0..Len(identifiers)
    BY <1>2, <2>1 DEF IndexInv, InRange
  <2> QED BY <1>1, <1>4, <2>2 DEF Targets
<1> QED BY <1>3, <1>4

\* Leaving a scope, in order or by abandoning it.
LEMMA LeaveInRange ==
    ASSUME IndexInv, ExitBlock \/ AbandonFor \/ ExitFunction
    PROVE  InRange'
<1>1. scopes # <<>> /\ LeaveScope /\ identifiers' = identifiers /\ reference' \in {reference, Undone}
  BY DEF ExitBlock, AbandonFor, ExitFunction
<1>2. /\ Len(scopes) \in Nat \ {0}
      /\ Len(scopes') = Len(scopes) - 1
      /\ \A k \in 1..Len(scopes') : scopes'[k] = scopes[k]
      /\ Len(scopes) = 1 => scopes' = <<>>
  BY <1>1, LeaveScopeType DEF IndexInv
<1>3. Len(scopes) > 1 => cur_id' >= 2
  BY <1>1, <1>2 DEF ExitBlock, AbandonFor, ExitFunction, InnerScope, IndexInv, InRange
<1>4. Targets' = Targets /\ \A r \in AllReprs : reference'[r] \in Targets
  BY <1>1, UndoneInRange DEF Targets, IndexInv, InRange
<1>5. \A k \in 1..Len(scopes'), r \in AllReprs : scopes'[k].saved[r] \in Targets'
  BY <1>2, <1>4 DEF IndexInv, InRange
<1> QED BY <1>1, <1>2, <1>3, <1>4, <1>5 DEF IndexInv, InRange

\* The tables sx_create builds are in range.
LEMMA InitIndexInv == Init => IndexInv
<1> SUFFICES ASSUME Init PROVE InRange
  BY InitTypeInv DEF IndexInv
<1>1. Len(identifiers) = 1 /\ Len(scopes) = 0
  BY DEF Init
<1>2. \A r \in AllReprs : reference[r] \in Targets
  BY <1>1 DEF Init, Targets
<1> QED BY <1>1, <1>2 DEF Init, InRange

\* Every step of the parser, the erroneous ones too, keeps them in range.
LEMMA NextIndexInv == IndexInv /\ [Next]_vars => IndexInv'
<1> SUFFICES ASSUME IndexInv, [Next]_vars PROVE InRange'
  BY NextTypeInv DEF IndexInv
<1>1. CASE UNCHANGED vars
  BY <1>1 DEF vars, IndexInv, InRange, Targets
<1>2. CASE Next
  BY <1>2, DeclareInRange, FunctionInRange, EnterBlockInRange, LeaveInRange DEF Next
<1> QED BY <1>1, <1>2

\* Whatever is declared, and whatever the parser recovers from, no spelling leads
\* outside the identifier table and no open scope begins beyond its end.
THEOREM IndicesStayInRange == Spec => []IndicesInRange
<1>1. IndexInv => IndicesInRange
  <2> SUFFICES ASSUME IndexInv PROVE IndicesInRange
    OBVIOUS
  <2>1. scopes \in Seq(ScopeRecord) /\ Len(scopes) \in Nat /\ cur_id \in 1..last_id
    BY DEF IndexInv, TypeInv, TypeOK
  <2>2. \A k \in 1..Depth : BaseOf(k) \in 1..last_id
    BY <2>1 DEF BaseOf, Depth, IndexInv, TypeInv, Layout
  <2>3. \A k \in 1..Depth, r \in AllReprs : EnvOf(k)[r] \in Targets
    BY <2>1 DEF EnvOf, Depth, IndexInv, InRange
  <2> QED BY <2>2, <2>3 DEF IndicesInRange, Targets
<1> QED BY <1>1, InitIndexInv, NextIndexInv, PTL DEF Spec

-----------------------------------------------------------------------------
(* The frame *)

\* Where the records of the current function begin.
FunctionBase == IF Len(scopes) = 1 THEN cur_id ELSE scopes[2].cur_id

\* The words of record i lie in the frame.
InFrame(i) ==
    /\ identifiers[i].kind = "var" =>
          3 <= identifiers[i].displ /\ identifiers[i].displ + identifiers[i].type <= max_displ
    /\ identifiers[i].kind = "funcparam" =>
          3 <= -identifiers[i].displ /\ -identifiers[i].displ < max_displ

(***************************************************************************)
(* A closed block gives its displacement back, so the next one must stay   *)
(* under the maximum as well, and so must the displacements that open      *)
(* scopes will restore.  A function as a parameter sets the maximum        *)
(* instead of raising it, which is right only because all parameters come  *)
(* before the first block: there the displacement is the maximum.          *)
(***************************************************************************)
Frame ==
    /\ scopes # <<>> =>
          /\ displ <= max_displ
          /\ \A k \in 2..Len(scopes) : scopes[k].displ <= max_displ
          /\ \A i \in FunctionBase..Len(identifiers) : InFrame(i)
    /\ params > 0 => Len(scopes) = 1 /\ displ = max_displ

FrameInv == TypeInv /\ (~errors => Frame)

\* Arithmetic of the height of the scope stack.
LEMMA StackHeight ==
    ASSUME NEW S, NEW s \in Seq(S)
    PROVE  /\ Len(s) \in Nat
           /\ s # <<>> <=> Len(s) >= 1
           /\ Len(s) > 1 \/ Len(s) = 1 => Len(s) >= 1
           /\ Len(s) >= 1 /\ Len(s) # 1 => 2 \in 1..Len(s)
           /\ 2 = Len(s) + 1 <=> Len(s) = 1
<1>1. Len(s) \in Nat /\ (s = <<>> <=> Len(s) = 0)
  BY EmptySeq
<1>2. \A n \in Nat : /\ n # 0 <=> n >= 1
                     /\ n > 1 \/ n = 1 => n >= 1
                     /\ n >= 1 /\ n # 1 => 2 \in 1..n
                     /\ 2 = n + 1 <=> n = 1
  OBVIOUS
<1> QED BY <1>1, <1>2, Zenon

\* The records of the function begin inside the table.
LEMMA FunctionBaseType ==
    ASSUME TypeInv, scopes # <<>>
    PROVE  FunctionBase \in 1..last_id
<1>1. scopes \in Seq(ScopeRecord) /\ Len(scopes) \in Nat /\ Len(scopes) >= 1
  BY DEF TypeInv, TypeOK
<1>2. CASE Len(scopes) = 1
  BY <1>2 DEF FunctionBase, TypeInv, TypeOK
<1>3. CASE Len(scopes) # 1
  <2>1. 2 \in 1..Len(scopes)
    BY <1>1, <1>3, StackHeight, Zenon
  <2> QED BY <1>3, <2>1 DEF FunctionBase, TypeInv, Layout
<1> QED BY <1>2, <1>3

\* One more local, whose words lie below the new maximum.
LEMMA LocalFrame ==
    ASSUME TypeInv, Frame, UNCHANGED <<cur_id, scopes>>,
           NEW record, identifiers' = Append(identifiers, record),
           displ' \in Int, max_displ' \in Int, displ' <= max_displ', max_displ <= max_displ',
           params' \in Nat, params' > 0 => params > 0 /\ displ' = max_displ',
           scopes # <<>> =>
              /\ record.kind = "var" => 3 <= record.displ /\ record.displ + record.type <= max_displ'
              /\ record.kind = "funcparam" => 3 <= -record.displ /\ -record.displ < max_displ'
    PROVE  scopes # <<>> => Frame'
<1> SUFFICES ASSUME scopes # <<>> PROVE Frame'
  OBVIOUS
<1>1. identifiers \in Seq(IdRecord) /\ Len(identifiers) \in Nat /\ max_displ \in Int /\ params \in Nat
  BY DEF TypeInv, TypeOK
<1>2. /\ Len(identifiers') = Len(identifiers) + 1
      /\ \A i \in 1..Len(identifiers) : identifiers'[i] = identifiers[i]
      /\ identifiers'[Len(identifiers) + 1] = record
  BY <1>1
<1>3. FunctionBase' = FunctionBase /\ FunctionBase \in Nat /\ FunctionBase >= 1
  <2>1. FunctionBase' = FunctionBase
    BY DEF FunctionBase
  <2>2. FunctionBase \in 1..last_id
    BY FunctionBaseType
  <2> QED BY <1>1, <2>1, <2>2 DEF last_id
<1>4. ASSUME NEW i \in FunctionBase..Len(identifiers')
      PROVE  InFrame(i)'
  <2>1. CASE i = Len(identifiers) + 1
    BY <1>2, <2>1 DEF InFrame
  <2>2. CASE i # Len(identifiers) + 1
    <3>1. i \in FunctionBase..Len(identifiers) /\ i \in 1..Len(identifiers)
      BY <1>1, <1>2, <1>3, <2>2
    <3>2. InFrame(i) /\ identifiers'[i] = identifiers[i] /\ identifiers[i] \in IdRecord
      BY <1>1, <1>2, <3>1 DEF Frame
    <3>3. identifiers[i].displ \in Int /\ identifiers[i].type \in Nat
      BY <3>2 DEF IdRecord
    <3> QED BY <1>1, <3>2, <3>3, SMTT(30) DEF InFrame
  <2> QED BY <2>1, <2>2
<1>5. \A k \in 2..Len(scopes) : scopes[k].displ <= max_displ'
  <2> SUFFICES ASSUME NEW k \in 2..Len(scopes) PROVE scopes[k].displ <= max_displ'
    OBVIOUS
  <2>1. scopes[k].displ \in Int /\ scopes[k].displ <= max_displ
    <3>1. scopes[k] \in ScopeRecord
      BY DEF TypeInv, TypeOK
    <3> QED BY <3>1 DEF Frame, ScopeRecord
  <2> QED BY <1>1, <2>1
<1>6. params' > 0 => Len(scopes') = 1 /\ displ' = max_displ'
  BY DEF Frame
<1> QED BY <1>3, <1>4, <1>5, <1>6 DEF Frame

\* Locals and parameters.
LEMMA DeclareFrame ==
    ASSUME TypeInv, Frame, scopes # <<>>, NEW repr \in Reprs, ~errors',
           \/ \E size \in Sizes : DeclareVariable(repr, size) \/ DeclareParameter(repr, size)
           \/ DeclareFunctionParameter(repr)
           \/ \E func_def \in {0, FuncDef} : DeclareType(repr, func_def)
           \/ \E value \in EnumValues : DeclareEnumerator(repr, value)
    PROVE  Frame'
<1>0. /\ displ \in Int /\ max_displ \in Int /\ params \in Nat /\ lg = 1 /\ displ >= 3 /\ displ <= max_displ
      /\ params > 0 => displ = max_displ
  BY DEF TypeInv, TypeOK, Layout, Frame
<1>1. UNCHANGED <<cur_id, scopes>>
  BY DEF DeclareVariable, DeclareParameter, DeclareFunctionParameter, DeclareType, DeclareEnumerator
<1>2. \A func_def : ~Reject(repr, func_def)
  BY DEF Reject
<1>3. ASSUME NEW size \in Sizes,
             \/ DeclareVariable(repr, size)
             \/ DeclareParameter(repr, size)
      PROVE  Frame'
  <2> DEFINE record == Record(repr, repr, "var", size, displ)
  <2>1. identifiers' = Append(identifiers, record)
    BY <1>2, <1>3 DEF DeclareVariable, DeclareParameter, Enlist
  <2>2. record.kind = "var" /\ record.displ = displ /\ record.type = size
    BY DEF Record
  <2> HIDE DEF record
  <2>3. get_static(size) /\ size \in Nat
    BY <1>2, <1>3, ScopesAssumption DEF DeclareVariable, DeclareParameter
  <2>4. /\ displ' = displ + size
        /\ max_displ' = IF displ + size > max_displ THEN displ + size ELSE max_displ
    BY <1>0, <2>3 DEF get_static
  <2>5. params' \in Nat /\ (params' > 0 => params > 0)
    BY <1>0, <1>3 DEF DeclareVariable, DeclareParameter, CanDeclare
  <2>6. /\ displ' \in Int /\ max_displ' \in Int /\ displ' <= max_displ' /\ max_displ <= max_displ'
        /\ displ + size <= max_displ' /\ (params > 0 => displ' = max_displ')
    BY <1>0, <2>3, <2>4
  <2> QED BY <1>0, <1>1, <2>1, <2>2, <2>5, <2>6, LocalFrame
<1>4. ASSUME DeclareFunctionParameter(repr)
      PROVE  Frame'
  <2> DEFINE record == Record(repr, repr, "funcparam", 1, -displ)
  <2>1. /\ identifiers' = Append(identifiers, record) /\ displ' = displ + 1 /\ max_displ' = displ + 1
        /\ params > 0 /\ params' = params - 1
    BY <1>2, <1>4 DEF DeclareFunctionParameter, Enlist
  <2>2. record.kind = "funcparam" /\ record.displ = -displ
    BY DEF Record
  <2> HIDE DEF record
  <2>3. /\ displ' \in Int /\ max_displ' \in Int /\ displ' <= max_displ' /\ max_displ <= max_displ'
        /\ params' \in Nat /\ displ' = max_displ'
        /\ 3 <= -(-displ) /\ -(-displ) < max_displ'
    BY <1>0, <2>1
  <2> QED BY <1>1, <2>1, <2>2, <2>3, LocalFrame
<1>5. ASSUME NEW func_def, DeclareType(repr, func_def)
      PROVE  Frame'
  <2> DEFINE record == Record(repr, repr, "type", 1, TYPE_BASE)
  <2>1. identifiers' = Append(identifiers, record) /\ UNCHANGED <<displ, max_displ, params>> /\ params = 0
    BY <1>2, <1>5 DEF DeclareType, Enlist, CanDeclare
  <2>2. record.kind = "type"
    BY DEF Record
  <2> HIDE DEF record
  <2> QED BY <1>0, <1>1, <2>1, <2>2, LocalFrame
<1>6. ASSUME NEW value \in EnumValues, DeclareEnumerator(repr, value)
      PROVE  Frame'
  <2> DEFINE record == Record(repr, repr, "enum", 1, value)
  <2>1. identifiers' = Append(identifiers, record) /\ get_static(1) /\ params' = params /\ params = 0
    BY <1>2, <1>6 DEF DeclareEnumerator, Enlist, CanDeclare
  <2>2. record.kind = "enum"
    BY DEF Record
  <2> HIDE DEF record
  <2>3. /\ displ' \in Int /\ max_displ' \in Int /\ displ' <= max_displ' /\ max_displ <= max_displ'
    BY <1>0, <2>1 DEF get_static
  <2> QED BY <1>0, <1>1, <2>1, <2>2, <2>3, LocalFrame
<1> QED BY <1>3, <1>4, <1>5, <1>6

\* Scopes opened and closed.
LEMMA ScopeFrame ==
    ASSUME TypeInv, Frame, ~errors',
           (\E kind \in {"block", "for"} : EnterBlock(kind)) \/ ExitBlock \/ AbandonFor \/ ExitFunction
    PROVE  Frame'
<1>a. displ \in Int /\ max_displ \in Int /\ scopes \in Seq(ScopeRecord)
  BY DEF TypeInv, TypeOK
<1>b. params = 0 /\ (scopes # <<>> \/ Len(scopes) > 1 \/ Len(scopes) = 1)
  BY Zenon DEF EnterBlock, ExitBlock, AbandonFor, ExitFunction, InFunction
<1>0. /\ displ \in Int /\ max_displ \in Int /\ params = 0 /\ scopes \in Seq(ScopeRecord)
      /\ Len(scopes) \in Nat /\ Len(scopes) >= 1 /\ scopes # <<>>
  BY <1>a, <1>b, StackHeight, Zenon
<1>1. UNCHANGED <<identifiers, max_displ, params>>
  BY DEF EnterBlock, ExitBlock, AbandonFor, ExitFunction
<1>2. FunctionBase' = FunctionBase =>
         \A i \in FunctionBase'..Len(identifiers') : InFrame(i)'
  BY <1>0, <1>1 DEF Frame, InFrame
<1>3. ASSUME NEW kind, EnterBlock(kind)
      PROVE  Frame'
  <2> DEFINE sc == [kind |-> kind, displ |-> displ, lg |-> lg, cur_id |-> cur_id, saved |-> reference]
  <2>1. scopes' = Append(scopes, sc) /\ displ' = displ
    BY <1>3 DEF EnterBlock
  <2>2. sc.cur_id = cur_id /\ sc.displ = displ
    OBVIOUS
  <2> HIDE DEF sc
  <2>3. /\ Len(scopes') = Len(scopes) + 1
        /\ \A k \in 1..Len(scopes) : scopes'[k] = scopes[k]
        /\ scopes'[Len(scopes) + 1] = sc
    BY <1>0, <2>1
  <2>4. FunctionBase' = FunctionBase
    <3>1. Len(scopes') # 1
      BY <1>0, <2>3
    <3>2. CASE Len(scopes) = 1
      BY <2>2, <2>3, <3>1, <3>2 DEF FunctionBase
    <3>3. CASE Len(scopes) # 1
      <4>1. 2 \in 1..Len(scopes)
        BY <1>0, <3>3, StackHeight, Zenon
      <4> QED BY <2>3, <3>1, <3>3, <4>1 DEF FunctionBase
    <3> QED BY <3>2, <3>3
  <2>5. \A k \in 2..Len(scopes') : scopes'[k].displ <= max_displ
    BY <1>0, <2>2, <2>3 DEF Frame
  <2> QED BY <1>0, <1>1, <1>2, <2>1, <2>4, <2>5 DEF Frame
<1>4. ASSUME ExitBlock
      PROVE  Frame'
  <2>1. /\ LeaveScope /\ Len(scopes) > 1 /\ displ' = InnerScope.displ /\ cur_id' = InnerScope.cur_id
    BY <1>4 DEF ExitBlock
  <2>2. /\ Len(scopes') = Len(scopes) - 1
        /\ \A k \in 1..Len(scopes') : scopes'[k] = scopes[k]
    BY <1>0, <2>1, LeaveScopeType
  <2>3. FunctionBase' = FunctionBase
    BY <1>0, <2>1, <2>2 DEF FunctionBase, InnerScope
  <2>4. displ' <= max_displ /\ \A k \in 2..Len(scopes') : scopes'[k].displ <= max_displ
    BY <1>0, <2>1, <2>2 DEF Frame, InnerScope
  <2> QED BY <1>0, <1>1, <1>2, <2>3, <2>4 DEF Frame
<1>5. ASSUME ExitFunction
      PROVE  Frame'
  <2>1. scopes' = <<>>
    BY <1>0, <1>5, LeaveScopeType DEF ExitFunction
  <2> QED BY <1>0, <1>1, <2>1 DEF Frame
<1>6. ~AbandonFor
  BY DEF AbandonFor
<1> QED BY <1>3, <1>4, <1>5, <1>6

\* Functions are declared outside scopes; entering one starts an empty frame.
LEMMA FunctionFrame ==
    ASSUME TypeInv, NEW repr \in Reprs, NEW type \in FuncTypes, ~errors',
           DeclareFunction(repr, type) \/ \E n \in 0..MaxParams : DefineFunction(repr, type, n)
    PROVE  Frame'
<1>0. /\ scopes = <<>> /\ params = 0 /\ identifiers \in Seq(IdRecord)
  BY DEF TypeInv, TypeOK, DeclareFunction, DefineFunction, Global, CanDeclare
<1>1. CASE DeclareFunction(repr, type)
  BY <1>0, <1>1 DEF Frame, DeclareFunction
<1>2. ASSUME NEW n \in 0..MaxParams, DefineFunction(repr, type, n)
      PROVE  Frame'
  <2>1. EnterFunctionScope /\ TypeInv'
    BY <1>2, DefineFunctionTypeInv DEF DefineFunction, Reject
  <2>2. /\ Len(scopes') = 1 /\ cur_id' = Len(identifiers') + 1 /\ displ' = 3 /\ max_displ' = 3
        /\ Len(identifiers') \in Nat
    BY <2>1 DEF EnterFunctionScope, TypeInv, TypeOK
  <2> QED BY <2>2 DEF Frame, FunctionBase
<1> QED BY <1>1, <1>2

\* An error stays reported.
LEMMA ErrorsStay == Next /\ errors => errors'
<1> SUFFICES ASSUME Next, errors PROVE errors'
  OBVIOUS
<1>1. ASSUME NEW repr, NEW func_def, Reject(repr, func_def) PROVE errors'
  BY <1>1 DEF Reject
<1>2. ASSUME NEW repr, NEW size, DeclareVariable(repr, size) \/ DeclareParameter(repr, size)
      PROVE  errors'
  BY <1>1, <1>2 DEF DeclareVariable, DeclareParameter
<1>3. ASSUME NEW repr, NEW func_def, DeclareFunctionParameter(repr) \/ DeclareType(repr, func_def)
      PROVE  errors'
  BY <1>1, <1>3 DEF DeclareFunctionParameter, DeclareType
<1>4. ASSUME NEW repr, NEW value, DeclareEnumerator(repr, value) PROVE errors'
  BY <1>1, <1>4 DEF DeclareEnumerator
<1>5. ASSUME NEW repr, NEW type, DeclareFunction(repr, type) PROVE errors'
  BY <1>1, <1>5, Zenon DEF DeclareFunction
<1>6. ASSUME NEW repr, NEW type, NEW n, DefineFunction(repr, type, n) PROVE errors'
  BY <1>1, <1>6, Zenon DEF DefineFunction
<1>7. ASSUME (\E kind \in {"block", "for"} : EnterBlock(kind)) \/ ExitBlock \/ AbandonFor \/ ExitFunction
      PROVE  errors'
  BY <1>7 DEF EnterBlock, ExitBlock, AbandonFor, ExitFunction
<1> QED BY <1>2, <1>3, <1>4, <1>5, <1>6, <1>7 DEF Next

\* The frame before the first function.
LEMMA InitFrameInv == Init => FrameInv
<1> SUFFICES ASSUME Init PROVE Frame
  BY InitTypeInv DEF FrameInv
<1> QED BY DEF Init, Frame

\* Every step keeps the locals of the current function inside its frame.
LEMMA NextFrameInv == FrameInv /\ [Next]_vars => FrameInv'
<1> SUFFICES ASSUME FrameInv, [Next]_vars, ~errors' PROVE Frame'
  BY NextTypeInv DEF FrameInv
<1>0. TypeInv
  BY DEF FrameInv
<1>1. CASE UNCHANGED vars
  BY <1>1 DEF vars, FrameInv, Frame, FunctionBase, InFrame
<1>2. CASE Next
  <2>1. ~errors
    BY <1>2, ErrorsStay
  <2>2. Frame
    BY <2>1 DEF FrameInv
  <2>3. ASSUME scopes = <<>>, NEW repr \in Reprs,
           \/ \E size \in Sizes : DeclareVariable(repr, size) \/ DeclareParameter(repr, size)
           \/ DeclareFunctionParameter(repr)
           \/ \E func_def \in {0, FuncDef} : DeclareType(repr, func_def)
           \/ \E value \in EnumValues : DeclareEnumerator(repr, value)
        PROVE  Frame'
    <3>1. params = 0
      BY <1>0, <2>3 DEF TypeInv, Layout
    <3>2. scopes' = <<>> /\ params' = 0
      <4>1. ~(params > 0)
        BY <3>1
      <4> QED BY <2>3, <3>1, <4>1, Zenon DEF CanDeclare, DeclareVariable, DeclareParameter,
         DeclareFunctionParameter, DeclareType, DeclareEnumerator
    <3> QED BY <3>2 DEF Frame
  <2> QED BY <1>0, <1>2, <2>2, <2>3, DeclareFrame, ScopeFrame, FunctionFrame DEF Next
<1> QED BY <1>1, <1>2

\* The frame size that scope_func_exit reports covers every local of the function,
\* closed blocks included, for every size of types and any nesting.
THEOREM FrameIsLargeEnough == Spec => []FrameFits
<1>1. FrameInv => FrameFits
  <2> SUFFICES ASSUME FrameInv, InFunction, ~errors, NEW i \in BaseOf(2)..Len(identifiers)
               PROVE  Slots(i) \subseteq 3..max_displ - 1
    BY DEF FrameFits
  <2>1. /\ scopes # <<>> /\ Frame /\ identifiers \in Seq(IdRecord) /\ max_displ \in Int
        /\ scopes \in Seq(ScopeRecord)
    BY DEF FrameInv, TypeInv, TypeOK, InFunction
  <2>2. BaseOf(2) = FunctionBase /\ FunctionBase \in 1..last_id
    <3>1. FunctionBase \in 1..last_id
      BY <2>1, FunctionBaseType DEF FrameInv
    <3>2. 2 = Depth <=> Len(scopes) = 1
      BY <2>1, StackHeight, Zenon DEF Depth
    <3> QED BY <3>1, <3>2 DEF BaseOf, FunctionBase
  <2>3. InFrame(i) /\ identifiers[i] \in IdRecord
    BY <2>1, <2>2 DEF Frame, last_id
  <2>4. identifiers[i].displ \in Int /\ identifiers[i].type \in Nat
    BY <2>3 DEF IdRecord
  <2>5. CASE identifiers[i].kind = "var"
    BY <2>1, <2>3, <2>4, <2>5, SMTT(30) DEF InFrame, Slots
  <2>6. CASE identifiers[i].kind = "funcparam"
    BY <2>1, <2>3, <2>4, <2>6 DEF InFrame, Slots
  <2>7. CASE identifiers[i].kind \notin {"var", "funcparam"}
    BY <2>7 DEF Slots
  <2> QED BY <2>5, <2>6, <2>7
<1> QED BY <1>1, InitFrameInv, NextFrameInv, PTL DEF Spec

(***************************************************************************)
(* The identifier table implements lexical scoping: Scopes refines         *)
(* LexicalScope, for every set of spellings, any nesting and any number of *)
(* declarations; and what its records say about the frame and linking.     *)
(***************************************************************************)

\* The records of spelling r from record base on, and what the reference of r
\* becomes when they are undone.
Mine(base, r) == {i \in base..Len(identifiers) : identifiers[i].repr = r}
Unmark(prev) == IF prev = NO_PREV THEN ITEM_MAX ELSE prev
Restored(base, r) ==
    IF Mine(base, r) = {} THEN reference[r]
    ELSE Unmark(identifiers[Min(Mine(base, r))].prev)

(***************************************************************************)
(* Undoing an open scope, and with it every scope inside it, gives back    *)
(* the environment that was saved when it was opened.  This is what makes  *)
(* the second undoing of the records of a closed inner scope harmless.     *)
(***************************************************************************)
Restorable ==
    \A k \in 1..Len(scopes), r \in AllReprs : Restored(BaseOf(k + 1), r) = EnvOf(k)[r]

\* The outermost scope begins with the first record, an inner scope no earlier
\* than the scope around it.
Nested ==
    /\ BaseOf(1) = 1
    /\ \A k \in 1..Depth : \A j \in 1..k : BaseOf(j) <= BaseOf(k)

\* Reference 0 is the mark of main, and of main alone.
MainMarked ==
    \A k \in 1..Depth, r \in AllReprs : EnvOf(k)[r] = 0 <=> r = Main

\* There are no unfinished records, and no prototypes inside functions.
RecordsFinished ==
    /\ \A i \in 1..Len(identifiers) : identifiers[i].repr # 0
    /\ scopes # <<>> => \A i \in BaseOf(2)..Len(identifiers) : identifiers[i].repr > 0

Correct == Restorable /\ Nested /\ MainMarked /\ RecordsFinished
ScopeInv == IndexInv /\ (~errors => Correct)

-----------------------------------------------------------------------------
(* Lemmas about undoing. *)

\* A least element is the minimum.
LEMMA MinUnique ==
    ASSUME NEW S \in SUBSET Nat, NEW x \in S, \A y \in S : x <= y
    PROVE  Min(S) = x
<1>1. Min(S) \in S /\ Min(S) <= x
  BY MinProperty
<1>2. x <= Min(S)
  BY <1>1
<1>3. x \in Nat /\ Min(S) \in Nat
  BY <1>1
<1> QED BY <1>1, <1>2, <1>3

\* One record more, which hides what its spelling meant; what the other records
\* hide and spell stays.
Declared(repr, name) ==
    /\ Len(identifiers') = Len(identifiers) + 1
    /\ \A i \in 1..Len(identifiers) :
          identifiers'[i].prev = identifiers[i].prev /\ identifiers'[i].repr = identifiers[i].repr
    /\ identifiers'[Len(identifiers) + 1].prev = Hidden(repr)
    /\ identifiers'[Len(identifiers) + 1].repr = name
    /\ reference' = Refer(repr)

\* ident_add declares in this sense.
LEMMA EnlistDeclares ==
    ASSUME TypeOK, NEW repr \in Reprs, NEW name, NEW kind, NEW type, NEW place,
           identifiers' = Append(identifiers, Record(repr, name, kind, type, place)),
           reference' = Refer(repr)
    PROVE  Declared(repr, name)
<1> DEFINE record == Record(repr, name, kind, type, place)
<1>1. record.prev = Hidden(repr) /\ record.repr = name
  BY DEF Record
<1>2. identifiers' = Append(identifiers, record)
  OBVIOUS
<1> HIDE DEF record
<1>3. identifiers \in Seq(IdRecord) /\ Len(identifiers) \in Nat
  BY DEF TypeOK
<1>4. /\ Len(identifiers') = Len(identifiers) + 1
      /\ \A i \in 1..Len(identifiers) : identifiers'[i] = identifiers[i]
      /\ identifiers'[Len(identifiers) + 1] = record
  BY <1>2, <1>3
<1> QED BY <1>1, <1>3, <1>4 DEF Declared

\* References and the marks in records say the same.
LEMMA HiddenUnmarked ==
    ASSUME IndexInv, NEW r \in AllReprs
    PROVE  Unmark(Hidden(r)) = reference[r]
<1>1. reference[r] \in Targets /\ Len(identifiers) \in Nat
  BY DEF IndexInv, InRange, TypeInv, TypeOK
<1>2. reference[r] # NO_PREV
  BY <1>1 DEF Targets, ITEM_MAX, NO_PREV
<1> QED BY <1>2 DEF Unmark, Hidden, ITEM_MAX, NO_PREV

\* A declaration does not change what undoing gives back: for its own spelling the
\* new record is the oldest to be undone or is not looked at.
LEMMA DeclarationRestores ==
    ASSUME IndexInv, NEW repr \in Reprs, Declared(repr, repr),
           NEW base \in 1..last_id, NEW r \in AllReprs
    PROVE  Restored(base, r)' = Restored(base, r)
<1>0. Len(identifiers) \in Nat /\ base \in Nat /\ base >= 1 /\ base <= Len(identifiers) + 1
  BY DEF IndexInv, TypeInv, TypeOK, last_id
<1> PICK L \in Nat : L = Len(identifiers)
  BY <1>0
<1> PICK M : M = Mine(base, r)
  OBVIOUS
<1> PICK N : N = Mine(base, r)'
  OBVIOUS
<1>1. M \in SUBSET Nat /\ N \in SUBSET Nat /\ \A i \in M : i \in 1..L
  BY <1>0 DEF Mine, Declared
<1>2. \A i \in M : identifiers'[i].prev = identifiers[i].prev
  BY <1>1 DEF Declared
<1>3. CASE r # repr
  <2>1. N = M
    BY <1>0, <1>3 DEF Mine, Declared
  <2>2. reference'[r] = reference[r]
    BY <1>3 DEF Declared, Refer, IndexInv, TypeInv, TypeOK
  <2>3. M # {} => Min(M) \in M
    BY <1>1, MinProperty
  <2>4. CASE M = {}
    BY <2>1, <2>2, <2>4 DEF Restored
  <2>5. CASE M # {}
    BY <1>2, <2>1, <2>3, <2>5 DEF Restored
  <2> QED BY <2>4, <2>5
<1>4. CASE r = repr
  <2>1. N = M \cup {L + 1}
    BY <1>0, <1>4 DEF Mine, Declared
  <2>2. CASE M = {}
    <3>1. Min(N) = L + 1 /\ N # {}
      BY <1>1, <2>1, <2>2, MinUnique
    <3>2. Restored(base, r)' = Unmark(Hidden(r))
      BY <1>4, <3>1 DEF Restored, Declared
    <3> QED BY <2>2, <3>2, HiddenUnmarked DEF Restored
  <2>3. CASE M # {}
    <3>1. Min(M) \in M /\ \A y \in M : Min(M) <= y
      BY <1>1, <2>3, MinProperty
    <3>2. Min(M) \in N /\ \A y \in N : Min(M) <= y
      BY <1>1, <2>1, <3>1
    <3>3. Min(N) = Min(M)
      BY <1>1, <3>2, MinUnique
    <3>4. N # {} /\ identifiers'[Min(M)].prev = identifiers[Min(M)].prev
      BY <1>2, <3>1, <3>2
    <3> QED BY <2>3, <3>3, <3>4 DEF Restored
  <2> QED BY <2>2, <2>3
<1> QED BY <1>3, <1>4

\* The open scopes begin inside the table, and deeper ones are stacked on them.
LEMMA BaseType ==
    ASSUME TypeInv
    PROVE  /\ Len(scopes) \in Nat /\ Depth \in Nat /\ Depth >= 1 /\ Depth = Len(scopes) + 1
           /\ Len(identifiers) \in Nat
           /\ \A k \in 1..Depth : BaseOf(k) \in 1..last_id
           /\ scopes # <<>> <=> Len(scopes) >= 1
<1>1. Len(scopes) \in Nat /\ Len(identifiers) \in Nat
  BY DEF TypeInv, TypeOK
<1>2. \A k \in 1..Depth : BaseOf(k) \in 1..last_id
  BY <1>1 DEF BaseOf, Depth, TypeInv, TypeOK, Layout
<1>3. scopes # <<>> <=> Len(scopes) >= 1
  BY StackHeight DEF TypeInv, TypeOK
<1> QED BY <1>1, <1>2, <1>3 DEF Depth

-----------------------------------------------------------------------------
(* The inductive invariant, one kind of step after the other. *)

\* A declaration that opens no scope; outside functions it may be a prototype.
LEMMA DeclarationCorrect ==
    ASSUME IndexInv, Correct, NEW repr \in Reprs, NEW name \in Int, Declared(repr, name),
           UNCHANGED <<scopes, cur_id>>,
           name # 0, scopes # <<>> => name = repr /\ name > 0
    PROVE  Correct'
<1>0. TypeInv /\ Len(identifiers') = Len(identifiers) + 1 /\ repr \in AllReprs
  BY DEF IndexInv, Declared, AllReprs
<1>1. Depth' = Depth /\ (\A k \in 1..Depth : BaseOf(k)' = BaseOf(k))
  BY DEF Depth, BaseOf
<1>2. \A k \in 1..Len(scopes) : EnvOf(k)' = EnvOf(k)
  BY <1>0, BaseType DEF Depth, EnvOf
<1>3. Restorable'
  <2> SUFFICES ASSUME NEW k \in 1..Len(scopes), NEW r \in AllReprs
               PROVE  Restored(BaseOf(k + 1), r)' = EnvOf(k)'[r]
    BY DEF Restorable
  <2>1. k + 1 \in 1..Depth /\ scopes # <<>>
    BY <1>0, BaseType
  <2> PICK base \in 1..last_id : base = BaseOf(k + 1)
    BY <1>0, <2>1, BaseType
  <2>2. base = BaseOf(k + 1)'
    BY <1>1, <2>1
  <2>3. name = repr
    BY <2>1
  <2>4. Restored(base, r)' = Restored(base, r)
    BY <2>3, DeclarationRestores
  <2>5. Restored(BaseOf(k + 1), r)' = Restored(base, r)'
    BY <2>2 DEF Restored, Mine
  <2>6. Restored(BaseOf(k + 1), r) = EnvOf(k)[r]
    BY DEF Correct, Restorable
  <2> QED BY <1>2, <2>4, <2>5, <2>6
<1>4. Nested'
  <2>1. 1 \in 1..Depth /\ \A k \in 1..Depth : \A j \in 1..k : j \in 1..Depth
    BY <1>0, BaseType
  <2> QED BY <1>1, <2>1 DEF Correct, Nested
<1>5. MainMarked'
  <2>1. \A r \in AllReprs : reference'[r] = 0 <=> reference[r] = 0
    <3>1. last_id # 0
      BY <1>0, BaseType DEF last_id
    <3>2. reference[repr] # 0 => Hidden(repr) # 0
      BY DEF Hidden, NO_PREV
    <3>3. reference[repr] = 0 => Hidden(repr) = 0
      BY DEF Hidden, ITEM_MAX
    <3> QED BY <1>0, <3>1, <3>2, <3>3 DEF Declared, Refer, TypeInv, TypeOK
  <2>2. \A k \in 1..Depth : EnvOf(k)' = EnvOf(k) \/ (EnvOf(k)' = reference' /\ EnvOf(k) = reference)
    BY <1>1 DEF EnvOf
  <2> QED BY <1>1, <2>1, <2>2 DEF Correct, MainMarked
<1>6. RecordsFinished'
  <2>1. \A i \in 1..Len(identifiers') : identifiers'[i].repr # 0
    BY <1>0, BaseType DEF Correct, RecordsFinished, Declared
  <2>2. ASSUME scopes' # <<>>, NEW i \in BaseOf(2)'..Len(identifiers')
        PROVE  identifiers'[i].repr > 0
    <3>1. scopes # <<>> /\ 2 \in 1..Depth
      BY <1>0, <2>2, BaseType
    <3>2. i \in BaseOf(2)..Len(identifiers') /\ BaseOf(2) \in 1..last_id
      BY <1>0, <1>1, <2>2, <3>1, BaseType
    <3>3. CASE i = Len(identifiers) + 1
      BY <3>1, <3>3 DEF Declared
    <3>4. CASE i # Len(identifiers) + 1
      <4>1. i \in BaseOf(2)..Len(identifiers) /\ i \in 1..Len(identifiers)
        BY <1>0, <3>2, <3>4, BaseType
      <4> QED BY <3>1, <4>1 DEF Correct, RecordsFinished, Declared
    <3> QED BY <3>3, <3>4
  <2> QED BY <2>1, <2>2 DEF RecordsFinished
<1> QED BY <1>3, <1>4, <1>5, <1>6 DEF Correct

\* The stack with one scope more: the others stay, the new one sees what they see.
LEMMA BlockOpens ==
    ASSUME IndexInv, NEW kind, EnterBlock(kind), NEW d, d = Depth
    PROVE  /\ d \in Nat /\ d >= 2 /\ Depth' = d + 1 /\ Len(scopes') = d /\ Len(scopes) = d - 1
           /\ \A k \in 1..d : BaseOf(k)' = BaseOf(k) /\ EnvOf(k)' = EnvOf(k)
           /\ BaseOf(d + 1)' = last_id /\ EnvOf(d + 1)' = reference /\ EnvOf(d) = reference
           /\ UNCHANGED <<identifiers, reference>> /\ scopes # <<>>
<1> DEFINE sc == [kind |-> kind, displ |-> displ, lg |-> lg, cur_id |-> cur_id, saved |-> reference]
<1>1. /\ scopes' = Append(scopes, sc) /\ cur_id' = last_id /\ scopes # <<>>
      /\ UNCHANGED <<identifiers, reference>>
  BY DEF EnterBlock, InFunction
<1>2. sc.cur_id = cur_id /\ sc.saved = reference
  OBVIOUS
<1> HIDE DEF sc
<1>3. TypeInv /\ scopes \in Seq(ScopeRecord)
  BY DEF IndexInv, TypeInv, TypeOK
<1>4. /\ Len(scopes') = d /\ Len(scopes) = d - 1 /\ Depth' = d + 1 /\ Depth = d /\ d >= 2 /\ d \in Nat
      /\ \A k \in 1..d - 1 : scopes'[k] = scopes[k]
      /\ scopes'[d] = sc
  BY <1>1, <1>3, BaseType DEF Depth
<1>5. /\ \A k \in 1..d : BaseOf(k)' = BaseOf(k) /\ EnvOf(k)' = EnvOf(k)
      /\ BaseOf(d + 1)' = last_id /\ EnvOf(d + 1)' = reference /\ EnvOf(d) = reference
  <2>1. BaseOf(d + 1)' = last_id /\ EnvOf(d + 1)' = reference /\ EnvOf(d) = reference
    BY <1>1, <1>4 DEF BaseOf, EnvOf
  <2>2. BaseOf(d)' = BaseOf(d) /\ EnvOf(d)' = EnvOf(d)
    BY <1>2, <1>4 DEF BaseOf, EnvOf
  <2>3. \A k \in 1..d - 1 : BaseOf(k)' = BaseOf(k) /\ EnvOf(k)' = EnvOf(k)
    BY <1>4 DEF BaseOf, EnvOf
  <2>4. \A k \in 1..d : k = d \/ k \in 1..d - 1
    BY <1>4
  <2> QED BY <2>1, <2>2, <2>3, <2>4
<1> QED BY <1>1, <1>4, <1>5

\* It has no records yet.
LEMMA OpenedCorrect ==
    ASSUME IndexInv, Correct, NEW kind \in {"block", "for"}, EnterBlock(kind)
    PROVE  Correct'
<1> PICK d : d = Depth
  OBVIOUS
<1>0. /\ d \in Nat /\ d >= 2 /\ Depth' = d + 1 /\ Len(scopes') = d /\ Len(scopes) = d - 1
      /\ \A k \in 1..d : BaseOf(k)' = BaseOf(k) /\ EnvOf(k)' = EnvOf(k)
      /\ BaseOf(d + 1)' = last_id /\ EnvOf(d + 1)' = reference /\ EnvOf(d) = reference
      /\ UNCHANGED <<identifiers, reference>> /\ scopes # <<>>
  BY BlockOpens
<1>1. UNCHANGED <<identifiers, reference>> /\ scopes # <<>>
  BY <1>0
<1>3. TypeInv
  BY DEF IndexInv
<1>4. Len(scopes') = d /\ Len(scopes) = d - 1 /\ Depth' = d + 1 /\ Depth = d /\ d >= 2 /\ d \in Nat
  BY <1>0
<1>5. /\ \A k \in 1..d : BaseOf(k)' = BaseOf(k) /\ EnvOf(k)' = EnvOf(k)
      /\ BaseOf(d + 1)' = last_id /\ EnvOf(d + 1)' = reference /\ EnvOf(d) = reference
  BY <1>0
<1>6. \A k \in 1..d : BaseOf(k) \in 1..last_id
  BY <1>3, <1>4, BaseType
<1>7. Restorable'
  <2> SUFFICES ASSUME NEW k \in 1..Len(scopes'), NEW r \in AllReprs
               PROVE  Restored(BaseOf(k + 1), r)' = EnvOf(k)'[r]
    BY DEF Restorable
  <2>1. CASE k = d
    <3> PICK base : base = last_id
      OBVIOUS
    <3>1. Mine(base, r) = {}
      BY <1>3, BaseType DEF Mine, last_id
    <3>2. BaseOf(k + 1)' = base /\ EnvOf(k)' = reference
      BY <1>4, <1>5, <2>1
    <3>3. Restored(BaseOf(k + 1), r)' = Restored(base, r)
      BY <1>1, <3>2 DEF Restored, Mine
    <3> QED BY <3>1, <3>2, <3>3 DEF Restored
  <2>2. CASE k # d
    <3>1. k \in 1..Len(scopes) /\ k \in 1..d /\ k + 1 \in 1..d
      BY <1>3, <1>4, <2>2, BaseType
    <3>2. Restored(BaseOf(k + 1), r)' = Restored(BaseOf(k + 1), r)
      BY <1>1, <1>5, <3>1 DEF Restored, Mine
    <3> QED BY <1>5, <3>1, <3>2 DEF Correct, Restorable
  <2> QED BY <2>1, <2>2
<1>8. Nested'
  <2>1. BaseOf(1)' = 1
    BY <1>4, <1>5 DEF Correct, Nested
  <2>2. ASSUME NEW k \in 1..Depth', NEW j \in 1..k
        PROVE  BaseOf(j)' <= BaseOf(k)'
    <3>0. last_id \in Nat
      BY <1>3, BaseType DEF last_id
    <3>1. CASE k = d + 1
      <4>1. CASE j = k
        BY <1>5, <3>0, <3>1, <4>1
      <4>2. CASE j # k
        <5>1. j \in 1..d
          BY <1>4, <3>1, <4>2
        <5> QED BY <1>5, <1>6, <3>0, <3>1, <5>1
      <4> QED BY <4>1, <4>2
    <3>2. CASE k # d + 1
      <4>1. k \in 1..d /\ j \in 1..d
        BY <1>4, <3>2
      <4>2. BaseOf(j) <= BaseOf(k)
        BY <1>4, <4>1 DEF Correct, Nested
      <4> QED BY <1>5, <4>1, <4>2
    <3> QED BY <3>1, <3>2
  <2> QED BY <2>1, <2>2 DEF Nested
<1>9. MainMarked'
  <2>1. \A k \in 1..Depth' : k \in 1..d \/ k = d + 1
    BY <1>4
  <2>2. \A k \in 1..d, r \in AllReprs : EnvOf(k)[r] = 0 <=> r = Main
    BY <1>4 DEF Correct, MainMarked
  <2>3. \A r \in AllReprs : reference[r] = 0 <=> r = Main
    BY <1>4, <1>5, <2>2
  <2>4. \A k \in 1..Depth', r \in AllReprs : EnvOf(k)'[r] = 0 <=> r = Main
    BY <1>5, <2>1, <2>2, <2>3
  <2> QED BY <2>4 DEF MainMarked
<1>10. RecordsFinished'
  <2>1. BaseOf(2)' = BaseOf(2)
    BY <1>4, <1>5
  <2> QED BY <1>1, <2>1 DEF Correct, RecordsFinished
<1> QED BY <1>7, <1>8, <1>9, <1>10 DEF Correct

\* What the exit loop computes is what undoing the innermost scope gives back.
LEMMA UndoneRestores ==
    ASSUME NEW r \in AllReprs
    PROVE  Undone[r] = Restored(cur_id, r)
BY DEF Undone, Restored, Mine, Unmark

\* The stack with one scope less, whose records have been undone.
LEMMA ClosedCorrect ==
    ASSUME IndexInv, Correct, ExitBlock \/ ExitFunction
    PROVE  /\ Correct' /\ Depth' = Len(scopes) /\ Depth = Len(scopes) + 1
           /\ \A k \in 1..Depth' : BaseOf(k)' = BaseOf(k) /\ EnvOf(k)' = EnvOf(k)
<1>1. /\ scopes # <<>> /\ LeaveScope /\ UNCHANGED identifiers /\ reference' = Undone
  BY DEF ExitBlock, ExitFunction
<1>2. TypeInv
  BY DEF IndexInv
<1>3. /\ Len(scopes) \in Nat /\ Len(scopes) >= 1 /\ Len(scopes') = Len(scopes) - 1
      /\ \A k \in 1..Len(scopes') : scopes'[k] = scopes[k]
  BY <1>1, <1>2, LeaveScopeType
<1>4. Depth' = Len(scopes) /\ Depth = Len(scopes) + 1 /\ Len(scopes) \in 1..Len(scopes)
  BY <1>3 DEF Depth
<1>5. cur_id' = BaseOf(Len(scopes))
  <2>1. CASE ExitBlock
    BY <1>3, <1>4, <2>1 DEF ExitBlock, InnerScope, BaseOf
  <2>2. CASE ExitFunction
    <3>1. Len(scopes) = 1 /\ cur_id' = 1
      BY <2>2 DEF ExitFunction
    <3> QED BY <3>1 DEF Correct, Nested
  <2> QED BY <2>1, <2>2
<1>6. reference' = EnvOf(Len(scopes))
  <2>1. \A r \in AllReprs : Restored(cur_id, r) = EnvOf(Len(scopes))[r]
    <3>1. BaseOf(Len(scopes) + 1) = cur_id
      BY <1>4 DEF BaseOf
    <3> QED BY <1>4, <3>1 DEF Correct, Restorable
  <2>2. Undone = [r \in AllReprs |-> Undone[r]]
    BY DEF Undone
  <2>3. EnvOf(Len(scopes)) = scopes[Len(scopes)].saved /\ scopes[Len(scopes)] \in ScopeRecord
    BY <1>2, <1>3, <1>4 DEF EnvOf, TypeInv, TypeOK
  <2>4. EnvOf(Len(scopes)) \in [AllReprs -> Int]
    BY <2>3 DEF ScopeRecord
  <2>5. \A r \in AllReprs : Undone[r] = EnvOf(Len(scopes))[r]
    BY <2>1, UndoneRestores
  <2> QED BY <1>1, <2>2, <2>4, <2>5
<1>7. \A k \in 1..Depth' : BaseOf(k)' = BaseOf(k) /\ EnvOf(k)' = EnvOf(k)
  <2> SUFFICES ASSUME NEW k \in 1..Depth'
               PROVE  BaseOf(k)' = BaseOf(k) /\ EnvOf(k)' = EnvOf(k)
    OBVIOUS
  <2>1. CASE k = Depth'
    BY <1>4, <1>5, <1>6, <2>1 DEF BaseOf, EnvOf
  <2>2. CASE k # Depth'
    <3>1. k \in 1..Len(scopes') /\ k # Depth
      BY <1>3, <1>4, <2>2
    <3> QED BY <1>3, <2>2, <3>1 DEF BaseOf, EnvOf
  <2> QED BY <2>1, <2>2
<1>8. Restorable'
  <2> SUFFICES ASSUME NEW k \in 1..Len(scopes'), NEW r \in AllReprs
               PROVE  Restored(BaseOf(k + 1), r)' = EnvOf(k)'[r]
    BY DEF Restorable
  <2>1. k \in 1..Len(scopes) /\ k + 1 \in 1..Depth' /\ k \in 1..Depth' /\ k + 1 \in 1..Depth
    BY <1>3, <1>4
  <2> PICK base : base = BaseOf(k + 1)
    OBVIOUS
  <2>2. base = BaseOf(k + 1)' /\ base \in Nat /\ base <= cur_id /\ cur_id \in Nat
    <3>1. BaseOf(Depth) = cur_id /\ cur_id \in Nat
      BY <1>2, <1>4, BaseType DEF BaseOf, TypeInv, TypeOK
    <3>2. base \in Nat
      BY <1>2, <2>1, BaseType
    <3>3. BaseOf(k + 1) <= BaseOf(Depth)
      BY <1>2, <2>1, BaseType DEF Correct, Nested
    <3> QED BY <1>7, <2>1, <3>1, <3>2, <3>3
  <2>3. Restored(base, r) = EnvOf(k)[r] /\ Restored(cur_id, r) = reference'[r]
    BY <1>1, <2>1, UndoneRestores DEF Correct, Restorable
  <2>4. Restored(BaseOf(k + 1), r)' =
            IF Mine(base, r) = {} THEN reference'[r]
            ELSE Unmark(identifiers[Min(Mine(base, r))].prev)
    BY <1>1, <2>2 DEF Restored, Mine
  <2>5. CASE Mine(base, r) = {}
    <3>1. Mine(cur_id, r) = {}
      BY <1>2, <2>2, <2>5, BaseType DEF Mine
    <3>2. Restored(cur_id, r) = reference[r] /\ Restored(base, r) = reference[r]
      BY <2>5, <3>1 DEF Restored
    <3> QED BY <1>7, <2>1, <2>3, <2>4, <2>5, <3>2
  <2>6. CASE Mine(base, r) # {}
    <3>1. Restored(base, r) = Unmark(identifiers[Min(Mine(base, r))].prev)
      BY <2>6 DEF Restored
    <3> QED BY <1>7, <2>1, <2>3, <2>4, <2>6, <3>1
  <2> QED BY <2>5, <2>6
<1>9. Nested'
  <2>1. 1 \in 1..Depth' /\ \A k \in 1..Depth' : k \in 1..Depth /\ \A j \in 1..k : j \in 1..Depth'
    BY <1>3, <1>4
  <2> QED BY <1>7, <2>1 DEF Correct, Nested
<1>10. MainMarked'
  <2>1. \A k \in 1..Depth' : k \in 1..Depth
    BY <1>3, <1>4
  <2> QED BY <1>7, <2>1 DEF Correct, MainMarked
<1>11. RecordsFinished'
  <2>1. scopes' # <<>> => 2 \in 1..Depth'
    BY <1>1, <1>2, <1>3, <1>4, LeaveScopeType
  <2> QED BY <1>1, <1>7, <2>1 DEF Correct, RecordsFinished
<1> QED BY <1>4, <1>7, <1>8, <1>9, <1>10, <1>11 DEF Correct

\* What an action that declares anything but a function does, when it succeeds: it
\* declares the spelling, which is not declared in this scope yet.
LEMMA DeclareSucceeds ==
    ASSUME IndexInv, NEW repr \in Reprs, ~errors',
           \/ \E size \in Sizes : DeclareVariable(repr, size) \/ DeclareParameter(repr, size)
           \/ DeclareFunctionParameter(repr)
           \/ \E func_def \in {0, FuncDef} : DeclareType(repr, func_def)
           \/ \E value \in EnumValues : DeclareEnumerator(repr, value)
    PROVE  /\ Declared(repr, repr) /\ UNCHANGED <<scopes, cur_id>>
           /\ \E func_def : Accepted(repr, func_def) /\ (func_def = 1 => scopes # <<>>)
<1>0. TypeOK /\ (params > 0 => scopes # <<>>)
  BY DEF IndexInv, TypeInv, Layout
<1>1. UNCHANGED <<cur_id, scopes>>
  BY DEF DeclareVariable, DeclareParameter, DeclareFunctionParameter, DeclareType, DeclareEnumerator
<1>2. \A func_def : ~Reject(repr, func_def)
  BY DEF Reject
<1>3. ASSUME NEW size, DeclareVariable(repr, size)
      PROVE  Declared(repr, repr) /\ Accepted(repr, 3)
  BY <1>0, <1>2, <1>3, EnlistDeclares DEF DeclareVariable, Enlist
<1>4. ASSUME NEW size, DeclareParameter(repr, size)
      PROVE  Declared(repr, repr) /\ Accepted(repr, 1) /\ scopes # <<>>
  BY <1>0, <1>2, <1>4, EnlistDeclares DEF DeclareParameter, Enlist
<1>5. ASSUME DeclareFunctionParameter(repr)
      PROVE  Declared(repr, repr) /\ Accepted(repr, 1) /\ scopes # <<>>
  BY <1>0, <1>2, <1>5, EnlistDeclares DEF DeclareFunctionParameter, Enlist
<1>6. FuncDef = 1 => scopes # <<>>
  BY DEF FuncDef, InFunction
<1>7. ASSUME NEW func_def \in {0, FuncDef}, DeclareType(repr, func_def)
      PROVE  Declared(repr, repr) /\ Accepted(repr, func_def) /\ (func_def = 1 => scopes # <<>>)
  BY <1>0, <1>2, <1>6, <1>7, EnlistDeclares DEF DeclareType, Enlist
<1>8. ASSUME NEW value, DeclareEnumerator(repr, value)
      PROVE  Declared(repr, repr) /\ Accepted(repr, FuncDef)
  BY <1>0, <1>2, <1>8, EnlistDeclares DEF DeclareEnumerator, Enlist
<1>9. \E func_def : Accepted(repr, func_def) /\ (func_def = 1 => scopes # <<>>)
  <2>1. 3 # 1
    OBVIOUS
  <2> QED BY <1>3, <1>4, <1>5, <1>6, <1>7, <1>8, <2>1, Zenon
<1> QED BY <1>1, <1>3, <1>4, <1>5, <1>7, <1>8, <1>9

\* ident_add looks for a redeclaration in exactly the records of this scope.
LEMMA AcceptedIsNew ==
    ASSUME IndexInv, Correct, NEW repr \in Reprs, NEW func_def, Accepted(repr, func_def),
           func_def = 1 => scopes # <<>>
    PROVE  reference[repr] < cur_id
<1>0. /\ TypeInv /\ repr \in AllReprs /\ cur_id \in 1..last_id
  BY DEF IndexInv, TypeInv, TypeOK, AllReprs
<1>1. reference[repr] \in Targets /\ Len(identifiers) \in Nat
  BY <1>0, BaseType DEF IndexInv, InRange
<1>2. SUFFICES ASSUME reference[repr] >= cur_id PROVE FALSE
  BY <1>0, <1>1 DEF Targets, ITEM_MAX, last_id
<1>3. Hidden(repr) = reference[repr] /\ reference[repr] \in 1..Len(identifiers)
  BY <1>0, <1>1, <1>2 DEF Targets, Hidden, ITEM_MAX, last_id
<1>4. func_def = 1 /\ ~(identifiers[reference[repr]].repr > 0)
  <2>1. Hidden(repr) # NO_PREV
    BY <1>3 DEF NO_PREV
  <2>2. ~(Hidden(repr) # NO_PREV /\ Hidden(repr) >= cur_id /\ (func_def = 1 => identifiers[Hidden(repr)].repr > 0))
    BY DEF Accepted, IsRepeated
  <2> QED BY <1>2, <1>3, <2>1, <2>2
<1>5. scopes # <<>>
  BY <1>4
<1>6. 2 \in 1..Depth /\ Depth \in 1..Depth /\ 2 \in 1..Depth /\ BaseOf(Depth) = cur_id
  BY <1>0, <1>5, BaseType DEF BaseOf
<1>7. BaseOf(2) <= cur_id /\ BaseOf(2) \in Nat
  BY <1>0, <1>6, BaseType DEF Correct, Nested, last_id
<1>8. reference[repr] \in BaseOf(2)..Len(identifiers)
  BY <1>0, <1>2, <1>3, <1>7
<1> QED BY <1>4, <1>5, <1>8 DEF Correct, RecordsFinished

\* A prototype that is accepted.
LEMMA DeclareFunctionSucceeds ==
    ASSUME IndexInv, NEW repr \in Reprs, NEW type \in FuncTypes, ~errors', DeclareFunction(repr, type)
    PROVE  /\ Declared(repr, IF Tracked(type) THEN -repr ELSE repr)
           /\ UNCHANGED <<scopes, cur_id>> /\ scopes = <<>> /\ Accepted(repr, 2) /\ repr # Main
<1>1. ~Reject(repr, 2)
  BY DEF Reject
<1>2. TypeOK
  BY DEF IndexInv, TypeInv
<1>3. repr # Main
  BY <1>1 DEF DeclareFunction
<1> QED BY <1>1, <1>2, <1>3, EnlistDeclares DEF DeclareFunction, Enlist, Global

\* A definition that is accepted, and the scope it opens.
LEMMA DefineFunctionSucceeds ==
    ASSUME IndexInv, NEW repr \in Reprs, NEW type \in FuncTypes, NEW n \in 0..MaxParams,
           ~errors', DefineFunction(repr, type, n)
    PROVE  /\ Declared(repr, repr) /\ scopes = <<>> /\ Accepted(repr, 1) /\ SameType(repr, type)
           /\ EnterFunctionScope /\ predef' \in {predef, predef \ {repr}}
           /\ \A i \in 1..Len(identifiers) :
                 identifiers'[i] = IF HasPrototype(repr) /\ i = Hidden(repr)
                                   THEN [identifiers[i] EXCEPT !.displ = FunctionPlace(type)]
                                   ELSE identifiers[i]
           /\ identifiers'[Len(identifiers) + 1] = Record(repr, repr, "func", type, FunctionPlace(type))
<1>1. ~Reject(repr, 1)
  BY DEF Reject
<1>2. /\ TypeOK /\ Len(identifiers) \in Nat /\ identifiers \in Seq(IdRecord) /\ scopes = <<>>
      /\ repr \in AllReprs
  BY DEF IndexInv, TypeInv, TypeOK, DefineFunction, Global, AllReprs
<1> DEFINE record == Record(repr, repr, "func", type, FunctionPlace(type))
           linked == IF HasPrototype(repr)
                     THEN [identifiers EXCEPT ![Hidden(repr)].displ = record.displ]
                     ELSE identifiers
<1>3. /\ Accepted(repr, 1) /\ reference' = Refer(repr) /\ EnterFunctionScope /\ SameType(repr, type)
      /\ predef' \in {predef, predef \ {repr}}
      /\ identifiers' = Append(linked, record)
  BY <1>1 DEF DefineFunction
<1>4. /\ record.prev = Hidden(repr) /\ record.repr = repr /\ record \in IdRecord
      /\ record.displ = FunctionPlace(type)
  <2>1. FunctionPlace(type) \in Int /\ repr \in Int /\ type \in Nat
    BY <1>2, ScopesAssumption DEF FunctionPlace, TypeOK
  <2>2. record \in IdRecord
    BY <1>2, <2>1, RecordType
  <2> QED BY <2>2 DEF Record
<1> HIDE DEF record
<1>5. /\ linked \in Seq(IdRecord) /\ Len(linked) = Len(identifiers)
      /\ \A i \in 1..Len(identifiers) :
            /\ linked[i].prev = identifiers[i].prev /\ linked[i].repr = identifiers[i].repr
            /\ linked[i] = IF HasPrototype(repr) /\ i = Hidden(repr)
                           THEN [identifiers[i] EXCEPT !.displ = record.displ]
                           ELSE identifiers[i]
  <2>1. CASE HasPrototype(repr)
    <3>1. Hidden(repr) \in 1..Len(identifiers)
      BY <1>2, <2>1 DEF HasPrototype, Hidden, IndexInv, InRange, Targets, ITEM_MAX, NO_PREV
    <3>2. identifiers[Hidden(repr)] \in IdRecord /\ record.displ \in Int
      <4>1. identifiers[Hidden(repr)] \in IdRecord
        BY <1>2, <3>1
      <4>2. record.displ \in Int
        BY <1>4 DEF IdRecord
      <4> QED BY <4>1, <4>2
    <3>3. [identifiers[Hidden(repr)] EXCEPT !.displ = record.displ] \in IdRecord
      BY <3>2 DEF IdRecord
    <3>4. /\ linked \in Seq(IdRecord) /\ Len(linked) = Len(identifiers)
      BY <1>2, <2>1, <3>1, <3>3, ExceptSeq
    <3>5. ASSUME NEW i \in 1..Len(identifiers)
          PROVE  /\ linked[i].prev = identifiers[i].prev /\ linked[i].repr = identifiers[i].repr
                 /\ linked[i] = IF i = Hidden(repr)
                                THEN [identifiers[i] EXCEPT !.displ = record.displ]
                                ELSE identifiers[i]
      <4>1. identifiers[i] \in IdRecord
        BY <1>2
      <4>2. linked[i] = IF i = Hidden(repr) THEN [identifiers[i] EXCEPT !.displ = record.displ]
                                            ELSE identifiers[i]
        BY <1>2, <2>1
      <4>3. CASE i = Hidden(repr)
        <5>1. linked[i] = [identifiers[i] EXCEPT !.displ = record.displ]
          BY <4>2, <4>3
        <5> HIDE DEF linked
        <5>2. linked[i].prev = identifiers[i].prev /\ linked[i].repr = identifiers[i].repr
          BY <4>1, <5>1 DEF IdRecord
        <5> QED BY <4>2, <5>2
      <4>4. CASE i # Hidden(repr)
        BY <4>2, <4>4
      <4> QED BY <4>3, <4>4
    <3> HIDE DEF linked
    <3> QED BY <2>1, <3>4, <3>5
  <2>2. CASE ~HasPrototype(repr)
    BY <1>2, <2>2
  <2> QED BY <2>1, <2>2
<1> HIDE DEF linked
<1>6. /\ Len(identifiers') = Len(identifiers) + 1
      /\ \A i \in 1..Len(identifiers) : identifiers'[i] = linked[i]
      /\ identifiers'[Len(identifiers) + 1] = record
  BY <1>2, <1>3, <1>4, <1>5
<1>7. Declared(repr, repr)
  BY <1>2, <1>3, <1>4, <1>5, <1>6 DEF Declared
<1>8. \A i \in 1..Len(identifiers) :
         identifiers'[i] = IF HasPrototype(repr) /\ i = Hidden(repr)
                           THEN [identifiers[i] EXCEPT !.displ = FunctionPlace(type)]
                           ELSE identifiers[i]
  BY <1>4, <1>5, <1>6
<1> QED BY <1>2, <1>3, <1>6, <1>7, <1>8 DEF record

\* The scope of a function is stacked on the outermost one.
LEMMA DefinitionCorrect ==
    ASSUME IndexInv, Correct, NEW repr \in Reprs, Declared(repr, repr), scopes = <<>>,
           EnterFunctionScope
    PROVE  /\ Correct' /\ Depth = 1 /\ Depth' = 2
           /\ EnvOf(1) = reference /\ EnvOf(1)' = reference' /\ EnvOf(2)' = reference'
           /\ BaseOf(1) = 1 /\ BaseOf(1)' = 1 /\ BaseOf(2)' = Len(identifiers) + 2
<1>0. TypeInv /\ repr \in AllReprs /\ Len(identifiers) \in Nat /\ repr > 0
  <2>1. repr > 0
    <3>1. repr \in Nat \ {0}
      BY ScopesAssumption
    <3> QED BY <3>1
  <2> QED BY <2>1 DEF IndexInv, TypeInv, TypeOK, AllReprs
<1>1. Depth = 1 /\ EnvOf(1) = reference /\ BaseOf(1) = cur_id /\ cur_id = 1
  <2>1. Depth = 1
    BY <1>0, BaseType
  <2> QED BY <2>1 DEF EnvOf, BaseOf, Correct, Nested
<1> DEFINE sc == [kind |-> "func", displ |-> displ, lg |-> lg, cur_id |-> cur_id, saved |-> reference']
<1>2. scopes' = <<sc>> /\ cur_id' = Len(identifiers') + 1
  BY DEF EnterFunctionScope
<1>3. sc.cur_id = cur_id /\ sc.saved = reference'
  OBVIOUS
<1> HIDE DEF sc
<1>4. Len(scopes') = 1 /\ scopes'[1] = sc /\ Depth' = 2
  BY <1>2 DEF Depth
<1>5. /\ EnvOf(1)' = reference' /\ EnvOf(2)' = reference'
      /\ BaseOf(1)' = 1 /\ BaseOf(2)' = Len(identifiers) + 2
  BY <1>0, <1>1, <1>2, <1>3, <1>4 DEF EnvOf, BaseOf, Declared
<1>6. Restorable'
  <2> SUFFICES ASSUME NEW k \in 1..Len(scopes'), NEW r \in AllReprs
               PROVE  Restored(BaseOf(k + 1), r)' = EnvOf(k)'[r]
    BY DEF Restorable
  <2>1. k = 1 /\ k + 1 = 2
    BY <1>4
  <2>2. Mine(BaseOf(k + 1), r)' = {}
    BY <1>0, <1>5, <2>1 DEF Mine, Declared
  <2> QED BY <1>5, <2>1, <2>2 DEF Restored
<1>7. Nested'
  BY <1>0, <1>4, <1>5 DEF Nested
<1>8. MainMarked'
  <2>1. \A r \in AllReprs : reference'[r] = 0 <=> reference[r] = 0
    <3>1. last_id # 0
      BY <1>0 DEF last_id
    <3>2. reference[repr] # 0 => Hidden(repr) # 0
      BY DEF Hidden, NO_PREV
    <3>3. reference[repr] = 0 => Hidden(repr) = 0
      BY DEF Hidden, ITEM_MAX
    <3> QED BY <1>0, <3>1, <3>2, <3>3 DEF Declared, Refer, TypeInv, TypeOK
  <2>2. \A r \in AllReprs : reference[r] = 0 <=> r = Main
    BY <1>1 DEF Correct, MainMarked
  <2>3. \A k \in 1..2, r \in AllReprs : EnvOf(k)'[r] = 0 <=> r = Main
    BY <1>5, <2>1, <2>2
  <2> QED BY <1>4, <2>3 DEF MainMarked
<1>9. RecordsFinished'
  BY <1>0, <1>5 DEF RecordsFinished, Declared, Correct
<1> QED BY <1>1, <1>4, <1>5, <1>6, <1>7, <1>8, <1>9 DEF Correct

\* In the state sx_create leaves the invariant holds.
LEMMA InitScopeInv == Init => ScopeInv
<1> SUFFICES ASSUME Init PROVE IndexInv /\ Correct
  BY DEF ScopeInv
<1>1. IndexInv
  BY InitIndexInv
<1>2. Len(identifiers) = 1 /\ identifiers[1].repr = Builtin /\ scopes = <<>> /\ cur_id = 1 /\ Depth = 1
  BY DEF Init, Depth
<1>3. \A r \in AllReprs : reference[r] = 0 <=> r = Main
  <2>1. Main # Builtin /\ Main # 0
    BY ScopesAssumption
  <2> QED BY <2>1 DEF Init, ITEM_MAX
<1>4. Builtin # 0
  BY ScopesAssumption
<1>5. Restorable /\ Nested /\ MainMarked
  BY <1>2, <1>3 DEF Restorable, Nested, MainMarked, BaseOf, EnvOf, Init
<1>6. RecordsFinished
  BY <1>2, <1>4 DEF RecordsFinished
<1> QED BY <1>1, <1>5, <1>6 DEF Correct

\* Every step of the parser keeps the invariant, until an error is reported.
LEMMA NextScopeInv == ScopeInv /\ [Next]_vars => ScopeInv'
<1> SUFFICES ASSUME ScopeInv, [Next]_vars, ~errors' PROVE Correct'
  BY NextIndexInv DEF ScopeInv
<1>0. IndexInv
  BY DEF ScopeInv
<1>1. CASE UNCHANGED vars
  <2>1. /\ UNCHANGED <<identifiers, reference, cur_id, scopes>> /\ Correct
    BY <1>1 DEF vars, ScopeInv
  <2>2. Restorable'
    <3>1. Depth' = Depth
      BY <2>1 DEF Depth
    <3> SUFFICES ASSUME NEW k \in 1..Len(scopes), NEW r \in AllReprs
                 PROVE  Restored(BaseOf(k + 1), r)' = EnvOf(k)'[r]
      BY <2>1 DEF Restorable
    <3>2. Restored(BaseOf(k + 1), r) = EnvOf(k)[r]
      BY <2>1 DEF Correct, Restorable
    <3> QED BY <2>1, <3>1, <3>2 DEF Restored, Mine, BaseOf, EnvOf
  <2>3. Nested' /\ MainMarked' /\ RecordsFinished'
    BY <2>1 DEF Correct, Nested, MainMarked, RecordsFinished, Depth, BaseOf, EnvOf
  <2> QED BY <2>2, <2>3 DEF Correct
<1>2. CASE Next
  <2>0. Correct
    BY <1>2, ErrorsStay DEF ScopeInv
  <2>1. \A repr \in Reprs : repr \in Int /\ -repr \in Int /\ repr # 0 /\ -repr # 0 /\ repr > 0
    <3>1. \A repr \in Reprs : repr \in Nat \ {0}
      BY ScopesAssumption
    <3> QED BY <3>1
  <2>2. ASSUME NEW repr \in Reprs,
               \/ \E size \in Sizes : DeclareVariable(repr, size) \/ DeclareParameter(repr, size)
               \/ DeclareFunctionParameter(repr)
               \/ \E func_def \in {0, FuncDef} : DeclareType(repr, func_def)
               \/ \E value \in EnumValues : DeclareEnumerator(repr, value)
        PROVE  Correct'
    <3>1. Declared(repr, repr) /\ UNCHANGED <<scopes, cur_id>>
      BY <1>0, <2>2, DeclareSucceeds
    <3> QED BY <1>0, <2>0, <2>1, <3>1, DeclarationCorrect
  <2>3. ASSUME NEW repr \in Reprs, NEW type \in FuncTypes, DeclareFunction(repr, type)
        PROVE  Correct'
    <3> DEFINE name == IF Tracked(type) THEN -repr ELSE repr
    <3>1. Declared(repr, name) /\ UNCHANGED <<scopes, cur_id>> /\ scopes = <<>>
      BY <1>0, <2>3, DeclareFunctionSucceeds
    <3>2. name \in Int /\ name # 0
      BY <2>1
    <3> HIDE DEF name
    <3> QED BY <1>0, <2>0, <3>1, <3>2, DeclarationCorrect
  <2>4. ASSUME NEW repr \in Reprs, NEW type \in FuncTypes, NEW n \in 0..MaxParams,
               DefineFunction(repr, type, n)
        PROVE  Correct'
    <3>1. Declared(repr, repr) /\ scopes = <<>> /\ EnterFunctionScope
      BY <1>0, <2>4, DefineFunctionSucceeds
    <3> QED BY <1>0, <2>0, <3>1, DefinitionCorrect
  <2>5. ~AbandonFor
    BY DEF AbandonFor
  <2> QED BY <1>0, <1>2, <2>0, <2>2, <2>3, <2>4, <2>5, OpenedCorrect, ClosedCorrect DEF Next
<1> QED BY <1>1, <1>2

-----------------------------------------------------------------------------
(* The refinement, one kind of step after the other. *)

\* The state of LexicalScope that a state of the tables stands for.
Env == [k \in 1..Depth |-> [r \in Names |-> EnvOf(k)[r]]]
Own == [k \in 1..Depth |-> {r \in Names : EnvOf(k)[r] >= BaseOf(k)}]
Announced == {r \in Names : EnvOf(1)[r] > 0 /\ identifiers[EnvOf(1)[r]].repr < 0}

\* The stack of environments is as high as the stack of scopes.
LEMMA EnvShape ==
    ASSUME TypeInv
    PROVE  /\ Len(Env) = Depth /\ Len(Own) = Depth
           /\ Env \in Seq([Names -> Int]) /\ Own \in Seq(SUBSET Names)
           /\ \A k \in 1..Depth : EnvOf(k) \in [AllReprs -> Int]
<1>1. Depth \in Nat /\ Names \subseteq AllReprs
  BY BaseType DEF Names, AllReprs
<1>2. \A k \in 1..Depth : EnvOf(k) \in [AllReprs -> Int]
  <2> SUFFICES ASSUME NEW k \in 1..Depth PROVE EnvOf(k) \in [AllReprs -> Int]
    OBVIOUS
  <2>1. CASE k = Depth
    BY <2>1 DEF EnvOf, TypeInv, TypeOK
  <2>2. CASE k # Depth
    <3>1. k \in 1..Len(scopes)
      BY <2>2, BaseType
    <3>2. scopes[k] \in ScopeRecord
      BY <3>1 DEF TypeInv, TypeOK
    <3> QED BY <2>2, <3>2 DEF EnvOf, ScopeRecord
  <2> QED BY <2>1, <2>2
<1>3. \A k \in 1..Depth : [r \in Names |-> EnvOf(k)[r]] \in [Names -> Int]
  BY <1>1, <1>2
<1>4. Len(Env) = Depth /\ Env \in Seq([Names -> Int])
  BY <1>1, <1>3 DEF Env
<1>5. Len(Own) = Depth /\ Own \in Seq(SUBSET Names)
  BY <1>1 DEF Own
<1> QED BY <1>2, <1>4, <1>5

\* Which names are announced depends on the outermost environment only, and a
\* declaration changes it for its own name at most.
LEMMA AnnouncedElsewhere ==
    ASSUME IndexInv, IndexInv', NEW repr \in Reprs, NEW name, Declared(repr, name),
           NEW r \in Names, EnvOf(1)'[r] = EnvOf(1)[r]
    PROVE  r \in Announced' <=> r \in Announced
<1>1. EnvOf(1)[r] \in Targets /\ Len(identifiers) \in Nat
  <2>1. TypeInv /\ r \in AllReprs
    BY DEF IndexInv, Names, AllReprs
  <2>2. CASE Depth = 1
    BY <2>1, <2>2, BaseType DEF EnvOf, IndexInv, InRange
  <2>3. CASE Depth # 1
    <3>1. 1 \in 1..Len(scopes)
      BY <2>1, <2>3, BaseType
    <3> QED BY <2>1, <2>3, <3>1, BaseType DEF EnvOf, IndexInv, InRange
  <2> QED BY <2>2, <2>3
<1>2. EnvOf(1)[r] > 0 => identifiers'[EnvOf(1)[r]].repr = identifiers[EnvOf(1)[r]].repr
  BY <1>1 DEF Targets, ITEM_MAX, Declared
<1> QED BY <1>2 DEF Announced

\* A declaration binds its name in the innermost environment.
LEMMA DeclarationBinds ==
    ASSUME IndexInv, IndexInv', Correct, NEW n \in Names, NEW name, Declared(n, name),
           UNCHANGED <<scopes, cur_id>>, reference[n] < cur_id
    PROVE  /\ Depth' = Depth /\ n \notin Own[Depth]
           /\ Env' = [Env EXCEPT ![Depth] = [@ EXCEPT ![n] = Env'[Depth][n]]]
           /\ Env'[Depth][n] = last_id /\ last_id \notin {ITEM_MAX, Env[Depth][n]}
           /\ Own' = [Own EXCEPT ![Depth] = @ \cup {n}]
<1>0. /\ TypeInv /\ n \in Reprs /\ n \in AllReprs /\ n # Main
      /\ Len(identifiers) \in Nat /\ cur_id \in 1..last_id /\ reference \in [AllReprs -> Int]
      /\ Names \subseteq AllReprs
  BY DEF IndexInv, TypeInv, TypeOK, Names, AllReprs
<1> PICK d \in Nat : d = Depth
  BY <1>0, BaseType
<1>1. d >= 1 /\ d \in 1..d /\ Depth = d /\ Depth' = d
  BY <1>0, BaseType DEF Depth
<1>2. /\ EnvOf(d) = reference /\ EnvOf(d)' = reference' /\ BaseOf(d) = cur_id /\ BaseOf(d)' = cur_id
      /\ \A k \in 1..d : k # d => EnvOf(k)' = EnvOf(k) /\ BaseOf(k)' = BaseOf(k)
  BY <1>1 DEF EnvOf, BaseOf
<1>3. reference' = [reference EXCEPT ![n] = last_id]
  <2>1. reference[n] # 0
    BY <1>0, <1>1, <1>2 DEF Correct, MainMarked
  <2>2. Hidden(n) # 0
    BY <2>1 DEF Hidden, NO_PREV
  <2> QED BY <2>2 DEF Declared, Refer
<1>4. reference[n] \in Targets /\ last_id = Len(identifiers) + 1 /\ last_id \in Nat /\ last_id >= cur_id
  BY <1>0 DEF IndexInv, InRange, last_id
<1>5. last_id \notin {ITEM_MAX, reference[n]}
  BY <1>0, <1>4 DEF Targets, ITEM_MAX
<1> PICK L : L = last_id
  OBVIOUS
<1>6. \A r \in Names : reference'[r] = IF r = n THEN L ELSE reference[r]
  BY <1>0, <1>3
<1>7. Env = [k \in 1..d |-> [r \in Names |-> EnvOf(k)[r]]]
  BY <1>1 DEF Env
<1>8. Env' = [k \in 1..d |-> [r \in Names |-> EnvOf(k)'[r]]]
  BY <1>1 DEF Env
<1>9. Env'[d][n] = L /\ Env[d][n] = reference[n]
  BY <1>1, <1>2, <1>6, <1>7, <1>8
<1>10. Env' = [Env EXCEPT ![d] = [@ EXCEPT ![n] = L]]
  <2> DEFINE F == [Env EXCEPT ![d] = [@ EXCEPT ![n] = L]]
  <2>1. F = [k \in 1..d |-> IF k = d THEN [Env[d] EXCEPT ![n] = L] ELSE Env[k]]
    BY <1>1, <1>7
  <2>2. [Env[d] EXCEPT ![n] = L] = [r \in Names |-> EnvOf(d)'[r]]
    <3>1. Env[d] = [r \in Names |-> reference[r]]
      BY <1>1, <1>2, <1>7
    <3>2. [Env[d] EXCEPT ![n] = L] = [r \in Names |-> IF r = n THEN L ELSE reference[r]]
      BY <3>1
    <3> QED BY <1>2, <1>6, <3>2
  <2>3. \A k \in 1..d : k # d => Env[k] = [r \in Names |-> EnvOf(k)'[r]]
    BY <1>2, <1>7
  <2> QED BY <1>8, <2>1, <2>2, <2>3
<1>11. Own' = [Own EXCEPT ![d] = @ \cup {n}] /\ n \notin Own[d]
  <2>1. Own = [k \in 1..d |-> {r \in Names : EnvOf(k)[r] >= BaseOf(k)}]
    BY <1>1 DEF Own
  <2>2. Own' = [k \in 1..d |-> {r \in Names : EnvOf(k)'[r] >= BaseOf(k)'}]
    BY <1>1 DEF Own
  <2>3. Own[d] = {r \in Names : reference[r] >= cur_id}
    BY <1>1, <1>2, <2>1
  <2>4. {r \in Names : reference'[r] >= cur_id} = Own[d] \cup {n}
    BY <1>4, <1>6, <2>3
  <2>5. Own'[d] = Own[d] \cup {n}
    BY <1>1, <1>2, <2>2, <2>4
  <2>6. \A k \in 1..d : k # d => Own'[k] = Own[k]
    BY <1>2, <2>1, <2>2
  <2>7. Own' = [k \in 1..d |-> IF k = d THEN Own[d] \cup {n} ELSE Own[k]]
    BY <2>2, <2>5, <2>6
  <2>8. [Own EXCEPT ![d] = @ \cup {n}] = [k \in 1..d |-> IF k = d THEN Own[d] \cup {n} ELSE Own[k]]
    BY <2>1
  <2>9. n \notin Own[d]
    BY <1>0, <1>4, <2>3 DEF Targets, ITEM_MAX, last_id
  <2> QED BY <2>7, <2>8, <2>9
<1> QED BY <1>1, <1>5, <1>9, <1>10, <1>11

\* Bind of LexicalScope.
LEMMA BindStep ==
    ASSUME IndexInv, IndexInv', Correct, ~errors, ~errors',
           NEW n \in Names, NEW name, Declared(n, name),
           UNCHANGED <<scopes, cur_id>>, reference[n] < cur_id
    PROVE  Lexical!Bind(n) /\ n \notin Own[Depth] /\ Len(Env) = Depth
<1>0. TypeInv /\ TypeInv' /\ errors \in BOOLEAN /\ errors' \in BOOLEAN
  BY DEF IndexInv, TypeInv, TypeOK
<1>1. /\ Depth' = Depth /\ n \notin Own[Depth]
      /\ Env' = [Env EXCEPT ![Depth] = [@ EXCEPT ![n] = Env'[Depth][n]]]
      /\ Env'[Depth][n] = last_id /\ last_id \notin {ITEM_MAX, Env[Depth][n]}
      /\ Own' = [Own EXCEPT ![Depth] = @ \cup {n}]
  BY DeclarationBinds
<1>2. Len(Env) = Depth
  BY <1>0, EnvShape
<1>3. Len(Env)' = Depth'
  <2>1. Depth' \in Nat
    BY <1>0, <1>1, BaseType
  <2> QED BY <2>1 DEF Env
<1>4. errors' = errors
  BY <1>0
<1>5. /\ Len(Env') = Len(Env)
      /\ Env' = [Env EXCEPT ![Len(Env)] = [@ EXCEPT ![n] = Env'[Len(Env)][n]]]
      /\ Env'[Len(Env)][n] \notin {ITEM_MAX, Env[Len(Env)][n]}
      /\ Own' = [Own EXCEPT ![Len(Env)] = @ \cup {n}]
  BY <1>1, <1>2, <1>3
<1> QED BY <1>1, <1>2, <1>4, <1>5 DEF Lexical!Bind, Lexical!top, Env, Own

\* Declarations that are not functions: Declare of LexicalScope, or no step for main.
LEMMA DeclareStep ==
    ASSUME IndexInv, IndexInv', Correct, ~errors, ~errors', NEW repr \in Reprs,
           Declared(repr, repr), UNCHANGED <<scopes, cur_id>>, reference[repr] < cur_id
    PROVE  \/ \E n \in Names : Lexical!Declare(n)
           \/ UNCHANGED Lexical!absVars
<1>0. /\ TypeInv /\ repr \in AllReprs /\ Len(identifiers) \in Nat /\ repr > 0 /\ Names \subseteq AllReprs
      /\ errors \in BOOLEAN /\ errors' \in BOOLEAN /\ reference \in [AllReprs -> Int]
  <2>1. repr \in Nat \ {0}
    BY ScopesAssumption
  <2> QED BY <2>1, SMTT(30) DEF IndexInv, TypeInv, TypeOK, AllReprs, Names
<1>1. Depth' = Depth /\ errors' = errors /\ 1 \in 1..Depth
  BY <1>0, BaseType DEF Depth
<1>2. CASE repr = Main
  <2>1. reference' = reference
    <3>1. reference[repr] = 0
      BY <1>0, <1>2, BaseType DEF Correct, MainMarked, EnvOf
    <3>2. Hidden(repr) = 0
      BY <3>1 DEF Hidden, ITEM_MAX
    <3> QED BY <3>2 DEF Declared, Refer
  <2>2. \A k : EnvOf(k)' = EnvOf(k) /\ BaseOf(k)' = BaseOf(k)
    BY <1>1, <2>1 DEF EnvOf, BaseOf
  <2>3. Env' = Env /\ Own' = Own
    BY <1>1, <2>2 DEF Env, Own
  <2>4. \A r \in Names : r \in Announced' <=> r \in Announced
    BY <2>2, AnnouncedElsewhere
  <2>5. Announced' = Announced
    BY <2>4 DEF Announced
  <2> QED BY <1>1, <2>3, <2>5 DEF Lexical!absVars, Env, Own, Announced
<1>3. CASE repr # Main
  <2>0. repr \in Names
    BY <1>3 DEF Names
  <2>1. Lexical!Bind(repr) /\ repr \notin Own[Depth] /\ Len(Env) = Depth
    BY <2>0, BindStep
  <2>2. reference'[repr] = last_id
    <3>1. reference[repr] # 0
      BY <1>0, <1>1, <1>3, BaseType DEF Correct, MainMarked, EnvOf
    <3>2. Hidden(repr) # 0
      BY <3>1 DEF Hidden, NO_PREV
    <3> QED BY <1>0, <3>2 DEF Declared, Refer
  <2>3. \A r \in Names : r # repr => EnvOf(1)'[r] = EnvOf(1)[r]
    <3>1. \A r \in Names : r # repr => reference'[r] = reference[r]
      BY <1>0 DEF Declared, Refer
    <3> QED BY <1>1, <3>1 DEF EnvOf
  <2>4. repr \in Announced' <=> repr \in Announced
    <3>1. CASE Depth = 1
      <4>1. repr \notin Announced
        <5>1. cur_id = 1 /\ EnvOf(1) = reference
          BY <3>1 DEF Correct, Nested, BaseOf, EnvOf
        <5>2. reference[repr] \in Int
          BY <1>0
        <5> QED BY <5>1, <5>2 DEF Announced
      <4>2. repr \notin Announced'
        <5>1. EnvOf(1)'[repr] = Len(identifiers) + 1
          BY <1>1, <2>2, <3>1 DEF EnvOf, last_id
        <5>2. identifiers'[Len(identifiers) + 1].repr = repr
          BY DEF Declared
        <5>3. ~(repr < 0)
          BY <1>0, ScopesAssumption
        <5> QED BY <5>1, <5>2, <5>3 DEF Announced
      <4> QED BY <4>1, <4>2
    <3>2. CASE Depth # 1
      <4>1. EnvOf(1)' = EnvOf(1)
        BY <1>1, <3>2 DEF EnvOf
      <4> QED BY <2>0, <4>1, AnnouncedElsewhere
    <3> QED BY <3>1, <3>2
  <2>5. \A r \in Names : r # repr => (r \in Announced' <=> r \in Announced)
    BY <2>3, AnnouncedElsewhere
  <2>6. Announced' = Announced
    BY <2>4, <2>5 DEF Announced
  <2>7. Lexical!Declare(repr)
    BY <2>1, <2>6 DEF Lexical!Declare, Lexical!top, Env, Own, Announced
  <2> QED BY <2>0, <2>7
<1> QED BY <1>2, <1>3

\* A prototype: Announce of LexicalScope when the function is tracked, else Declare.
LEMMA AnnounceStep ==
    ASSUME IndexInv, IndexInv', Correct, ~errors, ~errors', NEW repr \in Reprs,
           Declared(repr, -repr), UNCHANGED <<scopes, cur_id>>, scopes = <<>>,
           reference[repr] < cur_id, repr # Main
    PROVE  repr \in Names /\ Lexical!Announce(repr)
<1>0. /\ TypeInv /\ repr \in AllReprs /\ Len(identifiers) \in Nat /\ repr \in Int /\ -repr < 0
      /\ Names \subseteq AllReprs /\ repr \in Names /\ reference \in [AllReprs -> Int]
  <2>1. repr \in Nat \ {0}
    BY ScopesAssumption
  <2>2. repr \in Int /\ -repr < 0
    BY <2>1
  <2> QED BY <2>2, SMTT(30) DEF IndexInv, TypeInv, TypeOK, AllReprs, Names
<1>1. Depth' = Depth /\ Depth = 1
  BY <1>0, BaseType DEF Depth
<1>2. Lexical!Bind(repr) /\ repr \notin Own[Depth] /\ Len(Env) = Depth
  BY <1>0, BindStep
<1>3. EnvOf(1) = reference /\ EnvOf(1)' = reference'
  BY <1>1 DEF EnvOf
<1>4. reference[repr] # 0
  BY <1>0, <1>1, <1>3 DEF Correct, MainMarked
<1>5. Hidden(repr) # 0
  BY <1>4 DEF Hidden, NO_PREV
<1>6. \A r \in Names : reference'[r] = IF r = repr THEN Len(identifiers) + 1 ELSE reference[r]
  BY <1>0, <1>5 DEF Declared, Refer, last_id
<1>7. repr \in Announced'
  BY <1>0, <1>3, <1>6 DEF Announced, Declared
<1>8. \A r \in Names : r # repr => (r \in Announced' <=> r \in Announced)
  BY <1>3, <1>6, AnnouncedElsewhere
<1>9. Announced' = Announced \cup {repr}
  <2>1. Announced \subseteq Names /\ Announced' \subseteq Names
    BY DEF Announced
  <2> QED BY <1>0, <1>7, <1>8, <2>1
<1>10. Len(Env) = 1 /\ repr \notin Own[1]
  BY <1>1, <1>2
<1> QED BY <1>0, <1>2, <1>9, <1>10 DEF Lexical!Announce, Lexical!top, Env, Own, Announced

\* Appending to a sequence of one element.
LEMMA AppendToOne ==
    ASSUME NEW a, NEW b
    PROVE  Append(<<a>>, b) = <<a, b>>
<1> DEFINE S == {a, b}
<1>1. <<a>> \in Seq(S) /\ <<a, b>> \in Seq(S) /\ b \in S /\ Len(<<a>>) = 1 /\ Len(<<a, b>>) = 2
  OBVIOUS
<1>2. <<a>>[1] = a /\ <<a, b>>[1] = a /\ <<a, b>>[2] = b
  OBVIOUS
<1>3. PICK s : s = <<a>>
  OBVIOUS
<1>4. PICK t : t = <<a, b>>
  OBVIOUS
<1>5. s \in Seq(S) /\ Len(s) = 1 /\ s[1] = a
  BY <1>1, <1>2, <1>3
<1>6. t \in Seq(S) /\ Len(t) = 2 /\ t[1] = a /\ t[2] = b
  BY <1>1, <1>2, <1>4
<1>0. b \in S
  OBVIOUS
<1> HIDE DEF S
<1>a. /\ Append(s, b) \in Seq(S) /\ Len(Append(s, b)) = Len(s) + 1
      /\ \A i \in 1..Len(s) : Append(s, b)[i] = s[i]
      /\ Append(s, b)[Len(s) + 1] = b
  BY <1>0, <1>5, AppendProperties, ZenonT(40)
<1>7. Append(s, b) \in Seq(S) /\ Len(Append(s, b)) = 2 /\ Append(s, b)[1] = a /\ Append(s, b)[2] = b
  BY <1>5, <1>a
<1>8. \A i \in 1..2 : i = 1 \/ i = 2
  OBVIOUS
<1>9. Append(s, b) = t
  BY <1>6, <1>7, <1>8, SeqEqual
<1> QED BY <1>3, <1>4, <1>9

\* A definition: Define of LexicalScope, or Open for main.
LEMMA DefineStep ==
    ASSUME IndexInv, IndexInv', Correct, ~errors, ~errors', NEW repr \in Reprs,
           Declared(repr, repr), scopes = <<>>, Accepted(repr, 1), EnterFunctionScope
    PROVE  (\E n \in Names : Lexical!Define(n)) \/ Lexical!Open
<1>0. /\ TypeInv /\ repr \in AllReprs /\ Len(identifiers) \in Nat /\ repr \in Int /\ repr > 0
      /\ Names \subseteq AllReprs /\ reference \in [AllReprs -> Int]
      /\ errors \in BOOLEAN /\ errors' \in BOOLEAN
  <2>1. repr \in Nat \ {0}
    BY ScopesAssumption
  <2> QED BY <2>1, SMTT(30) DEF IndexInv, TypeInv, TypeOK, AllReprs, Names
<1>1. /\ Depth = 1 /\ Depth' = 2
      /\ EnvOf(1) = reference /\ EnvOf(1)' = reference' /\ EnvOf(2)' = reference'
      /\ BaseOf(1) = 1 /\ BaseOf(1)' = 1 /\ BaseOf(2)' = Len(identifiers) + 2
  BY DefinitionCorrect
<1>2. /\ Env = <<[r \in Names |-> reference[r]]>>
      /\ Own = <<{r \in Names : reference[r] >= 1}>>
  BY <1>1 DEF Env, Own
<1>3. \A r \in Names : reference'[r] \in Int /\ reference'[r] < Len(identifiers) + 2
  <2>1. \A r \in AllReprs : reference'[r] \in Targets'
    BY DEF IndexInv, InRange
  <2>2. Targets' = {-1} \cup 0..Len(identifiers) + 1
    BY DEF Targets, Declared, ITEM_MAX
  <2> QED BY <1>0, <2>1, <2>2
<1>4. /\ Env' = <<[r \in Names |-> reference'[r]], [r \in Names |-> reference'[r]]>>
      /\ Own' = <<{r \in Names : reference'[r] >= 1}, {}>>
  <2>1. {r \in Names : reference'[r] >= Len(identifiers) + 2} = {}
    <3>1. \A r \in Names : ~(reference'[r] >= Len(identifiers) + 2)
      BY <1>0, <1>3
    <3> QED BY <3>1
  <2> QED BY <1>1, <2>1 DEF Env, Own
<1>5. \A r \in Names : reference'[r] = reference[r] => (r \in Announced' <=> r \in Announced)
  BY <1>1, AnnouncedElsewhere
<1>6. Announced \subseteq Names /\ Announced' \subseteq Names /\ errors' = errors
  BY <1>0 DEF Announced
<1>7. CASE repr = Main
  <2>1. reference' = reference
    <3>1. reference[repr] = 0
      BY <1>0, <1>1, <1>7 DEF Correct, MainMarked
    <3>2. Hidden(repr) = 0
      BY <3>1 DEF Hidden, ITEM_MAX
    <3> QED BY <3>2 DEF Declared, Refer
  <2>2. Announced' = Announced
    BY <1>5, <1>6, <2>1
  <2>3. Env' = Append(Env, Env[Len(Env)]) /\ Own' = Append(Own, {})
    <3> PICK e : e = [r \in Names |-> reference[r]]
      OBVIOUS
    <3> PICK o : o = {r \in Names : reference[r] >= 1}
      OBVIOUS
    <3>1. Env = <<e>> /\ Env' = <<e, e>> /\ Own = <<o>> /\ Own' = <<o, {}>>
      BY <1>2, <1>4, <2>1
    <3>3. Len(<<e>>) = 1 /\ <<e>>[1] = e
      OBVIOUS
    <3>4. Append(<<e>>, e) = <<e, e>> /\ Append(<<o>>, {}) = <<o, {}>>
      BY AppendToOne
    <3>5. Append(Env, Env[Len(Env)]) = Append(<<e>>, e)
      BY <3>1, <3>3
    <3> QED BY <3>1, <3>4, <3>5
  <2>4. Lexical!Open
    BY <1>6, <2>2, <2>3 DEF Lexical!Open, Lexical!top, Env, Own, Announced
  <2> QED BY <2>4
<1>8. CASE repr # Main
  <2>0. repr \in Names
    BY <1>8 DEF Names
  <2>1. reference[repr] # 0 /\ reference[repr] \in Targets
    BY <1>0, <1>1, <1>8 DEF Correct, MainMarked, IndexInv, InRange
  <2>2. Hidden(repr) # 0
    BY <2>1 DEF Hidden, NO_PREV
  <2>3. \A r \in Names : reference'[r] = IF r = repr THEN Len(identifiers) + 1 ELSE reference[r]
    BY <1>0, <2>2 DEF Declared, Refer, last_id
  <2>4. repr \notin Announced'
    BY <1>0, <1>1, <2>0, <2>3 DEF Announced, Declared
  <2>5. Announced' = Announced \ {repr}
    BY <1>5, <1>6, <2>3, <2>4
  <2>6. repr \in Own[1] => repr \in Announced
    <3> SUFFICES ASSUME repr \in Own[1] PROVE repr \in Announced
      OBVIOUS
    <3>1. reference[repr] >= 1 /\ reference[repr] \in 1..Len(identifiers)
      BY <1>0, <1>2, <2>1 DEF Targets, ITEM_MAX
    <3>2. Hidden(repr) = reference[repr] /\ Hidden(repr) # NO_PREV /\ cur_id = 1
      BY <1>1, <3>1 DEF Hidden, ITEM_MAX, NO_PREV, BaseOf
    <3>3. ~(identifiers[reference[repr]].repr > 0)
      BY <3>1, <3>2 DEF Accepted, IsRepeated
    <3>4. identifiers[reference[repr]].repr # 0 /\ identifiers[reference[repr]].repr \in Int
      <4>1. identifiers[reference[repr]] \in IdRecord
        BY <3>1, SMTT(30) DEF IndexInv, TypeInv, TypeOK
      <4> QED BY <3>1, <4>1 DEF Correct, RecordsFinished, IdRecord
    <3>5. identifiers[reference[repr]].repr < 0
      BY <3>3, <3>4
    <3> QED BY <1>1, <2>0, <3>1, <3>5 DEF Announced
  <2> DEFINE bound == [Env[1] EXCEPT ![repr] = Env'[1][repr]]
  <2>7. Env'[1][repr] = Len(identifiers) + 1 /\ Env[1][repr] = reference[repr]
    BY <1>2, <1>4, <2>0, <2>3
  <2>8. bound = [r \in Names |-> reference'[r]]
    <3>1. bound = [r \in Names |-> IF r = repr THEN Len(identifiers) + 1 ELSE reference[r]]
      BY <1>2, <2>7
    <3> QED BY <2>3, <3>1
  <2>9. Env' = <<bound, bound>>
    BY <1>4, <2>8
  <2>10. Own' = <<Own[1] \cup {repr}, {}>>
    <3>0. \A r \in Names : reference'[r] >= 1 <=> reference[r] >= 1 \/ r = repr
      BY <1>0, <2>3
    <3>1. {r \in Names : reference'[r] >= 1} = {r \in Names : reference[r] >= 1} \cup {repr}
      BY <2>0, <3>0
    <3> QED BY <1>2, <1>4, <3>1
  <2>11. Len(Env) = 1 /\ Len(Env') = 2
    BY <1>2, <1>4
  <2>12. Env'[1][repr] \notin {ITEM_MAX, Env[1][repr]}
    BY <1>0, <2>1, <2>7 DEF Targets, ITEM_MAX
  <2>13. Env' = LET b == [Env[1] EXCEPT ![repr] = Env'[1][repr]] IN <<b, b>>
    BY <2>9
  <2> HIDE DEF bound
  <2>14. Lexical!Define(repr)
    BY <1>6, <2>5, <2>6, <2>10, <2>11, <2>12, <2>13 DEF Lexical!Define, Lexical!top, Env, Own, Announced
  <2> QED BY <2>0, <2>14
<1> QED BY <1>7, <1>8

\* Opening a block is Open of LexicalScope.
LEMMA OpenStep ==
    ASSUME IndexInv, IndexInv', Correct, NEW kind, EnterBlock(kind)
    PROVE  Lexical!Open
<1> PICK d : d = Depth
  OBVIOUS
<1>0. TypeInv /\ Len(identifiers) \in Nat /\ Names \subseteq AllReprs
  BY SMTT(30) DEF IndexInv, TypeInv, TypeOK, Names, AllReprs
<1>1. /\ d \in Nat /\ d >= 2 /\ Depth' = d + 1
      /\ \A k \in 1..d : BaseOf(k)' = BaseOf(k) /\ EnvOf(k)' = EnvOf(k)
      /\ BaseOf(d + 1)' = last_id /\ EnvOf(d + 1)' = reference /\ EnvOf(d) = reference
      /\ UNCHANGED <<identifiers, reference>>
  BY BlockOpens
<1>2. \A r \in Names : ~(reference[r] >= last_id)
  BY <1>0 DEF IndexInv, InRange, Targets, ITEM_MAX, last_id
<1>3. Env = [k \in 1..d |-> [r \in Names |-> EnvOf(k)[r]]] /\ Len(Env) = d
  BY <1>0, EnvShape DEF Env
<1>4. Env' = [k \in 1..d + 1 |-> [r \in Names |-> EnvOf(k)'[r]]]
  BY <1>1 DEF Env
<1>5. Own = [k \in 1..d |-> {r \in Names : EnvOf(k)[r] >= BaseOf(k)}] /\ Len(Own) = d
  BY <1>0, EnvShape DEF Own
<1>6. Own' = [k \in 1..d + 1 |-> {r \in Names : EnvOf(k)'[r] >= BaseOf(k)'}]
  BY <1>1 DEF Own
<1>7. Env' = Append(Env, Env[Len(Env)])
  <2>1. d \in 1..d /\ Env[d] = [r \in Names |-> reference[r]]
    BY <1>1, <1>3
  <2>2. Append(Env, Env[d]) = [k \in 1..d + 1 |-> IF k = d + 1 THEN Env[d] ELSE Env[k]]
    BY <1>1, <1>3, <2>1
  <2>3. \A k \in 1..d : [r \in Names |-> EnvOf(k)'[r]] = Env[k]
    BY <1>1, <1>3
  <2>4. [r \in Names |-> EnvOf(d + 1)'[r]] = Env[d]
    BY <1>1, <2>1
  <2>5. \A k \in 1..d + 1 : k = d + 1 \/ k \in 1..d
    BY <1>1
  <2>6. Env' = [k \in 1..d + 1 |-> IF k = d + 1 THEN Env[d] ELSE Env[k]]
    BY <1>4, <2>3, <2>4, <2>5
  <2> QED BY <1>3, <2>2, <2>6
<1>8. Own' = Append(Own, {})
  <2>1. Append(Own, {}) = [k \in 1..d + 1 |-> IF k = d + 1 THEN {} ELSE Own[k]]
    BY <1>1, <1>5
  <2>2. \A k \in 1..d : {r \in Names : EnvOf(k)'[r] >= BaseOf(k)'} = Own[k]
    BY <1>1, <1>5
  <2>3. {r \in Names : EnvOf(d + 1)'[r] >= BaseOf(d + 1)'} = {}
    BY <1>1, <1>2
  <2>5. \A k \in 1..d + 1 : k = d + 1 \/ k \in 1..d
    BY <1>1
  <2>6. Own' = [k \in 1..d + 1 |-> IF k = d + 1 THEN {} ELSE Own[k]]
    BY <1>6, <2>2, <2>3, <2>5
  <2> QED BY <2>1, <2>6
<1>9. Announced' = Announced
  <2>1. EnvOf(1)' = EnvOf(1)
    BY <1>1
  <2> QED BY <1>1, <2>1 DEF Announced
<1>10. errors' = errors
  BY DEF EnterBlock
<1> QED BY <1>7, <1>8, <1>9, <1>10 DEF Lexical!Open, Lexical!top, Env, Own, Announced

\* Leaving a block or a function is Close of LexicalScope.
LEMMA CloseStep ==
    ASSUME IndexInv, IndexInv', Correct, ExitBlock \/ ExitFunction
    PROVE  Lexical!Close
<1> PICK d : d = Depth
  OBVIOUS
<1>0. TypeInv /\ UNCHANGED <<identifiers, errors>> /\ scopes # <<>>
  BY DEF IndexInv, ExitBlock, ExitFunction
<1>1. /\ d \in Nat /\ d > 1 /\ Depth' = d - 1
      /\ \A k \in 1..d - 1 : BaseOf(k)' = BaseOf(k) /\ EnvOf(k)' = EnvOf(k)
  BY <1>0, BaseType, ClosedCorrect
<1>3. Env = [k \in 1..d |-> [r \in Names |-> EnvOf(k)[r]]] /\ Len(Env) = d
  BY <1>0, EnvShape DEF Env
<1>5. Own = [k \in 1..d |-> {r \in Names : EnvOf(k)[r] >= BaseOf(k)}] /\ Len(Own) = d
  BY <1>0, EnvShape DEF Own
<1>6. \A k \in 1..d - 1 : k \in 1..d
  BY <1>1
<1>7. Env' = [k \in 1..d - 1 |-> Env[k]]
  <2>1. Env' = [k \in 1..d - 1 |-> [r \in Names |-> EnvOf(k)'[r]]]
    BY <1>1 DEF Env
  <2>2. \A k \in 1..d - 1 : [r \in Names |-> EnvOf(k)'[r]] = Env[k]
    BY <1>1, <1>3, <1>6
  <2> QED BY <2>1, <2>2
<1>8. Own' = [k \in 1..d - 1 |-> Own[k]]
  <2>1. Own' = [k \in 1..d - 1 |-> {r \in Names : EnvOf(k)'[r] >= BaseOf(k)'}]
    BY <1>1 DEF Own
  <2>2. \A k \in 1..d - 1 : {r \in Names : EnvOf(k)'[r] >= BaseOf(k)'} = Own[k]
    BY <1>1, <1>5, <1>6
  <2> QED BY <2>1, <2>2
<1>9. \A s : SubSeq(s, 1, d - 1) = [k \in 1..d - 1 |-> s[k]]
  <2> SUFFICES ASSUME NEW s PROVE SubSeq(s, 1, d - 1) = [k \in 1..d - 1 |-> s[k]]
    OBVIOUS
  <2>1. SubSeq(s, 1, d - 1) = [i \in 1..(d - 1) - 1 + 1 |-> s[i + 1 - 1]]
    BY <1>1
  <2> QED BY <1>1, <2>1
<1>10. Env' = SubSeq(Env, 1, Len(Env) - 1) /\ Own' = SubSeq(Own, 1, Len(Env) - 1) /\ Len(Env) > 1
  BY <1>1, <1>3, <1>7, <1>8, <1>9
<1>11. Announced' = Announced
  <2>1. EnvOf(1)' = EnvOf(1)
    BY <1>1
  <2> QED BY <1>0, <2>1 DEF Announced
<1> QED BY <1>0, <1>10, <1>11 DEF Lexical!Close, Lexical!top, Env, Own, Announced

\* Until an error is reported, ident_add, scope_block_exit and scope_func_exit
\* implement lexical scoping: every parser step on the tables is a step of
\* LexicalScope on the environments they stand for, or changes none of them.
THEOREM TablesImplementLexicalScope == Spec => ImplementsLexicalScope
<1>1. Init => Lexical!AbsInit
  <2> SUFFICES ASSUME Init PROVE Lexical!AbsInit
    OBVIOUS
  <2> DEFINE start == [r \in Names |-> IF r = Builtin THEN 1 ELSE ITEM_MAX]
  <2>1. Depth = 1 /\ EnvOf(1) = reference /\ BaseOf(1) = 1
    BY DEF Init, Depth, EnvOf, BaseOf
  <2>2. \A r \in Names : reference[r] = start[r] /\ r # 0 /\ r # Main
    <3>1. \A r \in Names : r \in AllReprs /\ r # 0 /\ r # Main
      BY ScopesAssumption DEF Names, AllReprs
    <3> QED BY <3>1 DEF Init
  <2>3. Env = <<start>>
    BY <2>1, <2>2 DEF Env
  <2>4. Own = <<{r \in Names : start[r] # ITEM_MAX}>>
    <3>1. \A r \in Names : reference[r] >= 1 <=> start[r] # ITEM_MAX
      BY <2>2 DEF ITEM_MAX
    <3>2. {r \in Names : reference[r] >= 1} = {r \in Names : start[r] # ITEM_MAX}
      BY <3>1
    <3>3. Own = <<{r \in Names : reference[r] >= 1}>>
      BY <2>1 DEF Own
    <3> QED BY <3>2, <3>3
  <2>5. Announced = {}
    <3>1. \A r \in Names : reference[r] > 0 => reference[r] = 1
      BY <2>2 DEF ITEM_MAX
    <3>2. ~(identifiers[1].repr < 0)
      <4>1. Builtin \in Nat
        BY ScopesAssumption
      <4>2. identifiers[1].repr = Builtin
        BY DEF Init
      <4> QED BY <4>1, <4>2
    <3> QED BY <2>1, <3>1, <3>2 DEF Announced
  <2>6. errors = FALSE
    BY DEF Init
  <2> QED BY <2>3, <2>4, <2>5, <2>6 DEF Lexical!AbsInit, Env, Own, Announced
<1>2. ScopeInv /\ ScopeInv' /\ [Next]_vars => [Lexical!AbsNext]_Lexical!absVars
  <2> SUFFICES ASSUME ScopeInv, ScopeInv', [Next]_vars
               PROVE  Lexical!AbsNext \/ UNCHANGED Lexical!absVars
    OBVIOUS
  <2>0. IndexInv /\ IndexInv' /\ errors \in BOOLEAN /\ errors' \in BOOLEAN
    BY DEF ScopeInv, IndexInv, TypeInv, TypeOK
  <2>1. CASE UNCHANGED vars
    <3>1. UNCHANGED <<identifiers, reference, cur_id, scopes, errors>>
      BY <2>1 DEF vars
    <3>2. Depth' = Depth /\ (\A k : EnvOf(k)' = EnvOf(k) /\ BaseOf(k)' = BaseOf(k))
      BY <3>1 DEF Depth, EnvOf, BaseOf
    <3>3. Env' = Env /\ Own' = Own /\ Announced' = Announced
      BY <3>1, <3>2 DEF Env, Own, Announced
    <3> QED BY <3>1, <3>3 DEF Lexical!absVars, Env, Own, Announced
  <2>2. CASE errors'
    <3>1. Lexical!Fail
      BY <2>0, <2>2 DEF Lexical!Fail
    <3> QED BY <3>1 DEF Lexical!AbsNext
  <2>3. CASE Next /\ ~errors'
    <3>0. Correct /\ ~errors
      BY <2>3, ErrorsStay DEF ScopeInv
    <3>1. ASSUME NEW repr \in Reprs,
                 \/ \E size \in Sizes : DeclareVariable(repr, size) \/ DeclareParameter(repr, size)
                 \/ DeclareFunctionParameter(repr)
                 \/ \E func_def \in {0, FuncDef} : DeclareType(repr, func_def)
                 \/ \E value \in EnumValues : DeclareEnumerator(repr, value)
          PROVE  Lexical!AbsNext \/ UNCHANGED Lexical!absVars
      <4>1. /\ Declared(repr, repr) /\ UNCHANGED <<scopes, cur_id>>
            /\ \E func_def : Accepted(repr, func_def) /\ (func_def = 1 => scopes # <<>>)
        BY <2>0, <2>3, <3>1, DeclareSucceeds
      <4>2. reference[repr] < cur_id
        BY <2>0, <3>0, <4>1, AcceptedIsNew
      <4>3. (\E n \in Names : Lexical!Declare(n)) \/ UNCHANGED Lexical!absVars
        BY <2>0, <2>3, <3>0, <4>1, <4>2, DeclareStep
      <4> QED BY <4>3 DEF Lexical!AbsNext
    <3>2. ASSUME NEW repr \in Reprs, NEW type \in FuncTypes, DeclareFunction(repr, type)
          PROVE  Lexical!AbsNext \/ UNCHANGED Lexical!absVars
      <4>1. /\ Declared(repr, IF Tracked(type) THEN -repr ELSE repr)
            /\ UNCHANGED <<scopes, cur_id>> /\ scopes = <<>> /\ Accepted(repr, 2) /\ repr # Main
        BY <2>0, <2>3, <3>2, DeclareFunctionSucceeds
      <4>2. reference[repr] < cur_id
        <5>1. 2 # 1
          OBVIOUS
        <5> QED BY <2>0, <3>0, <4>1, <5>1, AcceptedIsNew
      <4>3. CASE Tracked(type)
        <5>1. repr \in Names /\ Lexical!Announce(repr)
          BY <2>0, <2>3, <3>0, <4>1, <4>2, <4>3, AnnounceStep
        <5> QED BY <5>1 DEF Lexical!AbsNext
      <4>4. CASE ~Tracked(type)
        <5>1. (\E n \in Names : Lexical!Declare(n)) \/ UNCHANGED Lexical!absVars
          BY <2>0, <2>3, <3>0, <4>1, <4>2, <4>4, DeclareStep
        <5> QED BY <5>1 DEF Lexical!AbsNext
      <4> QED BY <4>3, <4>4
    <3>3. ASSUME NEW repr \in Reprs, NEW type \in FuncTypes, NEW n \in 0..MaxParams,
                 DefineFunction(repr, type, n)
          PROVE  Lexical!AbsNext
      <4>1. Declared(repr, repr) /\ scopes = <<>> /\ Accepted(repr, 1) /\ EnterFunctionScope
        BY <2>0, <2>3, <3>3, DefineFunctionSucceeds
      <4>2. (\E m \in Names : Lexical!Define(m)) \/ Lexical!Open
        BY <2>0, <2>3, <3>0, <4>1, DefineStep
      <4> QED BY <4>2 DEF Lexical!AbsNext
    <3>4. ASSUME NEW kind, EnterBlock(kind) PROVE Lexical!AbsNext
      <4>1. Lexical!Open
        BY <2>0, <3>0, <3>4, OpenStep
      <4> QED BY <4>1 DEF Lexical!AbsNext
    <3>5. ASSUME ExitBlock \/ ExitFunction PROVE Lexical!AbsNext
      <4>1. Lexical!Close
        BY <2>0, <3>0, <3>5, CloseStep
      <4> QED BY <4>1 DEF Lexical!AbsNext
    <3>6. ~AbandonFor
      BY <2>3 DEF AbandonFor
    <3> QED BY <2>3, <3>1, <3>2, <3>3, <3>4, <3>5, <3>6 DEF Next
  <2> QED BY <2>1, <2>2, <2>3
<1> QED BY <1>1, <1>2, InitScopeInv, NextScopeInv, PTL
        DEF Spec, ImplementsLexicalScope, Lexical!AbsSpec

-----------------------------------------------------------------------------
(***************************************************************************)
(* What the records say about the frame and about linking: locals that are *)
(* alive together never share a word, and when the link check passes every *)
(* prototype carries the number of its definition.                         *)
(***************************************************************************)

\* The first free word of the k-th open scope.
TopOf(k) == IF k = Depth THEN displ ELSE scopes[k].displ

(***************************************************************************)
(* The locals that a scope sees lie below its first free word, and an      *)
(* inner scope starts where the scope around it has stopped: a new local,  *)
(* placed at the innermost first free word, meets none of them.            *)
(***************************************************************************)
Placed ==
    \A k \in 2..Depth, r \in Names :
        EnvOf(k)[r] >= BaseOf(2) => Slots(EnvOf(k)[r]) \subseteq 3..TopOf(k) - 1

Stacked == \A k \in 2..Depth : \A j \in 2..k : TopOf(j) <= TopOf(k)

Disjoint == scopes # <<>> => \A i, j \in Live : i # j => Slots(i) \cap Slots(j) = {}

\* The outermost references lead to records of their own spelling.
Spelled ==
    \A r \in Names : EnvOf(1)[r] > 0 => identifiers[EnvOf(1)[r]].repr \in {r, -r}

\* A prototype is what its function means outside functions and is listed as not
\* yet defined, or a definition of the same type follows and shares its number.
Awaited(i) ==
    /\ -identifiers[i].repr \in predef \cap Names
    /\ EnvOf(1)[-identifiers[i].repr] = i
Completed(i) ==
    \E j \in i + 1..Len(identifiers) :
        /\ identifiers[j].repr = -identifiers[i].repr
        /\ identifiers[j].kind = "func"
        /\ identifiers[j].type = identifiers[i].type
        /\ identifiers[j].displ = identifiers[i].displ
Linked == \A i \in 1..Len(identifiers) : identifiers[i].repr < 0 => Awaited(i) \/ Completed(i)

Laid == Placed /\ Stacked /\ Disjoint
Tied == Spelled /\ Linked
RecordsInv == ScopeInv /\ (~errors => Laid /\ Tied)

-----------------------------------------------------------------------------
(* The words of the locals. *)

\* Words below a bound and words from it on.
LEMMA IntervalsApart ==
    ASSUME NEW p \in Int, NEW q \in Int
    PROVE  \A x \in 3..p - 1 : x \notin p..q - 1
<1> SUFFICES ASSUME NEW x \in 3..p - 1, x \in p..q - 1 PROVE FALSE
  OBVIOUS
<1>1. x \in Int /\ x <= p - 1 /\ p <= x
  OBVIOUS
<1> QED BY <1>1

\* One more local, whose words begin at the first free word of its scope.
LEMMA LocalLaid ==
    ASSUME IndexInv, Laid, scopes # <<>>, NEW repr \in Reprs, NEW name, Declared(repr, name),
           \A i \in 1..Len(identifiers) : identifiers'[i] = identifiers[i],
           UNCHANGED <<scopes, cur_id>>, displ' \in Int, displ <= displ',
           NEW L \in Nat, L = Len(identifiers), Slots(L + 1)' \subseteq displ..displ' - 1
    PROVE  Laid'
<1>0. /\ TypeInv /\ displ \in Int /\ displ >= 3 /\ Names \subseteq AllReprs /\ repr \in AllReprs
      /\ reference \in [AllReprs -> Int] /\ scopes \in Seq(ScopeRecord)
  BY DEF IndexInv, TypeInv, TypeOK, Layout, Names, AllReprs
<1> PICK d \in Nat : d = Depth
  BY <1>0, BaseType
<1> PICK b : b = BaseOf(2)
  OBVIOUS
<1>1. Depth = d /\ Depth' = d /\ d >= 2 /\ Len(identifiers') = L + 1 /\ last_id = L + 1 /\ Len(scopes) = d - 1
  BY <1>0, BaseType DEF Depth, Declared, last_id
<1>2. BaseOf(2)' = b /\ b \in 1..L + 1
  BY <1>0, <1>1, BaseType DEF BaseOf
<1>3. TopOf(d) = displ /\ TopOf(d)' = displ' /\ \A k \in 2..d : k # d => TopOf(k)' = TopOf(k)
  BY <1>1 DEF TopOf
<1>4. \A k \in 2..d : TopOf(k) \in Int
  <2> SUFFICES ASSUME NEW k \in 2..d PROVE TopOf(k) \in Int
    OBVIOUS
  <2>1. CASE k = d
    BY <1>0, <1>3, <2>1
  <2>2. CASE k # d
    <3>1. scopes[k] \in ScopeRecord
      BY <1>0, <1>1, <2>2
    <3> QED BY <1>1, <2>2, <3>1 DEF TopOf, ScopeRecord
  <2> QED BY <2>1, <2>2
<1>5. \A k \in 2..d, r \in Names : EnvOf(k)'[r] = EnvOf(k)[r] \/ (k = d /\ EnvOf(k)'[r] = L + 1)
  <2>1. \A r \in Names : reference'[r] = reference[r] \/ reference'[r] = L + 1
    BY <1>0, <1>1 DEF Declared, Refer
  <2> QED BY <1>1, <2>1 DEF EnvOf
<1>6. \A k \in 2..d, r \in Names : EnvOf(k)[r] \in {ITEM_MAX} \cup 0..L
  <2> SUFFICES ASSUME NEW k \in 2..d, NEW r \in Names PROVE EnvOf(k)[r] \in {ITEM_MAX} \cup 0..L
    OBVIOUS
  <2>1. CASE k = d
    BY <1>0, <1>1, <2>1 DEF EnvOf, IndexInv, InRange, Targets
  <2>2. CASE k # d
    <3>1. k \in 1..Len(scopes)
      BY <1>1, <2>2
    <3> QED BY <1>0, <1>1, <2>2, <3>1 DEF EnvOf, IndexInv, InRange, Targets
  <2> QED BY <2>1, <2>2
<1>7. \A i \in 1..L : Slots(i)' = Slots(i)
  BY DEF Slots
<1>8. \A k \in 2..d, r \in Names : EnvOf(k)[r] >= b => Slots(EnvOf(k)[r]) \subseteq 3..TopOf(k) - 1
  BY <1>1 DEF Laid, Placed
<1>9. \A k \in 2..d : TopOf(k) <= displ
  BY <1>1, <1>3 DEF Laid, Stacked
<1>10. \A i \in Live : i \in 1..L /\ Slots(i) \subseteq 3..displ - 1
  <2> SUFFICES ASSUME NEW i \in Live PROVE i \in 1..L /\ Slots(i) \subseteq 3..displ - 1
    OBVIOUS
  <2>1. PICK k \in 2..d, r \in Names : i = EnvOf(k)[r]
    BY <1>1 DEF Live
  <2>2. i \in b..L
    BY DEF Live
  <2>3. Slots(i) \subseteq 3..TopOf(k) - 1
    BY <1>2, <1>8, <2>1, <2>2
  <2>4. TopOf(k) <= displ /\ TopOf(k) \in Int
    BY <1>4, <1>9
  <2> QED BY <1>0, <1>2, <2>2, <2>3, <2>4
<1>11. Placed'
  <2> SUFFICES ASSUME NEW k \in 2..d, NEW r \in Names, EnvOf(k)'[r] >= b
               PROVE  Slots(EnvOf(k)[r])' \subseteq 3..TopOf(k)' - 1
    BY <1>1, <1>2 DEF Placed
  <2>1. CASE EnvOf(k)'[r] = L + 1
    <3>1. k = d
      BY <1>5, <1>6, <2>1 DEF ITEM_MAX
    <3>2. Slots(EnvOf(k)[r])' = Slots(L + 1)'
      BY <2>1 DEF Slots
    <3> QED BY <1>0, <1>3, <3>1, <3>2
  <2>2. CASE EnvOf(k)'[r] # L + 1
    <3>1. EnvOf(k)'[r] = EnvOf(k)[r]
      BY <1>5, <2>2
    <3> PICK i : i = EnvOf(k)[r]
      OBVIOUS
    <3>2. i \in 1..L
      BY <1>2, <1>6, <3>1 DEF ITEM_MAX
    <3>3. Slots(EnvOf(k)[r])' = Slots(i)'
      BY <3>1 DEF Slots
    <3>4. Slots(i) \subseteq 3..TopOf(k) - 1
      BY <1>8, <3>1
    <3>5. TopOf(k) <= TopOf(k)' /\ TopOf(k)' \in Int
      BY <1>0, <1>3, <1>4
    <3> QED BY <1>4, <1>7, <3>2, <3>3, <3>4, <3>5
  <2> QED BY <2>1, <2>2
<1>12. Stacked'
  <2> SUFFICES ASSUME NEW k \in 2..d, NEW j \in 2..k PROVE TopOf(j)' <= TopOf(k)'
    BY <1>1 DEF Stacked
  <2>1. TopOf(j) <= TopOf(k) /\ j \in 2..d
    BY <1>1 DEF Laid, Stacked
  <2>2. CASE j = d
    <3>1. k = d
      BY <2>2
    <3> QED BY <1>3, <2>2, <3>1
  <2>3. CASE j # d
    BY <1>0, <1>3, <1>4, <2>1, <2>3
  <2> QED BY <2>2, <2>3
<1>13. Disjoint'
  <2> SUFFICES ASSUME NEW i \in Live', NEW j \in Live', i # j
               PROVE  Slots(i)' \cap Slots(j)' = {}
    BY DEF Disjoint
  <2>1. \A x \in Live' : x \in Live \/ x = L + 1
    <3> SUFFICES ASSUME NEW x \in Live', x # L + 1 PROVE x \in Live
      OBVIOUS
    <3>1. PICK k \in 2..d, r \in Names : x = EnvOf(k)'[r]
      BY <1>1 DEF Live
    <3>2. x = EnvOf(k)[r]
      BY <1>5, <3>1
    <3>3. x \in b..L + 1
      BY <1>1, <1>2 DEF Live
    <3>4. x \in b..L
      BY <1>2, <3>3
    <3> QED BY <1>1, <3>2, <3>4 DEF Live
  <2>2. \A x \in Live : Slots(x)' \subseteq 3..displ - 1 /\ Slots(x)' = Slots(x)
    BY <1>7, <1>10
  <2>3. Slots(L + 1)' \subseteq displ..displ' - 1
    OBVIOUS
  <2>4. \A x \in 3..displ - 1 : x \notin displ..displ' - 1
    BY <1>0, IntervalsApart
  <2>5. CASE i \in Live /\ j \in Live
    BY <2>2, <2>5 DEF Laid, Disjoint
  <2>6. CASE i = L + 1 /\ j \in Live
    BY <2>2, <2>3, <2>4, <2>6
  <2>7. CASE i \in Live /\ j = L + 1
    BY <2>2, <2>3, <2>4, <2>7
  <2> QED BY <2>1, <2>5, <2>6, <2>7
<1> QED BY <1>11, <1>12, <1>13 DEF Laid

\* Locals and parameters.
LEMMA DeclareLaid ==
    ASSUME IndexInv, Laid, scopes # <<>>, NEW repr \in Reprs, ~errors',
           \/ \E size \in Sizes : DeclareVariable(repr, size) \/ DeclareParameter(repr, size)
           \/ DeclareFunctionParameter(repr)
           \/ \E func_def \in {0, FuncDef} : DeclareType(repr, func_def)
           \/ \E value \in EnumValues : DeclareEnumerator(repr, value)
    PROVE  Laid'
<1>0. /\ displ \in Int /\ lg = 1 /\ identifiers \in Seq(IdRecord) /\ Len(identifiers) \in Nat
  BY DEF IndexInv, TypeInv, TypeOK, Layout
<1>1. UNCHANGED <<scopes, cur_id>> /\ Declared(repr, repr)
  BY DeclareSucceeds
<1>2. \A func_def : ~Reject(repr, func_def)
  BY DEF Reject
<1> PICK L \in Nat : L = Len(identifiers)
  BY <1>0
<1>3. ASSUME NEW record, identifiers' = Append(identifiers, record)
      PROVE  identifiers'[L + 1] = record /\ \A i \in 1..L : identifiers'[i] = identifiers[i]
  BY <1>0, <1>3
<1>4. ASSUME NEW size \in Sizes, DeclareVariable(repr, size) \/ DeclareParameter(repr, size)
      PROVE  Laid'
  <2> DEFINE record == Record(repr, repr, "var", size, displ)
  <2>1. identifiers' = Append(identifiers, record) /\ get_static(size)
    BY <1>2, <1>4 DEF DeclareVariable, DeclareParameter, Enlist
  <2>2. record.kind = "var" /\ record.displ = displ /\ record.type = size
    BY DEF Record
  <2> HIDE DEF record
  <2>3. displ' = displ + size /\ size \in Nat
    BY <1>0, <2>1, ScopesAssumption DEF get_static
  <2>4. identifiers'[L + 1] = record /\ \A i \in 1..L : identifiers'[i] = identifiers[i]
    BY <1>3, <2>1
  <2>5. Slots(L + 1)' = displ..displ + size - 1
    BY <2>2, <2>4 DEF Slots
  <2>6. Slots(L + 1)' \subseteq displ..displ' - 1 /\ displ' \in Int /\ displ <= displ'
    BY <1>0, <2>3, <2>5
  <2> QED BY <1>1, <2>4, <2>6, LocalLaid
<1>5. ASSUME DeclareFunctionParameter(repr)
      PROVE  Laid'
  <2> DEFINE record == Record(repr, repr, "funcparam", 1, -displ)
  <2>1. identifiers' = Append(identifiers, record) /\ displ' = displ + 1
    BY <1>2, <1>5 DEF DeclareFunctionParameter, Enlist
  <2>2. record.kind = "funcparam" /\ record.displ = -displ
    BY DEF Record
  <2> HIDE DEF record
  <2>4. identifiers'[L + 1] = record /\ \A i \in 1..L : identifiers'[i] = identifiers[i]
    BY <1>3, <2>1
  <2>5. Slots(L + 1)' = {-(-displ)}
    BY <2>2, <2>4 DEF Slots
  <2>6. Slots(L + 1)' \subseteq displ..displ' - 1 /\ displ' \in Int /\ displ <= displ'
    BY <1>0, <2>1, <2>5
  <2> QED BY <1>1, <2>4, <2>6, LocalLaid
<1>6. ASSUME NEW func_def, DeclareType(repr, func_def)
      PROVE  Laid'
  <2> DEFINE record == Record(repr, repr, "type", 1, TYPE_BASE)
  <2>1. identifiers' = Append(identifiers, record) /\ displ' = displ
    BY <1>2, <1>6 DEF DeclareType, Enlist
  <2>2. record.kind = "type"
    BY DEF Record
  <2> HIDE DEF record
  <2>4. identifiers'[L + 1] = record /\ \A i \in 1..L : identifiers'[i] = identifiers[i]
    BY <1>3, <2>1
  <2>5. Slots(L + 1)' = {}
    BY <2>2, <2>4 DEF Slots
  <2> QED BY <1>0, <1>1, <2>1, <2>4, <2>5, LocalLaid
<1>7. ASSUME NEW value, DeclareEnumerator(repr, value)
      PROVE  Laid'
  <2> DEFINE record == Record(repr, repr, "enum", 1, value)
  <2>1. identifiers' = Append(identifiers, record) /\ get_static(1)
    BY <1>2, <1>7 DEF DeclareEnumerator, Enlist
  <2>2. record.kind = "enum"
    BY DEF Record
  <2> HIDE DEF record
  <2>3. displ' = displ + 1
    BY <1>0, <2>1 DEF get_static
  <2>4. identifiers'[L + 1] = record /\ \A i \in 1..L : identifiers'[i] = identifiers[i]
    BY <1>3, <2>1
  <2>5. Slots(L + 1)' = {}
    BY <2>2, <2>4 DEF Slots
  <2>6. displ' \in Int /\ displ <= displ'
    BY <1>0, <2>3
  <2> QED BY <1>1, <2>4, <2>5, <2>6, LocalLaid
<1> QED BY <1>4, <1>5, <1>6, <1>7

\* Outside functions there are no locals.
LEMMA GlobalLaid ==
    ASSUME TypeInv', scopes' = <<>>
    PROVE  Laid'
<1>1. Depth' = 1
  BY DEF Depth
<1> QED BY <1>1 DEF Laid, Placed, Stacked, Disjoint

\* A function starts with an empty frame.
LEMMA DefinitionLaid ==
    ASSUME IndexInv, IndexInv', Correct, NEW repr \in Reprs, Declared(repr, repr), scopes = <<>>,
           EnterFunctionScope
    PROVE  Laid'
<1>0. Len(identifiers) \in Nat /\ Names \subseteq AllReprs
  BY DEF IndexInv, TypeInv, TypeOK, Names, AllReprs
<1>1. /\ Depth' = 2 /\ EnvOf(2)' = reference' /\ BaseOf(2)' = Len(identifiers) + 2
  BY DefinitionCorrect
<1>2. \A r \in Names : ~(reference'[r] >= Len(identifiers) + 2)
  <2>1. \A r \in AllReprs : reference'[r] \in Targets'
    BY DEF IndexInv, InRange
  <2>2. Targets' = {-1} \cup 0..Len(identifiers) + 1
    BY DEF Targets, Declared, ITEM_MAX
  <2> QED BY <1>0, <2>1, <2>2
<1>3. \A k \in 2..Depth' : k = 2
  BY <1>1
<1>4. Placed'
  BY <1>1, <1>2, <1>3 DEF Placed
<1>5. Stacked'
  <2>1. TopOf(2)' = 3
    BY <1>1 DEF TopOf, EnterFunctionScope
  <2>2. \A k \in 2..Depth' : \A j \in 2..k : k = 2 /\ j = 2
    BY <1>1
  <2>3. \A k \in 2..Depth' : \A j \in 2..k : TopOf(j)' <= TopOf(k)'
    BY <2>1, <2>2
  <2> QED BY <2>3 DEF Stacked
<1>6. Live' = {}
  <2>1. \A k \in 2..Depth', r \in Names : EnvOf(k)'[r] \notin BaseOf(2)'..Len(identifiers')
    BY <1>0, <1>1, <1>2, <1>3 DEF Declared
  <2> QED BY <2>1 DEF Live
<1>7. Disjoint'
  BY <1>6 DEF Disjoint
<1> QED BY <1>4, <1>5, <1>7 DEF Laid

\* A block starts where the scope around it has stopped.
LEMMA OpenedLaid ==
    ASSUME IndexInv, Laid, NEW kind, EnterBlock(kind)
    PROVE  Laid'
<1> PICK d : d = Depth
  OBVIOUS
<1>1. /\ d \in Nat /\ d >= 2 /\ Depth' = d + 1 /\ Len(scopes') = d /\ Len(scopes) = d - 1 /\ Depth = d
      /\ \A k \in 1..d : BaseOf(k)' = BaseOf(k) /\ EnvOf(k)' = EnvOf(k)
      /\ EnvOf(d + 1)' = reference /\ EnvOf(d) = reference
      /\ UNCHANGED <<identifiers, reference>> /\ scopes # <<>>
  BY BlockOpens
<1>2. displ' = displ /\ displ \in Int /\ scopes \in Seq(ScopeRecord)
  BY DEF EnterBlock, IndexInv, TypeInv, TypeOK
<1> DEFINE sc == [kind |-> kind, displ |-> displ, lg |-> lg, cur_id |-> cur_id, saved |-> reference]
<1>3. scopes' = Append(scopes, sc) /\ sc.displ = displ
  BY DEF EnterBlock
<1> HIDE DEF sc
<1>4. scopes'[d] = sc /\ \A k \in 1..d - 1 : scopes'[k] = scopes[k]
  BY <1>1, <1>2, <1>3
<1>5. TopOf(d + 1)' = displ /\ TopOf(d)' = displ /\ TopOf(d) = displ
  BY <1>1, <1>2, <1>3, <1>4 DEF TopOf
<1>6. \A k \in 2..d : TopOf(k)' = TopOf(k)
  <2>1. \A k \in 2..d : k # d => TopOf(k)' = TopOf(k)
    BY <1>1, <1>4 DEF TopOf
  <2> QED BY <1>5, <2>1
<1>7. /\ BaseOf(2)' = BaseOf(2) /\ (\A i : Slots(i)' = Slots(i))
      /\ \A k \in 2..Depth' : k \in 2..d \/ k = d + 1
      /\ \A k \in 2..d : k \in 1..d /\ k \in 2..Depth
      /\ d \in 2..d
  BY <1>1 DEF Slots
<1>8. \A k \in 2..Depth', r \in Names : \E m \in 2..d : EnvOf(k)'[r] = EnvOf(m)[r] /\ TopOf(m) = TopOf(k)'
  BY <1>1, <1>5, <1>6, <1>7
<1>9. Placed'
  <2> SUFFICES ASSUME NEW k \in 2..Depth', NEW r \in Names, EnvOf(k)'[r] >= BaseOf(2)'
               PROVE  Slots(EnvOf(k)[r])' \subseteq 3..TopOf(k)' - 1
    BY DEF Placed
  <2>1. PICK m \in 2..d : EnvOf(k)'[r] = EnvOf(m)[r] /\ TopOf(m) = TopOf(k)'
    BY <1>8
  <2>2. Slots(EnvOf(m)[r]) \subseteq 3..TopOf(m) - 1
    BY <1>7, <2>1 DEF Laid, Placed
  <2>3. Slots(EnvOf(k)[r])' = Slots(EnvOf(m)[r])
    BY <1>1, <2>1 DEF Slots
  <2> QED BY <2>1, <2>2, <2>3
<1>10. Stacked'
  <2> SUFFICES ASSUME NEW k \in 2..Depth', NEW j \in 2..k PROVE TopOf(j)' <= TopOf(k)'
    BY DEF Stacked
  <2>1. CASE k = d + 1
    <3>1. \A m \in 2..d : TopOf(m) <= displ
      BY <1>1, <1>5, <1>7 DEF Laid, Stacked
    <3>2. j = d + 1 \/ j \in 2..d
      BY <1>1, <2>1
    <3>3. displ <= displ
      BY <1>2
    <3> QED BY <1>5, <1>6, <2>1, <3>1, <3>2, <3>3
  <2>2. CASE k # d + 1
    <3>1. k \in 2..d /\ j \in 2..d /\ k \in 2..Depth
      BY <1>1, <1>7, <2>2
    <3>2. TopOf(j) <= TopOf(k)
      BY <3>1 DEF Laid, Stacked
    <3> QED BY <1>6, <3>1, <3>2
  <2> QED BY <2>1, <2>2
<1>11. Live' \subseteq Live
  <2> SUFFICES ASSUME NEW x \in Live' PROVE x \in Live
    OBVIOUS
  <2>1. PICK k \in 2..Depth', r \in Names : x = EnvOf(k)'[r]
    BY DEF Live
  <2>2. x \in BaseOf(2)..Len(identifiers)
    BY <1>1, <1>7 DEF Live
  <2>3. PICK m \in 2..d : x = EnvOf(m)[r]
    BY <1>8, <2>1
  <2> QED BY <1>1, <2>2, <2>3 DEF Live
<1>12. Disjoint'
  BY <1>1, <1>7, <1>11 DEF Laid, Disjoint
<1> QED BY <1>9, <1>10, <1>12 DEF Laid

\* A closed block gives its words back.
LEMMA ClosedLaid ==
    ASSUME IndexInv, IndexInv', Correct, Laid, ExitBlock \/ ExitFunction
    PROVE  Laid'
<1>0. TypeInv /\ TypeInv' /\ LeaveScope /\ scopes # <<>> /\ UNCHANGED identifiers
  BY DEF IndexInv, ExitBlock, ExitFunction
<1>1. CASE ExitFunction
  <2>1. scopes' = <<>>
    BY <1>0, <1>1, LeaveScopeType DEF ExitFunction
  <2> QED BY <1>0, <2>1, GlobalLaid
<1>2. CASE ExitBlock
  <2> PICK d \in Nat : d = Depth
    BY <1>0, BaseType
  <2>1. /\ Depth' = d - 1 /\ Depth = d /\ d - 1 = Len(scopes) /\ d >= 3
        /\ \A k \in 1..d - 1 : BaseOf(k)' = BaseOf(k) /\ EnvOf(k)' = EnvOf(k)
    <3>1. d >= 3 /\ d - 1 = Len(scopes)
      BY <1>0, <1>2, BaseType DEF ExitBlock
    <3> QED BY <1>2, <3>1, ClosedCorrect
  <2>2. \A k \in 1..Len(scopes') : scopes'[k] = scopes[k]
    BY <1>0, LeaveScopeType
  <2>3. Len(scopes') = d - 2
    BY <1>0, <2>1, LeaveScopeType
  <2>4. TopOf(d - 1)' = TopOf(d - 1)
    BY <1>2, <2>1 DEF TopOf, ExitBlock, InnerScope
  <2>5. \A k \in 2..d - 1 : TopOf(k)' = TopOf(k)
    <3> SUFFICES ASSUME NEW k \in 2..d - 1, k # d - 1 PROVE TopOf(k)' = TopOf(k)
      BY <2>4
    <3>1. k \in 1..Len(scopes') /\ k # Depth /\ k # Depth'
      BY <2>1, <2>3
    <3> QED BY <2>2, <3>1 DEF TopOf
  <2>6. /\ BaseOf(2)' = BaseOf(2) /\ (\A i : Slots(i)' = Slots(i))
        /\ \A k \in 2..d - 1 : k \in 2..Depth /\ k \in 1..d - 1
        /\ \A k \in 2..d - 1 : \A j \in 2..k : j \in 2..d - 1
    BY <1>0, <2>1 DEF Slots
  <2>7. Placed'
    <3> SUFFICES ASSUME NEW k \in 2..d - 1, NEW r \in Names, EnvOf(k)'[r] >= BaseOf(2)'
                 PROVE  Slots(EnvOf(k)[r])' \subseteq 3..TopOf(k)' - 1
      BY <2>1 DEF Placed
    <3>1. EnvOf(k)'[r] = EnvOf(k)[r]
      BY <2>1, <2>6
    <3>2. Slots(EnvOf(k)[r]) \subseteq 3..TopOf(k) - 1
      BY <2>6, <3>1 DEF Laid, Placed
    <3>3. Slots(EnvOf(k)[r])' = Slots(EnvOf(k)[r])
      BY <1>0, <3>1 DEF Slots
    <3> QED BY <2>5, <3>2, <3>3
  <2>8. Stacked'
    BY <2>1, <2>5, <2>6 DEF Laid, Stacked
  <2>9. Live' \subseteq Live
    <3> SUFFICES ASSUME NEW x \in Live' PROVE x \in Live
      OBVIOUS
    <3>1. PICK k \in 2..d - 1, r \in Names : x = EnvOf(k)'[r]
      BY <2>1 DEF Live
    <3>2. x \in BaseOf(2)..Len(identifiers)
      BY <1>0, <2>6 DEF Live
    <3>3. x = EnvOf(k)[r] /\ k \in 2..Depth
      BY <2>1, <2>6, <3>1
    <3> QED BY <3>2, <3>3 DEF Live
  <2>10. Disjoint'
    BY <1>0, <2>6, <2>9 DEF Laid, Disjoint
  <2> QED BY <2>7, <2>8, <2>10 DEF Laid
<1> QED BY <1>1, <1>2

-----------------------------------------------------------------------------
(* Prototypes and definitions. *)

\* A completed prototype stays completed while its record and its definition do.
LEMMA CompletedStays ==
    ASSUME NEW L \in Nat, L = Len(identifiers), Len(identifiers') >= L, Len(identifiers') \in Nat,
           NEW i \in 1..L, Completed(i), identifiers'[i] = identifiers[i],
           \A j \in 1..L : identifiers[j].repr = -identifiers[i].repr => identifiers'[j] = identifiers[j]
    PROVE  Completed(i)'
<1>1. PICK j \in i + 1..L : /\ identifiers[j].repr = -identifiers[i].repr
                            /\ identifiers[j].kind = "func"
                            /\ identifiers[j].type = identifiers[i].type
                            /\ identifiers[j].displ = identifiers[i].displ
  BY DEF Completed
<1>2. j \in 1..L /\ j \in i + 1..Len(identifiers')
  OBVIOUS
<1>3. identifiers'[j] = identifiers[j]
  BY <1>1, <1>2
<1> QED BY <1>1, <1>2, <1>3 DEF Completed

\* A declaration, or a prototype, of a name that is new in its scope.
LEMMA DeclarationTied ==
    ASSUME IndexInv, Correct, Tied, NEW repr \in Reprs, NEW name, Declared(repr, name),
           \A i \in 1..Len(identifiers) : identifiers'[i] = identifiers[i],
           UNCHANGED <<scopes, cur_id>>, reference[repr] < cur_id,
           \/ name = repr /\ predef' = predef
           \/ name = -repr /\ repr \in Names /\ scopes = <<>> /\ predef' = predef \cup {repr}
    PROVE  Tied'
<1>0. /\ TypeInv /\ Names \subseteq AllReprs /\ repr \in AllReprs /\ reference \in [AllReprs -> Int]
      /\ identifiers \in Seq(IdRecord)
  BY DEF IndexInv, TypeInv, TypeOK, Names, AllReprs
<1> PICK L \in Nat : L = Len(identifiers)
  BY <1>0, BaseType
<1>1. Len(identifiers') = L + 1 /\ last_id = L + 1 /\ Depth' = Depth /\ repr > 0 /\ repr \in Int
  BY ScopesAssumption DEF Declared, last_id, Depth
<1>2. \A r \in Names : \/ EnvOf(1)'[r] = EnvOf(1)[r]
                       \/ Depth = 1 /\ r = repr /\ EnvOf(1)'[r] = L + 1
  <2>1. \A r \in Names : reference'[r] = reference[r] \/ (r = repr /\ reference'[r] = L + 1)
    BY <1>0, <1>1 DEF Declared, Refer
  <2> QED BY <1>1, <2>1 DEF EnvOf
<1>3. \A r \in Names : EnvOf(1)[r] \in {ITEM_MAX} \cup 0..L
  <2>1. CASE Depth = 1
    BY <1>0, <2>1 DEF EnvOf, IndexInv, InRange, Targets
  <2>2. CASE Depth # 1
    <3>1. 1 \in 1..Len(scopes)
      BY <1>0, <2>2, BaseType
    <3> QED BY <1>0, <2>2, <3>1 DEF EnvOf, IndexInv, InRange, Targets
  <2> QED BY <2>1, <2>2
<1>4. Depth = 1 => EnvOf(1) = reference /\ cur_id = 1 /\ EnvOf(1)' = reference'
  BY <1>1 DEF EnvOf, Correct, Nested, BaseOf
<1>5. Spelled'
  <2> SUFFICES ASSUME NEW r \in Names, EnvOf(1)'[r] > 0
               PROVE  identifiers'[EnvOf(1)'[r]].repr \in {r, -r}
    BY DEF Spelled
  <2>1. CASE EnvOf(1)'[r] = EnvOf(1)[r]
    <3>1. EnvOf(1)[r] \in 1..L
      BY <1>3, <2>1 DEF ITEM_MAX
    <3> QED BY <2>1, <3>1 DEF Tied, Spelled
  <2>2. CASE r = repr /\ EnvOf(1)'[r] = L + 1
    BY <2>2 DEF Declared
  <2> QED BY <1>2, <2>1, <2>2
<1>6. Linked'
  <2> SUFFICES ASSUME NEW i \in 1..L + 1, identifiers'[i].repr < 0
               PROVE  Awaited(i)' \/ Completed(i)'
    BY <1>1 DEF Linked
  <2>1. CASE i = L + 1
    <3>1. identifiers'[i].repr = name
      BY <2>1 DEF Declared
    <3>2. name = -repr /\ repr \in Names /\ scopes = <<>> /\ predef' = predef \cup {repr}
      BY <1>1, <3>1
    <3>3. -identifiers'[i].repr = repr
      BY <1>1, <3>1, <3>2
    <3>4. Depth = 1
      BY <1>0, <3>2, BaseType
    <3>5. reference[repr] # 0
      BY <1>0, <1>4, <3>2, <3>4 DEF Correct, MainMarked, Names
    <3>6. Hidden(repr) # 0
      BY <3>5 DEF Hidden, NO_PREV
    <3>7. reference'[repr] = L + 1
      BY <1>0, <1>1, <3>6 DEF Declared, Refer
    <3> QED BY <1>4, <2>1, <3>2, <3>3, <3>4, <3>7 DEF Awaited
  <2>2. CASE i # L + 1
    <3>1. i \in 1..L /\ identifiers'[i] = identifiers[i]
      BY <2>2
    <3>2. CASE Completed(i)
      BY <1>1, <3>1, <3>2, CompletedStays
    <3>3. CASE Awaited(i)
      <4> PICK n : n = -identifiers[i].repr
        OBVIOUS
      <4>1. n \in predef \cap Names /\ EnvOf(1)[n] = i /\ n \in predef'
        BY <3>3 DEF Awaited
      <4>2. EnvOf(1)'[n] = EnvOf(1)[n]
        <5> SUFFICES ASSUME Depth = 1, n = repr PROVE FALSE
          BY <1>2, <4>1
        <5>1. reference[repr] = i /\ cur_id = 1
          BY <1>4, <4>1
        <5> QED BY <3>1, <5>1
      <4> QED BY <3>1, <4>1, <4>2 DEF Awaited
    <3> QED BY <3>1, <3>2, <3>3 DEF Tied, Linked
  <2> QED BY <2>1, <2>2
<1> QED BY <1>5, <1>6 DEF Tied

\* A definition completes the prototype it hides.
LEMMA DefinitionTied ==
    ASSUME IndexInv, Correct, Tied, NEW repr \in Reprs, NEW type \in FuncTypes, NEW n \in 0..MaxParams,
           ~errors', DefineFunction(repr, type, n)
    PROVE  Tied'
<1>0. /\ TypeInv /\ Names \subseteq AllReprs /\ repr \in AllReprs /\ reference \in [AllReprs -> Int]
      /\ identifiers \in Seq(IdRecord)
  BY DEF IndexInv, TypeInv, TypeOK, Names, AllReprs
<1> PICK L \in Nat : L = Len(identifiers)
  BY <1>0, BaseType
<1> DEFINE record == Record(repr, repr, "func", type, FunctionPlace(type))
           Hit(i) == HasPrototype(repr) /\ i = Hidden(repr)
<1>1. /\ Declared(repr, repr) /\ scopes = <<>> /\ Accepted(repr, 1) /\ SameType(repr, type)
      /\ EnterFunctionScope /\ predef' \in {predef, predef \ {repr}}
      /\ identifiers'[L + 1] = record
      /\ \A i \in 1..L : identifiers'[i] = IF Hit(i) THEN [identifiers[i] EXCEPT !.displ = FunctionPlace(type)]
                                                     ELSE identifiers[i]
  BY DefineFunctionSucceeds
<1>2. /\ record.repr = repr /\ record.kind = "func" /\ record.type = type
      /\ record.displ = FunctionPlace(type)
  BY DEF Record
<1> HIDE DEF record
<1>3. /\ EnvOf(1) = reference /\ EnvOf(1)' = reference' /\ Depth = 1 /\ BaseOf(1) = 1
  BY <1>1, DefinitionCorrect
<1>4. Len(identifiers') = L + 1 /\ last_id = L + 1 /\ repr > 0 /\ repr \in Int /\ cur_id = 1
  BY <1>1, <1>3, ScopesAssumption DEF Declared, last_id, BaseOf
<1>5. \A r \in Names : reference'[r] = reference[r] \/ (r = repr /\ reference'[r] = L + 1)
  BY <1>0, <1>1, <1>4 DEF Declared, Refer
<1>6. \A r \in AllReprs : reference[r] \in {ITEM_MAX} \cup 0..L
  BY DEF IndexInv, InRange, Targets
<1>7. \A i \in 1..L : identifiers'[i].repr = identifiers[i].repr
  BY <1>1 DEF Declared
<1>8. Spelled'
  <2> SUFFICES ASSUME NEW r \in Names, reference'[r] > 0
               PROVE  identifiers'[reference'[r]].repr \in {r, -r}
    BY <1>3 DEF Spelled
  <2>1. CASE reference'[r] = reference[r]
    <3>1. reference[r] \in 1..L
      BY <1>0, <1>6, <2>1 DEF ITEM_MAX
    <3> QED BY <1>3, <1>7, <2>1, <3>1 DEF Tied, Spelled
  <2>2. CASE r = repr /\ reference'[r] = L + 1
    BY <1>1, <1>2, <2>2
  <2> QED BY <1>5, <2>1, <2>2
<1>9. ASSUME HasPrototype(repr)
      PROVE  /\ Hidden(repr) = reference[repr] /\ Hidden(repr) \in 1..L /\ repr \in Names
             /\ identifiers[Hidden(repr)].repr = -repr
             /\ identifiers[Hidden(repr)].type = type
  <2>1. Hidden(repr) > 0
    BY <1>9 DEF HasPrototype
  <2>2. Hidden(repr) = reference[repr] /\ Hidden(repr) \in 1..L
    BY <1>0, <1>6, <2>1 DEF Hidden, ITEM_MAX, NO_PREV
  <2>3. repr \in Names
    BY <1>0, <1>3, <2>1, <2>2 DEF Correct, MainMarked, Names
  <2>4. identifiers[reference[repr]].repr \in {repr, -repr}
    BY <1>3, <2>1, <2>2, <2>3 DEF Tied, Spelled
  <2>5. ~(identifiers[Hidden(repr)].repr > 0)
    BY <1>1, <1>4, <2>2 DEF Accepted, IsRepeated, NO_PREV
  <2> QED BY <1>1, <1>4, <1>9, <2>2, <2>3, <2>4, <2>5 DEF SameType
<1>10. Linked'
  <2> SUFFICES ASSUME NEW i \in 1..L + 1, identifiers'[i].repr < 0
               PROVE  Awaited(i)' \/ Completed(i)'
    BY <1>4 DEF Linked
  <2>1. i \in 1..L /\ identifiers[i].repr < 0
    BY <1>1, <1>2, <1>4, <1>7
  <2>2. identifiers[i] \in IdRecord
    BY <1>0, <2>1
  <2>3. CASE Hit(i)
    <3>1. identifiers[i].repr = -repr /\ identifiers[i].type = type
      BY <1>9, <2>3
    <3>2. identifiers'[i] = [identifiers[i] EXCEPT !.displ = FunctionPlace(type)]
      BY <1>1, <2>1, <2>3
    <3>3. identifiers'[i].repr = -repr /\ identifiers'[i].type = type /\ identifiers'[i].displ = FunctionPlace(type)
      BY <2>2, <3>1, <3>2 DEF IdRecord
    <3>4. L + 1 \in i + 1..Len(identifiers') /\ -(-repr) = repr
      BY <1>4, <2>1
    <3> QED BY <1>1, <1>2, <3>3, <3>4 DEF Completed
  <2>4. CASE ~Hit(i)
    <3>1. identifiers'[i] = identifiers[i]
      BY <1>1, <2>1, <2>4
    <3>2. CASE Completed(i)
      <4>1. \A j \in 1..L : identifiers[j].repr = -identifiers[i].repr => identifiers'[j] = identifiers[j]
        <5> SUFFICES ASSUME NEW j \in 1..L, identifiers[j].repr = -identifiers[i].repr, Hit(j)
                     PROVE  FALSE
          BY <1>1
        <5>1. identifiers[j].repr = -repr
          BY <1>9
        <5>2. identifiers[i].repr \in Int
          BY <2>2 DEF IdRecord
        <5> QED BY <1>4, <2>1, <5>1, <5>2
      <4> QED BY <1>4, <2>1, <3>1, <3>2, <4>1, CompletedStays
    <3>3. CASE Awaited(i)
      <4> PICK m : m = -identifiers[i].repr
        OBVIOUS
      <4>1. m \in predef \cap Names /\ reference[m] = i
        BY <1>3, <3>3 DEF Awaited
      <4>2. m # repr
        <5> SUFFICES ASSUME m = repr PROVE FALSE
          OBVIOUS
        <5>1. Hidden(repr) = i /\ HasPrototype(repr)
          BY <2>1, <4>1 DEF Hidden, HasPrototype, ITEM_MAX
        <5> QED BY <2>4, <5>1
      <4>3. m \in predef' /\ reference'[m] = i
        BY <1>1, <1>5, <4>1, <4>2
      <4> QED BY <1>3, <3>1, <4>1, <4>3 DEF Awaited
    <3> QED BY <2>1, <3>2, <3>3 DEF Tied, Linked
  <2> QED BY <2>3, <2>4
<1> QED BY <1>8, <1>10 DEF Tied

\* Opening and closing scopes leaves prototypes alone.
LEMMA ScopeTied ==
    ASSUME Tied, UNCHANGED <<identifiers, predef>>, EnvOf(1)' = EnvOf(1)
    PROVE  Tied'
<1>1. Spelled'
  BY DEF Tied, Spelled
<1>2. \A i : Awaited(i)' = Awaited(i) /\ Completed(i)' = Completed(i)
  BY DEF Awaited, Completed
<1>3. Linked'
  BY <1>2 DEF Tied, Linked
<1> QED BY <1>1, <1>3 DEF Tied

-----------------------------------------------------------------------------
(* The inductive invariant and what follows from it. *)

\* The state sx_create leaves.
LEMMA InitRecordsInv == Init => RecordsInv
<1> SUFFICES ASSUME Init PROVE Laid /\ Tied
  BY InitScopeInv DEF RecordsInv
<1>1. Depth = 1 /\ scopes = <<>> /\ EnvOf(1) = reference /\ Len(identifiers) = 1 /\ identifiers[1].repr = Builtin
  BY DEF Init, Depth, EnvOf
<1>2. Laid
  BY <1>1 DEF Laid, Placed, Stacked, Disjoint
<1>3. Builtin \in Nat /\ \A r \in Names : r \in AllReprs /\ r # 0
  BY ScopesAssumption DEF Names, AllReprs
<1>4. Spelled
  <2>1. \A r \in Names : reference[r] > 0 => r = Builtin /\ reference[r] = 1
    BY <1>3 DEF Init, ITEM_MAX
  <2> QED BY <1>1, <2>1 DEF Spelled
<1>5. Linked
  BY <1>1, <1>3 DEF Linked
<1> QED BY <1>2, <1>4, <1>5 DEF Tied

\* The old records stay what they are when a declaration succeeds.
LEMMA RecordsKept ==
    ASSUME TypeOK, NEW repr \in Reprs, ~errors',
           \/ \E size \in Sizes : DeclareVariable(repr, size) \/ DeclareParameter(repr, size)
           \/ DeclareFunctionParameter(repr)
           \/ \E func_def \in {0, FuncDef} : DeclareType(repr, func_def)
           \/ \E value \in EnumValues : DeclareEnumerator(repr, value)
           \/ \E type \in FuncTypes : DeclareFunction(repr, type)
    PROVE  \A i \in 1..Len(identifiers) : identifiers'[i] = identifiers[i]
<1>1. identifiers \in Seq(IdRecord)
  BY DEF TypeOK
<1>2. \A func_def : ~Reject(repr, func_def)
  BY DEF Reject
<1>3. \E record : identifiers' = Append(identifiers, record)
  <2>1. ASSUME NEW name, NEW kind, NEW type, NEW place, Enlist(repr, name, kind, type, place)
        PROVE  \E record : identifiers' = Append(identifiers, record)
    BY <2>1 DEF Enlist
  <2>2. ASSUME NEW size \in Sizes, DeclareVariable(repr, size) \/ DeclareParameter(repr, size)
        PROVE  \E record : identifiers' = Append(identifiers, record)
    BY <1>2, <2>1, <2>2 DEF DeclareVariable, DeclareParameter
  <2>3. ASSUME DeclareFunctionParameter(repr)
        PROVE  \E record : identifiers' = Append(identifiers, record)
    BY <1>2, <2>1, <2>3 DEF DeclareFunctionParameter
  <2>4. ASSUME NEW func_def, DeclareType(repr, func_def)
        PROVE  \E record : identifiers' = Append(identifiers, record)
    BY <1>2, <2>1, <2>4 DEF DeclareType
  <2>5. ASSUME NEW value, DeclareEnumerator(repr, value)
        PROVE  \E record : identifiers' = Append(identifiers, record)
    BY <1>2, <2>1, <2>5 DEF DeclareEnumerator
  <2>6. ASSUME NEW type, DeclareFunction(repr, type)
        PROVE  \E record : identifiers' = Append(identifiers, record)
    BY <1>2, <2>1, <2>6 DEF DeclareFunction
  <2> QED BY <2>2, <2>3, <2>4, <2>5, <2>6
<1> QED BY <1>1, <1>3

\* Every step of the parser keeps the invariant, until an error is reported.
LEMMA NextRecordsInv == RecordsInv /\ [Next]_vars => RecordsInv'
<1> SUFFICES ASSUME RecordsInv, [Next]_vars, ~errors' PROVE Laid' /\ Tied'
  BY NextScopeInv DEF RecordsInv
<1>0. ScopeInv /\ ScopeInv' /\ IndexInv /\ IndexInv'
  BY NextScopeInv DEF RecordsInv, ScopeInv
<1>1. CASE UNCHANGED vars
  <2>1. UNCHANGED <<identifiers, reference, cur_id, displ, scopes, predef, errors>> /\ Laid /\ Tied
    BY <1>1 DEF vars, RecordsInv
  <2>2. /\ Depth' = Depth
        /\ \A k : EnvOf(k)' = EnvOf(k) /\ BaseOf(k)' = BaseOf(k) /\ TopOf(k)' = TopOf(k)
        /\ \A i : Slots(i)' = Slots(i)
    BY <2>1 DEF Depth, EnvOf, BaseOf, TopOf, Slots
  <2>3. Tied'
    BY <2>1, <2>2, ScopeTied
  <2>4. Stacked'
    BY <2>1, <2>2 DEF Laid, Stacked
  <2>5. Placed'
    <3> SUFFICES ASSUME NEW k \in 2..Depth, NEW r \in Names, EnvOf(k)[r] >= BaseOf(2)
                 PROVE  Slots(EnvOf(k)[r])' \subseteq 3..TopOf(k)' - 1
      BY <2>2 DEF Placed
    <3>1. Slots(EnvOf(k)[r])' = Slots(EnvOf(k)[r])
      BY <2>1, <2>2 DEF Slots
    <3> QED BY <2>1, <2>2, <3>1 DEF Laid, Placed
  <2>6. Live' = Live
    BY <2>1, <2>2 DEF Live
  <2>7. Disjoint'
    BY <2>1, <2>2, <2>6 DEF Laid, Disjoint
  <2> QED BY <2>3, <2>4, <2>5, <2>7 DEF Laid
<1>2. CASE Next
  <2>0. Correct /\ Laid /\ Tied /\ TypeInv /\ TypeInv' /\ TypeOK
    <3>1. ~errors
      BY <1>2, ErrorsStay
    <3>2. Correct /\ Laid /\ Tied
      BY <3>1 DEF RecordsInv, ScopeInv
    <3> QED BY <1>0, <3>2 DEF IndexInv, TypeInv
  <2>1. ASSUME NEW repr \in Reprs,
               \/ \E size \in Sizes : DeclareVariable(repr, size) \/ DeclareParameter(repr, size)
               \/ DeclareFunctionParameter(repr)
               \/ \E func_def \in {0, FuncDef} : DeclareType(repr, func_def)
               \/ \E value \in EnumValues : DeclareEnumerator(repr, value)
        PROVE  Laid' /\ Tied'
    <3>1. /\ Declared(repr, repr) /\ UNCHANGED <<scopes, cur_id>>
          /\ \E func_def : Accepted(repr, func_def) /\ (func_def = 1 => scopes # <<>>)
      BY <1>0, <2>1, DeclareSucceeds
    <3>2. reference[repr] < cur_id
      BY <1>0, <2>0, <3>1, AcceptedIsNew
    <3>3. \A i \in 1..Len(identifiers) : identifiers'[i] = identifiers[i]
      BY <2>0, <2>1, RecordsKept
    <3>4. predef' = predef
      BY <2>1 DEF DeclareVariable, DeclareParameter, DeclareFunctionParameter, DeclareType,
                  DeclareEnumerator
    <3>5. Tied'
      BY <1>0, <2>0, <3>1, <3>2, <3>3, <3>4, DeclarationTied
    <3>6. CASE scopes = <<>>
      BY <2>0, <3>1, <3>5, <3>6, GlobalLaid
    <3>7. CASE scopes # <<>>
      BY <1>0, <2>0, <2>1, <3>5, <3>7, DeclareLaid
    <3> QED BY <3>6, <3>7
  <2>2. ASSUME NEW repr \in Reprs, NEW type \in FuncTypes, DeclareFunction(repr, type)
        PROVE  Laid' /\ Tied'
    <3> DEFINE name == IF Tracked(type) THEN -repr ELSE repr
    <3>1. /\ Declared(repr, name) /\ UNCHANGED <<scopes, cur_id>> /\ scopes = <<>>
          /\ Accepted(repr, 2) /\ repr # Main
      BY <1>0, <2>2, DeclareFunctionSucceeds
    <3>2. reference[repr] < cur_id
      <4>1. 2 # 1
        OBVIOUS
      <4> QED BY <1>0, <2>0, <3>1, <4>1, AcceptedIsNew
    <3>3. \A i \in 1..Len(identifiers) : identifiers'[i] = identifiers[i]
      BY <2>0, <2>2, RecordsKept
    <3>4. repr \in Names
      BY <3>1 DEF Names
    <3>5. \/ name = repr /\ predef' = predef
          \/ name = -repr /\ predef' = predef \cup {repr}
      BY <2>2 DEF DeclareFunction, Reject
    <3> HIDE DEF name
    <3>6. Tied'
      BY <1>0, <2>0, <3>1, <3>2, <3>3, <3>4, <3>5, DeclarationTied
    <3> QED BY <2>0, <3>1, <3>6, GlobalLaid
  <2>3. ASSUME NEW repr \in Reprs, NEW type \in FuncTypes, NEW n \in 0..MaxParams,
               DefineFunction(repr, type, n)
        PROVE  Laid' /\ Tied'
    <3>1. Declared(repr, repr) /\ scopes = <<>> /\ EnterFunctionScope
      BY <1>0, <2>3, DefineFunctionSucceeds
    <3> QED BY <1>0, <2>0, <2>3, <3>1, DefinitionLaid, DefinitionTied
  <2>4. ASSUME NEW kind, EnterBlock(kind)
        PROVE  Laid' /\ Tied'
    <3> PICK d : d = Depth
      OBVIOUS
    <3>1. d \in Nat /\ d >= 2 /\ \A k \in 1..d : EnvOf(k)' = EnvOf(k)
      BY <1>0, <2>4, BlockOpens
    <3>2. EnvOf(1)' = EnvOf(1) /\ UNCHANGED <<identifiers, predef>>
      BY <2>4, <3>1 DEF EnterBlock
    <3> QED BY <1>0, <2>0, <2>4, <3>2, OpenedLaid, ScopeTied
  <2>5. ASSUME ExitBlock \/ ExitFunction
        PROVE  Laid' /\ Tied'
    <3>1. Depth' = Len(scopes) /\ \A k \in 1..Depth' : EnvOf(k)' = EnvOf(k)
      BY <1>0, <2>0, <2>5, ClosedCorrect
    <3>2. scopes # <<>> /\ UNCHANGED <<identifiers, predef>>
      BY <2>5 DEF ExitBlock, ExitFunction
    <3>3. EnvOf(1)' = EnvOf(1)
      BY <2>0, <3>1, <3>2, BaseType
    <3> QED BY <1>0, <2>0, <2>5, <3>2, <3>3, ClosedLaid, ScopeTied
  <2>6. ~AbandonFor
    BY DEF AbandonFor
  <2> QED BY <1>2, <2>1, <2>2, <2>3, <2>4, <2>5, <2>6 DEF Next
<1> QED BY <1>1, <1>2

\* Local variables that are alive at the same time, shadowed ones included, never
\* share a word of the frame, although get_static hands out the words of closed
\* blocks again.
THEOREM LiveLocalsNeverOverlap == Spec => []FrameDisjoint
<1>1. RecordsInv => FrameDisjoint
  BY DEF RecordsInv, Laid, Disjoint, FrameDisjoint, InFunction
<1> QED BY <1>1, InitRecordsInv, NextRecordsInv, PTL DEF Spec

\* When the link check of compile_from_io passes, every prototype has a definition
\* of the same type after it and carries its number: a call compiled against the
\* prototype reaches the definition.
THEOREM LinkedPrototypesReachDefinitions == Spec => []PrototypesLinked
<1>1. RecordsInv => PrototypesLinked
  <2> SUFFICES ASSUME RecordsInv, LinkCheck, NEW i \in 1..Len(identifiers), identifiers[i].repr < 0
               PROVE  Completed(i)
    BY DEF PrototypesLinked, Completed
  <2>1. ~errors /\ predef = {}
    BY DEF LinkCheck
  <2>2. ~Awaited(i)
    BY <2>1 DEF Awaited
  <2> QED BY <2>1, <2>2 DEF RecordsInv, Tied, Linked
<1> QED BY <1>1, InitRecordsInv, NextRecordsInv, PTL DEF Spec
=============================================================================
