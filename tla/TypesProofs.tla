---------------------------- MODULE TypesProofs ----------------------------
(***************************************************************************)
(* What is proved about the table of types: for any basic types, names and *)
(* constructors and any number of types, no step changes or cuts off a     *)
(* record that was handed out or drops it from the chain of links.         *)
(***************************************************************************)
EXTENDS Types, SequenceTheorems, TLAPS

\* The cells are a sequence, of whatever values.
Cells == \E S : types \in Seq(S)

LEMMA InitCells == Init => Cells
<1> SUFFICES ASSUME Init PROVE types \in Seq(Int)
  BY DEF Cells
<1> QED
  BY DEF Init, TYPE_STRUCTURE, TYPE_INTEGER

\* Two sequences are sequences of one set.
LEMMA Joined ==
    ASSUME NEW S, NEW R, NEW s \in Seq(S), NEW r \in Seq(R)
    PROVE  /\ s \o r \in Seq(S \cup R)
           /\ Len(s) <= Len(s \o r)
           /\ \A i \in DOMAIN s : i \in DOMAIN (s \o r) /\ (s \o r)[i] = s[i]
<1>1. s \in Seq(S \cup R) /\ r \in Seq(S \cup R)
  OBVIOUS
<1>2. s \o r \in Seq(S \cup R) /\ Len(s \o r) = Len(s) + Len(r)
  BY <1>1
<1> QED
  BY <1>1, <1>2

\* What a step must keep.
Kept == /\ \A i \in DOMAIN types : Cell(types', i - 1) = types[i]
        /\ start_type' # start_type => Cell(types', start_type') = start_type

\* The table with a record appended: what was there, the link, the record.
Long(record) == types \o <<start_type>> \o record

LEMMA Appended ==
    ASSUME NEW R, NEW S, NEW record, record \in Seq(R), types \in Seq(S)
    PROVE  /\ Long(record) \in Seq((S \cup {start_type}) \cup R)
           /\ \A i \in DOMAIN types : i \in DOMAIN Long(record) /\ Long(record)[i] = types[i]
           /\ Len(types) \in Nat /\ Len(types) + 1 \in DOMAIN Long(record)
           /\ Cell(Long(record), Len(types)) = start_type
<1>1. PICK link : link = <<start_type>>
  OBVIOUS
<1>2. link \in Seq({start_type})
  BY <1>1
<1>3. PICK mid : mid = types \o link
  OBVIOUS
<1>4. /\ mid \in Seq(S \cup {start_type})
      /\ \A i \in DOMAIN types : i \in DOMAIN mid /\ mid[i] = types[i]
  BY ONLY <1>2, <1>3, types \in Seq(S), Joined
<1>5. /\ mid \o record \in Seq((S \cup {start_type}) \cup R)
      /\ \A i \in DOMAIN mid : i \in DOMAIN (mid \o record) /\ (mid \o record)[i] = mid[i]
  BY ONLY <1>4, record \in Seq(R), Joined
<1>6. Len(types) \in Nat /\ Len(types) + 1 \in DOMAIN mid /\ mid[Len(types) + 1] = start_type
  BY <1>1, <1>3
<1>7. PICK long : long = mid \o record
  OBVIOUS
<1>8. Long(record) = long
  BY <1>1, <1>3, <1>7 DEF Long
<1> QED
  BY <1>4, <1>5, <1>6, <1>7, <1>8 DEF Cell

\* Cutting back to the place of the record that was appended removes that record, its
\* link and nothing else.
LEMMA CutExact ==
    ASSUME NEW S, NEW long, types \in Seq(S),
           \A i \in DOMAIN types : i \in DOMAIN long /\ long[i] = types[i]
    PROVE  Cut(long, Len(types)) = types
<1>1. DOMAIN types = 1..Len(types) /\ types = [i \in 1..Len(types) |-> types[i]]
  OBVIOUS
<1> QED
  BY <1>1 DEF Cut, vector_resize

\* type_add leaves the table it found or that table with a record, linked to the one
\* before, behind it; fields written behind that disturb neither.
LEMMA AddKeeps ==
    ASSUME NEW R, NEW record \in Seq(R), NEW U, NEW tail \in Seq(U), NEW desc,
           NEW added, added = type_add(record), Cells,
           Keep(added, added.table, desc) \/ Keep(added, added.table \o tail, desc)
    PROVE  Cells' /\ Kept
<1>1. PICK S : types \in Seq(S)
  BY DEF Cells
<1>2. /\ Long(record) \in Seq((S \cup {start_type}) \cup R)
      /\ \A i \in DOMAIN types : i \in DOMAIN Long(record) /\ Long(record)[i] = types[i]
      /\ Len(types) \in Nat /\ Len(types) + 1 \in DOMAIN Long(record)
      /\ Cell(Long(record), Len(types)) = start_type
  BY <1>1, Appended
<1>3. PICK long : long = Long(record)
  OBVIOUS
<1>4. PICK V : /\ long \in Seq(V)
               /\ \A i \in DOMAIN types : i \in DOMAIN long /\ long[i] = types[i]
               /\ Len(types) \in Nat /\ Len(types) + 1 \in DOMAIN long
               /\ Cell(long, Len(types)) = start_type
  BY ONLY <1>2, <1>3
<1>5. Cut(long, Len(types)) = types
  BY ONLY <1>1, <1>4, CutExact
<1>6. \/ added.table = types /\ added.start = start_type
      \/ added.table = long /\ added.start = Len(types)
  BY <1>3, <1>4, <1>5 DEF type_add, Long
<1>7. /\ added.table \in Seq(S \cup V)
      /\ \A i \in DOMAIN types : i \in DOMAIN added.table /\ added.table[i] = types[i]
      /\ added.start # start_type => Cell(added.table, added.start) = start_type
  BY <1>1, <1>4, <1>6
<1>8. PICK table : table = added.table
  OBVIOUS
<1>9. PICK W : /\ types' \in Seq(W)
               /\ \A i \in DOMAIN table : i \in DOMAIN types' /\ types'[i] = table[i]
  <2>1. CASE types' = table
    BY ONLY <2>1, <1>7, <1>8
  <2>2. CASE types' = table \o tail
    <3>1. /\ table \o tail \in Seq((S \cup V) \cup U)
          /\ \A i \in DOMAIN table : i \in DOMAIN (table \o tail) /\ (table \o tail)[i] = table[i]
      BY ONLY <1>7, <1>8, tail \in Seq(U), Joined
    <3> QED
      BY ONLY <3>1, <2>2
  <2> QED
    BY <2>1, <2>2, <1>8 DEF Keep
<1>10. \A i \in DOMAIN types : Cell(types', i - 1) = types[i]
  BY <1>1, <1>7, <1>8, <1>9 DEF Cell
<1>11. start_type' = added.start
  BY DEF Keep
<1>12. start_type' # start_type => Cell(types', start_type') = start_type
  <2>1. ASSUME start_type' # start_type PROVE Cell(types', start_type') = start_type
    <3>1. added.start = Len(types) /\ table = long
      BY <2>1, <1>6, <1>8, <1>11
    <3> QED
      BY <3>1, <1>4, <1>9, <1>11 DEF Cell
  <2> QED
    BY <2>1
<1> QED
  BY <1>9, <1>10, <1>12 DEF Cells, Kept

\* The records the constructors ask for are sequences.
LEMMA StepKeeps ==
    ASSUME Cells, [Next]_vars
    PROVE  /\ Cells'
           /\ [Kept]_vars
<1>0. <<>> \in Seq({})
  OBVIOUS
<1>1. CASE UNCHANGED vars
  BY <1>1 DEF vars, Cells
<1>2. ASSUME NEW class, NEW type, Derive(class, type)
      PROVE  Cells' /\ Kept
  <2>1. <<class, type>> \in Seq({class, type})
    OBVIOUS
  <2>2. \E desc : Keep(type_add(<<class, type>>), type_add(<<class, type>>).table, desc)
    BY <1>2 DEF Derive, Add
  <2> QED
    BY <1>0, <2>1, <2>2, AddKeeps
<1>3. ASSUME NEW type, NEW args \in BoundedSeq(Known, 1), type_function(type, args)
      PROVE  Cells' /\ Kept
  <2>1. args \in Seq(Known)
    BY <1>3 DEF BoundedSeq, SeqOf
  <2>2. PICK head : head = <<TYPE_FUNCTION, type, Len(args)>>
    OBVIOUS
  <2>3. head \in Seq({TYPE_FUNCTION, type, Len(args)})
    BY <2>2
  <2>4. head \o args \in Seq({TYPE_FUNCTION, type, Len(args)} \cup Known)
    BY ONLY <2>1, <2>3, Joined
  <2>5. \E desc : Keep(type_add(head \o args), type_add(head \o args).table, desc)
    BY <1>3, <2>2 DEF type_function, Add
  <2> QED
    BY <1>0, <2>4, <2>5, AddKeeps
<1>4. ASSUME NEW members, \E a \in Known \X Names : members = <<a>> \/ \E b \in Known \X Names : members = <<a, b>>,
             type_structure(members)
      PROVE  Cells' /\ Kept
  <2>1. Len(members) \in Nat
    BY <1>4
  <2>2. PICK cells : cells = MemberCells(members)
    OBVIOUS
  <2>3. PICK V : V = {cells[k] : k \in 1..2 * Len(members)}
    OBVIOUS
  <2>4. cells \in Seq(V)
    <3>1. cells = [k \in 1..2 * Len(members) |-> cells[k]]
      BY <2>2 DEF MemberCells
    <3>2. cells \in [1..2 * Len(members) -> V]
      BY <3>1, <2>3
    <3> QED
      BY <3>2, <2>1, IsASeq
  <2>5. PICK size : size = FoldLeft(LAMBDA sum, m : sum + type_size(m[1]), 0, members)
    OBVIOUS
  <2>6. PICK head : head = <<TYPE_STRUCTURE, size, 2 * Len(members)>>
    OBVIOUS
  <2>7. head \in Seq({TYPE_STRUCTURE, size, 2 * Len(members)})
    BY <2>6
  <2>8. head \o cells \in Seq({TYPE_STRUCTURE, size, 2 * Len(members)} \cup V)
    BY ONLY <2>4, <2>7, Joined
  <2>9. \E desc : Keep(type_add(head \o cells), type_add(head \o cells).table, desc)
    BY <1>4, <2>2, <2>5, <2>6 DEF type_structure, Add
  <2> QED
    BY <1>0, <2>8, <2>9, AddKeeps
<1>5. ASSUME NEW name, MakeEnum(0, name)
      PROVE  Cells' /\ Kept
  <2>1. PICK tail : tail = <<0 \div 2, 2, 0, name>>
    OBVIOUS
  <2>2. tail \in Seq({0 \div 2, 2, 0, name})
    BY <2>1
  <2>3. <<TYPE_ENUM>> \in Seq({TYPE_ENUM})
    OBVIOUS
  <2>4. PICK added : added = type_add(<<TYPE_ENUM>>)
    OBVIOUS
  <2>5. \E desc : Keep(added, type_enum_add_fields(added.table, tail), desc)
    BY <1>5, <2>1, <2>4 DEF MakeEnum
  <2>6. type_enum_add_fields(added.table, tail) \in {added.table, added.table \o tail}
    BY DEF type_enum_add_fields
  <2> QED
    BY <2>2, <2>3, <2>4, <2>5, <2>6, AddKeeps
<1> QED
  BY <1>1, <1>2, <1>3, <1>4, <1>5 DEF Next

\* However many types are built, a record that was handed out keeps its place and its
\* cells and stays on the chain of links that the search follows, although type_add cuts
\* the table back to a size it remembers and sets start_type back (syntax.c:531-535).
THEOREM RecordsNeverChange == Spec => RecordsStable
<1>1. Init => Cells
  BY InitCells
<1>2. Cells /\ [Next]_vars => Cells' /\ [Kept]_vars
  BY StepKeeps
<1> QED
  BY <1>1, <1>2, PTL DEF Spec, RecordsStable, Kept
=============================================================================
