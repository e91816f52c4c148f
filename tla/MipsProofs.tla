----------------------------- MODULE MipsProofs -----------------------------
(***************************************************************************)
(* What is proved about the MIPS generator, for any program: variables     *)
(* that are visible at the same time share no byte of the frame, and every *)
(* jump has one label to go to, that of the innermost statement for break  *)
(* and continue.                                                           *)
(***************************************************************************)
EXTENDS Mips, SequenceTheorems, FiniteSetTheorems, TLAPS

-----------------------------------------------------------------------------
(* What an operation leaves alone *)

Shape(e) ==
    /\ {"ok", "visible", "scope_displ", "max_displ", "function", "label_break", "label_continue", "case_label_num",
        "label_num", "declared", "used", "twice"} \subseteq DOMAIN e
    /\ e.label_num \in Nat /\ e.case_label_num \in Nat

\* The frame
Frame(i, j) ==
    /\ Shape(j)
    /\ j.visible = i.visible /\ j.scope_displ = i.scope_displ /\ j.max_displ = i.max_displ
    /\ j.function = i.function

\* The labels
Labels(i, j) ==
    /\ Shape(j)
    /\ j.ok => i.ok
    /\ j.function = i.function
    /\ j.label_break = i.label_break /\ j.label_continue = i.label_continue
    /\ j.case_label_num = i.case_label_num /\ j.label_num = i.label_num
    /\ j.declared = i.declared /\ j.used = i.used /\ j.twice = i.twice

Same(i, j) == Frame(i, j) /\ Labels(i, j)

\* Kinds whose labels are numbered with label_num.
Numbered == {"ELSE", "END", "BEGIN_CYCLE", "NEXT"}
Fresh(l, e) == l[1] \in Numbered /\ l[2] \notin 0..e.label_num - 1

\* Labels of the run-time library, of functions and of strings
Library(l) ==
    \/ l = Label("error", 0)
    \/ \E f \in DOMAIN Functions : l = Label("FUNC", f)
    \/ \E p \in Pieces : l = StringLabel(p[1], p[2])

\* Labels but for new ones that are declared on the spot.
Calm(i, j) ==
    /\ Shape(j)
    /\ j.ok => i.ok
    /\ j.function = i.function
    /\ j.label_break = i.label_break /\ j.label_continue = i.label_continue
    /\ j.case_label_num = i.case_label_num
    /\ i.label_num <= j.label_num
    /\ i.declared \subseteq j.declared
    /\ \A l \in j.declared : l \in i.declared \/ (Fresh(l, i) /\ ~Fresh(l, j))
    /\ \A l \in j.used : l \in i.used \/ l \in j.declared \/ Library(l)
    /\ ~i.twice /\ (\A l \in i.declared : ~Fresh(l, i)) => ~j.twice

\* What most operations do
Alike(i, j) == Frame(i, j) /\ Calm(i, j)

LEMMA SameSelf == ASSUME NEW i, Shape(i) PROVE Same(i, i)
  BY DEF Same, Frame, Labels

LEMMA SameTrans == ASSUME NEW i, NEW j, NEW k, Same(i, j), Same(j, k) PROVE Same(i, k)
  BY DEF Same, Frame, Labels

LEMMA FrameTrans == ASSUME NEW i, NEW j, NEW k, Frame(i, j), Frame(j, k) PROVE Frame(i, k)
  BY DEF Frame

LEMMA LabelsCalm == ASSUME NEW i, NEW j, Shape(i), Labels(i, j) PROVE Calm(i, j)
  BY DEF Labels, Calm, Shape

LEMMA SameAlike == ASSUME NEW i, NEW j, Shape(i), Same(i, j) PROVE Alike(i, j)
  BY LabelsCalm DEF Same, Alike

LEMMA CalmTrans == ASSUME NEW i, NEW j, NEW k, Shape(i), Calm(i, j), Calm(j, k) PROVE Calm(i, k)
<1>1. i.label_num \in Nat /\ j.label_num \in Nat /\ k.label_num \in Nat
  BY DEF Calm, Shape
<1>2. ASSUME NEW l \in k.declared PROVE l \in i.declared \/ (Fresh(l, i) /\ ~Fresh(l, k))
  <2>1. ASSUME Fresh(l, k), ~Fresh(l, j) PROVE FALSE
    BY <2>1, <1>1 DEF Fresh, Calm
  <2>2. ASSUME Fresh(l, j), ~Fresh(l, i) PROVE FALSE
    BY <2>2, <1>1 DEF Fresh, Calm
  <2> QED
    BY <2>1, <2>2, <1>2 DEF Calm
<1>3. ASSUME ~i.twice, \A l \in i.declared : ~Fresh(l, i) PROVE ~k.twice
  <2>1. ASSUME NEW l \in j.declared PROVE ~Fresh(l, j)
    <3>1. ASSUME Fresh(l, j), ~Fresh(l, i) PROVE FALSE
      BY <3>1, <1>1 DEF Fresh, Calm
    <3> QED
      BY <3>1, <1>3, <2>1 DEF Calm
  <2> QED
    BY <1>3, <2>1 DEF Calm
<1> QED
  BY <1>1, <1>2, <1>3 DEF Calm

LEMMA AlikeTrans == ASSUME NEW i, NEW j, NEW k, Shape(i), Alike(i, j), Alike(j, k) PROVE Alike(i, k)
  BY CalmTrans, FrameTrans DEF Alike

LEMMA AlikeSelf == ASSUME NEW i, Shape(i) PROVE Alike(i, i)
  BY SameSelf, SameAlike

\* An operation that does the same to all encoders
LEMMA KeptBy ==
    ASSUME NEW b, Shape(b), NEW i, NEW j, Shape(i) => Same(i, j)
    PROVE  /\ Alike(b, i) => Alike(b, j)
           /\ Frame(b, i) => Frame(b, j)
           /\ Same(b, i) => Same(b, j)
<1>1. Shape(i) => Alike(i, j) /\ Frame(i, j)
  BY SameAlike DEF Same
<1> QED
  BY <1>1, AlikeTrans, FrameTrans, SameTrans DEF Alike, Frame, Same

-----------------------------------------------------------------------------
(* Registers *)

LEMMA FailSame == ASSUME NEW i, Shape(i) PROVE Same(i, Fail(i))
  BY DEF Fail, Same, Frame, Labels, Shape

LEMMA LockSame == ASSUME NEW i, Shape(i), NEW x PROVE Same(i, lock_register(i, x))
  BY DEF lock_register, Same, Frame, Labels, Shape

LEMMA FreeSame == ASSUME NEW i, Shape(i), NEW x PROVE Same(i, free_register(i, x))
  BY DEF free_register, Same, Frame, Labels, Shape

LEMMA FirstSame == ASSUME NEW i, Shape(i), NEW x, NEW y PROVE Same(i, FirstFree(i, x, y))
<1>1. \A v, w : Same(i, [i EXCEPT !.registers = v, !.got = w])
  BY DEF Same, Frame, Labels, Shape
<1>2. CASE \A n \in 0..y - 1 : <<x, n>> \in i.registers
  <2>1. FirstFree(i, x, y) = Fail(i)
    BY <1>2 DEF FirstFree
  <2> QED
    BY <2>1, FailSame
<1>3. CASE \E n \in 0..y - 1 : <<x, n>> \notin i.registers
  <2>1. PICK n : n = Min({m \in 0..y - 1 : <<x, m>> \notin i.registers})
    OBVIOUS
  <2>2. PICK v, w : v = i.registers \cup {<<x, n>>} /\ w = Name(<<x, n>>)
    OBVIOUS
  <2>3. FirstFree(i, x, y) = [i EXCEPT !.registers = v, !.got = w]
    BY <2>1, <2>2, <1>3 DEF FirstFree
  <2>4. Same(i, [i EXCEPT !.registers = v, !.got = w])
    BY <1>1
  <2> QED
    BY <2>3, <2>4
<1> QED
  BY <1>2, <1>3

LEMMA GetSame == ASSUME NEW i, Shape(i) PROVE Same(i, get_register(i)) /\ Same(i, get_float_register(i))
  BY FirstSame DEF get_register, get_float_register

LEMMA GetForSame == ASSUME NEW i, Shape(i), NEW x PROVE Same(i, GetFor(i, x))
  BY GetSame DEF GetFor

LEMMA FreeValueSame == ASSUME NEW i, Shape(i), NEW x PROVE Same(i, free_rvalue(i, x))
  BY FreeSame, SameSelf DEF free_rvalue

LEMMA ImmediateSame == ASSUME NEW i, Shape(i), NEW x PROVE Same(i, emit_load_of_immediate(i, x))
  BY GetForSame DEF emit_load_of_immediate

LEMMA GotSame == ASSUME NEW i, Shape(i), NEW x PROVE Same(i, [i EXCEPT !.got = x]) /\ Same(i, Settled(i))
  BY DEF Settled, Same, Frame, Labels, Shape

LEMMA LoadedSame == ASSUME NEW i, Shape(i), NEW x PROVE Same(i, Loaded(i, x))
  BY ImmediateSame, GotSame DEF Loaded

LEMMA LoadSame == ASSUME NEW i, Shape(i), NEW x PROVE Same(i, emit_load_of_lvalue(i, x))
<1>1. Same(i, free_register(GetFor(i, x.type), x.reg))
  BY GetForSame, FreeSame, SameTrans DEF Same, Frame
<1>2. Same(i, get_register(i)) /\ Same(i, [i EXCEPT !.got = x.reg])
  BY GetSame, GotSame
<1> QED
  BY <1>1, <1>2 DEF emit_load_of_lvalue

LEMMA StoreSame == ASSUME NEW i, Shape(i), NEW x, NEW y PROVE Same(i, emit_store_of_rvalue(i, x, y))
<1>1. PICK j : j = Loaded(i, y)
  OBVIOUS
<1>2. PICK k : k = IF y.kind = "const" THEN free_register(j, j.got) ELSE j
  OBVIOUS
<1>3. Same(i, j) /\ Shape(j)
  BY <1>1, LoadedSame DEF Same, Frame
<1>4. Same(i, k) /\ Shape(k)
  BY <1>2, <1>3, FreeSame, SameTrans DEF Same, Frame
<1>5. Same(i, free_register(k, x.reg))
  BY <1>4, FreeSame, SameTrans
<1> QED
  BY <1>1, <1>2, <1>3, <1>5 DEF emit_store_of_rvalue

LEMMA OperandSame ==
    ASSUME NEW i, Shape(i), NEW x, NEW y, NEW z PROVE Same(i, emit_operand_load(i, x, y, z))
  BY LoadedSame, SameSelf DEF emit_operand_load

LEMMA MoveSame == ASSUME NEW i, Shape(i), NEW x PROVE Same(i, Move(i, x))
  BY DEF Move, Same, Frame, Labels, Shape

LEMMA RestoreSame == ASSUME NEW i, Shape(i), NEW x, NEW y PROVE Same(i, Restore(i, x, y))
<1>1. PICK j : j = emit_load_of_lvalue(i, Stack(R_SP, x, y))
  OBVIOUS
<1>2. Same(i, j)
  BY <1>1, LoadSame
<1>3. Same(i, free_rvalue(j, Reg(j.got, y)))
  BY <1>2, FreeValueSame, SameTrans DEF Same, Frame
<1> QED
  BY <1>1, <1>3 DEF Restore

LEMMA CopyWordSame == ASSUME NEW i, Shape(i), NEW x, NEW y, NEW z PROVE Same(i, CopyWord(i, x, y, z))
<1>1. PICK j : j = emit_load_of_lvalue(i, Stack(y.reg, y.n + z, "int"))
  OBVIOUS
<1>2. PICK k : k = emit_store_of_rvalue(j, Stack(x.reg, x.n + z, "int"), Reg(j.got, "int"))
  OBVIOUS
<1>3. Same(i, j) /\ Shape(j)
  BY <1>1, LoadSame DEF Same, Frame
<1>4. Same(i, k) /\ Shape(k)
  BY <1>2, <1>3, StoreSame, SameTrans DEF Same, Frame
<1>5. Same(i, free_rvalue(k, Reg(j.got, "int")))
  BY <1>4, FreeValueSame, SameTrans
<1> QED
  BY <1>1, <1>2, <1>5 DEF CopyWord

LEMMA CopyWordsSame == ASSUME NEW i, Shape(i), NEW x, NEW y PROVE Same(i, CopyWords(i, x, y))
<1>1. PICK j : j = CopyWord(i, x, y, 0)
  OBVIOUS
<1>2. Same(i, j) /\ Shape(j)
  BY <1>1, CopyWordSame DEF Same, Frame
<1>3. Same(i, CopyWord(j, x, y, WORD_LENGTH))
  BY <1>2, CopyWordSame, SameTrans
<1> QED
  BY <1>1, <1>2, <1>3 DEF CopyWords

LEMMA FailKept ==
    ASSUME NEW b, Shape(b), NEW i
    PROVE  /\ Alike(b, i) => Alike(b, Fail(i))
           /\ Frame(b, i) => Frame(b, Fail(i))
           /\ Same(b, i) => Same(b, Fail(i))
<1>1. Shape(i) => Same(i, Fail(i))
  BY FailSame
<1> QED
  BY <1>1, KeptBy

LEMMA LockKept ==
    ASSUME NEW b, Shape(b), NEW i, NEW x
    PROVE  /\ Alike(b, i) => Alike(b, lock_register(i, x))
           /\ Frame(b, i) => Frame(b, lock_register(i, x))
           /\ Same(b, i) => Same(b, lock_register(i, x))
<1>1. Shape(i) => Same(i, lock_register(i, x))
  BY LockSame
<1> QED
  BY <1>1, KeptBy

LEMMA GetRegisterKept ==
    ASSUME NEW b, Shape(b), NEW i
    PROVE  /\ Alike(b, i) => Alike(b, get_register(i))
           /\ Frame(b, i) => Frame(b, get_register(i))
           /\ Same(b, i) => Same(b, get_register(i))
<1>1. Shape(i) => Same(i, get_register(i))
  BY GetSame
<1> QED
  BY <1>1, KeptBy

LEMMA GetFloatKept ==
    ASSUME NEW b, Shape(b), NEW i
    PROVE  /\ Alike(b, i) => Alike(b, get_float_register(i))
           /\ Frame(b, i) => Frame(b, get_float_register(i))
           /\ Same(b, i) => Same(b, get_float_register(i))
<1>1. Shape(i) => Same(i, get_float_register(i))
  BY GetSame
<1> QED
  BY <1>1, KeptBy

LEMMA FreeValueKept ==
    ASSUME NEW b, Shape(b), NEW i, NEW x
    PROVE  /\ Alike(b, i) => Alike(b, free_rvalue(i, x))
           /\ Frame(b, i) => Frame(b, free_rvalue(i, x))
           /\ Same(b, i) => Same(b, free_rvalue(i, x))
<1>1. Shape(i) => Same(i, free_rvalue(i, x))
  BY FreeValueSame
<1> QED
  BY <1>1, KeptBy

LEMMA LoadedKept ==
    ASSUME NEW b, Shape(b), NEW i, NEW x
    PROVE  /\ Alike(b, i) => Alike(b, Loaded(i, x))
           /\ Frame(b, i) => Frame(b, Loaded(i, x))
           /\ Same(b, i) => Same(b, Loaded(i, x))
<1>1. Shape(i) => Same(i, Loaded(i, x))
  BY LoadedSame
<1> QED
  BY <1>1, KeptBy

LEMMA SettledKept ==
    ASSUME NEW b, Shape(b), NEW i
    PROVE  /\ Alike(b, i) => Alike(b, Settled(i))
           /\ Frame(b, i) => Frame(b, Settled(i))
           /\ Same(b, i) => Same(b, Settled(i))
<1>1. Shape(i) => Same(i, Settled(i))
  BY GotSame
<1> QED
  BY <1>1, KeptBy

LEMMA LoadKept ==
    ASSUME NEW b, Shape(b), NEW i, NEW x
    PROVE  /\ Alike(b, i) => Alike(b, emit_load_of_lvalue(i, x))
           /\ Frame(b, i) => Frame(b, emit_load_of_lvalue(i, x))
           /\ Same(b, i) => Same(b, emit_load_of_lvalue(i, x))
<1>1. Shape(i) => Same(i, emit_load_of_lvalue(i, x))
  BY LoadSame
<1> QED
  BY <1>1, KeptBy

LEMMA StoreKept ==
    ASSUME NEW b, Shape(b), NEW i, NEW x, NEW y
    PROVE  /\ Alike(b, i) => Alike(b, emit_store_of_rvalue(i, x, y))
           /\ Frame(b, i) => Frame(b, emit_store_of_rvalue(i, x, y))
           /\ Same(b, i) => Same(b, emit_store_of_rvalue(i, x, y))
<1>1. Shape(i) => Same(i, emit_store_of_rvalue(i, x, y))
  BY StoreSame
<1> QED
  BY <1>1, KeptBy

LEMMA OperandKept ==
    ASSUME NEW b, Shape(b), NEW i, NEW x, NEW y, NEW z
    PROVE  /\ Alike(b, i) => Alike(b, emit_operand_load(i, x, y, z))
           /\ Frame(b, i) => Frame(b, emit_operand_load(i, x, y, z))
           /\ Same(b, i) => Same(b, emit_operand_load(i, x, y, z))
<1>1. Shape(i) => Same(i, emit_operand_load(i, x, y, z))
  BY OperandSame
<1> QED
  BY <1>1, KeptBy

LEMMA MoveKept ==
    ASSUME NEW b, Shape(b), NEW i, NEW x
    PROVE  /\ Alike(b, i) => Alike(b, Move(i, x))
           /\ Frame(b, i) => Frame(b, Move(i, x))
           /\ Same(b, i) => Same(b, Move(i, x))
<1>1. Shape(i) => Same(i, Move(i, x))
  BY MoveSame
<1> QED
  BY <1>1, KeptBy

LEMMA RestoreKept ==
    ASSUME NEW b, Shape(b), NEW i, NEW x, NEW y
    PROVE  /\ Alike(b, i) => Alike(b, Restore(i, x, y))
           /\ Frame(b, i) => Frame(b, Restore(i, x, y))
           /\ Same(b, i) => Same(b, Restore(i, x, y))
<1>1. Shape(i) => Same(i, Restore(i, x, y))
  BY RestoreSame
<1> QED
  BY <1>1, KeptBy

LEMMA CopyWordsKept ==
    ASSUME NEW b, Shape(b), NEW i, NEW x, NEW y
    PROVE  /\ Alike(b, i) => Alike(b, CopyWords(i, x, y))
           /\ Frame(b, i) => Frame(b, CopyWords(i, x, y))
           /\ Same(b, i) => Same(b, CopyWords(i, x, y))
<1>1. Shape(i) => Same(i, CopyWords(i, x, y))
  BY CopyWordsSame
<1> QED
  BY <1>1, KeptBy

-----------------------------------------------------------------------------
(* Labels *)

LEMMA BranchFrame ==
    ASSUME NEW i, Shape(i), NEW l, NEW x
    PROVE  Frame(i, emit_unconditional_branch(i, l)) /\ Frame(i, emit_conditional_branch(i, x, l))
  BY DEF emit_unconditional_branch, emit_conditional_branch, Frame, Shape

LEMMA DeclareFrame ==
    ASSUME NEW i, Shape(i), NEW l PROVE Frame(i, emit_label_declaration(i, l)) /\ Frame(i, TakeLabel(i))
  BY DEF emit_label_declaration, TakeLabel, Frame, Shape

LEMMA LoopFrame ==
    ASSUME NEW i, Shape(i), NEW n, NEW l, NEW s PROVE Frame(i, Enter(i, n, l)) /\ Frame(i, Leave(i, s))
  BY DEF Enter, Leave, Frame, Shape

\* A label that is taken, jumped to and declared at once
LEMMA CompareCalm ==
    ASSUME NEW i, Shape(i), NEW x, NEW l, l[1] \in Numbered, l[2] = i.label_num
    PROVE  Calm(i, emit_label_declaration(emit_conditional_branch(TakeLabel(i), x, l), l))
<1>1. PICK j : j = TakeLabel(i)
  OBVIOUS
<1>2. PICK k : k = emit_conditional_branch(j, x, l)
  OBVIOUS
<1>3. PICK m : m = emit_label_declaration(k, l)
  OBVIOUS
<1>4. /\ Shape(j) /\ j.label_num = i.label_num + 1
      /\ j.ok = i.ok /\ j.function = i.function /\ j.label_break = i.label_break
      /\ j.label_continue = i.label_continue /\ j.case_label_num = i.case_label_num
      /\ j.declared = i.declared /\ j.used = i.used /\ j.twice = i.twice
  BY <1>1 DEF TakeLabel, Shape
<1>5. k = j \/ k = [j EXCEPT !.used = @ \cup {l}]
  BY <1>2 DEF emit_conditional_branch, emit_unconditional_branch
<1>6. /\ Shape(k) /\ k.label_num = i.label_num + 1
      /\ k.ok = i.ok /\ k.function = i.function /\ k.label_break = i.label_break
      /\ k.label_continue = i.label_continue /\ k.case_label_num = i.case_label_num
      /\ k.declared = i.declared /\ k.used \subseteq i.used \cup {l} /\ k.twice = i.twice
      /\ i.used \subseteq k.used
  BY <1>4, <1>5 DEF Shape
<1>7. /\ Shape(m) /\ m.label_num = i.label_num + 1
      /\ m.ok = i.ok /\ m.function = i.function /\ m.label_break = i.label_break
      /\ m.label_continue = i.label_continue /\ m.case_label_num = i.case_label_num
      /\ m.declared = i.declared \cup {l} /\ m.used \subseteq i.used \cup {l}
      /\ ~i.twice /\ l \notin i.declared => ~m.twice
  BY <1>3, <1>6 DEF emit_label_declaration, Shape
<1>8. Fresh(l, i) /\ ~Fresh(l, m)
  BY <1>7 DEF Fresh, Shape
<1>9. Calm(i, m)
  <2>1. \A n \in m.declared : n \in i.declared \/ n = l
    BY <1>7
  <2>2. \A n \in m.used : n \in i.used \/ n \in m.declared
    BY <1>7
  <2>3. i.label_num <= m.label_num
    BY <1>7 DEF Shape
  <2>4. (\A n \in i.declared : ~Fresh(n, i)) => l \notin i.declared
    BY <1>8
  <2>5. i.declared \subseteq m.declared
    BY <1>7
  <2> QED
    BY <1>7, <1>8, <2>1, <2>2, <2>3, <2>4, <2>5 DEF Calm
<1> QED
  BY <1>1, <1>2, <1>3, <1>9

LEMMA CompareAlike ==
    ASSUME NEW i, Shape(i), NEW x, NEW l, l[1] \in Numbered, l[2] = i.label_num
    PROVE  Alike(i, emit_label_declaration(emit_conditional_branch(TakeLabel(i), x, l), l))
<1>1. PICK j : j = TakeLabel(i)
  OBVIOUS
<1>2. PICK k : k = emit_conditional_branch(j, x, l)
  OBVIOUS
<1>3. Frame(i, j) /\ Shape(j)
  BY <1>1, DeclareFrame DEF Frame
<1>4. Frame(i, k) /\ Shape(k)
  BY <1>2, <1>3, BranchFrame, FrameTrans DEF Frame
<1>5. Frame(i, emit_label_declaration(k, l))
  BY <1>4, DeclareFrame, FrameTrans
<1> QED
  BY <1>1, <1>2, <1>5, CompareCalm DEF Alike

LEMMA BinaryAlike ==
    ASSUME NEW i, Shape(i), NEW d, NEW x, NEW y, NEW o PROVE Alike(i, emit_binary_operation(i, d, x, y, o))
<1>1. PICK r : r = (x.kind = "reg" /\ y.kind = "reg")
  OBVIOUS
<1>2. PICK j : j = IF r THEN i ELSE emit_operand_load(emit_operand_load(i, x, o, TRUE), y, o, FALSE)
  OBVIOUS
<1>3. PICK l : l = Label(IF r THEN "END" ELSE "ELSE", i.label_num)
  OBVIOUS
<1>4. Same(i, j) /\ Shape(j)
  <2>1. PICK k : k = emit_operand_load(i, x, o, TRUE)
    OBVIOUS
  <2>2. Same(i, k)
    BY <2>1, OperandSame
  <2>3. Same(i, emit_operand_load(k, y, o, FALSE))
    BY <2>2, OperandKept
  <2> QED
    BY <1>2, <2>1, <2>3, SameSelf DEF Same, Frame
<1>5. Alike(i, j) /\ Alike(i, Fail(i))
  BY <1>4, SameAlike, FailSame
<1>6. l[1] \in Numbered /\ l[2] = j.label_num
  BY <1>3, <1>4 DEF Label, Numbered, Same, Labels
<1>7. Alike(i, emit_label_declaration(emit_conditional_branch(TakeLabel(j), d, l), l))
  BY <1>4, <1>5, <1>6, CompareAlike, AlikeTrans
<1>8. emit_binary_operation(i, d, x, y, o) =
        CASE d.kind # "reg" -> Fail(i)
          [] d.kind = "reg" /\ o # "cmp" -> j
          [] d.kind = "reg" /\ o = "cmp" -> emit_label_declaration(emit_conditional_branch(TakeLabel(j), d, l), l)
  BY <1>1, <1>2, <1>3 DEF emit_binary_operation
<1>9. CASE d.kind # "reg"
  BY <1>5, <1>8, <1>9
<1>10. CASE d.kind = "reg" /\ o # "cmp"
  BY <1>5, <1>8, <1>10
<1>11. CASE d.kind = "reg" /\ o = "cmp"
  BY <1>7, <1>8, <1>11
<1> QED
  BY <1>9, <1>10, <1>11

LEMMA BinaryKept ==
    ASSUME NEW b, Shape(b), NEW i, Alike(b, i), NEW d, NEW x, NEW y, NEW o
    PROVE  Alike(b, emit_binary_operation(i, d, x, y, o))
  BY BinaryAlike, AlikeTrans DEF Alike, Frame

LEMMA LibraryKept ==
    ASSUME NEW b, Shape(b), NEW i, Alike(b, i), NEW l, Library(l)
    PROVE  Alike(b, emit_unconditional_branch(i, l)) /\ Alike(b, [i EXCEPT !.used = @ \cup {l}])
<1>1. PICK j : j = [i EXCEPT !.used = @ \cup {l}]
  OBVIOUS
<1>2. Shape(i)
  BY DEF Alike, Frame
<1>3. /\ Shape(j) /\ j.label_num = i.label_num
      /\ j.ok = i.ok /\ j.function = i.function /\ j.label_break = i.label_break
      /\ j.label_continue = i.label_continue /\ j.case_label_num = i.case_label_num
      /\ j.declared = i.declared /\ j.used = i.used \cup {l} /\ j.twice = i.twice
  BY <1>1, <1>2 DEF Shape
<1>4. Frame(i, j)
  BY <1>1, <1>2, <1>3 DEF Frame, Shape
<1>5. Calm(i, j)
  BY <1>2, <1>3 DEF Calm, Shape
<1>6. Alike(b, j)
  BY <1>4, <1>5, AlikeTrans DEF Alike
<1> QED
  BY <1>1, <1>6 DEF emit_unconditional_branch

LEMMA CallKept ==
    ASSUME NEW b, Shape(b), NEW i, Alike(b, i), NEW x PROVE Alike(b, [i EXCEPT !.call = x])
<1>1. Shape(i) => Same(i, [i EXCEPT !.call = x])
  BY DEF Same, Frame, Labels, Shape
<1> QED
  BY <1>1, KeptBy

-----------------------------------------------------------------------------
(* What is left to do *)

Ends == Loops \cup {"endswitch"}
Saves == {"endcompound", "endswitch", "endfor", "for"}

\* Work that is left only inside a function
InFunction == Ends \cup Saves \cup
    {"stmt", "then", "else", "endif", "leave", "docondition", "switch", "test", "bodies", "label", "return", "endfunction"}

\* Work with labels of its own
Owners == Ends \cup
    {"endlogical", "ternaryelse", "endternary", "else", "endif", "docondition", "label", "bodies"}

Typed(item) ==
    /\ item.do = "printarg" => item.x.s \in DOMAIN Strings /\ item.x.i \in 1..Strings[item.x.s]
    /\ item.do = "printend" => item.x \in DOMAIN Strings
    /\ item.do \in {"argument", "jal"} =>
          /\ {"f", "saves"} \subseteq DOMAIN item.x /\ item.x.f \in DOMAIN Functions
          /\ \E S : item.x.saves \in Seq(S)
    /\ item.do = "switch" => item.x \in Bodies
    /\ item.do = "test" => item.x \in {"case", "default", "stmt"}
    /\ item.do = "bodies" => item.x.body \in Bodies /\ item.x.first \in Nat
    /\ item.do \in Ends => item.x.break = Label("END", item.x.num)
    /\ item.do = "endlogical" => item.x.lbl[1] = "END"

\* Work that neither owns a label nor saves anything
Plain(item) == Typed(item) /\ item.do \notin InFunction \cup Owners \cup {"unit"}
PlainSeq(items) == (\E S : items \in Seq(S)) /\ \A k \in DOMAIN items : Plain(items[k])

\* The unit is last, before it the end of the function that is emitted, and what may
\* jump out of a switch is before its end.
Work(function, t) ==
    /\ \E S : t \in Seq(S)
    /\ \A k \in DOMAIN t : Typed(t[k])
    /\ \A k \in DOMAIN t : t[k].do = "unit" <=> k = Len(t)
    /\ \A k \in DOMAIN t : t[k].do = "endfunction" => k = Len(t) - 1
    /\ function = 0 => \A k \in DOMAIN t : t[k].do \notin InFunction
    /\ function # 0 => \E k \in DOMAIN t : t[k].do = "endfunction"
    /\ \A k \in DOMAIN t :
          t[k].do \in {"switch", "test", "bodies"} => \E m \in DOMAIN t : m > k /\ t[m].do = "endswitch"

\* A step replaces the first item.
LEMMA Stepped ==
    ASSUME NEW S, NEW R, NEW t \in Seq(S), t # <<>>, NEW items \in Seq(R), NEW u, u = items \o Tail(t)
    PROVE  /\ u \in Seq(R \cup S) /\ Len(u) = Len(items) + Len(t) - 1 /\ DOMAIN u = 1..Len(u)
           /\ Len(t) \in Nat \ {0} /\ Len(items) \in Nat /\ Len(u) \in Nat
           /\ DOMAIN t = 1..Len(t) /\ DOMAIN items = 1..Len(items)
           /\ Head(t) = t[1]
           /\ \A k \in 1..Len(items) : k \in DOMAIN u /\ u[k] = items[k]
           /\ \A k \in 2..Len(t) : Len(items) + k - 1 \in DOMAIN u /\ u[Len(items) + k - 1] = t[k]
           /\ \A k \in DOMAIN u : k \in 1..Len(items) \/ (k - Len(items) + 1 \in 2..Len(t) /\ u[k] = t[k - Len(items) + 1])
<1>1. PICK s : s = Tail(t)
  OBVIOUS
<1>2. /\ s \in Seq(S) /\ Len(s) = Len(t) - 1 /\ Len(t) \in Nat \ {0} /\ Len(items) \in Nat
      /\ \A k \in 1..Len(s) : s[k] = t[k + 1]
      /\ Head(t) = t[1]
  BY <1>1
<1>3. items \in Seq(R \cup S) /\ s \in Seq(R \cup S)
  BY <1>2
<1>4. /\ u \in Seq(R \cup S) /\ Len(u) = Len(items) + Len(s)
      /\ \A k \in 1..Len(items) : u[k] = items[k]
      /\ \A k \in 1..Len(s) : u[Len(items) + k] = s[k]
  BY <1>1, <1>3
<1>5. DOMAIN u = 1..Len(u) /\ DOMAIN t = 1..Len(t) /\ DOMAIN items = 1..Len(items)
  BY <1>4
<1>6. ASSUME NEW k \in 2..Len(t)
      PROVE  Len(items) + k - 1 \in DOMAIN u /\ u[Len(items) + k - 1] = t[k]
  <2>1. PICK m : m = k - 1
    OBVIOUS
  <2>2. m \in 1..Len(s) /\ Len(items) + k - 1 = Len(items) + m /\ m + 1 = k
    BY <2>1, <1>2, <1>6
  <2>3. u[Len(items) + m] = s[m] /\ s[m] = t[m + 1]
    BY <2>2, <1>4, <1>2
  <2> QED
    BY <2>2, <2>3, <1>2, <1>4, <1>5
<1>7. ASSUME NEW k \in DOMAIN u, k \notin 1..Len(items)
      PROVE  k - Len(items) + 1 \in 2..Len(t) /\ u[k] = t[k - Len(items) + 1]
  <2>1. PICK m : m = k - Len(items) + 1
    OBVIOUS
  <2>2. m \in 2..Len(t) /\ Len(items) + m - 1 = k
    BY <2>1, <1>7, <1>2, <1>4, <1>5
  <2> QED
    BY <2>1, <2>2, <1>6
<1> QED
  BY <1>2, <1>4, <1>5, <1>6, <1>7

LEMMA WorkStep ==
    ASSUME NEW f, NEW t, Work(f, t), t # <<>>, Head(t).do \notin {"unit", "endfunction"},
           NEW R, NEW items \in Seq(R),
           \A k \in DOMAIN items :
              /\ Typed(items[k]) /\ items[k].do \notin {"unit", "endfunction"}
              /\ items[k].do \in InFunction => f # 0
              /\ items[k].do \in {"switch", "test", "bodies"} =>
                    \/ Head(t).do \in {"switch", "test", "bodies"}
                    \/ \E m \in DOMAIN items : m > k /\ items[m].do = "endswitch"
    PROVE  Work(f, items \o Tail(t))
<1>1. PICK S : t \in Seq(S)
  BY DEF Work
<1>2. PICK u : u = items \o Tail(t)
  OBVIOUS
<1>3. PICK n : n = Len(items)
  OBVIOUS
<1>4. /\ u \in Seq(R \cup S) /\ Len(u) = n + Len(t) - 1 /\ DOMAIN u = 1..Len(u)
      /\ Len(t) \in Nat \ {0} /\ n \in Nat /\ Len(u) \in Nat
      /\ DOMAIN t = 1..Len(t) /\ DOMAIN items = 1..n
      /\ Head(t) = t[1]
      /\ \A k \in 1..n : k \in DOMAIN u /\ u[k] = items[k]
      /\ \A k \in 2..Len(t) : n + k - 1 \in DOMAIN u /\ u[n + k - 1] = t[k]
      /\ \A k \in DOMAIN u : k \in 1..n \/ (k - n + 1 \in 2..Len(t) /\ u[k] = t[k - n + 1])
  BY <1>1, <1>2, <1>3, Stepped
<1>5. Len(t) # 1
  <2>1. 1 \in DOMAIN t /\ t[1].do # "unit"
    BY <1>4
  <2>2. t[1].do = "unit" <=> 1 = Len(t)
    BY <2>1 DEF Work
  <2> QED
    BY <2>1, <2>2
<1>6. \A k \in DOMAIN u : Typed(u[k])
  BY <1>4 DEF Work
<1>7. ASSUME NEW k \in DOMAIN u PROVE /\ u[k].do = "unit" <=> k = Len(u)
                                      /\ u[k].do = "endfunction" => k = Len(u) - 1
  <2>1. CASE k \in 1..n
    BY <2>1, <1>4, <1>5
  <2>2. CASE k - n + 1 \in 2..Len(t) /\ u[k] = t[k - n + 1]
    <3>1. PICK m : m = k - n + 1
      OBVIOUS
    <3>2. m \in DOMAIN t /\ u[k] = t[m] /\ m \in Int /\ k \in Int
      BY <3>1, <2>2, <1>4
    <3>3. (m = Len(t) <=> k = Len(u)) /\ (m = Len(t) - 1 <=> k = Len(u) - 1)
      BY <3>1, <3>2, <1>4
    <3>4. (t[m].do = "unit" <=> m = Len(t)) /\ (t[m].do = "endfunction" => m = Len(t) - 1)
      BY <3>2 DEF Work
    <3> QED
      BY <3>2, <3>3, <3>4
  <2> QED
    BY <2>1, <2>2, <1>4
<1>8. f = 0 => \A k \in DOMAIN u : u[k].do \notin InFunction
  BY <1>4 DEF Work
<1>9. f # 0 => \E k \in DOMAIN u : u[k].do = "endfunction"
  <2> SUFFICES ASSUME f # 0 PROVE \E k \in DOMAIN u : u[k].do = "endfunction"
    OBVIOUS
  <2>1. PICK k \in 2..Len(t) : t[k].do = "endfunction"
    BY <1>4 DEF Work
  <2>2. n + k - 1 \in DOMAIN u /\ u[n + k - 1] = t[k]
    BY <2>1, <1>4
  <2> QED
    BY <2>1, <2>2
<1>10. ASSUME NEW k \in DOMAIN u, u[k].do \in {"switch", "test", "bodies"}
       PROVE  \E m \in DOMAIN u : m > k /\ u[m].do = "endswitch"
  <2>1. CASE k \in 1..n /\ \E m \in DOMAIN items : m > k /\ items[m].do = "endswitch"
    BY <2>1, <1>4
  <2>2. CASE k \in 1..n /\ Head(t).do \in {"switch", "test", "bodies"}
    <3>0. 1 \in DOMAIN t /\ t[1].do \in {"switch", "test", "bodies"}
      BY <2>2, <1>4
    <3>1. PICK m \in DOMAIN t : m > 1 /\ t[m].do = "endswitch"
      BY <3>0 DEF Work
    <3>2. n + m - 1 \in DOMAIN u /\ u[n + m - 1] = t[m] /\ n + m - 1 > k
      BY <3>1, <2>2, <1>4
    <3> QED
      BY <3>1, <3>2
  <2>3. CASE k - n + 1 \in 2..Len(t) /\ u[k] = t[k - n + 1]
    <3>1. PICK m : m = k - n + 1
      OBVIOUS
    <3>2. m \in DOMAIN t /\ u[k] = t[m]
      BY <3>1, <2>3, <1>4
    <3>3. PICK p \in DOMAIN t : p > m /\ t[p].do = "endswitch"
      BY <3>2, <1>10 DEF Work
    <3>4. n + p - 1 \in DOMAIN u /\ u[n + p - 1] = t[p] /\ n + p - 1 > k
      BY <3>1, <3>2, <3>3, <2>3, <1>4
    <3> QED
      BY <3>3, <3>4
  <2> QED
    BY <2>1, <2>2, <2>3, <1>4, <1>10
<1>11. \E Z : u \in Seq(Z)
  BY <1>4
<1>12. Work(f, u)
  BY ONLY <1>6, <1>7, <1>8, <1>9, <1>10, <1>11 DEF Work
<1> QED
  BY <1>2, <1>12

LEMMA UnitLast ==
    ASSUME NEW f, NEW t, Work(f, t), t # <<>>, Head(t).do = "unit"
    PROVE  f = 0 /\ Len(t) = 1 /\ Tail(t) = <<>>
<1>1. PICK S : t \in Seq(S)
  BY DEF Work
<1>2. t[1].do = "unit" /\ Len(t) \in Nat \ {0} /\ DOMAIN t = 1..Len(t)
  BY <1>1
<1>3. Len(t) = 1
  BY <1>2 DEF Work
<1>4. Tail(t) = <<>>
  <2>1. PICK u : u = Tail(t)
    OBVIOUS
  <2>2. u \in Seq(S) /\ Len(u) = 0
    BY <1>1, <1>2, <1>3, <2>1
  <2> QED
    BY <2>1, <2>2, EmptySeq
<1>5. ASSUME NEW k \in DOMAIN t, t[k].do = "endfunction" PROVE FALSE
  BY <1>2, <1>3, <1>5 DEF Work
<1> QED
  BY <1>3, <1>4, <1>5 DEF Work

LEMMA FunctionLast ==
    ASSUME NEW f, NEW t, Work(f, t), t # <<>>, Head(t).do = "endfunction"
    PROVE  f # 0 /\ Work(0, Tail(t)) /\ Tail(t) # <<>>
<1>1. PICK S : t \in Seq(S)
  BY DEF Work
<1>2. /\ t[1].do = "endfunction" /\ Len(t) \in Nat \ {0} /\ DOMAIN t = 1..Len(t)
      /\ Tail(t) \in Seq(S) /\ Len(Tail(t)) = Len(t) - 1
      /\ \A k \in 1..Len(t) - 1 : Tail(t)[k] = t[k + 1]
  BY <1>1
<1>3. Len(t) = 2
  BY <1>2 DEF Work
<1>4. t[2].do = "unit" /\ Typed(t[2])
  BY <1>2, <1>3 DEF Work
<1>5. PICK u : u = Tail(t)
  OBVIOUS
<1>6. u \in Seq(S) /\ Len(u) = 1 /\ DOMAIN u = 1..1 /\ u[1] = t[2]
  <2>1. u \in Seq(S) /\ Len(u) = 1
    BY <1>2, <1>3, <1>5
  <2>2. \A k \in 1..1 : u[k] = t[k + 1]
    <3>1. Len(t) - 1 = 1
      BY <1>3
    <3> QED
      BY ONLY <3>1, <1>2, <1>5
  <2>3. 1 \in 1..1 /\ 1 + 1 = 2
    OBVIOUS
  <2>4. u[1] = t[2]
    BY ONLY <2>2, <2>3
  <2> QED
    BY <2>1, <2>4
<1>7. \A k \in DOMAIN u : k = 1
  BY <1>6
<1>8. Work(0, u)
  BY <1>4, <1>6, <1>7 DEF Work, InFunction, Ends, Loops, Saves
<1>9. f # 0
  BY <1>2 DEF Work, InFunction
<1> QED
  BY <1>5, <1>6, <1>8, <1>9

LEMMA WorkFunction ==
    ASSUME NEW f, f # 0, NEW u, NEW a, NEW b, a.do = "endfunction", b.do = "unit",
           u = <<a, b>> \/ u = <<Stmt, Stmt, a, b>>
    PROVE  Work(f, u)
<1>1. Typed(Stmt) /\ Stmt.do = "stmt"
  BY DEF Stmt, Item, Typed, Ends, Loops
<1>2. Typed(a) /\ Typed(b)
  BY DEF Typed, Ends, Loops
<1>3. CASE u = <<a, b>>
  <2>1. u \in Seq({a, b}) /\ DOMAIN u = 1..2 /\ Len(u) = 2 /\ u[1] = a /\ u[2] = b
    BY <1>3
  <2>2. \A k \in DOMAIN u : k = 1 \/ k = 2
    BY <2>1
  <2> QED
    BY <1>2, <2>1, <2>2 DEF Work
<1>4. CASE u = <<Stmt, Stmt, a, b>>
  <2>1. /\ u \in Seq({Stmt, a, b}) /\ DOMAIN u = 1..4 /\ Len(u) = 4
        /\ u[1] = Stmt /\ u[2] = Stmt /\ u[3] = a /\ u[4] = b
    BY <1>4
  <2>2. \A k \in DOMAIN u : k = 1 \/ k = 2 \/ k = 3 \/ k = 4
    BY <2>1
  <2> QED
    BY <1>1, <1>2, <2>1, <2>2 DEF Work
<1> QED
  BY <1>3, <1>4

LEMMA WorkGlobal == Work(0, <<Item("declare"), Item("unit")>>)
<1>1. PICK u : u = <<Item("declare"), Item("unit")>>
  OBVIOUS
<1>2. /\ u \in Seq({Item("declare"), Item("unit")}) /\ DOMAIN u = 1..2 /\ Len(u) = 2
      /\ u[1] = Item("declare") /\ u[2] = Item("unit")
  BY <1>1
<1>3. \A k \in DOMAIN u : k = 1 \/ k = 2
  BY <1>2
<1>4. /\ Item("declare").do = "declare" /\ Item("unit").do = "unit"
      /\ Typed(Item("declare")) /\ Typed(Item("unit"))
  BY DEF Item, Typed, Ends, Loops
<1>5. Work(0, u)
  BY <1>2, <1>3, <1>4 DEF Work, InFunction, Ends, Loops, Saves
<1> QED
  BY <1>1, <1>5

LEMMA WorkNone == Work(0, <<>>)
<1>1. <<>> \in Seq({}) /\ DOMAIN (<<>>) = {}
  OBVIOUS
<1> QED
  BY <1>1 DEF Work

-----------------------------------------------------------------------------
(* Sequences of plain work *)

LEMMA PlainTuples ==
    ASSUME NEW a, NEW b, NEW c, NEW d
    PROVE  /\ PlainSeq(<<>>)
           /\ Plain(a) => PlainSeq(<<a>>)
           /\ Plain(a) /\ Plain(b) => PlainSeq(<<a, b>>)
           /\ Plain(a) /\ Plain(b) /\ Plain(c) => PlainSeq(<<a, b, c>>)
           /\ Plain(a) /\ Plain(b) /\ Plain(c) /\ Plain(d) => PlainSeq(<<a, b, c, d>>)
<1>1. PlainSeq(<<>>)
  <2>1. <<>> \in Seq({})
    OBVIOUS
  <2> QED
    BY <2>1 DEF PlainSeq
<1>2. Plain(a) => PlainSeq(<<a>>)
  <2>1. PICK s : s = <<a>>
    OBVIOUS
  <2>2. s \in Seq({a}) /\ DOMAIN s = 1..1 /\ s[1] = a
    BY <2>1
  <2>3. \A k \in 1..1 : k = 1
    OBVIOUS
  <2> QED
    BY <2>1, <2>2, <2>3 DEF PlainSeq
<1>3. Plain(a) /\ Plain(b) => PlainSeq(<<a, b>>)
  <2>1. PICK s : s = <<a, b>>
    OBVIOUS
  <2>2. s \in Seq({a, b}) /\ DOMAIN s = 1..2 /\ s[1] = a /\ s[2] = b
    BY <2>1
  <2>3. \A k \in 1..2 : k = 1 \/ k = 2
    OBVIOUS
  <2> QED
    BY <2>1, <2>2, <2>3 DEF PlainSeq
<1>4. Plain(a) /\ Plain(b) /\ Plain(c) => PlainSeq(<<a, b, c>>)
  <2>1. PICK s : s = <<a, b, c>>
    OBVIOUS
  <2>2. s \in Seq({a, b, c}) /\ DOMAIN s = 1..3 /\ s[1] = a /\ s[2] = b /\ s[3] = c
    BY <2>1
  <2>3. \A k \in 1..3 : k = 1 \/ k = 2 \/ k = 3
    OBVIOUS
  <2> QED
    BY <2>1, <2>2, <2>3 DEF PlainSeq
<1>5. Plain(a) /\ Plain(b) /\ Plain(c) /\ Plain(d) => PlainSeq(<<a, b, c, d>>)
  <2>1. PICK s : s = <<a, b, c, d>>
    OBVIOUS
  <2>2. s \in Seq({a, b, c, d}) /\ DOMAIN s = 1..4 /\ s[1] = a /\ s[2] = b /\ s[3] = c /\ s[4] = d
    BY <2>1
  <2>3. \A k \in 1..4 : k = 1 \/ k = 2 \/ k = 3 \/ k = 4
    OBVIOUS
  <2> QED
    BY <2>1, <2>2, <2>3 DEF PlainSeq
<1> QED
  BY <1>1, <1>2, <1>3, <1>4, <1>5

LEMMA Parts ==
    ASSUME NEW S, NEW R, NEW s \in Seq(S), NEW r \in Seq(R), NEW k \in DOMAIN (s \o r)
    PROVE  /\ s \o r \in Seq(S \cup R)
           /\ (\E n \in DOMAIN s : (s \o r)[k] = s[n]) \/ \E n \in DOMAIN r : (s \o r)[k] = r[n]
<1>1. s \in Seq(S \cup R) /\ r \in Seq(S \cup R)
  OBVIOUS
<1>2. /\ s \o r \in Seq(S \cup R) /\ Len(s) \in Nat /\ Len(r) \in Nat /\ Len(s \o r) = Len(s) + Len(r)
      /\ DOMAIN s = 1..Len(s) /\ DOMAIN r = 1..Len(r) /\ k \in 1..Len(s) + Len(r)
  BY <1>1
<1>3. CASE k <= Len(s)
  BY <1>1, <1>2, <1>3
<1>4. CASE k > Len(s)
  <2>1. PICK n : n = k - Len(s)
    OBVIOUS
  <2>2. n \in 1..Len(r) /\ k = Len(s) + n
    BY <2>1, <1>2, <1>4
  <2>3. (s \o r)[k] = r[n]
    BY <2>2, <1>1, <1>2, <1>4
  <2> QED
    BY <1>2, <2>2, <2>3
<1> QED
  BY <1>2, <1>3, <1>4

LEMMA PlainConcat == ASSUME NEW s, NEW r, PlainSeq(s), PlainSeq(r) PROVE PlainSeq(s \o r)
<1>1. PICK S : s \in Seq(S)
  BY DEF PlainSeq
<1>2. PICK R : r \in Seq(R)
  BY DEF PlainSeq
<1>3. \A k \in DOMAIN (s \o r) : Plain((s \o r)[k])
  BY <1>1, <1>2, Parts DEF PlainSeq
<1>4. s \o r \in Seq(S \cup R)
  BY <1>1, <1>2
<1> QED
  BY <1>3, <1>4 DEF PlainSeq

\* What a step does that owns no label
Smooth ==
    /\ Calm(enc, enc') /\ todo # <<>> /\ enc.ok
    /\ Head(todo).do \notin Owners \cup Saves \cup {"unit", "endfunction", "test"}
    /\ \E items :
          /\ \E R : items \in Seq(R)
          /\ \A k \in DOMAIN items :
                \/ Plain(items[k])
                \/ items[k].do \in {"stmt", "then", "return"} /\ Head(todo).do = "stmt"
          /\ todo' = items \o Tail(todo)

\* and does not move the frame
Quiet == Smooth /\ Frame(enc, enc')

LEMMA SmoothWork == ASSUME Work(enc.function, todo), Smooth PROVE Work(enc'.function, todo')
<1>1. PICK items :
          /\ \E R : items \in Seq(R)
          /\ \A k \in DOMAIN items :
                \/ Plain(items[k])
                \/ items[k].do \in {"stmt", "then", "return"} /\ Head(todo).do = "stmt"
          /\ todo' = items \o Tail(todo)
  BY DEF Smooth
<1>2. PICK R : items \in Seq(R)
  BY <1>1
<1>3. enc'.function = enc.function
  BY DEF Smooth, Calm
<1>4. Head(todo).do = "stmt" => enc.function # 0
  <2>1. PICK S : todo \in Seq(S)
    BY DEF Work
  <2>2. 1 \in DOMAIN todo /\ Head(todo) = todo[1]
    BY <2>1 DEF Smooth
  <2> QED
    BY <2>2 DEF Work, InFunction
<1>5. ASSUME NEW k \in DOMAIN items
      PROVE  /\ Typed(items[k]) /\ items[k].do \notin {"unit", "endfunction"}
             /\ items[k].do \in InFunction => enc.function # 0
             /\ items[k].do \notin {"switch", "test", "bodies"}
  <2>1. CASE Plain(items[k])
    BY <2>1 DEF Plain, InFunction
  <2>2. CASE items[k].do \in {"stmt", "then", "return"} /\ Head(todo).do = "stmt"
    BY <2>2, <1>4 DEF Typed, Ends, Loops
  <2> QED
    BY <2>1, <2>2, <1>1
<1> QED
  BY <1>1, <1>2, <1>3, <1>5, WorkStep DEF Smooth

-----------------------------------------------------------------------------
(* The frame *)

OnFp(visible) == {v \in visible : v.reg = R_FP /\ v.kind = "stack"}
End(v) == v.n + mips_type_size[v.type]

\* Locals are in the first scope bytes below $fp or parameters, and apart.
Laid(visible, scope) ==
    /\ \A v \in OnFp(visible) :
          /\ v.n \in Int /\ v.type \in Types
          /\ (-scope <= v.n /\ End(v) <= 0) \/ v.n >= WORD_LENGTH + FUNC_DISPL_PRESERVED
    /\ \A v, w \in OnFp(visible) : v # w => End(v) <= w.n \/ End(w) <= v.n

\* What is saved for the end of a block was laid out in a smaller frame, the outermost
\* in the smallest.
FrameInv(e, t) ==
    /\ Shape(e)
    /\ e.scope_displ \in Nat /\ e.max_displ \in Nat /\ e.scope_displ <= e.max_displ
    /\ Laid(e.visible, e.scope_displ)
    /\ e.function = 0 => OnFp(e.visible) = {}
    /\ \A k \in DOMAIN t : t[k].do = "endfunction" => OnFp(t[k].x) = {}
    /\ \A k \in DOMAIN t : t[k].do \in Saves =>
          t[k].x.displ \in Nat /\ t[k].x.displ <= e.scope_displ /\ Laid(t[k].x.visible, t[k].x.displ)
    /\ \A k, m \in DOMAIN t :
          t[k].do \in Saves /\ t[m].do \in Saves /\ k < m => t[m].x.displ <= t[k].x.displ

LEMMA Sizes == \A type \in Types : mips_type_size[type] \in {4, 8} /\ (type \notin Structures => mips_type_size[type] = 4)
  BY DEF mips_type_size, Types, Structures, WORD_LENGTH

LEMMA LaidWider == ASSUME NEW v, NEW a \in Nat, NEW b \in Nat, a <= b, Laid(v, a) PROVE Laid(v, b)
<1>1. \A x \in OnFp(v) : x.n \in Int /\ x.type \in Types /\ (-a <= x.n => -b <= x.n)
  BY DEF Laid
<1> QED
  BY <1>1 DEF Laid

LEMMA LaidNone == ASSUME NEW v, NEW a, OnFp(v) = {} PROVE Laid(v, a)
  BY DEF Laid

\* A variable is added at the end of the frame.
LEMMA LaidAdded ==
    ASSUME NEW v, NEW a \in Nat, Laid(v, a), NEW type \in Types,
           NEW x, x.n = -(a + mips_type_size[type]), x.type = type
    PROVE  Laid(v \cup {x}, a + mips_type_size[type])
<1>1. PICK size : size = mips_type_size[type]
  OBVIOUS
<1>2. size \in {4, 8}
  BY <1>1, Sizes
<1>3. x.n \in Int /\ x.type \in Types /\ -(a + size) <= x.n /\ End(x) <= 0 /\ End(x) = -a
  BY <1>1, <1>2 DEF End
<1>4. Laid(v, a + size)
  BY <1>2, LaidWider
<1>5. \A w \in OnFp(v) : w.n \in Int /\ (-a <= w.n \/ w.n >= WORD_LENGTH + FUNC_DISPL_PRESERVED)
  BY DEF Laid
<1>6. \A w \in OnFp(v) : End(x) <= w.n
  BY <1>3, <1>5 DEF WORD_LENGTH, FUNC_DISPL_PRESERVED
<1>7. \A w \in OnFp(v \cup {x}) : w \in OnFp(v) \/ w = x
  BY DEF OnFp
<1>8. ASSUME NEW w \in OnFp(v \cup {x})
      PROVE  /\ w.n \in Int /\ w.type \in Types
             /\ (-(a + size) <= w.n /\ End(w) <= 0) \/ w.n >= WORD_LENGTH + FUNC_DISPL_PRESERVED
  BY <1>3, <1>4, <1>7 DEF Laid
<1>9. ASSUME NEW w \in OnFp(v \cup {x}), NEW y \in OnFp(v \cup {x}), w # y
      PROVE  End(w) <= y.n \/ End(y) <= w.n
  BY <1>4, <1>6, <1>7, <1>9 DEF Laid
<1> QED
  BY <1>1, <1>8, <1>9 DEF Laid

\* The frame stays as it is and what is left to do saves nothing new.
LEMMA FrameStep ==
    ASSUME NEW e, NEW d, NEW t, FrameInv(e, t), Frame(e, d), NEW S, t \in Seq(S), t # <<>>,
           NEW R, NEW items \in Seq(R), \A k \in DOMAIN items : items[k].do \notin Saves \cup {"endfunction"}
    PROVE  FrameInv(d, items \o Tail(t))
<1>1. PICK u : u = items \o Tail(t)
  OBVIOUS
<1>2. PICK n : n = Len(items)
  OBVIOUS
<1>3. /\ DOMAIN t = 1..Len(t) /\ DOMAIN items = 1..n /\ n \in Nat /\ Len(t) \in Nat
      /\ DOMAIN u \subseteq Nat
      /\ \A k \in 1..n : u[k] = items[k]
      /\ \A k \in DOMAIN u : k \in 1..n \/ (k - n + 1 \in 2..Len(t) /\ u[k] = t[k - n + 1])
  BY <1>1, <1>2, Stepped
<1>4. \A k \in DOMAIN u : u[k].do \in Saves \cup {"endfunction"} => k - n + 1 \in DOMAIN t /\ u[k] = t[k - n + 1]
  BY <1>3
<1>5. /\ \A k \in DOMAIN u : u[k].do = "endfunction" => OnFp(u[k].x) = {}
      /\ \A k \in DOMAIN u : u[k].do \in Saves =>
            u[k].x.displ \in Nat /\ u[k].x.displ <= e.scope_displ /\ Laid(u[k].x.visible, u[k].x.displ)
  BY <1>4 DEF FrameInv
<1>6. ASSUME NEW k \in DOMAIN u, NEW m \in DOMAIN u, u[k].do \in Saves, u[m].do \in Saves, k < m
      PROVE  u[m].x.displ <= u[k].x.displ
  <2>1. PICK p, q : p = k - n + 1 /\ q = m - n + 1
    OBVIOUS
  <2>2. p \in DOMAIN t /\ q \in DOMAIN t /\ u[k] = t[p] /\ u[m] = t[q]
    BY <2>1, <1>4, <1>6
  <2>3. p < q
    BY <2>1, <1>3, <1>6
  <2> QED
    BY <2>2, <2>3, <1>6 DEF FrameInv
<1>7. FrameInv(d, u)
  BY <1>5, <1>6 DEF FrameInv, Frame
<1> QED
  BY <1>1, <1>7

\* The head is replaced by one item that saves the frame as it is, or what the head has saved.
LEMMA FrameSave ==
    ASSUME NEW e, NEW d, NEW t, FrameInv(e, t), Frame(e, d), NEW S, t \in Seq(S), t # <<>>,
           NEW item, item.do \in Saves,
           \/ item.x.displ = e.scope_displ /\ item.x.visible = e.visible
           \/ Head(t).do \in Saves /\ item.x.displ = Head(t).x.displ /\ item.x.visible = Head(t).x.visible,
           NEW R, NEW items \in Seq(R), Len(items) > 0, items[Len(items)] = item,
           \A k \in DOMAIN items : k # Len(items) => items[k].do \notin Saves \cup {"endfunction"}
    PROVE  FrameInv(d, items \o Tail(t))
<1>1. PICK u : u = items \o Tail(t)
  OBVIOUS
<1>2. PICK n : n = Len(items)
  OBVIOUS
<1>3. /\ DOMAIN t = 1..Len(t) /\ DOMAIN items = 1..n /\ n \in Nat /\ Len(t) \in Nat /\ n > 0
      /\ DOMAIN u \subseteq Nat /\ Head(t) = t[1] /\ 1 \in DOMAIN t
      /\ \A k \in 1..n : u[k] = items[k]
      /\ \A k \in DOMAIN u : k \in 1..n \/ (k - n + 1 \in 2..Len(t) /\ u[k] = t[k - n + 1])
  BY <1>1, <1>2, Stepped
<1>4. \A k \in DOMAIN u : u[k].do \in Saves \cup {"endfunction"} =>
        (k = n /\ u[k] = item) \/ (k > n /\ k - n + 1 \in DOMAIN t /\ u[k] = t[k - n + 1])
  BY <1>2, <1>3
<1>5. item.x.displ \in Nat /\ item.x.displ <= e.scope_displ /\ Laid(item.x.visible, item.x.displ)
  BY <1>3 DEF FrameInv
<1>6. /\ \A k \in DOMAIN u : u[k].do = "endfunction" => OnFp(u[k].x) = {}
      /\ \A k \in DOMAIN u : u[k].do \in Saves =>
            u[k].x.displ \in Nat /\ u[k].x.displ <= e.scope_displ /\ Laid(u[k].x.visible, u[k].x.displ)
  BY <1>4, <1>5 DEF FrameInv, Saves
<1>7. ASSUME NEW k \in DOMAIN u, NEW m \in DOMAIN u, u[k].do \in Saves, u[m].do \in Saves, k < m
      PROVE  u[m].x.displ <= u[k].x.displ
  <2>1. PICK p, q : p = k - n + 1 /\ q = m - n + 1
    OBVIOUS
  <2>2. k \in Int /\ m \in Int /\ k >= n /\ m > n
    BY <1>3, <1>4, <1>7
  <2>3. q \in DOMAIN t /\ u[m] = t[q] /\ q > 1
    BY <2>1, <2>2, <1>3, <1>4, <1>7
  <2>4. CASE k > n
    <3>1. p \in DOMAIN t /\ u[k] = t[p] /\ p < q
      BY <2>1, <2>2, <2>4, <1>3, <1>4, <1>7
    <3> QED
      BY <3>1, <2>3, <1>7 DEF FrameInv
  <2>5. CASE k = n
    <3>1. u[k] = item
      BY <2>5, <1>2, <1>3
    <3>2. t[q].do \in Saves /\ t[q].x.displ <= e.scope_displ
      BY <2>3, <1>7 DEF FrameInv
    <3>3. Head(t).do \in Saves => t[q].x.displ <= Head(t).x.displ
      BY <2>3, <3>2, <1>3 DEF FrameInv
    <3> QED
      BY <3>1, <3>2, <3>3, <2>3
  <2> QED
    BY <2>2, <2>4, <2>5, <1>3
<1>8. FrameInv(d, u)
  BY <1>6, <1>7 DEF FrameInv, Frame
<1> QED
  BY <1>1, <1>8

\* The end of a block: its variables are gone, and its displacement may be taken back.
LEMMA FrameRestore ==
    ASSUME NEW e, NEW d, NEW t, FrameInv(e, t), NEW S, t \in Seq(S), t # <<>>, Head(t).do \in Saves,
           e.function # 0, Shape(d), d.function = e.function, d.visible = Head(t).x.visible,
           d.scope_displ \in {e.scope_displ, Head(t).x.displ}, d.max_displ = e.max_displ
    PROVE  FrameInv(d, Tail(t))
<1>1. PICK u : u = Tail(t)
  OBVIOUS
<1>2. /\ DOMAIN t = 1..Len(t) /\ Len(t) \in Nat \ {0} /\ Head(t) = t[1] /\ 1 \in DOMAIN t
      /\ DOMAIN u = 1..Len(t) - 1
      /\ \A k \in 1..Len(t) - 1 : u[k] = t[k + 1]
  BY <1>1
<1>3. \A k \in DOMAIN u : k \in Int /\ k + 1 \in DOMAIN t /\ k + 1 > 1 /\ u[k] = t[k + 1]
  BY <1>2
<1>4. /\ Head(t).x.displ \in Nat /\ Head(t).x.displ <= e.scope_displ /\ Laid(Head(t).x.visible, Head(t).x.displ)
      /\ \A k \in DOMAIN t : k > 1 /\ t[k].do \in Saves => t[k].x.displ <= Head(t).x.displ
  BY <1>2 DEF FrameInv
<1>5. /\ d.scope_displ \in Nat /\ d.scope_displ <= e.scope_displ /\ Head(t).x.displ <= d.scope_displ
      /\ Laid(d.visible, d.scope_displ)
  BY <1>4, LaidWider DEF FrameInv
<1>6. ASSUME NEW k \in DOMAIN u, u[k].do \in Saves
      PROVE  u[k].x.displ \in Nat /\ u[k].x.displ <= d.scope_displ /\ Laid(u[k].x.visible, u[k].x.displ)
  <2>1. PICK m : m = k + 1
    OBVIOUS
  <2>2. m \in DOMAIN t /\ u[k] = t[m] /\ m > 1 /\ t[m].do \in Saves
    BY <2>1, <1>3, <1>6
  <2>3. t[m].x.displ \in Nat /\ Laid(t[m].x.visible, t[m].x.displ) /\ t[m].x.displ <= Head(t).x.displ
    BY <2>2, <1>4 DEF FrameInv
  <2> QED
    BY <2>2, <2>3, <1>4, <1>5
<1>7. ASSUME NEW k \in DOMAIN u, NEW m \in DOMAIN u, u[k].do \in Saves, u[m].do \in Saves, k < m
      PROVE  u[m].x.displ <= u[k].x.displ
  <2>1. PICK p, q : p = k + 1 /\ q = m + 1
    OBVIOUS
  <2>2. p \in DOMAIN t /\ q \in DOMAIN t /\ u[k] = t[p] /\ u[m] = t[q] /\ p < q
    BY <2>1, <1>3, <1>7
  <2> QED
    BY <2>2, <1>7 DEF FrameInv
<1>8. \A k \in DOMAIN u : u[k].do = "endfunction" => OnFp(u[k].x) = {}
  BY <1>3 DEF FrameInv
<1>9. d.max_displ \in Nat /\ d.scope_displ <= d.max_displ
  BY <1>5 DEF FrameInv
<1>10. FrameInv(d, u)
  BY <1>5, <1>6, <1>7, <1>8, <1>9 DEF FrameInv
<1> QED
  BY <1>1, <1>10

LEMMA QuietFrame == ASSUME Work(enc.function, todo), FrameInv(enc, todo), Quiet PROVE FrameInv(enc', todo')
<1>1. PICK items :
          /\ \E R : items \in Seq(R)
          /\ \A k \in DOMAIN items :
                \/ Plain(items[k])
                \/ items[k].do \in {"stmt", "then", "return"} /\ Head(todo).do = "stmt"
          /\ todo' = items \o Tail(todo)
  BY DEF Quiet, Smooth
<1>2. PICK R : items \in Seq(R)
  BY <1>1
<1>3. \A k \in DOMAIN items : items[k].do \notin Saves \cup {"endfunction"}
  BY <1>1 DEF Plain, InFunction, Saves
<1>4. PICK S : todo \in Seq(S)
  BY DEF Work
<1> QED
  BY <1>1, <1>2, <1>3, <1>4, FrameStep DEF Quiet, Smooth

-----------------------------------------------------------------------------
(* Steps that neither own a label nor move the frame *)

LEMMA QuietBy ==
    ASSUME Alike(enc, enc'), todo # <<>>, enc.ok, NEW w, Head(todo).do = w,
           w \notin InFunction \cup Owners \cup {"unit"}, NEW items, PlainSeq(items), todo' = items \o Tail(todo)
    PROVE  Quiet
  BY DEF Quiet, Smooth, Alike, PlainSeq, InFunction

LEMMA DoneQuiet ==
    ASSUME Alike(enc, enc'), todo # <<>>, enc.ok, NEW w, Head(todo).do = w,
           w \notin InFunction \cup Owners \cup {"unit"}, Done
    PROVE  Quiet
  BY PlainTuples, QuietBy DEF Done, Then

LEMMA PlainItem ==
    ASSUME NEW w, w \notin InFunction \cup Owners \cup {"unit", "printarg", "printend", "argument", "jal"}, NEW x
    PROVE  Plain(Item(w)) /\ Plain(With(w, x))
  BY DEF Plain, Typed, Item, With, InFunction, Owners, Ends

LEMMA PlainRequests ==
    ASSUME NEW t, NEW v
    PROVE  Plain(Expr(t)) /\ Plain(Void(t)) /\ Plain(Lvalue(t)) /\ Plain([Expr(t) EXCEPT !.lv = v])
  BY DEF Plain, Typed, Expr, Void, Lvalue, InFunction, Owners, Ends, Loops, Saves

LEMMA Kinds ==
    /\ InFunction \cup Owners \cup {"unit"} =
        {"endwhile", "enddo", "endfor", "endswitch", "endcompound", "for", "stmt", "then", "else", "endif", "leave",
         "docondition", "switch", "test", "bodies", "label", "return", "endfunction", "endlogical", "ternaryelse",
         "endternary", "unit"}
    /\ InFunction \cup Owners \cup {"unit", "printarg", "printend", "argument", "jal"} =
        {"endwhile", "enddo", "endfor", "endswitch", "endcompound", "for", "stmt", "then", "else", "endif", "leave",
         "docondition", "switch", "test", "bodies", "label", "return", "endfunction", "endlogical", "ternaryelse",
         "endternary", "unit", "printarg", "printend", "argument", "jal"}
  BY DEF InFunction, Owners, Ends, Loops, Saves

LEMMA QuietEither ==
    ASSUME Alike(enc, enc'), todo # <<>>, enc.ok, NEW w, Head(todo).do = w,
           w \notin InFunction \cup Owners \cup {"unit"}, NEW items, PlainSeq(items), NEW others, PlainSeq(others),
           todo' = items \o Tail(todo) \/ todo' = others \o Tail(todo)
    PROVE  Quiet
  BY QuietBy

LEMMA MemberQuiet == ASSUME Shape(enc), NEW arrow, BeginMember(arrow) PROVE Quiet
<1>1. Alike(enc, enc') /\ todo # <<>> /\ enc.ok /\ Head(todo).do = "lvalue"
  BY AlikeSelf DEF BeginMember, BeginLvalue, Do
<1>2. PICK s, x : todo' = <<IF arrow THEN Expr("ptr") ELSE Lvalue(s), With("member", x)>> \o Tail(todo)
  BY DEF BeginMember, Then
<1>3. PICK r : r = (IF arrow THEN Expr("ptr") ELSE Lvalue(s))
  OBVIOUS
<1>4. Plain(r) /\ Plain(With("member", x))
  BY <1>3, PlainItem, PlainRequests, Kinds
<1>5. todo' = <<r, With("member", x)>> \o Tail(todo)
  BY <1>2, <1>3
<1>6. PlainSeq(<<r, With("member", x)>>)
  BY <1>4, PlainTuples
<1> QED
  BY <1>1, <1>5, <1>6, QuietBy, Kinds

\* Lvalues own no label.
LEMMA LvaluesQuiet ==
    ASSUME Shape(enc), Work(enc.function, todo), NextLvalue
    PROVE  Quiet
<1>0. Alike(enc, enc)
  BY AlikeSelf
<1>1. CASE LvalueExpression
  <2>1. Alike(enc, enc')
    BY <1>1, <1>0 DEF LvalueExpression
  <2>2. todo # <<>> /\ enc.ok /\ Head(todo).do = "expr"
    BY <1>1 DEF LvalueExpression, Do
  <2>3. todo' = (<<Lvalue(T), Item("load")>>) \o Tail(todo)
    BY <1>1 DEF LvalueExpression, Then, Done
  <2>4. PlainSeq(<<Lvalue(T), Item("load")>>)
    BY PlainTuples, PlainItem, PlainRequests, Kinds
  <2> QED
    BY <2>1, <2>2, <2>3, <2>4, QuietBy, Kinds
<1>2. CASE LoadLvalue
  <2>1. Alike(enc, enc')
    BY <1>2, <1>0, SettledKept, LoadKept DEF LoadLvalue
  <2>2. todo # <<>> /\ enc.ok /\ Head(todo).do = "load" /\ Done
    BY <1>2 DEF LoadLvalue, Do
  <2> QED
    BY <2>1, <2>2, DoneQuiet, Kinds
<1>3. CASE ForgetLvalue
  <2>1. Alike(enc, enc')
    BY <1>3, <1>0 DEF ForgetLvalue
  <2>2. todo # <<>> /\ enc.ok /\ Head(todo).do = "forget" /\ Done
    BY <1>3 DEF ForgetLvalue, Do
  <2> QED
    BY <2>1, <2>2, DoneQuiet, Kinds
<1>4. CASE emit_identifier_lvalue
  <2>1. Alike(enc, enc')
    BY <1>4, <1>0 DEF emit_identifier_lvalue
  <2>2. todo # <<>> /\ enc.ok /\ Head(todo).do = "lvalue" /\ Done
    BY <1>4 DEF emit_identifier_lvalue, Do, BeginLvalue
  <2> QED
    BY <2>1, <2>2, DoneQuiet, Kinds
<1>5. CASE BeginSubscript
  <2>1. Alike(enc, enc')
    BY <1>5, <1>0 DEF BeginSubscript
  <2>2. todo # <<>> /\ enc.ok /\ Head(todo).do = "lvalue"
    BY <1>5 DEF BeginSubscript, Do, BeginLvalue
  <2>3. todo' = (<<Expr("array"), Expr("int"), Item("subscript")>>) \o Tail(todo)
    BY <1>5 DEF BeginSubscript, Then, Done
  <2>4. PlainSeq(<<Expr("array"), Expr("int"), Item("subscript")>>)
    BY PlainTuples, PlainItem, PlainRequests, Kinds
  <2> QED
    BY <2>1, <2>2, <2>3, <2>4, QuietBy, Kinds
<1>6. CASE emit_subscript_lvalue
  <2>1. Alike(enc, enc')
    BY <1>6, <1>0, GetRegisterKept, FreeValueKept, BinaryKept DEF emit_subscript_lvalue
  <2>2. todo # <<>> /\ enc.ok /\ Head(todo).do = "subscript" /\ Done
    BY <1>6 DEF emit_subscript_lvalue, Do
  <2> QED
    BY <2>1, <2>2, DoneQuiet, Kinds
<1>7. ASSUME NEW arrow \in BOOLEAN, BeginMember(arrow) PROVE Quiet
  BY <1>7, MemberQuiet
<1>8. CASE emit_member_lvalue
  <2>1. Alike(enc, enc')
    BY <1>8, <1>0 DEF emit_member_lvalue
  <2>2. todo # <<>> /\ enc.ok /\ Head(todo).do = "member" /\ Done
    BY <1>8 DEF emit_member_lvalue, Do
  <2> QED
    BY <2>1, <2>2, DoneQuiet, Kinds
<1>9. CASE BeginIndirection
  <2>1. Alike(enc, enc')
    BY <1>9, <1>0 DEF BeginIndirection
  <2>2. todo # <<>> /\ enc.ok /\ Head(todo).do = "lvalue"
    BY <1>9 DEF BeginIndirection, Do, BeginLvalue
  <2>3. todo' = (<<Expr("ptr"), With("indirection", T)>>) \o Tail(todo)
    BY <1>9 DEF BeginIndirection, Then, Done
  <2>4. PlainSeq(<<Expr("ptr"), With("indirection", T)>>)
    BY PlainTuples, PlainItem, PlainRequests, Kinds
  <2> QED
    BY <2>1, <2>2, <2>3, <2>4, QuietBy, Kinds
<1>10. CASE emit_indirection_lvalue
  <2>1. Alike(enc, enc')
    BY <1>10, <1>0 DEF emit_indirection_lvalue
  <2>2. todo # <<>> /\ enc.ok /\ Head(todo).do = "indirection" /\ Done
    BY <1>10 DEF emit_indirection_lvalue, Do
  <2> QED
    BY <2>1, <2>2, DoneQuiet, Kinds
<1> QED
  BY <1>1, <1>2, <1>3, <1>4, <1>5, <1>6, <1>7, <1>8, <1>9, <1>10 DEF NextLvalue

LEMMA HeadTyped ==
    ASSUME NEW f, NEW t, Work(f, t), t # <<>> PROVE 1 \in DOMAIN t /\ Head(t) = t[1] /\ Typed(Head(t))
<1>1. PICK S : t \in Seq(S)
  BY DEF Work
<1>2. 1 \in DOMAIN t /\ Head(t) = t[1]
  BY <1>1
<1> QED
  BY <1>2 DEF Work

LEMMA FunctionSeq ==
    ASSUME NEW n \in Nat, NEW s, s = [k \in 1..n |-> s[k]], \A k \in 1..n : Plain(s[k])
    PROVE  PlainSeq(s)
<1>1. PICK S : S = {s[k] : k \in 1..n}
  OBVIOUS
<1>2. s \in [1..n -> S]
  BY <1>1
<1>3. s \in Seq(S) /\ DOMAIN s = 1..n
  BY <1>2
<1> QED
  BY <1>3 DEF PlainSeq

\* An expression before every piece that is printed
LEMMA PrintfQuiet == ASSUME Shape(enc), BeginPrintf PROVE Quiet
<1>1. PICK s \in DOMAIN Strings, types \in {<<"int", "int">>, <<"float", "int">>} :
         todo' = ([i \in 1..2 * Strings[s] |->
                    IF i % 2 = 1 THEN Expr(types[(i + 1) \div 2]) ELSE With("printarg", [s |-> s, i |-> i \div 2])]
                  \o <<With("printend", s)>>) \o Tail(todo)
  BY DEF BeginPrintf, Then
<1>2. PICK n : n = 2 * Strings[s]
  OBVIOUS
<1>3. n \in Nat /\ Strings[s] \in Nat
  BY <1>2, MipsAssumption
<1>4. PICK p : p = [i \in 1..n |-> IF i % 2 = 1 THEN Expr(types[(i + 1) \div 2]) ELSE With("printarg", [s |-> s, i |-> i \div 2])]
  OBVIOUS
<1>5. p = [i \in 1..n |-> p[i]]
  BY <1>4
<1>6. ASSUME NEW i \in 1..n PROVE Plain(p[i])
  <2>1. CASE i % 2 = 1
    <3>1. p[i] = Expr(types[(i + 1) \div 2])
      BY <2>1, <1>4, <1>6
    <3> QED
      BY <3>1, PlainRequests
  <2>2. CASE i % 2 # 1
    <3>1. p[i] = With("printarg", [s |-> s, i |-> i \div 2])
      BY <2>2, <1>4, <1>6
    <3>2. i \div 2 \in 1..Strings[s]
      BY <2>2, <1>2, <1>3, <1>6
    <3>3. PICK x : x = [s |-> s, i |-> i \div 2]
      OBVIOUS
    <3>4. p[i].do = "printarg" /\ p[i].x.s \in DOMAIN Strings /\ p[i].x.i \in 1..Strings[p[i].x.s]
      BY <3>1, <3>2, <3>3 DEF With
    <3> QED
      BY <3>4, Kinds DEF Plain, Typed, Ends, Loops, InFunction, Saves, Owners
  <2> QED
    BY <2>1, <2>2
<1>7. PlainSeq(p)
  BY <1>3, <1>5, <1>6, FunctionSeq
<1>8. Plain(With("printend", s))
  BY DEF Plain, Typed, With, Ends, Loops, InFunction, Saves, Owners
<1>9. PlainSeq(p \o <<With("printend", s)>>)
  BY <1>7, <1>8, PlainTuples, PlainConcat
<1>10. todo' = (p \o <<With("printend", s)>>) \o Tail(todo)
  BY <1>1, <1>2, <1>4
<1>11. Alike(enc, enc') /\ todo # <<>> /\ enc.ok /\ Head(todo).do = "expr"
  BY AlikeSelf DEF BeginPrintf, Begin, Do
<1> QED
  BY <1>9, <1>10, <1>11, QuietBy, Kinds

LEMMA StringKnown ==
    ASSUME NEW s \in DOMAIN Strings, NEW i \in 0..Strings[s] PROVE Library(StringLabel(s, i))
<1>1. PICK p : p = <<s, i>>
  OBVIOUS
<1>2. p \in Pieces /\ p[1] = s /\ p[2] = i
  BY <1>1 DEF Pieces
<1> QED
  BY <1>2 DEF Library

LEMMA PrintArgumentQuiet == ASSUME Shape(enc), Work(enc.function, todo), PrintArgument PROVE Quiet
<1>1. todo # <<>> /\ enc.ok /\ Head(todo).do = "printarg" /\ Done
  BY DEF PrintArgument, Do
<1>2. Library(StringLabel(X.s, X.i - 1))
  <2>1. X.s \in DOMAIN Strings /\ X.i \in 1..Strings[X.s]
    BY <1>1, HeadTyped DEF Typed, X
  <2>2. X.i - 1 \in 0..Strings[X.s]
    BY <2>1, MipsAssumption
  <2> QED
    BY <2>1, <2>2, StringKnown
<1> DEFINE e1 == Loaded(enc, First)
           arg == IF First.kind = "const" THEN Reg(e1.got, First.type) ELSE First
           words == IF arg.type = "float" THEN 2 ELSE 1
           s0 == Stack(R_SP, 0 * WORD_LENGTH, arg.type)
           s1 == Stack(R_SP, 1 * WORD_LENGTH, arg.type)
           s2 == [Stack(R_SP, 2 * WORD_LENGTH, arg.type) EXCEPT !.type = "int"]
           e2 == emit_store_of_rvalue(Move(e1, -words), s0, Reg(Argument("int", 0), "int"))
           e3 == emit_store_of_rvalue(e2, s1, Reg(Argument("int", 1), "int"))
           e4 == IF arg.type = "float" THEN emit_store_of_rvalue(e3, s2, Reg(Argument("int", 2), "int")) ELSE e3
           e5 == emit_unconditional_branch(e4, StringLabel(X.s, X.i - 1))
           e6 == IF arg.type = "float" THEN get_register(e5) ELSE e5
           e7 == Restore(Restore(free_rvalue(e6, arg), 0, arg.type), WORD_LENGTH, arg.type)
<1>13. enc' = Settled(Move(e7, words))
  BY DEF PrintArgument
<1> HIDE DEF e1, arg, words, s0, s1, s2, e2, e3, e4, e5, e6, e7
<1>3. e1 = Loaded(enc, First)
  BY DEF e1
<1>4. arg = IF First.kind = "const" THEN Reg(e1.got, First.type) ELSE First
  BY DEF arg
<1>5. words = IF arg.type = "float" THEN 2 ELSE 1
  BY DEF words
<1>6. s0 = Stack(R_SP, 0 * WORD_LENGTH, arg.type) /\ s1 = Stack(R_SP, 1 * WORD_LENGTH, arg.type) /\ s2 = [Stack(R_SP, 2 * WORD_LENGTH, arg.type) EXCEPT !.type = "int"]
  BY DEF s0, s1, s2
<1>7. e2 = emit_store_of_rvalue(Move(e1, -words), s0, Reg(Argument("int", 0), "int"))
  BY DEF e2
<1>8. e3 = emit_store_of_rvalue(e2, s1, Reg(Argument("int", 1), "int"))
  BY DEF e3
<1>9. e4 = IF arg.type = "float" THEN emit_store_of_rvalue(e3, s2, Reg(Argument("int", 2), "int")) ELSE e3
  BY DEF e4
<1>10. e5 = emit_unconditional_branch(e4, StringLabel(X.s, X.i - 1))
  BY DEF e5
<1>11. e6 = IF arg.type = "float" THEN get_register(e5) ELSE e5
  BY DEF e6
<1>12. e7 = Restore(Restore(free_rvalue(e6, arg), 0, arg.type), WORD_LENGTH, arg.type)
  BY DEF e7
<1>14. Alike(enc, e1)
  BY <1>3, AlikeSelf, LoadedKept
<1>15. Alike(enc, e2)
  BY <1>7, <1>14, MoveKept, StoreKept
<1>16. Alike(enc, e4)
  BY <1>8, <1>9, <1>15, StoreKept
<1>17. Alike(enc, e5)
  BY <1>2, <1>10, <1>16, LibraryKept
<1>18. Alike(enc, e6)
  BY <1>11, <1>17, GetRegisterKept
<1>19. Alike(enc, e7)
  BY <1>12, <1>18, FreeValueKept, RestoreKept
<1>20. Alike(enc, enc')
  BY <1>13, <1>19, MoveKept, SettledKept
<1> QED
  BY <1>1, <1>20, DoneQuiet, Kinds

LEMMA EndPrintfQuiet == ASSUME Shape(enc), Work(enc.function, todo), EndPrintf PROVE Quiet
<1>1. todo # <<>> /\ enc.ok /\ Head(todo).do = "printend" /\ Done
  BY DEF EndPrintf, Do
<1>2. Library(StringLabel(X, Strings[X]))
  <2>1. X \in DOMAIN Strings
    BY <1>1, HeadTyped DEF Typed, X
  <2>2. Strings[X] \in 0..Strings[X]
    BY <2>1, MipsAssumption
  <2> QED
    BY <2>1, <2>2, StringKnown
<1>3. PICK e1 : e1 = emit_store_of_rvalue(enc, Stack(R_SP, 0, "int"), Reg(Argument("int", 0), "int"))
  OBVIOUS
<1>4. PICK e2 : e2 = emit_unconditional_branch(e1, StringLabel(X, Strings[X]))
  OBVIOUS
<1>5. enc' = Restore(e2, 0, "int")
  BY <1>3, <1>4 DEF EndPrintf
<1>6. Alike(enc, e1)
  BY <1>3, AlikeSelf, StoreKept
<1>7. Alike(enc, e2)
  BY <1>2, <1>4, <1>6, LibraryKept
<1>8. Alike(enc, enc')
  BY <1>5, <1>7, RestoreKept
<1> QED
  BY <1>1, <1>8, DoneQuiet, Kinds

LEMMA PlainCall ==
    ASSUME NEW w, w \in {"argument", "jal"}, NEW x, {"f", "saves"} \subseteq DOMAIN x, x.f \in DOMAIN Functions,
           NEW S, x.saves \in Seq(S)
    PROVE  Plain(With(w, x))
  BY DEF Plain, Typed, With, Ends, Loops, InFunction, Saves, Owners

LEMMA CallQuiet == ASSUME Shape(enc), BeginCall PROVE Quiet
<1>1. PICK f \in DOMAIN Functions :
         /\ enc' = Move(enc, -displ_for_parameters(Len(Functions[f])))
         /\ Then(IF Functions[f] = <<>> THEN <<With("jal", Call(f))>>
                 ELSE <<Expr(Functions[f][1]), With("argument", Call(f))>>)
  BY DEF BeginCall
<1>2. Alike(enc, enc')
  BY <1>1, AlikeSelf, MoveKept
<1>3. todo # <<>> /\ enc.ok /\ Head(todo).do = "expr"
  BY DEF BeginCall, Begin, Do
<1>4. Plain(With("jal", Call(f))) /\ Plain(With("argument", Call(f)))
  <2>1. PICK x : x = Call(f)
    OBVIOUS
  <2>2. {"f", "saves"} \subseteq DOMAIN x /\ x.f = f /\ x.saves = <<>>
    BY <2>1 DEF Call
  <2>3. x.saves \in Seq({})
    BY <2>2
  <2> QED
    BY <2>1, <2>2, <2>3, PlainCall
<1>5. PlainSeq(<<With("jal", Call(f))>>) /\ PlainSeq(<<Expr(Functions[f][1]), With("argument", Call(f))>>)
  BY <1>4, PlainTuples, PlainRequests
<1>6. \/ todo' = <<With("jal", Call(f))>> \o Tail(todo)
      \/ todo' = <<Expr(Functions[f][1]), With("argument", Call(f))>> \o Tail(todo)
  BY <1>1 DEF Then
<1> QED
  BY <1>2, <1>3, <1>5, <1>6, QuietEither, Kinds

LEMMA ArgumentQuiet == ASSUME Shape(enc), Work(enc.function, todo), PassArgument PROVE Quiet
<1>1. todo # <<>> /\ enc.ok /\ Head(todo).do = "argument"
  BY DEF PassArgument, Do
<1>2. {"f", "saves"} \subseteq DOMAIN X /\ X.f \in DOMAIN Functions /\ \E S : X.saves \in Seq(S)
  BY <1>1, HeadTyped DEF Typed, X
<1>3. PICK S : X.saves \in Seq(S)
  BY <1>2
<1> DEFINE e1 == Loaded(enc, First)
           arg == IF First.kind = "const" THEN Reg(e1.got, First.type) ELSE First
           count == IF arg.type = "float" THEN X.floats ELSE X.ints
           in_register == (count < ARG_REG_AMOUNT)
           reg == Argument(arg.type, count)
           addr == X.done * WORD_LENGTH
           e2 == emit_store_of_rvalue(e1, Stack(R_SP, addr, arg.type), IF in_register THEN Reg(reg, arg.type) ELSE arg)
           call == [X EXCEPT !.done = @ + 1,
                           !.ints = IF arg.type = "float" THEN @ ELSE @ + 1,
                           !.floats = IF arg.type = "float" THEN @ + FloatStep ELSE @,
                           !.places = Append(@, IF in_register THEN reg ELSE <<"stack", addr>>),
                           !.saves = IF in_register THEN Append(@, [addr |-> addr, reg |-> reg, type |-> arg.type]) ELSE @]
<1>11. /\ enc' = Settled(free_rvalue(e2, arg))
       /\ Then(IF call.done = Len(Functions[X.f]) THEN <<With("jal", call)>>
               ELSE <<Expr(Functions[X.f][call.done + 1]), With("argument", call)>>)
  BY DEF PassArgument
<1> HIDE DEF e1, arg, count, in_register, reg, addr, e2, call
<1>4. e1 = Loaded(enc, First)
  BY DEF e1
<1>5. arg = IF First.kind = "const" THEN Reg(e1.got, First.type) ELSE First
  BY DEF arg
<1>6. count = IF arg.type = "float" THEN X.floats ELSE X.ints
  BY DEF count
<1>7. in_register = (count < ARG_REG_AMOUNT)
  BY DEF in_register
<1>8. reg = Argument(arg.type, count) /\ addr = X.done * WORD_LENGTH
  BY DEF reg, addr
<1>9. e2 = emit_store_of_rvalue(e1, Stack(R_SP, addr, arg.type), IF in_register THEN Reg(reg, arg.type) ELSE arg)
  BY DEF e2
<1>10. call = [X EXCEPT !.done = @ + 1,
                           !.ints = IF arg.type = "float" THEN @ ELSE @ + 1,
                           !.floats = IF arg.type = "float" THEN @ + FloatStep ELSE @,
                           !.places = Append(@, IF in_register THEN reg ELSE <<"stack", addr>>),
                           !.saves = IF in_register THEN Append(@, [addr |-> addr, reg |-> reg, type |-> arg.type]) ELSE @]
  BY DEF call
<1>12. Alike(enc, e1)
  BY <1>4, AlikeSelf, LoadedKept
<1>13. Alike(enc, e2)
  BY <1>9, <1>12, StoreKept
<1>14. Alike(enc, enc')
  BY <1>11, <1>13, FreeValueKept, SettledKept
<1>15. PICK save : save = [addr |-> addr, reg |-> reg, type |-> arg.type]
  OBVIOUS
<1>16. call.saves \in Seq(S \cup {save}) /\ DOMAIN call = DOMAIN X /\ call.f = X.f
  <2>1. DOMAIN call = DOMAIN X /\ call.f = X.f
    BY <1>2, <1>10
  <2>2. call.saves = IF in_register THEN Append(X.saves, save) ELSE X.saves
    BY <1>2, <1>10, <1>15
  <2>3. X.saves \in Seq(S \cup {save})
    BY <1>3
  <2>4. Append(X.saves, save) \in Seq(S \cup {save})
    BY <2>3
  <2> QED
    BY <2>1, <2>2, <2>3, <2>4
<1>17. Plain(With("jal", call)) /\ Plain(With("argument", call))
  BY <1>2, <1>16, PlainCall
<1>18. PlainSeq(<<With("jal", call)>>) /\ PlainSeq(<<Expr(Functions[X.f][call.done + 1]), With("argument", call)>>)
  BY <1>17, PlainTuples, PlainRequests
<1>19. \/ todo' = <<With("jal", call)>> \o Tail(todo)
       \/ todo' = <<Expr(Functions[X.f][call.done + 1]), With("argument", call)>> \o Tail(todo)
  BY <1>11 DEF Then
<1> QED
  BY <1>1, <1>14, <1>18, <1>19, QuietEither, Kinds

LEMMA JumpQuiet == ASSUME Shape(enc), Work(enc.function, todo), JumpToFunction PROVE Quiet
<1>1. todo # <<>> /\ enc.ok /\ Head(todo).do = "jal"
  BY DEF JumpToFunction, Do
<1>2. X.f \in DOMAIN Functions /\ \E S : X.saves \in Seq(S)
  BY <1>1, HeadTyped DEF Typed, X
<1>3. Library(Label("FUNC", X.f))
  BY <1>2 DEF Library
<1>4. Alike(enc, enc')
  BY <1>3, AlikeSelf, LibraryKept DEF JumpToFunction
<1>5. PICK S : X.saves \in Seq(S)
  BY <1>2
<1>6. PICK n : n = Len(X.saves)
  OBVIOUS
<1>7. n \in Nat /\ DOMAIN X.saves = 1..n
  BY <1>5, <1>6
<1>8. PICK s : s = [k \in 1..n |-> With("restore", X.saves[k])]
  OBVIOUS
<1>9. s = [k \in 1..n |-> s[k]] /\ \A k \in 1..n : Plain(s[k])
  BY <1>8, PlainItem, Kinds
<1>10. PlainSeq(s)
  BY <1>7, <1>9, FunctionSeq
<1>11. PlainSeq(<<With("endcall", X)>>)
  BY PlainTuples, PlainItem, Kinds
<1>12. PlainSeq(s \o <<With("endcall", X)>>)
  BY <1>10, <1>11, PlainConcat
<1>13. todo' = (s \o <<With("endcall", X)>>) \o Tail(todo)
  BY <1>7, <1>8 DEF JumpToFunction, Then
<1> QED
  BY <1>1, <1>4, <1>12, <1>13, QuietBy, Kinds

LEMMA VoidQuiet == ASSUME Shape(enc), emit_void_expression PROVE Quiet
<1>1. Alike(enc, enc') /\ todo # <<>> /\ enc.ok /\ Head(todo).do = "void"
  BY AlikeSelf DEF emit_void_expression, Do
<1>2. PICK e : e = [Expr(T) EXCEPT !.lv = FALSE]
  OBVIOUS
<1>3. todo' = <<Lvalue(T), Item("forget")>> \o Tail(todo) \/ todo' = <<e, Item("drop")>> \o Tail(todo)
  BY <1>2 DEF emit_void_expression, Then
<1>4. Plain(e)
  BY <1>2, PlainRequests
<1>5. PlainSeq(<<Lvalue(T), Item("forget")>>) /\ PlainSeq(<<e, Item("drop")>>)
  BY <1>4, PlainTuples, PlainRequests, PlainItem, Kinds
<1> QED
  BY <1>1, <1>3, <1>5, QuietEither, Kinds

LEMMA StructAssignmentQuiet == ASSUME Shape(enc), emit_struct_assignment PROVE Quiet
<1>1. todo # <<>> /\ enc.ok /\ Head(todo).do = "struct"
  BY DEF emit_struct_assignment, Do
<1>2. PICK x : x = <<1, First>>
  OBVIOUS
<1>3. \/ enc' = enc /\ todo' = <<With("init", x), Item("load")>> \o Tail(todo)
      \/ (\E v : enc' = CopyWords(enc, First, v)) /\ todo' = <<Item("load")>> \o Tail(todo)
  BY <1>2 DEF emit_struct_assignment, Then
<1>4. Alike(enc, enc')
  BY <1>3, AlikeSelf, CopyWordsKept
<1>5. PlainSeq(<<With("init", x), Item("load")>>) /\ PlainSeq(<<Item("load")>>)
  BY PlainTuples, PlainItem, Kinds
<1> QED
  BY <1>1, <1>3, <1>4, <1>5, QuietEither, Kinds

LEMMA StructureInitQuiet == ASSUME Shape(enc), emit_structure_init PROVE Quiet
<1>1. todo # <<>> /\ enc.ok /\ Head(todo).do = "init"
  BY DEF emit_structure_init, Do
<1>2. PICK type : type = Members[X[2].type][X[1]]
  OBVIOUS
<1>3. PICK displ : displ = IF X[1] = 1 THEN 0 ELSE mips_type_size[Members[X[2].type][1]]
  OBVIOUS
<1>4. PICK member : member = Stack(X[2].reg, X[2].n + displ, type)
  OBVIOUS
<1>5. PICK rest, inner : rest = With("init", <<X[1] + 1, X[2]>>) /\ inner = With("init", <<1, member>>)
  OBVIOUS
<1>6. \/ enc' = enc /\ todo' = <<inner, rest>> \o Tail(todo)
      \/ (\E v : enc' = emit_load_of_lvalue(CopyWords(enc, member, v), member)) /\ todo' = <<rest>> \o Tail(todo)
      \/ enc' = enc /\ todo' = <<Expr(type), With("store", member), rest>> \o Tail(todo)
  BY <1>2, <1>3, <1>4, <1>5 DEF emit_structure_init, Then
<1>7. Alike(enc, enc')
  BY <1>6, AlikeSelf, CopyWordsKept, LoadKept
<1>8. Plain(rest) /\ Plain(inner)
  BY <1>5, PlainItem, Kinds
<1>9. PlainSeq(<<inner, rest>>) /\ PlainSeq(<<rest>>) /\ PlainSeq(<<Expr(type), With("store", member), rest>>)
  BY <1>8, PlainTuples, PlainRequests, PlainItem, Kinds
<1>10. CASE todo' = <<rest>> \o Tail(todo)
  BY <1>1, <1>7, <1>9, <1>10, QuietBy, Kinds
<1>11. CASE todo' # <<rest>> \o Tail(todo)
  BY <1>1, <1>6, <1>7, <1>9, <1>11, QuietEither, Kinds
<1> QED
  BY <1>10, <1>11

LEMMA IncrementQuiet == ASSUME Shape(enc), emit_increment_expression PROVE Quiet
<1>1. todo # <<>> /\ enc.ok /\ Head(todo).do = "increment" /\ Done
  BY DEF emit_increment_expression, Do
<1>2. PICK e1 : e1 = emit_load_of_lvalue(enc, First)
  OBVIOUS
<1>3. PICK e2 : e2 = IF X THEN e1 ELSE get_register(e1)
  OBVIOUS
<1>4. PICK value, result : value = ValueOf(enc, First) /\ result = IF X THEN value ELSE Reg(e2.got, "int")
  OBVIOUS
<1>5. PICK e3 : e3 = emit_binary_operation(e2, result, value, Const(1, "int"), "imm")
  OBVIOUS
<1>6. PICK e4 : e4 = emit_store_of_rvalue(e3, First, result)
  OBVIOUS
<1>7. enc' = IF X THEN e4 ELSE free_rvalue(e4, result)
  BY <1>2, <1>3, <1>4, <1>5, <1>6 DEF emit_increment_expression
<1>8. Alike(enc, e2)
  BY <1>2, <1>3, AlikeSelf, LoadKept, GetRegisterKept
<1>9. Alike(enc, e4)
  BY <1>5, <1>6, <1>8, BinaryKept, StoreKept
<1>10. Alike(enc, enc')
  BY <1>7, <1>9, FreeValueKept
<1> QED
  BY <1>1, <1>10, DoneQuiet, Kinds

LEMMA AssignmentQuiet == ASSUME Shape(enc), emit_assignment_expression PROVE Quiet
<1>1. todo # <<>> /\ enc.ok /\ Head(todo).do = "assignment" /\ Done
  BY DEF emit_assignment_expression, Do
<1>2. CASE X = "assign"
  <2>1. Alike(enc, enc')
    BY <1>2, AlikeSelf, StoreKept DEF emit_assignment_expression
  <2> QED
    BY <1>1, <2>1, DoneQuiet, Kinds
<1>3. CASE X # "assign"
  <2>1. PICK e1 : e1 = emit_load_of_lvalue(enc, Second)
    OBVIOUS
  <2>2. PICK target : target = ValueOf(enc, Second)
    OBVIOUS
  <2>3. PICK e2 : e2 = free_rvalue(emit_binary_operation(e1, target, target, First, X), First)
    OBVIOUS
  <2>4. enc' = emit_store_of_rvalue(e2, Second, target)
    BY <1>3, <2>1, <2>2, <2>3 DEF emit_assignment_expression
  <2>5. Alike(enc, e2)
    BY <2>1, <2>3, AlikeSelf, LoadKept, BinaryKept, FreeValueKept
  <2>6. Alike(enc, enc')
    BY <2>4, <2>5, StoreKept
  <2> QED
    BY <1>1, <2>6, DoneQuiet, Kinds
<1> QED
  BY <1>2, <1>3

\* Expressions own no label but for those that branch.
LEMMA ExpressionsQuiet ==
    ASSUME Shape(enc), Work(enc.function, todo), NextExpression
    PROVE  Quiet \/ LogicalBranch \/ EndLogical \/ TernaryBranch \/ TernaryElse \/ EndTernary
<1>0. Alike(enc, enc)
  BY AlikeSelf
<1>1. CASE emit_void_expression
  BY <1>1, VoidQuiet
<1>2. CASE DropValue
  <2>1. Alike(enc, enc')
    BY <1>2, <1>0, FreeValueKept DEF DropValue
  <2>2. todo # <<>> /\ enc.ok /\ Head(todo).do = "drop" /\ Done
    BY <1>2 DEF DropValue, Do
  <2> QED
    BY <2>1, <2>2, DoneQuiet, Kinds
<1>3. CASE emit_literal_expression
  <2>1. Alike(enc, enc')
    BY <1>3, <1>0 DEF emit_literal_expression
  <2>2. todo # <<>> /\ enc.ok /\ Head(todo).do = "expr" /\ Done
    BY <1>3 DEF emit_literal_expression, Do, Begin
  <2> QED
    BY <2>1, <2>2, DoneQuiet, Kinds
<1>4. CASE BeginPrintf
  BY <1>4, PrintfQuiet
<1>5. CASE PrintArgument
  BY <1>5, PrintArgumentQuiet
<1>6. CASE EndPrintf
  BY <1>6, EndPrintfQuiet
<1>7. CASE BuiltinCall
  <2>1. Alike(enc, enc')
    BY <1>7, <1>0 DEF BuiltinCall
  <2>2. todo # <<>> /\ enc.ok /\ Head(todo).do = "expr" /\ Done
    BY <1>7 DEF BuiltinCall, Do, Begin
  <2> QED
    BY <2>1, <2>2, DoneQuiet, Kinds
<1>8. CASE BeginCall
  BY <1>8, CallQuiet
<1>9. CASE PassArgument
  BY <1>9, ArgumentQuiet
<1>10. CASE JumpToFunction
  BY <1>10, JumpQuiet
<1>11. CASE RestoreArgument
  <2>1. Alike(enc, enc')
    BY <1>11, <1>0, RestoreKept, SettledKept DEF RestoreArgument
  <2>2. todo # <<>> /\ enc.ok /\ Head(todo).do = "restore" /\ Done
    BY <1>11 DEF RestoreArgument, Do
  <2> QED
    BY <2>1, <2>2, DoneQuiet, Kinds
<1>12. CASE EndCall
  <2>1. Alike(enc, enc')
    BY <1>12, <1>0, CallKept, MoveKept DEF EndCall
  <2>2. todo # <<>> /\ enc.ok /\ Head(todo).do = "endcall" /\ Done
    BY <1>12 DEF EndCall, Do
  <2> QED
    BY <2>1, <2>2, DoneQuiet, Kinds
<1>13. CASE emit_member_expression
  <2>1. Alike(enc, enc')
    BY <1>13, <1>0 DEF emit_member_expression
  <2>2. todo # <<>> /\ enc.ok /\ Head(todo).do = "expr" /\ Done
    BY <1>13 DEF emit_member_expression, Do, Begin
  <2> QED
    BY <2>1, <2>2, DoneQuiet, Kinds
<1>14. CASE BeginCast
  <2>1. Alike(enc, enc')
    BY <1>14, <1>0 DEF BeginCast
  <2>2. todo # <<>> /\ enc.ok /\ Head(todo).do = "expr"
    BY <1>14 DEF BeginCast, Do, Begin
  <2>3. todo' = (<<Expr("int"), With("cast", T)>>) \o Tail(todo)
    BY <1>14 DEF BeginCast, Then, Done
  <2>4. PlainSeq(<<Expr("int"), With("cast", T)>>)
    BY PlainTuples, PlainItem, PlainRequests, Kinds
  <2> QED
    BY <2>1, <2>2, <2>3, <2>4, QuietBy, Kinds
<1>15. CASE emit_cast_expression
  <2>1. Alike(enc, enc')
    BY <1>15, <1>0, GetFloatKept, FreeValueKept DEF emit_cast_expression
  <2>2. todo # <<>> /\ enc.ok /\ Head(todo).do = "cast" /\ Done
    BY <1>15 DEF emit_cast_expression, Do
  <2> QED
    BY <2>1, <2>2, DoneQuiet, Kinds
<1>16. ASSUME NEW prefix \in BOOLEAN, BeginIncrement(prefix) PROVE Quiet
  <2>1. Alike(enc, enc')
    BY <1>16, <1>0 DEF BeginIncrement
  <2>2. todo # <<>> /\ enc.ok /\ Head(todo).do = "expr"
    BY <1>16 DEF BeginIncrement, Do, Begin
  <2>3. todo' = (<<Lvalue("int"), With("increment", prefix)>>) \o Tail(todo)
    BY <1>16 DEF BeginIncrement, Then, Done
  <2>4. PlainSeq(<<Lvalue("int"), With("increment", prefix)>>)
    BY PlainTuples, PlainItem, PlainRequests, Kinds
  <2> QED
    BY <2>1, <2>2, <2>3, <2>4, QuietBy, Kinds
<1>17. CASE emit_increment_expression
  BY <1>17, IncrementQuiet
<1>18. CASE BeginUnary
  <2>1. PICK o : todo' = <<Expr("int"), With("unary", o)>> \o Tail(todo)
    BY <1>18 DEF BeginUnary, Then
  <2>2. Alike(enc, enc')
    BY <1>18, <2>1, <1>0 DEF BeginUnary
  <2>3. todo # <<>> /\ enc.ok /\ Head(todo).do = "expr"
    BY <1>18 DEF BeginUnary, Do, Begin
  <2>4. todo' = (<<Expr("int"), With("unary", o)>>) \o Tail(todo)
    BY <1>18, <2>1 DEF BeginUnary, Then, Done
  <2>5. PlainSeq(<<Expr("int"), With("unary", o)>>)
    BY PlainTuples, PlainItem, PlainRequests, Kinds
  <2> QED
    BY <2>2, <2>3, <2>4, <2>5, QuietBy, Kinds
<1>19. CASE EndUnary
  <2>1. Alike(enc, enc')
    BY <1>19, <1>0, BinaryKept DEF EndUnary
  <2>2. todo # <<>> /\ enc.ok /\ Head(todo).do = "unary" /\ Done
    BY <1>19 DEF EndUnary, Do
  <2> QED
    BY <2>1, <2>2, DoneQuiet, Kinds
<1>20. CASE BeginAddress
  <2>1. PICK t : todo' = <<Lvalue(t), Item("address")>> \o Tail(todo)
    BY <1>20 DEF BeginAddress, Then
  <2>2. Alike(enc, enc')
    BY <1>20, <2>1, <1>0 DEF BeginAddress
  <2>3. todo # <<>> /\ enc.ok /\ Head(todo).do = "expr"
    BY <1>20 DEF BeginAddress, Do, Begin
  <2>4. todo' = (<<Lvalue(t), Item("address")>>) \o Tail(todo)
    BY <1>20, <2>1 DEF BeginAddress, Then, Done
  <2>5. PlainSeq(<<Lvalue(t), Item("address")>>)
    BY PlainTuples, PlainItem, PlainRequests, Kinds
  <2> QED
    BY <2>2, <2>3, <2>4, <2>5, QuietBy, Kinds
<1>21. CASE EndAddress
  <2>1. Alike(enc, enc')
    BY <1>21, <1>0, GetRegisterKept, FailKept DEF EndAddress
  <2>2. todo # <<>> /\ enc.ok /\ Head(todo).do = "address" /\ Done
    BY <1>21 DEF EndAddress, Do
  <2> QED
    BY <2>1, <2>2, DoneQuiet, Kinds
<1>22. CASE BeginUpb
  <2>1. Alike(enc, enc')
    BY <1>22, <1>0 DEF BeginUpb
  <2>2. todo # <<>> /\ enc.ok /\ Head(todo).do = "expr"
    BY <1>22 DEF BeginUpb, Do, Begin
  <2>3. todo' = (<<Expr("array"), Item("upb")>>) \o Tail(todo)
    BY <1>22 DEF BeginUpb, Then, Done
  <2>4. PlainSeq(<<Expr("array"), Item("upb")>>)
    BY PlainTuples, PlainItem, PlainRequests, Kinds
  <2> QED
    BY <2>1, <2>2, <2>3, <2>4, QuietBy, Kinds
<1>23. CASE EndUpb
  <2>1. Alike(enc, enc')
    BY <1>23, <1>0, LoadKept DEF EndUpb
  <2>2. todo # <<>> /\ enc.ok /\ Head(todo).do = "upb" /\ Done
    BY <1>23 DEF EndUpb, Do
  <2> QED
    BY <2>1, <2>2, DoneQuiet, Kinds
<1>24. CASE BeginBinary
  <2>1. PICK o : \/ todo' = <<Expr(T), Expr(T), With("binary", o)>> \o Tail(todo)
                \/ todo' = <<Void("int"), Expr(T)>> \o Tail(todo)
    BY <1>24 DEF BeginBinary, Then
  <2>2. Alike(enc, enc')
    BY <1>24, <2>1, <1>0 DEF BeginBinary
  <2>3. todo # <<>> /\ enc.ok /\ Head(todo).do = "expr"
    BY <1>24 DEF BeginBinary, Do, Begin
  <2>4. todo' = (<<Expr(T), Expr(T), With("binary", o)>>) \o Tail(todo) \/ todo' = (<<Void("int"), Expr(T)>>) \o Tail(todo)
    BY <1>24, <2>1 DEF BeginBinary, Then, Done
  <2>5. PlainSeq(<<Expr(T), Expr(T), With("binary", o)>>)
    BY PlainTuples, PlainItem, PlainRequests, Kinds
  <2>6. PlainSeq(<<Void("int"), Expr(T)>>)
    BY PlainTuples, PlainItem, PlainRequests, Kinds
  <2> QED
    BY <2>2, <2>3, <2>4, <2>5, <2>6, QuietBy, Kinds
<1>25. CASE EndBinary
  <2>1. Alike(enc, enc')
    BY <1>25, <1>0, BinaryKept, FreeValueKept DEF EndBinary
  <2>2. todo # <<>> /\ enc.ok /\ Head(todo).do = "binary" /\ Done
    BY <1>25 DEF EndBinary, Do
  <2> QED
    BY <2>1, <2>2, DoneQuiet, Kinds
<1>26. CASE BeginLogical
  <2>1. Alike(enc, enc')
    BY <1>26, <1>0 DEF BeginLogical
  <2>2. todo # <<>> /\ enc.ok /\ Head(todo).do = "expr"
    BY <1>26 DEF BeginLogical, Do, Begin
  <2>3. todo' = (<<Expr("int"), Item("logical")>>) \o Tail(todo)
    BY <1>26 DEF BeginLogical, Then, Done
  <2>4. PlainSeq(<<Expr("int"), Item("logical")>>)
    BY PlainTuples, PlainItem, PlainRequests, Kinds
  <2> QED
    BY <2>1, <2>2, <2>3, <2>4, QuietBy, Kinds
<1>27. CASE BeginTernary
  <2>1. Alike(enc, enc')
    BY <1>27, <1>0 DEF BeginTernary
  <2>2. todo # <<>> /\ enc.ok /\ Head(todo).do = "expr"
    BY <1>27 DEF BeginTernary, Do, Begin
  <2>3. todo' = (<<Expr("int"), Item("ternary")>>) \o Tail(todo)
    BY <1>27 DEF BeginTernary, Then, Done
  <2>4. PlainSeq(<<Expr("int"), Item("ternary")>>)
    BY PlainTuples, PlainItem, PlainRequests, Kinds
  <2> QED
    BY <2>1, <2>2, <2>3, <2>4, QuietBy, Kinds
<1>28. CASE BeginAssignment
  <2>1. PICK o : todo' = <<Lvalue(T), Expr(T), With("assignment", o)>> \o Tail(todo)
    BY <1>28 DEF BeginAssignment, Then
  <2>2. Alike(enc, enc')
    BY <1>28, <2>1, <1>0 DEF BeginAssignment
  <2>3. todo # <<>> /\ enc.ok /\ Head(todo).do = "expr"
    BY <1>28 DEF BeginAssignment, Do, Begin
  <2>4. todo' = (<<Lvalue(T), Expr(T), With("assignment", o)>>) \o Tail(todo)
    BY <1>28, <2>1 DEF BeginAssignment, Then, Done
  <2>5. PlainSeq(<<Lvalue(T), Expr(T), With("assignment", o)>>)
    BY PlainTuples, PlainItem, PlainRequests, Kinds
  <2> QED
    BY <2>2, <2>3, <2>4, <2>5, QuietBy, Kinds
<1>29. CASE emit_assignment_expression
  BY <1>29, AssignmentQuiet
<1>30. CASE BeginStructAssignment
  <2>1. Alike(enc, enc')
    BY <1>30, <1>0 DEF BeginStructAssignment
  <2>2. todo # <<>> /\ enc.ok /\ Head(todo).do = "expr"
    BY <1>30 DEF BeginStructAssignment, Do, Begin
  <2>3. todo' = (<<Lvalue(T), Item("struct")>>) \o Tail(todo)
    BY <1>30 DEF BeginStructAssignment, Then, Done
  <2>4. PlainSeq(<<Lvalue(T), Item("struct")>>)
    BY PlainTuples, PlainItem, PlainRequests, Kinds
  <2> QED
    BY <2>1, <2>2, <2>3, <2>4, QuietBy, Kinds
<1>31. CASE emit_struct_assignment
  BY <1>31, StructAssignmentQuiet
<1>32. CASE emit_structure_init
  BY <1>32, StructureInitQuiet
<1>33. CASE EndStructureInit
  <2>1. Alike(enc, enc')
    BY <1>33, <1>0 DEF EndStructureInit
  <2>2. todo # <<>> /\ enc.ok /\ Head(todo).do = "init" /\ Done
    BY <1>33 DEF EndStructureInit, Do
  <2> QED
    BY <2>1, <2>2, DoneQuiet, Kinds
<1>34. CASE StoreValue
  <2>1. Alike(enc, enc')
    BY <1>34, <1>0, StoreKept, FreeValueKept, SettledKept DEF StoreValue
  <2>2. todo # <<>> /\ enc.ok /\ Head(todo).do = "store" /\ Done
    BY <1>34 DEF StoreValue, Do
  <2> QED
    BY <2>1, <2>2, DoneQuiet, Kinds
<1> QED
  BY <1>1, <1>2, <1>3, <1>4, <1>5, <1>6, <1>7, <1>8, <1>9, <1>10, <1>11, <1>12, <1>13, <1>14, <1>15, <1>16, <1>17, <1>18, <1>19, <1>20, <1>21, <1>22, <1>23, <1>24, <1>25, <1>26, <1>27, <1>28, <1>29, <1>30, <1>31, <1>32, <1>33, <1>34 DEF NextExpression

LEMMA StatementQuiet ==
    ASSUME Alike(enc, enc'), todo # <<>>, enc.ok, Head(todo).do = "stmt", NEW items, NEW R, items \in Seq(R),
           \A k \in DOMAIN items : Plain(items[k]) \/ items[k].do \in {"stmt", "then", "return"},
           todo' = items \o Tail(todo)
    PROVE  Quiet
  BY DEF Quiet, Smooth, Alike, Owners, Ends, Loops, Saves

LEMMA PlainStatement ==
    ASSUME Alike(enc, enc'), todo # <<>>, enc.ok, Head(todo).do = "stmt", NEW items, PlainSeq(items),
           todo' = items \o Tail(todo)
    PROVE  Quiet
  BY StatementQuiet DEF PlainSeq

LEMMA PlainBound == Plain(Bound)
  BY PlainItem, Kinds DEF Bound

LEMMA BoundQuiet == ASSUME Shape(enc), BoundExpression PROVE Quiet
<1>1. Alike(enc, enc') /\ todo # <<>> /\ enc.ok /\ Head(todo).do = "bound"
  BY AlikeSelf DEF BoundExpression, Do
<1>2. todo' = <<Expr("int")>> \o Tail(todo) \/ todo' = <<>> \o Tail(todo)
  BY DEF BoundExpression, Then, Done
<1>3. PlainSeq(<<Expr("int")>>) /\ PlainSeq(<<>>)
  BY PlainTuples, PlainRequests
<1> QED
  BY <1>1, <1>2, <1>3, QuietEither, Kinds

LEMMA ArrayInitQuiet == ASSUME Shape(enc), emit_array_init PROVE Quiet
<1>1. todo # <<>> /\ enc.ok /\ Head(todo).do = "dimension"
  BY DEF emit_array_init, Do
<1>2. Alike(enc, enc')
  <2>1. Library(Label("error", 0))
    BY DEF Library
  <2> QED
    BY <2>1, AlikeSelf, LibraryKept DEF emit_array_init
<1>3. PICK a, b, c :
         /\ a = <<Bound, Item("loadbound")>>
         /\ b = <<Expr("int"), Item("element"), Expr("int"), Item("element")>>
         /\ c = <<Item("row"), With("dimension", X - 1), Item("drop")>>
  OBVIOUS
<1>4. PlainSeq(a) /\ PlainSeq(b) /\ PlainSeq(c)
  <2>1. PlainSeq(a)
    BY <1>3, PlainTuples, PlainBound, PlainItem, Kinds
  <2>2. PlainSeq(b)
    BY <1>3, PlainTuples, PlainRequests, PlainItem, Kinds
  <2>3. PlainSeq(c)
    BY <1>3, PlainTuples, PlainItem, Kinds
  <2> QED
    BY <2>1, <2>2, <2>3
<1>5. todo' = (a \o b) \o Tail(todo) \/ todo' = (a \o c) \o Tail(todo)
  BY <1>3 DEF emit_array_init, Then
<1>6. PlainSeq(a \o b) /\ PlainSeq(a \o c)
  BY <1>4, PlainConcat
<1> QED
  BY <1>1, <1>2, <1>5, <1>6, QuietEither, Kinds

\* Initializers
LEMMA DeclarationsQuiet ==
    ASSUME Shape(enc), Work(enc.function, todo), NextDeclaration
    PROVE  Quiet \/ 
           (\E type \in Types, initialised \in BOOLEAN : emit_variable_declaration(type, initialised)) \/ 
           (\E dim \in 1..2, initialised \in BOOLEAN : emit_array_declaration(dim, initialised)) \/ 
           BeginFunction \/ EndFunction \/ GlobalDeclaration \/ EndUnit
<1>0. Alike(enc, enc)
  BY AlikeSelf
<1>1. CASE BoundExpression
  BY <1>1, BoundQuiet
<1>2. CASE LoadBound
  <2>1. Alike(enc, enc')
    BY <1>2, <1>0, LoadedKept, FreeValueKept DEF LoadBound
  <2>2. todo # <<>> /\ enc.ok /\ Head(todo).do = "loadbound" /\ Done
    BY <1>2 DEF LoadBound, Do
  <2> QED
    BY <2>1, <2>2, DoneQuiet, Kinds
<1>3. CASE InitializeArray
  <2>1. Alike(enc, enc')
    BY <1>3, <1>0, LoadKept DEF InitializeArray
  <2>2. todo # <<>> /\ enc.ok /\ Head(todo).do = "arrayinit"
    BY <1>3 DEF InitializeArray, Do
  <2>3. todo' = (<<With("dimension", X.dim), Item("drop")>>) \o Tail(todo)
    BY <1>3 DEF InitializeArray, Then, Done
  <2>4. PlainSeq(<<With("dimension", X.dim), Item("drop")>>)
    BY PlainTuples, PlainItem, PlainRequests, Kinds
  <2> QED
    BY <2>1, <2>2, <2>3, <2>4, QuietBy, Kinds
<1>4. CASE emit_array_init
  BY <1>4, ArrayInitQuiet
<1>5. CASE BeginRow
  <2>1. Alike(enc, enc')
    BY <1>5, <1>0, GetRegisterKept DEF BeginRow
  <2>2. todo # <<>> /\ enc.ok /\ Head(todo).do = "row" /\ Done
    BY <1>5 DEF BeginRow, Do
  <2> QED
    BY <2>1, <2>2, DoneQuiet, Kinds
<1>6. CASE StoreElement
  <2>1. Alike(enc, enc')
    BY <1>6, <1>0, StoreKept, LockKept, FreeValueKept DEF StoreElement
  <2>2. todo # <<>> /\ enc.ok /\ Head(todo).do = "element" /\ Done
    BY <1>6 DEF StoreElement, Do
  <2> QED
    BY <2>1, <2>2, DoneQuiet, Kinds
<1> QED
  BY <1>1, <1>2, <1>3, <1>4, <1>5, <1>6 DEF NextDeclaration

LEMMA DeclarationQuiet == ASSUME Shape(enc), emit_declaration_statement PROVE Quiet
<1>1. Alike(enc, enc') /\ todo # <<>> /\ enc.ok /\ Head(todo).do = "stmt"
  BY AlikeSelf DEF emit_declaration_statement, Do
<1>2. PICK n \in 1..MaxDeclarators : todo' = [i \in 1..n |-> Item("declare")] \o Tail(todo)
  BY DEF emit_declaration_statement, Then
<1>3. PICK s : s = [i \in 1..n |-> Item("declare")]
  OBVIOUS
<1>4. n \in Nat
  BY MipsAssumption
<1>5. s = [i \in 1..n |-> s[i]] /\ \A i \in 1..n : Plain(s[i])
  BY <1>3, PlainItem, Kinds
<1>6. PlainSeq(s)
  BY <1>4, <1>5, FunctionSeq
<1> QED
  BY <1>1, <1>2, <1>3, <1>6, PlainStatement

LEMMA EmptyQuiet == ASSUME Shape(enc), NothingEmitted PROVE Quiet
<1>1. Alike(enc, enc') /\ todo # <<>> /\ enc.ok /\ Head(todo).do = "stmt" /\ todo' = <<>> \o Tail(todo)
  BY AlikeSelf DEF NothingEmitted, Do, Done, Then
<1> QED
  BY <1>1, PlainTuples, PlainStatement

LEMMA ExpressionQuiet == ASSUME Shape(enc), NEW type, emit_expression_statement(type) PROVE Quiet
<1>1. Alike(enc, enc') /\ todo # <<>> /\ enc.ok /\ Head(todo).do = "stmt" /\ todo' = <<Void(type)>> \o Tail(todo)
  BY AlikeSelf DEF emit_expression_statement, BeginStmt, Do, Then
<1>2. PlainSeq(<<Void(type)>>)
  BY PlainTuples, PlainRequests
<1> QED
  BY <1>1, <1>2, PlainStatement

LEMMA IfQuiet == ASSUME Shape(enc), NEW has_else, BeginIf(has_else) PROVE Quiet
<1>1. /\ Alike(enc, enc') /\ todo # <<>> /\ enc.ok /\ Head(todo).do = "stmt"
      /\ todo' = <<Expr("int"), With("then", has_else)>> \o Tail(todo)
  BY AlikeSelf DEF BeginIf, BeginStmt, Do, Then
<1>2. PICK a, b : a = Expr("int") /\ b = With("then", has_else)
  OBVIOUS
<1>3. Plain(a) /\ b.do = "then"
  BY <1>2, PlainRequests DEF With
<1>4. PICK s : s = <<a, b>>
  OBVIOUS
<1>5. s \in Seq({a, b}) /\ DOMAIN s = 1..2 /\ s[1] = a /\ s[2] = b
  BY <1>4
<1>6. \A k \in DOMAIN s : Plain(s[k]) \/ s[k].do \in {"stmt", "then", "return"}
  <2>1. \A k \in 1..2 : k = 1 \/ k = 2
    OBVIOUS
  <2> QED
    BY <1>3, <1>5, <2>1
<1> QED
  BY <1>1, <1>2, <1>4, <1>5, <1>6, StatementQuiet

LEMMA ReturnQuiet == ASSUME Shape(enc), NEW has_expression, BeginReturn(has_expression) PROVE Quiet
<1>1. PICK a, b : a = With("store", Variable(Returned("int"), "int")) /\ b = Item("return")
  OBVIOUS
<1>2. PICK s : s = IF has_expression THEN <<Expr("int"), a>> ELSE <<>>
  OBVIOUS
<1>3. /\ Alike(enc, enc') /\ todo # <<>> /\ enc.ok /\ Head(todo).do = "stmt"
      /\ todo' = (s \o <<b>>) \o Tail(todo)
  BY <1>1, <1>2, AlikeSelf DEF BeginReturn, BeginStmt, Do, Then
<1>4. PlainSeq(s)
  BY <1>1, <1>2, PlainTuples, PlainRequests, PlainItem, Kinds
<1>5. PICK S : s \in Seq(S)
  BY <1>4 DEF PlainSeq
<1>6. PICK r : r = <<b>>
  OBVIOUS
<1>7. r \in Seq({b}) /\ \A k \in DOMAIN r : r[k].do = "return"
  BY <1>1, <1>6 DEF Item
<1>8. \A k \in DOMAIN (s \o r) : Plain((s \o r)[k]) \/ (s \o r)[k].do \in {"stmt", "then", "return"}
  BY <1>4, <1>5, <1>7, Parts DEF PlainSeq
<1>9. s \o r \in Seq(S \cup {b})
  BY <1>5, <1>7
<1> QED
  BY <1>3, <1>6, <1>8, <1>9, StatementQuiet

\* Statements that jump nowhere
LEMMA StatementsQuiet ==
    ASSUME Shape(enc), Work(enc.function, todo), NextStatement
    PROVE  Quiet \/ 
           BeginCompound \/ EndCompound \/ IfBranch \/ IfElse \/ EndIf \/ BeginSwitch \/ SwitchCondition \/ SwitchTest \/ SwitchJump \/ 
           LabelStatement \/ EndSwitch \/ BeginWhile \/ LeaveBranch \/ EndWhile \/ BeginDo \/ DoCondition \/ EndDo \/ 
           (\E has_inition \in BOOLEAN : BeginFor(has_inition)) \/ 
           (\E has_condition, has_increment \in BOOLEAN : EnterFor(has_condition, has_increment)) \/ 
           EndFor \/ emit_continue_statement \/ emit_break_statement \/ EndReturn
<1>0. Alike(enc, enc)
  BY AlikeSelf
<1>1. CASE emit_declaration_statement
  BY <1>1, DeclarationQuiet
<1>2. CASE NothingEmitted
  BY <1>2, EmptyQuiet
<1>3. ASSUME NEW type \in {"int", "struct"}, emit_expression_statement(type) PROVE Quiet
  BY <1>3, ExpressionQuiet
<1>4. ASSUME NEW has_else \in BOOLEAN, BeginIf(has_else) PROVE Quiet
  BY <1>4, IfQuiet
<1>5. ASSUME NEW has_expression \in BOOLEAN, BeginReturn(has_expression) PROVE Quiet
  BY <1>5, ReturnQuiet
<1> QED
  BY <1>1, <1>2, <1>3, <1>4, <1>5 DEF NextStatement


-----------------------------------------------------------------------------
(* Steps that own labels or move the frame *)

\* Work that saves nothing and needs no end after it
Ordinary(item) == Typed(item) /\ item.do \notin {"unit", "endfunction", "switch", "test", "bodies"} \cup Saves

LEMMA HeadInside ==
    ASSUME NEW f, NEW t, Work(f, t), t # <<>>, Head(t).do \in InFunction PROVE f # 0
<1>1. 1 \in DOMAIN t /\ Head(t) = t[1]
  BY HeadTyped
<1> QED
  BY <1>1 DEF Work

LEMMA OrdinaryRequests ==
    ASSUME NEW t
    PROVE  Ordinary(Stmt) /\ Ordinary(Expr(t)) /\ Ordinary(Void(t))
  BY DEF Ordinary, Typed, Stmt, Item, Expr, Void, Ends, Loops, Saves

LEMMA OrdinaryWith ==
    ASSUME NEW x, NEW w \in {"ternaryelse", "endternary", "else", "endif", "leave", "docondition", "label"}
    PROVE  Ordinary(With(w, x))
  BY DEF Ordinary, Typed, With, Ends, Loops, Saves

LEMMA OrdinaryEnd ==
    ASSUME NEW e, NEW n, NEW c, NEW w \in {"endwhile", "enddo"}
    PROVE  Ordinary(With(w, Saved(e, n, c)))
  BY DEF Ordinary, Typed, With, Saved, Ends, Loops, Saves

LEMMA OrdinaryLogical ==
    ASSUME NEW l, l[1] = "END", NEW v PROVE Ordinary(With("endlogical", [lbl |-> l, lhs |-> v]))
  BY DEF Ordinary, Typed, With, Ends, Loops, Saves

\* Both invariants after a step that does ordinary work
LEMMA Course ==
    ASSUME Work(enc.function, todo), FrameInv(enc, todo), Frame(enc, enc'),
           todo # <<>>, Head(todo).do \notin {"unit", "endfunction"},
           NEW R, NEW items \in Seq(R), todo' = items \o Tail(todo),
           \A x \in R : Ordinary(x) /\ (x.do \in InFunction => enc.function # 0)
    PROVE  Work(enc'.function, todo') /\ FrameInv(enc', todo')
<1>1. PICK S : todo \in Seq(S)
  BY DEF Work
<1>2. \A k \in DOMAIN items : items[k] \in R
  OBVIOUS
<1>3. Work(enc.function, items \o Tail(todo))
  BY <1>2, WorkStep DEF Ordinary
<1>4. FrameInv(enc', items \o Tail(todo))
  BY <1>1, <1>2, FrameStep DEF Ordinary
<1> QED
  BY <1>3, <1>4 DEF Frame

\* and of a step that saves the frame in the last item.
LEMMA CourseSave ==
    ASSUME Work(enc.function, todo), FrameInv(enc, todo), Frame(enc, enc'),
           todo # <<>>, Head(todo).do \notin {"unit", "endfunction"}, enc.function # 0,
           NEW item, Typed(item), item.do \in Saves,
           \/ item.x.displ = enc.scope_displ /\ item.x.visible = enc.visible
           \/ Head(todo).do \in Saves /\ item.x.displ = X.displ /\ item.x.visible = X.visible,
           NEW R, NEW items \in Seq(R), Len(items) > 0, items[Len(items)] = item, todo' = items \o Tail(todo),
           \A k \in DOMAIN items : k # Len(items) =>
               Ordinary(items[k]) \/ (items[k].do = "switch" /\ Typed(items[k]) /\ item.do = "endswitch")
    PROVE  Work(enc'.function, todo') /\ FrameInv(enc', todo')
<1>1. PICK S : todo \in Seq(S)
  BY DEF Work
<1>2. DOMAIN items = 1..Len(items) /\ Len(items) \in Nat
  OBVIOUS
<1>3. \A k \in DOMAIN items : k # Len(items) => items[k].do \notin Saves \cup {"endfunction"}
  BY DEF Ordinary, Saves
<1>4. FrameInv(enc', items \o Tail(todo))
  BY <1>1, <1>3, FrameSave DEF X
<1>5. item.do \notin {"unit", "endfunction", "switch", "test", "bodies"}
  BY DEF Saves
<1>6. \A k \in DOMAIN items :
         /\ Typed(items[k]) /\ items[k].do \notin {"unit", "endfunction"}
         /\ items[k].do \in {"switch", "test", "bodies"} => \E m \in DOMAIN items : m > k /\ items[m].do = "endswitch"
  BY <1>2, <1>5 DEF Ordinary
<1>7. Work(enc.function, items \o Tail(todo))
  BY <1>6, WorkStep
<1> QED
  BY <1>4, <1>7 DEF Frame

LEMMA MaxPair == ASSUME NEW a \in Nat, NEW b \in Nat PROVE Max({a, b}) = IF a <= b THEN b ELSE a
  BY DEF Max

LEMMA Appended ==
    ASSUME NEW Q, NEW p \in Seq(Q), NEW b, b \in Q, NEW s, s = p \o <<b>>
    PROVE  /\ s \in Seq(Q) /\ Len(s) = Len(p) + 1 /\ Len(p) \in Nat /\ s[Len(s)] = b
           /\ \A k \in DOMAIN s : k # Len(s) => k \in DOMAIN p /\ s[k] = p[k]
<1>1. PICK q : q = <<b>>
  OBVIOUS
<1>2. q \in Seq(Q) /\ Len(q) = 1 /\ q[1] = b
  BY <1>1
<1>3. s = p \o q
  BY <1>1
<1>4. s \in Seq(Q) /\ Len(s) = Len(p) + 1 /\ Len(p) \in Nat /\ DOMAIN p = 1..Len(p) /\ DOMAIN s = 1..Len(s)
  BY <1>2, <1>3
<1>5. s[Len(p) + 1] = q[1]
  BY <1>2, <1>3, <1>4
<1>6. \A k \in 1..Len(p) : s[k] = p[k]
  BY <1>2, <1>3, <1>4
<1> QED
  BY <1>2, <1>4, <1>5, <1>6

LEMMA WorkDone ==
    ASSUME Work(enc.function, todo), todo # <<>>, Head(todo).do \notin {"unit", "endfunction"}, Done
    PROVE  Work(enc.function, todo')
<1>1. PICK items, R : items = <<>> /\ R = {}
  OBVIOUS
<1>2. items \in Seq(R) /\ DOMAIN items = {} /\ todo' = items \o Tail(todo)
  BY <1>1 DEF Done, Then
<1> QED
  BY <1>2, WorkStep

\* A done head
LEMMA CourseDone ==
    ASSUME Work(enc.function, todo), FrameInv(enc, todo), Frame(enc, enc'),
           todo # <<>>, Head(todo).do \notin {"unit", "endfunction"}, Done
    PROVE  Work(enc'.function, todo') /\ FrameInv(enc', todo')
<1>1. PICK items, R : items = <<>> /\ R = {}
  OBVIOUS
<1>2. items \in Seq(R) /\ todo' = items \o Tail(todo)
  BY <1>1 DEF Done, Then
<1>3. \A x \in R : Ordinary(x) /\ (x.do \in InFunction => enc.function # 0)
  BY <1>1
<1> QED
  BY ONLY <1>2, <1>3, Course, Work(enc.function, todo), FrameInv(enc, todo), Frame(enc, enc'),
          todo # <<>>, Head(todo).do \notin {"unit", "endfunction"}

LEMMA LogicalBranchFrame ==
    ASSUME Shape(enc), Work(enc.function, todo), FrameInv(enc, todo), LogicalBranch
    PROVE  Work(enc'.function, todo') /\ FrameInv(enc', todo')
<1>1. PICK lbl, a, b :
         /\ lbl = Label("END", enc.label_num) /\ a = Expr("int") /\ b = With("endlogical", [lbl |-> lbl, lhs |-> First])
  OBVIOUS
<1>2. Frame(enc, enc')
  <2>1. Frame(enc, TakeLabel(enc))
    BY DeclareFrame
  <2>2. Frame(enc, emit_conditional_branch(TakeLabel(enc), First, lbl))
    BY <2>1, BranchFrame, FrameTrans DEF Frame
  <2> QED
    BY <1>1, <2>2, FreeValueKept DEF LogicalBranch
<1>3. todo # <<>> /\ Head(todo).do = "logical" /\ todo' = <<a, b>> \o Tail(todo)
  BY <1>1 DEF LogicalBranch, Do, Then
<1>4. <<a, b>> \in Seq({a, b})
  OBVIOUS
<1>5. \A x \in {a, b} : Ordinary(x) /\ x.do \notin InFunction
  <2>1. lbl[1] = "END"
    BY <1>1 DEF Label
  <2>2. a.do = "expr" /\ b.do = "endlogical"
    BY <1>1 DEF Expr, With
  <2> QED
    BY <1>1, <2>1, <2>2, OrdinaryRequests, OrdinaryLogical DEF InFunction, Ends, Loops, Saves
<1> QED
  BY <1>2, <1>3, <1>4, <1>5, Course

LEMMA EndLogicalFrame ==
    ASSUME Shape(enc), Work(enc.function, todo), FrameInv(enc, todo), EndLogical
    PROVE  Work(enc'.function, todo') /\ FrameInv(enc', todo')
<1>1. Frame(enc, enc')
  BY DeclareFrame, FailSame DEF EndLogical, Same
<1> QED
  BY <1>1, CourseDone DEF EndLogical, Do

LEMMA TernaryBranchFrame ==
    ASSUME Shape(enc), Work(enc.function, todo), FrameInv(enc, todo), TernaryBranch
    PROVE  Work(enc'.function, todo') /\ FrameInv(enc', todo')
<1>1. PICK n, a, b, c :
         n = enc.label_num /\ a = Expr("int") /\ b = With("ternaryelse", n) /\ c = With("endternary", n)
  OBVIOUS
<1>2. Frame(enc, enc')
  <2>1. Frame(enc, TakeLabel(enc))
    BY DeclareFrame
  <2>2. Frame(enc, emit_conditional_branch(TakeLabel(enc), First, Label("ELSE", n)))
    BY <2>1, BranchFrame, FrameTrans DEF Frame
  <2> QED
    BY <1>1, <2>2, FreeValueKept, GetRegisterKept DEF TernaryBranch
<1>3. todo # <<>> /\ Head(todo).do = "ternary" /\ todo' = <<a, b, a, c>> \o Tail(todo)
  BY <1>1 DEF TernaryBranch, Do, Then
<1>4. <<a, b, a, c>> \in Seq({a, b, c})
  OBVIOUS
<1>5. \A x \in {a, b, c} : Ordinary(x) /\ x.do \notin InFunction
  <2>1. a.do = "expr" /\ b.do = "ternaryelse" /\ c.do = "endternary"
    BY <1>1 DEF Expr, With
  <2> QED
    BY <1>1, <2>1, OrdinaryRequests, OrdinaryWith DEF InFunction, Ends, Loops, Saves
<1> QED
  BY <1>2, <1>3, <1>4, <1>5, Course

LEMMA TernaryElseFrame ==
    ASSUME Shape(enc), Work(enc.function, todo), FrameInv(enc, todo), TernaryElse
    PROVE  Work(enc'.function, todo') /\ FrameInv(enc', todo')
<1>1. PICK d, l, m : d = free_rvalue(enc, First) /\ l = Label("END", X) /\ m = Label("ELSE", X)
  OBVIOUS
<1>2. Frame(enc, d) /\ Shape(d)
  BY <1>1, FreeValueSame DEF Same, Frame
<1>3. PICK b : b = emit_unconditional_branch(d, l)
  OBVIOUS
<1>4. Frame(enc, b) /\ Shape(b)
  BY <1>2, <1>3, BranchFrame, FrameTrans DEF Frame
<1>5. Frame(b, emit_label_declaration(b, m))
  BY <1>4, DeclareFrame
<1>6. enc' = emit_label_declaration(b, m)
  BY <1>1, <1>3 DEF TernaryElse
<1>7. Frame(enc, enc')
  BY ONLY <1>4, <1>5, <1>6, FrameTrans
<1> QED
  BY <1>7, CourseDone DEF TernaryElse, Do

LEMMA EndTernaryFrame ==
    ASSUME Shape(enc), Work(enc.function, todo), FrameInv(enc, todo), EndTernary
    PROVE  Work(enc'.function, todo') /\ FrameInv(enc', todo')
<1>1. Frame(enc, free_rvalue(enc, First))
  BY FreeValueSame DEF Same
<1>2. Frame(enc, enc')
  BY <1>1, DeclareFrame, FrameTrans DEF Frame, EndTernary
<1> QED
  BY <1>2, CourseDone DEF EndTernary, Do

-----------------------------------------------------------------------------
(* Statements *)

LEMMA BeginCompoundFrame ==
    ASSUME Shape(enc), Work(enc.function, todo), FrameInv(enc, todo), BeginCompound
    PROVE  Work(enc'.function, todo') /\ FrameInv(enc', todo')
<1>1. PICK b : b = With("endcompound", [displ |-> enc.scope_displ, visible |-> enc.visible])
  OBVIOUS
<1>2. PICK n \in 1..2 : todo' = ([i \in 1..n |-> Stmt] \o <<b>>) \o Tail(todo)
  BY <1>1 DEF BeginCompound, Then
<1>3. PICK items : items = [i \in 1..n |-> Stmt] \o <<b>>
  OBVIOUS
<1>4. items \in Seq({Stmt, b}) /\ Len(items) = n + 1 /\ items[n + 1] = b /\ \A k \in 1..n : items[k] = Stmt
  <2>1. PICK s : s = [i \in 1..n |-> Stmt]
    OBVIOUS
  <2>2. s \in [1..n -> {Stmt, b}] /\ n \in Nat /\ \A k \in 1..n : s[k] = Stmt
    BY <2>1
  <2>3. s \in Seq({Stmt, b}) /\ Len(s) = n
    BY <2>2
  <2>4. <<b>> \in Seq({Stmt, b})
    OBVIOUS
  <2>5. items = s \o <<b>>
    BY <1>3, <2>1
  <2> QED
    BY <2>2, <2>3, <2>4, <2>5
<1>5. Typed(b) /\ b.do = "endcompound" /\ b.do \in Saves /\ b.x.displ = enc.scope_displ /\ b.x.visible = enc.visible
  BY <1>1 DEF With, Typed, Ends, Loops, Saves
<1>6. todo # <<>> /\ Head(todo).do = "stmt" /\ Frame(enc, enc')
  BY AlikeSelf DEF BeginCompound, BeginStmt, Do, Alike
<1>7. enc.function # 0
  BY <1>6, HeadInside DEF InFunction
<1>8. \A k \in DOMAIN items : k # Len(items) => Ordinary(items[k])
  BY <1>4, OrdinaryRequests
<1> QED
  <2>1. Head(todo).do \notin {"unit", "endfunction"} /\ Len(items) > 0 /\ items[Len(items)] = b
    BY <1>4, <1>6
  <2>2. todo' = items \o Tail(todo) /\ items \in Seq({Stmt, b})
    BY <1>2, <1>3, <1>4
  <2> QED
    BY <2>1, <2>2, <1>5, <1>6, <1>7, <1>8, CourseSave

LEMMA EndCompoundFrame ==
    ASSUME Shape(enc), Work(enc.function, todo), FrameInv(enc, todo), EndCompound
    PROVE  Work(enc'.function, todo') /\ FrameInv(enc', todo')
<1>1. todo # <<>> /\ Head(todo).do = "endcompound" /\ todo' = <<>> \o Tail(todo)
  BY DEF EndCompound, Do, Done, Then
<1>2. PICK m : m = Max({enc.max_displ, enc.scope_displ})
  OBVIOUS
<1>3. enc' = [enc EXCEPT !.max_displ = m, !.scope_displ = X.displ, !.visible = X.visible]
  BY <1>2 DEF EndCompound
<1>4. m = enc.max_displ
  BY <1>2, MaxPair DEF FrameInv
<1>5. PICK S : todo \in Seq(S)
  BY DEF Work
<1>6. /\ Shape(enc') /\ enc'.function = enc.function /\ enc'.visible = X.visible /\ enc'.scope_displ = X.displ
      /\ enc'.max_displ = enc.max_displ
  BY <1>3, <1>4 DEF Shape
<1>7. enc.function # 0
  BY <1>1, HeadInside DEF InFunction, Saves
<1>8. FrameInv(enc', Tail(todo))
  BY <1>1, <1>5, <1>6, <1>7, FrameRestore DEF X, Saves
<1>9. todo' = Tail(todo)
  BY <1>1, <1>5
<1>10. Work(enc.function, todo')
  BY <1>1, WorkDone DEF EndCompound
<1> QED
  BY <1>6, <1>8, <1>9, <1>10

LEMMA IfBranchFrame ==
    ASSUME Shape(enc), Work(enc.function, todo), FrameInv(enc, todo), IfBranch
    PROVE  Work(enc'.function, todo') /\ FrameInv(enc', todo')
<1>1. PICK n, a, b : n = enc.label_num /\ a = With("else", n) /\ b = With("endif", n)
  OBVIOUS
<1>2. Frame(enc, enc')
  <2>1. PICK l : l = Label(IF X THEN "ELSE" ELSE "END", n)
    OBVIOUS
  <2>2. Frame(enc, TakeLabel(enc))
    BY DeclareFrame
  <2>3. Frame(enc, emit_conditional_branch(TakeLabel(enc), First, l))
    BY <2>2, BranchFrame, FrameTrans DEF Frame
  <2> QED
    BY <1>1, <2>1, <2>3, FreeValueKept DEF IfBranch
<1>3. todo # <<>> /\ Head(todo).do = "then"
  BY DEF IfBranch, Do
<1>4. enc.function # 0
  BY <1>3, HeadInside DEF InFunction
<1>5. PICK items : items = <<Stmt>> \o (IF X THEN <<a, Stmt>> ELSE <<>>) \o <<b>>
  OBVIOUS
<1>6. PICK R : R = {Stmt, a, b}
  OBVIOUS
<1>7. items \in Seq(R)
  <2>1. <<Stmt>> \in Seq(R) /\ <<a, Stmt>> \in Seq(R) /\ <<>> \in Seq(R) /\ <<b>> \in Seq(R)
    BY <1>6
  <2> QED
    BY <1>5, <2>1
<1>8. todo' = items \o Tail(todo)
  BY <1>1, <1>5 DEF IfBranch, Then
<1>9. \A x \in R : Ordinary(x)
  BY <1>1, <1>6, OrdinaryRequests, OrdinaryWith
<1>10. Head(todo).do \notin {"unit", "endfunction"}
  BY <1>3
<1> QED
  BY <1>2, <1>3, <1>4, <1>7, <1>8, <1>9, <1>10, Course

LEMMA IfElseFrame ==
    ASSUME Shape(enc), Work(enc.function, todo), FrameInv(enc, todo), IfElse \/ EndIf \/ DoCondition
    PROVE  Work(enc'.function, todo') /\ FrameInv(enc', todo')
<1>1. Frame(enc, emit_unconditional_branch(enc, Label("END", X)))
  BY BranchFrame
<1>2. Frame(enc, enc')
  BY <1>1, DeclareFrame, FrameTrans DEF Frame, IfElse, EndIf, DoCondition
<1> QED
  BY <1>2, CourseDone DEF IfElse, EndIf, DoCondition, Do

LEMMA BeginSwitchFrame ==
    ASSUME Shape(enc), Work(enc.function, todo), FrameInv(enc, todo), BeginSwitch
    PROVE  Work(enc'.function, todo') /\ FrameInv(enc', todo')
<1>1. PICK n, c : n = enc.label_num /\ c = With("endswitch", Saved(enc, n, enc.label_continue))
  OBVIOUS
<1>2. PICK body \in Bodies : todo' = <<Expr("int"), With("switch", body), c>> \o Tail(todo)
  BY <1>1 DEF BeginSwitch, Then
<1>3. PICK a, b : a = Expr("int") /\ b = With("switch", body)
  OBVIOUS
<1>4. PICK items : items = <<a, b, c>>
  OBVIOUS
<1>5. items \in Seq({a, b, c}) /\ Len(items) = 3 /\ items[1] = a /\ items[2] = b /\ items[3] = c
  BY <1>4
<1>6. todo # <<>> /\ Head(todo).do = "stmt"
  BY DEF BeginSwitch, BeginStmt, Do
<1>7. Frame(enc, enc')
  <2>1. Frame(enc, TakeLabel(enc))
    BY DeclareFrame
  <2>2. enc' = [TakeLabel(enc) EXCEPT !.label_break = Label("END", n)]
    BY <1>1 DEF BeginSwitch
  <2> QED
    BY <2>1, <2>2 DEF Frame, Shape
<1>8. /\ Typed(c) /\ c.do = "endswitch" /\ c.do \in Saves
      /\ c.x.displ = enc.scope_displ /\ c.x.visible = enc.visible
  BY <1>1 DEF With, Saved, Typed, Ends, Loops, Saves
<1>9. Ordinary(a) /\ b.do = "switch" /\ Typed(b)
  <2>1. b.do = "switch" /\ b.x \in Bodies
    BY <1>3 DEF With
  <2> QED
    BY <1>3, <2>1, OrdinaryRequests DEF Typed, Ends, Loops
<1>10. \A k \in DOMAIN items : k # Len(items) =>
          Ordinary(items[k]) \/ (items[k].do = "switch" /\ Typed(items[k]) /\ c.do = "endswitch")
  <2>1. \A k \in DOMAIN items : k = 1 \/ k = 2 \/ k = 3
    BY <1>5
  <2> QED
    BY <1>5, <1>8, <1>9, <2>1
<1>11. enc.function # 0
  BY <1>6, HeadInside DEF InFunction
<1>12. /\ Head(todo).do \notin {"unit", "endfunction"} /\ Len(items) > 0 /\ items[Len(items)] = c
       /\ todo' = items \o Tail(todo)
  BY <1>2, <1>3, <1>4, <1>5, <1>6
<1> QED
  BY <1>5, <1>6, <1>7, <1>8, <1>10, <1>11, <1>12, CourseSave

LEMMA SwitchConditionFrame ==
    ASSUME Shape(enc), Work(enc.function, todo), FrameInv(enc, todo), SwitchCondition
    PROVE  Work(enc'.function, todo') /\ FrameInv(enc', todo')
<1>1. PICK t, b : t = [i \in DOMAIN X |-> With("test", X[i])]
                  /\ b = With("bodies", [body |-> X, first |-> enc.case_label_num])
  OBVIOUS
<1>2. todo # <<>> /\ Head(todo).do = "switch" /\ todo' = (t \o <<b>>) \o Tail(todo)
  BY <1>1 DEF SwitchCondition, Do, Then
<1>3. X \in Bodies /\ X \in Seq({"case", "default", "stmt"})
  BY <1>2, HeadTyped, MipsAssumption DEF Typed, X
<1>4. PICK R : R = {With("test", x) : x \in {"case", "default", "stmt"}}
  OBVIOUS
<1>5. t \in Seq(R)
  <2>1. Len(X) \in Nat /\ DOMAIN X = 1..Len(X) /\ \A i \in DOMAIN X : X[i] \in {"case", "default", "stmt"}
    BY <1>3
  <2>2. t \in [1..Len(X) -> R]
    BY <1>1, <1>4, <2>1
  <2> QED
    BY <2>1, <2>2
<1>6. \A x \in R : Typed(x) /\ x.do = "test"
  <2>1. ASSUME NEW w \in {"case", "default", "stmt"} PROVE Typed(With("test", w)) /\ With("test", w).do = "test"
    BY <2>1 DEF Typed, With, Ends, Loops
  <2> QED
    BY <1>4, <2>1
<1>7. Typed(b) /\ b.do = "bodies"
  <2>1. b.do = "bodies" /\ b.x.body \in Bodies /\ b.x.first \in Nat
    BY <1>1, <1>3 DEF With, Shape
  <2> QED
    BY <2>1 DEF Typed, Ends, Loops
<1>8. PICK items : items = t \o <<b>>
  OBVIOUS
<1>9. items \in Seq(R \cup {b})
  <2>1. <<b>> \in Seq({b})
    OBVIOUS
  <2> QED
    BY <1>5, <1>8, <2>1
<1>10. \A k \in DOMAIN items : Typed(items[k]) /\ items[k].do \in {"test", "bodies"}
  <2>1. \A k \in DOMAIN items : items[k] \in R \cup {b}
    BY <1>9
  <2> QED
    BY <1>6, <1>7, <2>1
<1>11. Frame(enc, enc')
  BY LoadedKept, SettledKept, SameSelf DEF SwitchCondition, Same
<1>12. enc.function # 0
  BY <1>2, HeadInside DEF InFunction
<1>13. Work(enc.function, items \o Tail(todo))
  <2>1. \A k \in DOMAIN items :
           /\ Typed(items[k]) /\ items[k].do \notin {"unit", "endfunction"}
           /\ items[k].do \in InFunction => enc.function # 0
           /\ Head(todo).do \in {"switch", "test", "bodies"}
    BY <1>2, <1>10, <1>12
  <2> QED
    BY <1>2, <1>9, <2>1, WorkStep
<1>14. FrameInv(enc', items \o Tail(todo))
  <2>1. \A k \in DOMAIN items : items[k].do \notin Saves \cup {"endfunction"}
    BY <1>10 DEF Saves
  <2>2. PICK S : todo \in Seq(S)
    BY DEF Work
  <2> QED
    BY <1>2, <1>9, <1>11, <2>1, <2>2, FrameStep
<1> QED
  BY <1>2, <1>8, <1>11, <1>13, <1>14 DEF Frame

LEMMA SwitchTestFrame ==
    ASSUME Shape(enc), Work(enc.function, todo), FrameInv(enc, todo), SwitchTest
    PROVE  Work(enc'.function, todo') /\ FrameInv(enc', todo')
<1>1. PICK d : d = [enc EXCEPT !.case_label_num = @ + 1]
  OBVIOUS
<1>2. PICK e : e = get_register(d)
  OBVIOUS
<1>3. PICK r : r = Reg(e.got, "int")
  OBVIOUS
<1>4. PICK f : f = emit_binary_operation(e, r, First, Const(1, "int"), "cmp")
  OBVIOUS
<1>5. PICK g : g = emit_conditional_branch(f, r, Label("CASE", enc.case_label_num))
  OBVIOUS
<1>6. Frame(enc, d) /\ Shape(d)
  BY <1>1 DEF Frame, Shape
<1>7. Frame(enc, e) /\ Shape(e)
  BY <1>2, <1>6, GetRegisterKept DEF Frame
<1>8. Frame(enc, f) /\ Shape(f)
  BY <1>4, <1>7, BinaryAlike, FrameTrans DEF Alike, Frame
<1>9. Frame(enc, Settled(free_rvalue(g, r)))
  <2>1. Frame(enc, g) /\ Shape(g)
    BY <1>5, <1>8, BranchFrame, FrameTrans DEF Frame
  <2> QED
    BY <2>1, FreeValueKept, SettledKept
<1>10. todo # <<>> /\ Head(todo).do = "test"
  BY DEF SwitchTest, Do
<1>11. X \in {"case", "default", "stmt"}
  BY <1>10, HeadTyped DEF Typed, X
<1>12. enc' = CASE X = "stmt" -> enc [] X = "default" -> d [] X = "case" -> Settled(free_rvalue(g, r))
  BY <1>1, <1>2, <1>3, <1>4, <1>5 DEF SwitchTest
<1>13. Frame(enc, enc')
  <2>1. CASE X = "stmt"
    BY <2>1, <1>12, AlikeSelf DEF Alike
  <2>2. CASE X = "default"
    BY <2>2, <1>12, <1>6
  <2>3. CASE X = "case"
    BY <2>3, <1>12, <1>9
  <2> QED
    BY <2>1, <2>2, <2>3, <1>11
<1> QED
  BY <1>10, <1>13, CourseDone DEF SwitchTest

LEMMA SwitchJumpFrame ==
    ASSUME Shape(enc), Work(enc.function, todo), FrameInv(enc, todo), SwitchJump
    PROVE  Work(enc'.function, todo') /\ FrameInv(enc', todo')
<1>1. PICK lbl : enc' = free_rvalue(emit_unconditional_branch(enc, lbl), First)
  BY DEF SwitchJump
<1>2. Frame(enc, enc')
  BY <1>1, BranchFrame, FreeValueKept
<1>3. todo # <<>> /\ Head(todo).do = "bodies"
  BY DEF SwitchJump, Do
<1>4. X.body \in Seq({"case", "default", "stmt"})
  BY <1>3, HeadTyped, MipsAssumption DEF Typed, X
<1>5. PICK labels, items :
         /\ items = [i \in DOMAIN X.body |->
                        IF i \in labels THEN With("label", X.first + Cardinality({j \in labels : j < i})) ELSE Stmt]
         /\ todo' = items \o Tail(todo)
  BY DEF SwitchJump, Then
<1>6. \A i \in DOMAIN X.body : items[i] = Stmt \/ \E n : items[i] = With("label", n)
  BY <1>5
<1>7. PICK R : R = {items[i] : i \in DOMAIN X.body}
  OBVIOUS
<1>8. items \in Seq(R)
  <2>1. Len(X.body) \in Nat /\ DOMAIN X.body = 1..Len(X.body)
    BY <1>4
  <2>2. items \in [1..Len(X.body) -> R]
    BY <1>5, <1>7, <2>1
  <2> QED
    BY <2>1, <2>2
<1>9. \A x \in R : Ordinary(x)
  BY <1>6, <1>7, OrdinaryRequests, OrdinaryWith
<1>10. enc.function # 0 /\ Head(todo).do \notin {"unit", "endfunction"}
  BY <1>3, HeadInside DEF InFunction
<1> QED
  BY <1>2, <1>3, <1>5, <1>8, <1>9, <1>10, Course

LEMMA LabelStatementFrame ==
    ASSUME Shape(enc), Work(enc.function, todo), FrameInv(enc, todo), LabelStatement
    PROVE  Work(enc'.function, todo') /\ FrameInv(enc', todo')
<1>1. PICK R, items : R = {Stmt} /\ items = <<Stmt>>
  OBVIOUS
<1>2. items \in Seq(R) /\ todo' = items \o Tail(todo) /\ todo # <<>> /\ Head(todo).do = "label"
  BY <1>1 DEF LabelStatement, Then, Do
<1>3. Frame(enc, enc')
  BY DeclareFrame DEF LabelStatement
<1>4. enc.function # 0 /\ Head(todo).do \notin {"unit", "endfunction"}
  BY <1>2, HeadInside DEF InFunction
<1>5. \A x \in R : Ordinary(x)
  BY <1>1, OrdinaryRequests
<1> QED
  BY <1>2, <1>3, <1>4, <1>5, Course

LEMMA EndSwitchFrame ==
    ASSUME Shape(enc), Work(enc.function, todo), FrameInv(enc, todo), EndSwitch
    PROVE  Work(enc'.function, todo') /\ FrameInv(enc', todo')
<1>1. todo # <<>> /\ Head(todo).do = "endswitch" /\ todo' = <<>> \o Tail(todo)
  BY DEF EndSwitch, Do, Done, Then
<1>2. PICK d : d = emit_label_declaration(enc, enc.label_break)
  OBVIOUS
<1>3. Frame(enc, d)
  BY <1>2, DeclareFrame
<1>4. enc' = [d EXCEPT !.label_break = X.old_break, !.visible = X.visible]
  BY <1>2 DEF EndSwitch
<1>5. PICK S : todo \in Seq(S)
  BY DEF Work
<1>6. /\ Shape(enc') /\ enc'.function = enc.function /\ enc'.visible = X.visible /\ enc'.scope_displ = enc.scope_displ
      /\ enc'.max_displ = enc.max_displ
  BY <1>3, <1>4 DEF Frame, Shape
<1>7. enc.function # 0
  BY <1>1, HeadInside DEF InFunction, Saves
<1>8. FrameInv(enc', Tail(todo))
  BY <1>1, <1>5, <1>6, <1>7, FrameRestore DEF X, Saves
<1>9. todo' = Tail(todo)
  BY <1>1, <1>5
<1>10. Work(enc.function, todo')
  BY <1>1, WorkDone DEF EndSwitch
<1> QED
  BY <1>6, <1>8, <1>9, <1>10

LEMMA BeginWhileFrame ==
    ASSUME Shape(enc), Work(enc.function, todo), FrameInv(enc, todo), BeginWhile
    PROVE  Work(enc'.function, todo') /\ FrameInv(enc', todo')
<1>1. PICK n, l, a, b, c :
         /\ n = enc.label_num /\ l = Label("BEGIN_CYCLE", n)
         /\ a = Expr("int") /\ b = With("leave", n) /\ c = With("endwhile", Saved(enc, n, l))
  OBVIOUS
<1>2. todo' = <<a, b, Stmt, c>> \o Tail(todo) /\ enc' = emit_label_declaration(Enter(TakeLabel(enc), n, l), l)
  BY <1>1 DEF BeginWhile, Then
<1>3. PICK R : R = {a, b, Stmt, c}
  OBVIOUS
<1>4. <<a, b, Stmt, c>> \in Seq(R)
  BY <1>3
<1>5. \A x \in R : Ordinary(x)
  BY <1>1, <1>3, OrdinaryRequests, OrdinaryWith, OrdinaryEnd
<1>6. Frame(enc, enc')
  <2>1. Frame(enc, TakeLabel(enc)) /\ Shape(TakeLabel(enc))
    BY DeclareFrame DEF Frame
  <2>2. PICK d : d = Enter(TakeLabel(enc), n, l)
    OBVIOUS
  <2>3. Frame(enc, d) /\ Shape(d)
    BY <2>1, <2>2, LoopFrame, FrameTrans DEF Frame
  <2> QED
    BY <1>2, <2>2, <2>3, DeclareFrame, FrameTrans
<1>7. todo # <<>> /\ Head(todo).do = "stmt"
  BY DEF BeginWhile, BeginStmt, Do
<1>8. enc.function # 0 /\ Head(todo).do \notin {"unit", "endfunction"}
  BY <1>7, HeadInside DEF InFunction
<1> QED
  BY <1>2, <1>4, <1>5, <1>6, <1>7, <1>8, Course

LEMMA LeaveBranchFrame ==
    ASSUME Shape(enc), Work(enc.function, todo), FrameInv(enc, todo), LeaveBranch
    PROVE  Work(enc'.function, todo') /\ FrameInv(enc', todo')
<1>1. Frame(enc, enc')
  BY BranchFrame, FreeValueKept DEF LeaveBranch
<1> QED
  BY <1>1, CourseDone DEF LeaveBranch, Do

LEMMA EndWhileFrame ==
    ASSUME Shape(enc), Work(enc.function, todo), FrameInv(enc, todo), EndWhile
    PROVE  Work(enc'.function, todo') /\ FrameInv(enc', todo')
<1>1. PICK d : d = emit_unconditional_branch(enc, Label("BEGIN_CYCLE", X.num))
  OBVIOUS
<1>2. PICK e : e = emit_label_declaration(d, Label("END", X.num))
  OBVIOUS
<1>3. Frame(enc, d) /\ Shape(d)
  BY <1>1, BranchFrame DEF Frame
<1>4. Frame(enc, e) /\ Shape(e)
  BY <1>2, <1>3, DeclareFrame, FrameTrans DEF Frame
<1>5. Frame(enc, enc')
  BY <1>1, <1>2, <1>4, LoopFrame, FrameTrans DEF EndWhile
<1> QED
  BY <1>5, CourseDone DEF EndWhile, Do

LEMMA BeginDoFrame ==
    ASSUME Shape(enc), Work(enc.function, todo), FrameInv(enc, todo), BeginDo
    PROVE  Work(enc'.function, todo') /\ FrameInv(enc', todo')
<1>1. PICK n, l, a, b, c :
         /\ n = enc.label_num /\ l = Label("NEXT", n)
         /\ a = With("docondition", n) /\ b = Expr("int") /\ c = With("enddo", Saved(enc, n, l))
  OBVIOUS
<1>2. /\ todo' = <<Stmt, a, b, c>> \o Tail(todo)
      /\ enc' = Enter(emit_label_declaration(TakeLabel(enc), Label("BEGIN_CYCLE", n)), n, l)
  BY <1>1 DEF BeginDo, Then
<1>3. PICK R : R = {a, b, Stmt, c}
  OBVIOUS
<1>4. <<Stmt, a, b, c>> \in Seq(R)
  BY <1>3
<1>5. \A x \in R : Ordinary(x)
  BY <1>1, <1>3, OrdinaryRequests, OrdinaryWith, OrdinaryEnd
<1>6. Frame(enc, enc')
  <2>1. Frame(enc, TakeLabel(enc)) /\ Shape(TakeLabel(enc))
    BY DeclareFrame DEF Frame
  <2>2. PICK d : d = emit_label_declaration(TakeLabel(enc), Label("BEGIN_CYCLE", n))
    OBVIOUS
  <2>3. Frame(enc, d) /\ Shape(d)
    BY <2>1, <2>2, DeclareFrame, FrameTrans DEF Frame
  <2> QED
    BY <1>2, <2>2, <2>3, LoopFrame, FrameTrans
<1>7. todo # <<>> /\ Head(todo).do = "stmt"
  BY DEF BeginDo, BeginStmt, Do
<1>8. enc.function # 0 /\ Head(todo).do \notin {"unit", "endfunction"}
  BY <1>7, HeadInside DEF InFunction
<1> QED
  BY <1>2, <1>4, <1>5, <1>6, <1>7, <1>8, Course

LEMMA EndDoFrame ==
    ASSUME Shape(enc), Work(enc.function, todo), FrameInv(enc, todo), EndDo
    PROVE  Work(enc'.function, todo') /\ FrameInv(enc', todo')
<1>1. PICK d : d = emit_conditional_branch(enc, First, Label("BEGIN_CYCLE", X.num))
  OBVIOUS
<1>2. PICK e : e = emit_label_declaration(d, Label("END", X.num))
  OBVIOUS
<1>3. Frame(enc, d) /\ Shape(d)
  BY <1>1, BranchFrame DEF Frame
<1>4. Frame(enc, e) /\ Shape(e)
  BY <1>2, <1>3, DeclareFrame, FrameTrans DEF Frame
<1>5. Frame(enc, free_rvalue(e, First)) /\ Shape(free_rvalue(e, First))
  BY <1>4, FreeValueKept DEF Frame
<1>6. Frame(enc, enc')
  BY <1>1, <1>2, <1>5, LoopFrame, FrameTrans DEF EndDo
<1> QED
  BY <1>6, CourseDone DEF EndDo, Do

LEMMA BeginForFrame ==
    ASSUME Shape(enc), Work(enc.function, todo), FrameInv(enc, todo), NEW has_inition, BeginFor(has_inition)
    PROVE  Work(enc'.function, todo') /\ FrameInv(enc', todo')
<1>1. PICK b, s, items :
         /\ b = With("for", [displ |-> enc.scope_displ, visible |-> enc.visible])
         /\ s = IF has_inition THEN <<Stmt>> ELSE <<>>
         /\ items = s \o <<b>>
  OBVIOUS
<1>2. todo' = items \o Tail(todo)
  BY <1>1 DEF BeginFor, Then
<1>3. s \in Seq({Stmt, b}) /\ \A k \in DOMAIN s : s[k] = Stmt
  BY <1>1
<1>4. items \in Seq({Stmt, b}) /\ Len(items) > 0 /\ items[Len(items)] = b
  <2>1. <<b>> \in Seq({Stmt, b})
    OBVIOUS
  <2> QED
    BY <1>1, <1>3, <2>1
<1>5. Typed(b) /\ b.do = "for" /\ b.do \in Saves /\ b.x.displ = enc.scope_displ /\ b.x.visible = enc.visible
  BY <1>1 DEF With, Typed, Ends, Loops, Saves
<1>6. todo # <<>> /\ Head(todo).do = "stmt" /\ Frame(enc, enc')
  BY AlikeSelf DEF BeginFor, BeginStmt, Do, Alike
<1>7. enc.function # 0 /\ Head(todo).do \notin {"unit", "endfunction"}
  BY <1>6, HeadInside DEF InFunction
<1>8. \A k \in DOMAIN items : k # Len(items) => Ordinary(items[k])
  <2>1. \A k \in DOMAIN items : k # Len(items) => k \in DOMAIN s /\ items[k] = s[k]
    <3>1. <<b>> \in Seq({Stmt, b}) /\ Len(<<b>>) = 1
      OBVIOUS
    <3> QED
      BY <1>1, <1>3, <3>1
  <2> QED
    BY <1>3, <2>1, OrdinaryRequests
<1> QED
  BY <1>2, <1>4, <1>5, <1>6, <1>7, <1>8, CourseSave

LEMMA EnterForFrame ==
    ASSUME Shape(enc), Work(enc.function, todo), FrameInv(enc, todo),
           NEW has_condition, NEW has_increment, EnterFor(has_condition, has_increment)
    PROVE  Work(enc'.function, todo') /\ FrameInv(enc', todo')
<1>1. PICK n, l, b :
         /\ n = enc.label_num /\ l = Label("BEGIN_CYCLE", n)
         /\ b = With("endfor", [Saved(enc, n, l) EXCEPT !.displ = X.displ, !.visible = X.visible])
  OBVIOUS
<1>2. PICK s, r, items :
         /\ s = IF has_condition THEN <<Expr("int"), With("leave", n)>> ELSE <<>>
         /\ r = IF has_increment THEN <<Void("int")>> ELSE <<>>
         /\ items = s \o <<Stmt>> \o r \o <<b>>
  OBVIOUS
<1>3. todo' = items \o Tail(todo) /\ enc' = emit_label_declaration(Enter(TakeLabel(enc), n, l), l)
  BY <1>1, <1>2 DEF EnterFor, Then
<1>4. PICK R : R = {Expr("int"), With("leave", n), Stmt, Void("int")}
  OBVIOUS
<1>5. PICK p : p = s \o <<Stmt>> \o r
  OBVIOUS
<1>6. p \in Seq(R)
  <2>1. PICK x, y, z : x = Expr("int") /\ y = With("leave", n) /\ z = Void("int")
    OBVIOUS
  <2>2. x \in R /\ y \in R /\ z \in R /\ Stmt \in R
    BY <1>4, <2>1
  <2>3. <<x, y>> \in Seq(R) /\ <<z>> \in Seq(R) /\ <<Stmt>> \in Seq(R) /\ <<>> \in Seq(R)
    BY <2>2
  <2>4. s \in {<<x, y>>, <<>>} /\ r \in {<<z>>, <<>>}
    BY <1>2, <2>1
  <2>5. s \in Seq(R) /\ r \in Seq(R)
    BY <2>3, <2>4
  <2> QED
    BY <1>5, <2>3, <2>5
<1>7. /\ items \in Seq(R \cup {b}) /\ Len(items) > 0 /\ items[Len(items)] = b
      /\ \A k \in DOMAIN items : k # Len(items) => items[k] \in R
  <2>1. PICK Q, q : Q = R \cup {b} /\ q = <<b>>
    OBVIOUS
  <2>2. q \in Seq(Q) /\ Len(q) = 1 /\ q[1] = b
    BY <2>1
  <2>3. items = p \o q
    BY <1>2, <1>5, <2>1
  <2>4. p \in Seq(Q)
    BY <1>6, <2>1
  <2>5. /\ items \in Seq(Q) /\ Len(items) = Len(p) + 1 /\ Len(p) \in Nat /\ items[Len(items)] = b
        /\ \A k \in DOMAIN items : k # Len(items) => k \in DOMAIN p /\ items[k] = p[k]
    BY <2>1, <2>3, <2>4, Appended
  <2> QED
    BY <1>6, <2>1, <2>5
<1>8. \A x \in R : Ordinary(x)
  BY <1>4, OrdinaryRequests, OrdinaryWith
<1>9. Typed(b) /\ b.do = "endfor" /\ b.do \in Saves /\ b.x.displ = X.displ /\ b.x.visible = X.visible
  <2>1. b.do = "endfor" /\ b.x.displ = X.displ /\ b.x.visible = X.visible /\ b.x.break = Label("END", b.x.num)
    BY <1>1 DEF With, Saved
  <2> QED
    BY <2>1 DEF Typed, Ends, Loops, Saves
<1>10. Frame(enc, enc')
  <2>1. Frame(enc, TakeLabel(enc)) /\ Shape(TakeLabel(enc))
    BY DeclareFrame DEF Frame
  <2>2. PICK d : d = Enter(TakeLabel(enc), n, l)
    OBVIOUS
  <2>3. Frame(enc, d) /\ Shape(d)
    BY <2>1, <2>2, LoopFrame, FrameTrans DEF Frame
  <2> QED
    BY <1>3, <2>2, <2>3, DeclareFrame, FrameTrans
<1>11. todo # <<>> /\ Head(todo).do = "for"
  BY DEF EnterFor, Do
<1>12. enc.function # 0 /\ Head(todo).do \notin {"unit", "endfunction"} /\ Head(todo).do \in Saves
  BY <1>11, HeadInside DEF InFunction, Saves
<1> QED
  BY <1>3, <1>7, <1>8, <1>9, <1>10, <1>11, <1>12, CourseSave

LEMMA EndForFrame ==
    ASSUME Shape(enc), Work(enc.function, todo), FrameInv(enc, todo), EndFor
    PROVE  Work(enc'.function, todo') /\ FrameInv(enc', todo')
<1>1. todo # <<>> /\ Head(todo).do = "endfor" /\ todo' = <<>> \o Tail(todo)
  BY DEF EndFor, Do, Done, Then
<1>2. PICK d : d = Leave(emit_label_declaration(
                  emit_unconditional_branch(enc, Label("BEGIN_CYCLE", X.num)), Label("END", X.num)), X)
  OBVIOUS
<1>3. Frame(enc, d)
  <2>1. PICK e : e = emit_unconditional_branch(enc, Label("BEGIN_CYCLE", X.num))
    OBVIOUS
  <2>2. PICK f : f = emit_label_declaration(e, Label("END", X.num))
    OBVIOUS
  <2>3. Frame(enc, e) /\ Shape(e)
    BY <2>1, BranchFrame DEF Frame
  <2>4. Frame(enc, f) /\ Shape(f)
    BY <2>2, <2>3, DeclareFrame, FrameTrans DEF Frame
  <2> QED
    BY <1>2, <2>1, <2>2, <2>4, LoopFrame, FrameTrans
<1>4. enc' = [d EXCEPT !.scope_displ = X.displ, !.visible = X.visible]
  BY <1>2 DEF EndFor
<1>5. PICK S : todo \in Seq(S)
  BY DEF Work
<1>6. /\ Shape(enc') /\ enc'.function = enc.function /\ enc'.visible = X.visible /\ enc'.scope_displ = X.displ
      /\ enc'.max_displ = enc.max_displ
  BY <1>3, <1>4 DEF Frame, Shape
<1>7. enc.function # 0
  BY <1>1, HeadInside DEF InFunction, Saves
<1>8. FrameInv(enc', Tail(todo))
  BY <1>1, <1>5, <1>6, <1>7, FrameRestore DEF X, Saves
<1>9. todo' = Tail(todo)
  BY <1>1, <1>5
<1>10. Work(enc.function, todo')
  BY <1>1, WorkDone DEF EndFor
<1> QED
  BY <1>6, <1>8, <1>9, <1>10

LEMMA JumpFrame ==
    ASSUME Shape(enc), Work(enc.function, todo), FrameInv(enc, todo),
           emit_continue_statement \/ emit_break_statement \/ EndReturn
    PROVE  Work(enc'.function, todo') /\ FrameInv(enc', todo')
<1>1. Frame(enc, enc')
  BY BranchFrame DEF emit_continue_statement, emit_break_statement, EndReturn
<1> QED
  BY <1>1, CourseDone DEF emit_continue_statement, emit_break_statement, EndReturn, BeginStmt, Do

-----------------------------------------------------------------------------
(* Declarations and functions *)

LEMMA AddedFrame ==
    ASSUME NEW e, Shape(e), NEW t, FrameInv(e, t), NEW type \in Types,
           NEW S, t \in Seq(S), t # <<>>, NEW R, NEW items \in Seq(R),
           \A k \in DOMAIN items : items[k].do \notin Saves \cup {"endfunction"},
           NEW d, Frame(displacements_add(e, type), d)
    PROVE  FrameInv(d, items \o Tail(t)) /\ d.function = e.function
<1>1. PICK size : size = mips_type_size[type]
  OBVIOUS
<1>2. size \in {4, 8}
  BY <1>1, Sizes
<1>3. CASE e.function # 0
  <2>1. PICK scope, x, m : scope = e.scope_displ + size /\ x = Stack(R_FP, -scope, type) /\ m = Max({e.max_displ, scope})
    OBVIOUS
  <2>2. PICK f : f = displacements_add(e, type)
    OBVIOUS
  <2>3. f = [[e EXCEPT !.visible = @ \cup {x}, !.variable = x] EXCEPT !.scope_displ = scope, !.max_displ = Max({@, scope})]
    BY <1>1, <1>3, <2>1, <2>2 DEF displacements_add
  <2>4. /\ Shape(f) /\ f.visible = e.visible \cup {x} /\ f.scope_displ = scope /\ f.max_displ = m /\ f.function = e.function
    BY <2>1, <2>3 DEF Shape
  <2>5. e.scope_displ \in Nat /\ e.max_displ \in Nat /\ e.scope_displ <= e.max_displ /\ scope \in Nat /\ e.scope_displ <= scope
    BY <1>2, <2>1 DEF FrameInv
  <2>6. m \in Nat /\ scope <= m
    BY <2>1, <2>5, MaxPair
  <2>7. Laid(f.visible, scope)
    <3>1. x.n = -(e.scope_displ + mips_type_size[type]) /\ x.type = type
      BY <1>1, <2>1 DEF Stack
    <3>2. Laid(e.visible, e.scope_displ)
      BY DEF FrameInv
    <3>3. Laid(e.visible \cup {x}, e.scope_displ + mips_type_size[type])
      BY <2>5, <3>1, <3>2, LaidAdded
    <3> QED
      BY <1>1, <2>1, <2>4, <3>3
  <2>8. FrameInv(f, t)
    <3>1. \A k \in DOMAIN t : t[k].do \in Saves =>
            t[k].x.displ \in Nat /\ t[k].x.displ <= scope /\ Laid(t[k].x.visible, t[k].x.displ)
      BY <2>5 DEF FrameInv
    <3> QED
      BY <1>3, <2>4, <2>5, <2>6, <2>7, <3>1 DEF FrameInv
  <2>9. Frame(f, d)
    BY <2>2
  <2> QED
    BY <2>4, <2>8, <2>9, FrameStep DEF Frame
<1>4. CASE e.function = 0
  <2>1. PICK x : x = Stack(R_GP, e.global_displ, type)
    OBVIOUS
  <2>2. PICK f : f = displacements_add(e, type)
    OBVIOUS
  <2>3. f = [[e EXCEPT !.visible = @ \cup {x}, !.variable = x] EXCEPT !.global_displ = @ + mips_type_size[type]]
    BY <1>4, <2>1, <2>2 DEF displacements_add
  <2>4. /\ Shape(f) /\ f.visible = e.visible \cup {x} /\ f.scope_displ = e.scope_displ /\ f.max_displ = e.max_displ
        /\ f.function = e.function
    BY <2>3 DEF Shape
  <2>5. OnFp(f.visible) = {}
    <3>1. x.reg # R_FP
      BY <2>1 DEF Stack, R_FP, R_GP
    <3> QED
      BY <1>4, <2>4, <3>1 DEF FrameInv, OnFp
  <2>6. FrameInv(f, t)
    BY <2>4, <2>5, LaidNone DEF FrameInv
  <2>7. Frame(f, d)
    BY <2>2
  <2> QED
    BY <2>4, <2>6, <2>7, FrameStep DEF Frame
<1> QED
  BY <1>3, <1>4

LEMMA AddedShape ==
    ASSUME NEW e, Shape(e), NEW type PROVE Frame(displacements_add(e, type), displacements_add(e, type))
<1>1. PICK scope, v : scope = e.scope_displ + mips_type_size[type]
                      /\ v = IF e.function # 0 THEN Stack(R_FP, -scope, type) ELSE Stack(R_GP, e.global_displ, type)
  OBVIOUS
<1>2. PICK f : f = [e EXCEPT !.visible = @ \cup {v}, !.variable = v]
  OBVIOUS
<1>3. Shape(f)
  BY <1>2 DEF Shape
<1>4. Shape([f EXCEPT !.scope_displ = scope, !.max_displ = Max({@, scope})])
  BY <1>3 DEF Shape
<1>5. Shape([f EXCEPT !.global_displ = @ + mips_type_size[type]])
  BY <1>3 DEF Shape
<1>6. Shape(displacements_add(e, type))
  BY <1>1, <1>2, <1>4, <1>5 DEF displacements_add
<1> QED
  BY <1>6 DEF Frame

LEMMA DeclarationCourse ==
    ASSUME Shape(enc), Work(enc.function, todo), FrameInv(enc, todo), todo # <<>>, Head(todo).do = "declare",
           NEW type \in Types, Frame(displacements_add(enc, type), enc'),
           NEW items, PlainSeq(items), todo' = items \o Tail(todo)
    PROVE  Work(enc'.function, todo') /\ FrameInv(enc', todo')
<1>1. PICK R : items \in Seq(R)
  BY DEF PlainSeq
<1>2. PICK S : todo \in Seq(S)
  BY DEF Work
<1>3. \A k \in DOMAIN items :
         /\ Typed(items[k])
         /\ items[k].do \notin {"unit", "endfunction", "switch", "test", "bodies"} \cup Saves \cup InFunction
  BY DEF PlainSeq, Plain, InFunction
<1>4. FrameInv(enc', items \o Tail(todo)) /\ enc'.function = enc.function
  BY <1>1, <1>2, <1>3, AddedFrame
<1>5. Work(enc.function, items \o Tail(todo))
  BY <1>1, <1>3, WorkStep
<1> QED
  BY <1>4, <1>5

LEMMA VariableFrame ==
    ASSUME Shape(enc), Work(enc.function, todo), FrameInv(enc, todo), NEW type \in Types, NEW initialised,
           emit_variable_declaration(type, initialised)
    PROVE  Work(enc'.function, todo') /\ FrameInv(enc', todo')
<1>1. PICK a, b : a = <<Item("struct"), Item("drop")>> /\ b = <<Expr(type), With("store", enc'.variable)>>
  OBVIOUS
<1>2. todo' = a \o Tail(todo) \/ todo' = b \o Tail(todo) \/ todo' = <<>> \o Tail(todo)
  BY <1>1 DEF emit_variable_declaration, Then
<1>3. PlainSeq(a) /\ PlainSeq(b) /\ PlainSeq(<<>>)
  BY <1>1, PlainTuples, PlainRequests, PlainItem, Kinds
<1>4. todo # <<>> /\ Head(todo).do = "declare" /\ enc' = displacements_add(enc, type)
  BY DEF emit_variable_declaration, BeginDeclaration, Do
<1>5. Frame(displacements_add(enc, type), enc')
  BY <1>4, AddedShape
<1>6. PICK items : PlainSeq(items) /\ todo' = items \o Tail(todo)
  BY <1>2, <1>3
<1> QED
  BY <1>4, <1>5, <1>6, DeclarationCourse

LEMMA ArrayFrame ==
    ASSUME Shape(enc), Work(enc.function, todo), FrameInv(enc, todo), NEW dim, NEW initialised,
           emit_array_declaration(dim, initialised)
    PROVE  Work(enc'.function, todo') /\ FrameInv(enc', todo')
<1>1. PICK d : d = displacements_add(enc, "array")
  OBVIOUS
<1>2. PICK a, b, c :
         /\ a = <<Bound, Item("loadbound")>> /\ b = IF dim = 2 THEN <<Bound, Item("loadbound")>> ELSE <<>>
         /\ c = IF initialised THEN <<With("arrayinit", [dim |-> dim, variable |-> d.variable])>> ELSE <<>>
  OBVIOUS
<1>3. todo' = (a \o b \o c) \o Tail(todo)
  BY <1>1, <1>2 DEF emit_array_declaration, Then
<1>4. PlainSeq(a) /\ PlainSeq(b) /\ PlainSeq(c)
  BY <1>2, PlainTuples, PlainBound, PlainItem, Kinds
<1>5. PlainSeq(a \o b \o c)
  BY <1>4, PlainConcat
<1>6. todo # <<>> /\ Head(todo).do = "declare"
  BY DEF emit_array_declaration, BeginDeclaration, Do
<1>7. Frame(d, enc')
  <2>1. Frame(d, d) /\ Shape(d)
    BY <1>1, AddedShape DEF Frame
  <2> QED
    BY <1>1, <2>1, GetRegisterKept, StoreKept, FreeValueKept DEF emit_array_declaration
<1>8. "array" \in Types
  BY DEF Types
<1>9. PICK items : items = a \o b \o c
  OBVIOUS
<1> QED
  BY <1>1, <1>3, <1>5, <1>6, <1>7, <1>8, <1>9, DeclarationCourse

\* Parameters are above the registers that are saved, in the order they are declared.
LEMMA ParameterLaid ==
    ASSUME WordParameters, NEW f \in DOMAIN Functions, NEW v, OnFp(v) = {},
           NEW u, u = v \cup {Parameter(Functions[f], i) : i \in DOMAIN Functions[f]}
    PROVE  Laid(u, 0)
<1>1. PICK types : types = Functions[f]
  OBVIOUS
<1>2. types \in Seq(Types) /\ \A i \in DOMAIN types : i \in Nat \ {0} /\ types[i] \in Types /\ types[i] \notin Structures
  BY <1>1, MipsAssumption DEF WordParameters
<1>3. ASSUME NEW i \in DOMAIN types, NEW p, p = Parameter(types, i), p.kind = "stack"
      PROVE  p.n = (i - 1) * 4 + 64 /\ p.type = types[i]
  <2>1. PICK place : place = ParameterPlace(types, i)
    OBVIOUS
  <2>2. p = IF place[1] = "frame" THEN Stack(R_FP, place[2], types[i]) ELSE Variable(place, types[i])
    BY <2>1, <1>3 DEF Parameter
  <2>3. place[1] = "frame"
    BY <2>2, <1>3 DEF Variable
  <2>4. p.n = place[2] /\ p.type = types[i]
    BY <2>2, <2>3 DEF Stack
  <2>5. PICK m : m = Cardinality({j \in 1..i - 1 : (types[j] = "float") = (types[i] = "float")})
    OBVIOUS
  <2>6. place[2] = (i - 1) * WORD_LENGTH + FUNC_DISPL_PRESERVED + WORD_LENGTH
    <3>1. place = IF types[i] = "float"
                  THEN IF m < ARG_REG_AMOUNT \div 2 THEN <<"fa", 2 * m>>
                       ELSE <<"frame", (i - 1) * WORD_LENGTH + FUNC_DISPL_PRESERVED + WORD_LENGTH>>
                  ELSE IF m < ARG_REG_AMOUNT THEN <<"a", m>>
                       ELSE <<"frame", (i - 1) * WORD_LENGTH + FUNC_DISPL_PRESERVED + WORD_LENGTH>>
      BY <2>1, <2>5 DEF ParameterPlace
    <3> QED
      BY <2>3, <3>1
  <2> QED
    BY <2>4, <2>6, <1>2 DEF WORD_LENGTH, FUNC_DISPL_PRESERVED
<1>4. \A x \in OnFp(u) : \E i \in DOMAIN types :
         /\ x = Parameter(types, i) /\ x.n = (i - 1) * 4 + 64 /\ x.type = types[i] /\ End(x) = i * 4 + 64
  <2>1. ASSUME NEW x \in OnFp(u) PROVE \E i \in DOMAIN types : x = Parameter(types, i) /\ x.kind = "stack"
    BY <1>1 DEF OnFp
  <2>2. ASSUME NEW x, NEW i \in DOMAIN types, x = Parameter(types, i), x.kind = "stack"
        PROVE  x.n = (i - 1) * 4 + 64 /\ x.type = types[i] /\ End(x) = i * 4 + 64
    <3>1. x.n = (i - 1) * 4 + 64 /\ x.type = types[i]
      BY <2>2, <1>3
    <3>2. mips_type_size[types[i]] = 4
      BY <1>2, Sizes
    <3> QED
      BY <3>1, <3>2, <1>2 DEF End
  <2> QED
    BY <2>1, <2>2
<1>5. ASSUME NEW x \in OnFp(u)
      PROVE  /\ x.n \in Int /\ x.type \in Types
             /\ (-0 <= x.n /\ End(x) <= 0) \/ x.n >= WORD_LENGTH + FUNC_DISPL_PRESERVED
  BY <1>2, <1>4 DEF WORD_LENGTH, FUNC_DISPL_PRESERVED
<1>6. ASSUME NEW x \in OnFp(u), NEW y \in OnFp(u), x # y PROVE End(x) <= y.n \/ End(y) <= x.n
  <2>1. PICK i \in DOMAIN types : x = Parameter(types, i) /\ x.n = (i - 1) * 4 + 64 /\ End(x) = i * 4 + 64
    BY <1>4
  <2>2. PICK j \in DOMAIN types : y = Parameter(types, j) /\ y.n = (j - 1) * 4 + 64 /\ End(y) = j * 4 + 64
    BY <1>4
  <2>3. i # j /\ i \in Nat /\ j \in Nat
    BY <2>1, <2>2, <1>2, <1>6
  <2>4. i * 4 + 64 <= (j - 1) * 4 + 64 \/ j * 4 + 64 <= (i - 1) * 4 + 64
    BY <2>3
  <2> QED
    BY <2>1, <2>2, <2>4
<1> QED
  BY <1>5, <1>6 DEF Laid

LEMMA FunctionItems ==
    ASSUME NEW x, NEW a, NEW b
    PROVE  (<<>> \o <<a, b>>) \o <<>> = <<a, b>> /\ (<<x, x>> \o <<a, b>>) \o <<>> = <<x, x, a, b>>
<1>1. PICK s, r, u : s = <<a, b>> /\ r = <<x, x>> /\ u = <<x, x, a, b>>
  OBVIOUS
<1>2. PICK S : S = {a, b, x}
  OBVIOUS
<1>3. s \in Seq(S) /\ r \in Seq(S) /\ u \in Seq(S)
  BY <1>1, <1>2
<1>4. (<<>> \o s) \o <<>> = s /\ (r \o s) \o <<>> = r \o s
  BY <1>3
<1>5. r \o s = u
  <2>1. PICK w : w = r \o s
    OBVIOUS
  <2>2. /\ Len(s) = 2 /\ Len(r) = 2 /\ Len(u) = 4 /\ s[1] = a /\ s[2] = b /\ r[1] = x /\ r[2] = x
        /\ u[1] = x /\ u[2] = x /\ u[3] = a /\ u[4] = b
    BY <1>1
  <2>3. w \in Seq(S) /\ Len(w) = 4 /\ w[1] = x /\ w[2] = x /\ w[3] = a /\ w[4] = b
    <3>1. /\ w \in Seq(S) /\ Len(w) = 4 /\ \A k \in 1..2 : w[k] = r[k]
          /\ \A k \in 1..2 : w[2 + k] = s[k]
      <4>1. /\ w \in Seq(S) /\ Len(w) = Len(r) + Len(s) /\ \A k \in 1..Len(r) : w[k] = r[k]
            /\ \A k \in 1..Len(s) : w[Len(r) + k] = s[k]
        BY <1>3, <2>1
      <4>2. Len(r) = 2 /\ Len(s) = 2
        BY <2>2
      <4> QED
        BY ONLY <4>1, <4>2
    <3>2. 1 \in 1..2 /\ 2 \in 1..2 /\ 2 + 1 = 3 /\ 2 + 2 = 4
      OBVIOUS
    <3>3. w[3] = s[1] /\ w[4] = s[2] /\ w[1] = r[1] /\ w[2] = r[2]
      BY ONLY <3>1, <3>2
    <3> QED
      BY <2>2, <3>1, <3>3
  <2>4. \A k \in 1..4 : w[k] = u[k]
    <3>1. \A k \in 1..4 : k = 1 \/ k = 2 \/ k = 3 \/ k = 4
      OBVIOUS
    <3> QED
      BY <2>2, <2>3, <3>1
  <2> QED
    BY <1>3, <2>1, <2>2, <2>3, <2>4, SeqEqual
<1> QED
  BY <1>1, <1>4, <1>5

LEMMA BeginFunctionFrame ==
    ASSUME WordParameters, Shape(enc), Work(enc.function, todo), FrameInv(enc, todo), BeginFunction
    PROVE  Work(enc'.function, todo') /\ FrameInv(enc', todo')
<1>1. PICK f, d, a, b :
         /\ f = Cardinality({l \in enc.declared : l[1] = "FUNC"}) + 1
         /\ d = emit_label_declaration(enc, Label("FUNC", f))
         /\ a = With("endfunction", enc.visible) /\ b = Item("unit")
  OBVIOUS
<1>2. /\ f \in DOMAIN Functions
      /\ enc' = [d EXCEPT !.function = f, !.max_displ = 0, !.scope_displ = 0,
                          !.visible = @ \cup {Parameter(Functions[f], i) : i \in DOMAIN Functions[f]}]
      /\ todo' = ((IF f <= MaxBodies THEN <<Stmt, Stmt>> ELSE <<>>) \o <<a, b>>) \o Tail(todo)
      /\ todo # <<>> /\ Head(todo).do = "unit"
  BY <1>1 DEF BeginFunction, Then, Do
<1>3. enc.function = 0 /\ Tail(todo) = <<>> /\ OnFp(enc.visible) = {}
  BY <1>2, UnitLast DEF FrameInv
<1>4. f # 0
  BY <1>2, MipsAssumption
<1>5. Frame(enc, d)
  BY <1>1, DeclareFrame
<1>6. PICK v : v = enc.visible \cup {Parameter(Functions[f], i) : i \in DOMAIN Functions[f]}
  OBVIOUS
<1>7. Shape(enc') /\ enc'.function = f /\ enc'.max_displ = 0 /\ enc'.scope_displ = 0 /\ enc'.visible = v
  BY <1>2, <1>5, <1>6 DEF Frame, Shape
<1>8. Laid(v, 0)
  BY <1>2, <1>3, <1>6, ParameterLaid
<1>9. todo' = <<a, b>> \/ todo' = <<Stmt, Stmt, a, b>>
  <2>1. CASE f <= MaxBodies
    BY <2>1, <1>2, <1>3, FunctionItems
  <2>2. CASE ~(f <= MaxBodies)
    BY <2>2, <1>2, <1>3, FunctionItems
  <2> QED
    BY <2>1, <2>2
<1>10. a.do = "endfunction" /\ a.x = enc.visible /\ b.do = "unit" /\ Stmt.do = "stmt"
  BY <1>1 DEF With, Item, Stmt
<1>11. Work(enc'.function, todo')
  BY <1>4, <1>7, <1>9, <1>10, WorkFunction
<1>12. \A k \in DOMAIN todo' : todo'[k] \in {a, b, Stmt}
  BY <1>9
<1>13. /\ \A k \in DOMAIN todo' : todo'[k].do \notin Saves
       /\ \A k \in DOMAIN todo' : todo'[k].do = "endfunction" => OnFp(todo'[k].x) = {}
  BY <1>3, <1>10, <1>12 DEF Saves
<1>14. FrameInv(enc', todo')
  BY <1>4, <1>7, <1>8, <1>13 DEF FrameInv
<1> QED
  BY <1>11, <1>14

LEMMA EndFunctionFrame ==
    ASSUME Shape(enc), Work(enc.function, todo), FrameInv(enc, todo), EndFunction
    PROVE  Work(enc'.function, todo') /\ FrameInv(enc', todo')
<1>1. todo # <<>> /\ Head(todo).do = "endfunction" /\ todo' = <<>> \o Tail(todo)
  BY DEF EndFunction, Do, Done, Then
<1>2. PICK S : todo \in Seq(S)
  BY DEF Work
<1>3. todo' = Tail(todo)
  BY <1>1, <1>2
<1>4. Work(0, todo')
  BY <1>1, <1>3, FunctionLast
<1>5. PICK d : d = emit_label_declaration(enc, Label("FUNCEND", enc.function))
  OBVIOUS
<1>6. Frame(enc, d) /\ enc' = [d EXCEPT !.function = 0, !.visible = X]
  BY <1>5, DeclareFrame DEF EndFunction
<1>7. /\ Shape(enc') /\ enc'.function = 0 /\ enc'.visible = X
      /\ enc'.scope_displ = enc.scope_displ /\ enc'.max_displ = enc.max_displ
  BY <1>6 DEF Frame, Shape
<1>8. OnFp(X) = {}
  <2>1. 1 \in DOMAIN todo /\ todo[1] = Head(todo)
    BY <1>1, HeadTyped
  <2>2. todo[1].do = "endfunction"
    BY <1>1, <2>1
  <2>3. OnFp(todo[1].x) = {}
    BY <2>1, <2>2 DEF FrameInv
  <2> QED
    BY <2>1, <2>3 DEF X
<1>9. \A k \in DOMAIN todo' : todo'[k].do \notin Saves \cup {"endfunction"}
  BY <1>4 DEF Work, InFunction
<1>10. FrameInv(enc', todo')
  BY <1>7, <1>8, <1>9, LaidNone DEF FrameInv
<1> QED
  BY <1>4, <1>7, <1>10

LEMMA UnitFrame ==
    ASSUME Shape(enc), Work(enc.function, todo), FrameInv(enc, todo), GlobalDeclaration \/ EndUnit
    PROVE  Work(enc'.function, todo') /\ FrameInv(enc', todo')
<1>1. todo # <<>> /\ Head(todo).do = "unit" /\ enc' = enc
  BY DEF GlobalDeclaration, EndUnit, Do
<1>2. enc.function = 0 /\ Tail(todo) = <<>>
  BY <1>1, UnitLast
<1>3. todo' = <<Item("declare"), Item("unit")>> \/ todo' = <<>>
  <2>1. CASE GlobalDeclaration
    <3>1. todo' = <<Item("declare"), Item("unit")>> \o <<>>
      BY <2>1, <1>2 DEF GlobalDeclaration, Then
    <3> QED
      BY <3>1
  <2>2. CASE EndUnit
    <3>1. todo' = <<>> \o <<>>
      BY <2>2, <1>2 DEF EndUnit, Done, Then
    <3> QED
      BY <3>1
  <2> QED
    BY <2>1, <2>2
<1>4. Work(enc'.function, todo')
  BY <1>1, <1>2, <1>3, WorkGlobal, WorkNone
<1>5. \A k \in DOMAIN todo' : todo'[k].do \notin Saves \cup {"endfunction"}
  BY <1>1, <1>2, <1>4 DEF Work, InFunction
<1>6. FrameInv(enc', todo')
  BY <1>1, <1>5 DEF FrameInv
<1> QED
  BY <1>4, <1>6

-----------------------------------------------------------------------------
(* The frame of every function *)

\* The invariant that is inductive
FrameKept == Work(enc.function, todo) /\ FrameInv(enc, todo)

LEMMA FrameInit == Init => FrameKept
<1>1. ASSUME Init PROVE FrameKept
  <2>1. /\ Shape(enc) /\ enc.function = 0 /\ enc.visible = {} /\ enc.scope_displ = 0 /\ enc.max_displ = 0
    BY <1>1 DEF Init, strings_declaration, Shape
  <2>2. Item("unit").do = "unit" /\ Typed(Item("unit"))
    BY DEF Item, Typed, Ends, Loops
  <2>3. todo = <<Item("unit")>>
    BY <1>1 DEF Init
  <2>4. /\ todo \in Seq({Item("unit")}) /\ Len(todo) = 1 /\ \A k \in DOMAIN todo : k = 1 /\ todo[k] = Item("unit")
    BY <2>3
  <2>5. Work(0, todo)
    BY <2>2, <2>4 DEF Work, InFunction, Ends, Loops, Saves
  <2>6. FrameInv(enc, todo)
    <3>1. OnFp(enc.visible) = {} /\ Laid(enc.visible, 0)
      BY <2>1 DEF OnFp, Laid
    <3>2. \A k \in DOMAIN todo : todo[k].do \notin Saves \cup {"endfunction"}
      BY <2>2, <2>4 DEF Saves
    <3> QED
      BY <2>1, <3>1, <3>2 DEF FrameInv
  <2> QED
    BY <2>1, <2>5, <2>6 DEF FrameKept
<1> QED
  BY <1>1

LEMMA QuietKept == ASSUME FrameKept, Quiet PROVE FrameKept'
  BY QuietFrame, SmoothWork DEF FrameKept, Quiet

LEMMA FrameNext == WordParameters /\ FrameKept /\ [Next]_vars => FrameKept'
<1> SUFFICES ASSUME WordParameters, FrameKept, [Next]_vars PROVE FrameKept'
  OBVIOUS
<1>0. Shape(enc) /\ Work(enc.function, todo) /\ FrameInv(enc, todo)
  BY DEF FrameKept, FrameInv
<1>1. CASE NextLvalue
  BY <1>0, <1>1, LvaluesQuiet, QuietKept
<1>2. CASE NextExpression
  <2>1. CASE Quiet
    BY <2>1, QuietKept
  <2>2. CASE LogicalBranch
    BY <1>0, <2>2, LogicalBranchFrame DEF FrameKept
  <2>3. CASE EndLogical
    BY <1>0, <2>3, EndLogicalFrame DEF FrameKept
  <2>4. CASE TernaryBranch
    BY <1>0, <2>4, TernaryBranchFrame DEF FrameKept
  <2>5. CASE TernaryElse
    BY <1>0, <2>5, TernaryElseFrame DEF FrameKept
  <2>6. CASE EndTernary
    BY <1>0, <2>6, EndTernaryFrame DEF FrameKept
  <2> QED
    BY <1>0, <1>2, <2>1, <2>2, <2>3, <2>4, <2>5, <2>6, ExpressionsQuiet
<1>3. CASE NextDeclaration
  <2>1. CASE Quiet
    BY <2>1, QuietKept
  <2>2. CASE \E type \in Types, initialised \in BOOLEAN : emit_variable_declaration(type, initialised)
    BY <1>0, <2>2, VariableFrame DEF FrameKept
  <2>3. CASE \E dim \in 1..2, initialised \in BOOLEAN : emit_array_declaration(dim, initialised)
    BY <1>0, <2>3, ArrayFrame DEF FrameKept
  <2>4. CASE BeginFunction
    BY <1>0, <2>4, BeginFunctionFrame DEF FrameKept
  <2>5. CASE EndFunction
    BY <1>0, <2>5, EndFunctionFrame DEF FrameKept
  <2>6. CASE GlobalDeclaration \/ EndUnit
    BY <1>0, <2>6, UnitFrame DEF FrameKept
  <2> QED
    BY <1>0, <1>3, <2>1, <2>2, <2>3, <2>4, <2>5, <2>6, DeclarationsQuiet
<1>4. CASE NextStatement
  <2>1. CASE Quiet
    BY <2>1, QuietKept
  <2>2. CASE BeginCompound
    BY <1>0, <2>2, BeginCompoundFrame DEF FrameKept
  <2>3. CASE EndCompound
    BY <1>0, <2>3, EndCompoundFrame DEF FrameKept
  <2>4. CASE IfBranch
    BY <1>0, <2>4, IfBranchFrame DEF FrameKept
  <2>5. CASE IfElse \/ EndIf \/ DoCondition
    BY <1>0, <2>5, IfElseFrame DEF FrameKept
  <2>6. CASE BeginSwitch
    BY <1>0, <2>6, BeginSwitchFrame DEF FrameKept
  <2>7. CASE SwitchCondition
    BY <1>0, <2>7, SwitchConditionFrame DEF FrameKept
  <2>8. CASE SwitchTest
    BY <1>0, <2>8, SwitchTestFrame DEF FrameKept
  <2>9. CASE SwitchJump
    BY <1>0, <2>9, SwitchJumpFrame DEF FrameKept
  <2>10. CASE LabelStatement
    BY <1>0, <2>10, LabelStatementFrame DEF FrameKept
  <2>11. CASE EndSwitch
    BY <1>0, <2>11, EndSwitchFrame DEF FrameKept
  <2>12. CASE BeginWhile
    BY <1>0, <2>12, BeginWhileFrame DEF FrameKept
  <2>13. CASE LeaveBranch
    BY <1>0, <2>13, LeaveBranchFrame DEF FrameKept
  <2>14. CASE EndWhile
    BY <1>0, <2>14, EndWhileFrame DEF FrameKept
  <2>15. CASE BeginDo
    BY <1>0, <2>15, BeginDoFrame DEF FrameKept
  <2>16. CASE EndDo
    BY <1>0, <2>16, EndDoFrame DEF FrameKept
  <2>17. CASE \E has_inition \in BOOLEAN : BeginFor(has_inition)
    BY <1>0, <2>17, BeginForFrame DEF FrameKept
  <2>18. CASE \E has_condition, has_increment \in BOOLEAN : EnterFor(has_condition, has_increment)
    BY <1>0, <2>18, EnterForFrame DEF FrameKept
  <2>19. CASE EndFor
    BY <1>0, <2>19, EndForFrame DEF FrameKept
  <2>20. CASE emit_continue_statement \/ emit_break_statement \/ EndReturn
    BY <1>0, <2>20, JumpFrame DEF FrameKept
  <2> QED
    BY <1>0, <1>4, <2>1, <2>2, <2>3, <2>4, <2>5, <2>6, <2>7, <2>8, <2>9, <2>10, <2>11, <2>12, <2>13, <2>14, <2>15, <2>16, <2>17, <2>18, <2>19, <2>20, StatementsQuiet
<1>5. CASE UNCHANGED vars
  BY <1>5 DEF vars, FrameKept
<1> QED
  BY <1>1, <1>2, <1>3, <1>4, <1>5 DEF Next

LEMMA FrameApart == FrameKept => FrameLayout
<1> SUFFICES ASSUME FrameKept PROVE FrameLayout
  OBVIOUS
<1>1. /\ Laid(enc.visible, enc.scope_displ) /\ enc.scope_displ \in Nat /\ enc.max_displ \in Nat
      /\ enc.scope_displ <= enc.max_displ /\ OnFrame = OnFp(enc.visible)
  BY DEF FrameKept, FrameInv, OnFrame, OnFp
<1>2. \A v \in OnFrame : v.n \in Int /\ mips_type_size[v.type] \in {4, 8}
  BY <1>1, Sizes DEF Laid
<1>3. ASSUME NEW v \in OnFrame, NEW w \in OnFrame, v # w PROVE Bytes(v) \cap Bytes(w) = {}
  <2>1. End(v) <= w.n \/ End(w) <= v.n
    BY <1>1, <1>3 DEF Laid
  <2> QED
    BY <2>1, <1>2 DEF End, Bytes
<1>4. ASSUME NEW v \in OnFrame
      PROVE  Bytes(v) \subseteq -enc.max_displ..-1 \/ v.n >= WORD_LENGTH + FUNC_DISPL_PRESERVED
  <2>1. CASE -enc.scope_displ <= v.n /\ End(v) <= 0
    BY <2>1, <1>1, <1>2 DEF End, Bytes
  <2> QED
    BY <2>1, <1>1 DEF Laid
<1> QED
  BY <1>3, <1>4 DEF FrameLayout

\* Variables that are visible at the same time share no byte of the frame, and locals are
\* in the frame that the prologue makes room for (displacements_add, the blocks, switches
\* and loops, emit_function_definition), when no parameter is a structure: one that is
\* takes a single word, and the next lies in it.
THEOREM FramesLaidOut == ASSUME WordParameters PROVE Spec => []FrameLayout
<1>1. [](WordParameters) => (Spec => []FrameKept)
  BY FrameInit, FrameNext, PTL DEF Spec
<1> QED
  BY <1>1, FrameApart, PTL
-----------------------------------------------------------------------------
(* Labels *)

LabelsOf(body) == {i \in DOMAIN body : body[i] # "stmt"}

\* The labels that an item will declare
Owned(item) ==
    IF item.do = "endlogical" THEN {item.x.lbl}
    ELSE IF item.do \in {"ternaryelse", "else"} THEN {Label("ELSE", item.x)}
    ELSE IF item.do \in {"endternary", "endif"} THEN {Label("END", item.x)}
    ELSE IF item.do = "docondition" THEN {Label("NEXT", item.x)}
    ELSE IF item.do = "label" THEN {Label("CASE", item.x)}
    ELSE IF item.do \in Ends THEN {item.x.break}
    ELSE IF item.do = "bodies"
         THEN {Label("CASE", n) : n \in item.x.first..item.x.first + Cardinality(LabelsOf(item.x.body)) - 1}
    ELSE {}

\* The labels of others that it will jump to
Named(item) ==
    IF item.do \in {"ternaryelse", "else", "leave"} THEN {Label("END", item.x)}
    ELSE IF item.do \in Loops THEN {Label("BEGIN_CYCLE", item.x.num), item.x.continue}
    ELSE {}

Kind(l) == l[1] \in Numbered \cup {"CASE"}
Old(l, n, c) == (l[1] \in Numbered => l[2] \in 0..n - 1) /\ (l[1] = "CASE" => l[2] \in 0..c - 1)

\* A label that may be jumped to: it is declared, or owed, or will be declared.
Safe(e, t, owed, l) ==
    \/ l \in e.declared \/ l \in owed
    \/ \E k \in DOMAIN t : l \in Owned(t[k])
    \/ Library(l) \/ l[1] = "FUNCEND"

Reached(e, t, owed, l) == l[1] # "FUNCEND" /\ Safe(e, t, owed, l)

\* The functions so far are declared, and all but the one that is emitted are ended.
FunctionsInv(e) ==
    /\ \E n \in 0..Len(Functions) :
          /\ e.function \in 0..n
          /\ \A g \in 1..n : Label("FUNC", g) \in e.declared
          /\ \A l \in e.declared : l[1] = "FUNC" => \E g \in 1..n : l = Label("FUNC", g)
          /\ \A l \in e.declared : l[1] = "FUNCEND" => \E g \in 1..n : g # e.function /\ l = Label("FUNCEND", g)
    /\ \A l \in e.used : l[1] = "FUNCEND" =>
          l \in e.declared \/ (e.function # 0 /\ l = Label("FUNCEND", e.function))
    /\ \A p \in Pieces : StringLabel(p[1], p[2]) \in e.declared

\* Every label has one owner until it is declared; c is above all labels of cases.
LabelsInv(e, t, owed, c) ==
    /\ Shape(e) /\ c \in Nat /\ ~e.twice
    /\ FunctionsInv(e)
    /\ \A l \in e.declared : Old(l, e.label_num, c)
    /\ \A l \in owed : Kind(l) /\ Old(l, e.label_num, c) /\ l \notin e.declared
    /\ \A k \in DOMAIN t : \A l \in Owned(t[k]) :
          Kind(l) /\ Old(l, e.label_num, c) /\ l \notin e.declared /\ l \notin owed
    /\ \A k, m \in DOMAIN t : k # m => Owned(t[k]) \cap Owned(t[m]) = {}
    /\ e.ok => /\ \A l \in e.used : Safe(e, t, owed, l)
               /\ \A k \in DOMAIN t : \A l \in Named(t[k]) : Reached(e, t, owed, l)

LEMMA NotFunction == ASSUME NEW l, Kind(l) PROVE l[1] \notin {"FUNC", "FUNCEND"}
  BY DEF Kind, Numbered

LEMMA LibraryKind == ASSUME NEW l, Library(l) PROVE l[1] # "FUNCEND"
  BY DEF Library, StringLabel, Label

LEMMA FunctionsKept ==
    ASSUME NEW e, NEW d, FunctionsInv(e), d.function = e.function, e.declared \subseteq d.declared,
           \A l \in d.declared : l \in e.declared \/ Kind(l),
           \A l \in d.used : l \in e.used \/ l \in d.declared \/ l[1] # "FUNCEND"
    PROVE  FunctionsInv(d)
<1>1. PICK n \in 0..Len(Functions) :
          /\ e.function \in 0..n
          /\ \A g \in 1..n : Label("FUNC", g) \in e.declared
          /\ \A l \in e.declared : l[1] = "FUNC" => \E g \in 1..n : l = Label("FUNC", g)
          /\ \A l \in e.declared : l[1] = "FUNCEND" => \E g \in 1..n : g # e.function /\ l = Label("FUNCEND", g)
  BY DEF FunctionsInv
<1>2. \A l \in d.declared : l[1] \in {"FUNC", "FUNCEND"} => l \in e.declared
  BY NotFunction
<1>3. /\ d.function \in 0..n
      /\ \A g \in 1..n : Label("FUNC", g) \in d.declared
      /\ \A l \in d.declared : l[1] = "FUNC" => \E g \in 1..n : l = Label("FUNC", g)
      /\ \A l \in d.declared : l[1] = "FUNCEND" => \E g \in 1..n : g # d.function /\ l = Label("FUNCEND", g)
  BY <1>1, <1>2
<1>4. \A l \in d.used : l[1] = "FUNCEND" =>
          l \in d.declared \/ (d.function # 0 /\ l = Label("FUNCEND", d.function))
  BY DEF FunctionsInv
<1>5. \A p \in Pieces : StringLabel(p[1], p[2]) \in d.declared
  BY DEF FunctionsInv
<1> QED
  BY <1>3, <1>4, <1>5 DEF FunctionsInv

LEMMA OldLater ==
    ASSUME NEW l, NEW n \in Nat, NEW m \in Nat, NEW c \in Nat, NEW d \in Nat, n <= m, c <= d, Old(l, n, c)
    PROVE  Old(l, m, d)
  BY DEF Old

\* An operation that declares what it needs on the spot
LEMMA LabelsCalmly ==
    ASSUME NEW e, NEW d, NEW t, NEW o, NEW c, LabelsInv(e, t, o, c), Calm(e, d)
    PROVE  LabelsInv(d, t, o, c)
<1>1. /\ Shape(d) /\ c \in Nat /\ e.label_num \in Nat /\ d.label_num \in Nat /\ e.label_num <= d.label_num
      /\ \A l : Old(l, e.label_num, c) => Old(l, d.label_num, c)
  <2>1. c \in Nat /\ e.label_num \in Nat /\ d.label_num \in Nat /\ e.label_num <= d.label_num
    BY DEF LabelsInv, Calm, Shape
  <2> QED
    BY <2>1, OldLater DEF Calm
<1>2. \A l : Old(l, e.label_num, c) => ~Fresh(l, e)
  BY DEF Old, Fresh
<1>3. ~d.twice
  BY <1>2 DEF LabelsInv, Calm
<1>4. \A l \in d.declared : l \in e.declared \/ (Fresh(l, e) /\ ~Fresh(l, d))
  BY DEF Calm
<1>5. \A l : ~Fresh(l, d) /\ l[1] \in Numbered => Old(l, d.label_num, c)
  BY DEF Old, Fresh, Numbered
<1>6. \A l \in d.declared : Old(l, d.label_num, c)
  BY <1>1, <1>4, <1>5 DEF LabelsInv, Fresh
<1>7. \A l : Old(l, e.label_num, c) /\ l \notin e.declared => l \notin d.declared
  BY <1>2, <1>4
<1>8. \A l : Safe(e, t, o, l) => Safe(d, t, o, l)
  BY DEF Safe, Calm
<1>9. \A l \in d.used : l \in e.used \/ l \in d.declared \/ Library(l)
  BY DEF Calm
<1>10. FunctionsInv(d)
  <2>1. \A l \in d.declared : l \in e.declared \/ Kind(l)
    BY <1>4 DEF Fresh, Kind
  <2> QED
    BY <1>9, <2>1, FunctionsKept, LibraryKind DEF LabelsInv, Calm
<1>11. d.ok => /\ \A l \in d.used : Safe(d, t, o, l)
               /\ \A k \in DOMAIN t : \A l \in Named(t[k]) : Reached(d, t, o, l)
  <2>1. \A l \in d.used : l \in d.declared \/ Library(l) => Safe(d, t, o, l)
    BY DEF Safe
  <2> QED
    BY <1>8, <1>9, <2>1 DEF LabelsInv, Calm, Reached
<1>12. \A l \in o : Kind(l) /\ Old(l, d.label_num, c) /\ l \notin d.declared
  BY <1>1, <1>7 DEF LabelsInv
<1>13. \A k \in DOMAIN t : \A l \in Owned(t[k]) :
          Kind(l) /\ Old(l, d.label_num, c) /\ l \notin d.declared /\ l \notin o
  BY <1>1, <1>7 DEF LabelsInv
<1> QED
  BY <1>1, <1>3, <1>6, <1>10, <1>11, <1>12, <1>13 DEF LabelsInv

\* A change that has nothing to do with labels
Apart(e, d) ==
    /\ Shape(d) /\ (d.ok => e.ok) /\ d.function = e.function
    /\ d.label_num = e.label_num /\ d.declared = e.declared /\ d.used = e.used /\ d.twice = e.twice

LEMMA LabelsApart ==
    ASSUME NEW e, NEW d, NEW t, NEW o, NEW c, LabelsInv(e, t, o, c), Apart(e, d)
    PROVE  LabelsInv(d, t, o, c)
<1>1. \A l : Safe(e, t, o, l) <=> Safe(d, t, o, l)
  BY DEF Safe, Apart
<1>2. FunctionsInv(d)
  BY DEF LabelsInv, FunctionsInv, Apart
<1> QED
  BY <1>1, <1>2 DEF LabelsInv, Apart, Reached

LEMMA SameApart == ASSUME NEW e, NEW d, Same(e, d) PROVE Apart(e, d)
  BY DEF Same, Frame, Labels, Apart

\* New labels are owed, with the number that is taken for them.
LEMMA LabelsTake ==
    ASSUME NEW e, NEW t, NEW o, NEW c, LabelsInv(e, t, o, c), NEW kinds \in SUBSET Numbered,
           NEW u, u = o \cup {Label(kind, e.label_num) : kind \in kinds}
    PROVE  LabelsInv(TakeLabel(e), t, u, c)
<1>1. PICK d : d = TakeLabel(e)
  OBVIOUS
<1>2. /\ Shape(d) /\ d.label_num = e.label_num + 1 /\ e.label_num \in Nat /\ c \in Nat
      /\ d.ok = e.ok /\ d.function = e.function
      /\ d.declared = e.declared /\ d.used = e.used /\ d.twice = e.twice
  BY <1>1 DEF TakeLabel, Shape, LabelsInv
<1>3. \A l : Old(l, e.label_num, c) => Old(l, d.label_num, c)
  BY <1>2, OldLater
<1>4. PICK new : new = {Label(kind, e.label_num) : kind \in kinds}
  OBVIOUS
<1>5. \A l \in new : Kind(l) /\ Old(l, d.label_num, c) /\ ~Old(l, e.label_num, c)
  <2>1. ASSUME NEW kind \in kinds, NEW l, l = Label(kind, e.label_num)
        PROVE  Kind(l) /\ Old(l, d.label_num, c) /\ ~Old(l, e.label_num, c)
    <3>1. l[1] = kind /\ l[2] = e.label_num
      BY <2>1 DEF Label
    <3>2. kind \in Numbered /\ kind # "CASE"
      BY DEF Numbered
    <3> QED
      BY <1>2, <3>1, <3>2 DEF Kind, Old
  <2> QED
    BY <1>4, <2>1
<1>6. \A l : Safe(e, t, o, l) => Safe(d, t, u, l)
  BY <1>2 DEF Safe
<1>7. FunctionsInv(d)
  BY <1>2 DEF LabelsInv, FunctionsInv
<1>8. \A l \in d.declared : Old(l, d.label_num, c)
  BY <1>2, <1>3 DEF LabelsInv
<1>9. \A l \in u : Kind(l) /\ Old(l, d.label_num, c) /\ l \notin d.declared
  BY <1>2, <1>3, <1>4, <1>5 DEF LabelsInv
<1>10. \A k \in DOMAIN t : \A l \in Owned(t[k]) :
          Kind(l) /\ Old(l, d.label_num, c) /\ l \notin d.declared /\ l \notin u
  BY <1>2, <1>3, <1>4, <1>5 DEF LabelsInv
<1>11. d.ok => /\ \A l \in d.used : Safe(d, t, u, l)
               /\ \A k \in DOMAIN t : \A l \in Named(t[k]) : Reached(d, t, u, l)
  BY <1>2, <1>6 DEF LabelsInv, Reached
<1>12. LabelsInv(d, t, u, c)
  BY <1>2, <1>7, <1>8, <1>9, <1>10, <1>11 DEF LabelsInv
<1> QED
  BY <1>1, <1>12

LEMMA LabelsBranch ==
    ASSUME NEW e, NEW t, NEW o, NEW c, LabelsInv(e, t, o, c), NEW l, Safe(e, t, o, l),
           l[1] = "FUNCEND" => e.function # 0 /\ l = Label("FUNCEND", e.function)
    PROVE  /\ LabelsInv(emit_unconditional_branch(e, l), t, o, c)
           /\ \A x : LabelsInv(emit_conditional_branch(e, x, l), t, o, c)
<1>1. PICK d : d = emit_unconditional_branch(e, l)
  OBVIOUS
<1>2. /\ Shape(d) /\ d.label_num = e.label_num
      /\ d.ok = e.ok /\ d.function = e.function
      /\ d.declared = e.declared /\ d.used = e.used \cup {l} /\ d.twice = e.twice
  BY <1>1 DEF emit_unconditional_branch, Shape, LabelsInv
<1>3. \A m : Safe(e, t, o, m) <=> Safe(d, t, o, m)
  BY <1>2 DEF Safe
<1>4. FunctionsInv(d)
  <2>1. \A m \in d.used : m[1] = "FUNCEND" =>
          m \in d.declared \/ (d.function # 0 /\ m = Label("FUNCEND", d.function))
    BY <1>2 DEF LabelsInv, FunctionsInv
  <2> QED
    BY <1>2, <2>1 DEF LabelsInv, FunctionsInv
<1>5. d.ok => /\ \A m \in d.used : Safe(d, t, o, m)
              /\ \A k \in DOMAIN t : \A m \in Named(t[k]) : Reached(d, t, o, m)
  BY <1>2, <1>3 DEF LabelsInv, Reached
<1>6. LabelsInv(d, t, o, c)
  BY <1>2, <1>4, <1>5 DEF LabelsInv
<1> QED
  BY <1>1, <1>6 DEF emit_conditional_branch

LEMMA LabelsDeclare ==
    ASSUME NEW e, NEW t, NEW o, NEW c, LabelsInv(e, t, o, c), NEW l \in o, NEW u, u = o \ {l}
    PROVE  LabelsInv(emit_label_declaration(e, l), t, u, c)
<1>1. PICK d : d = emit_label_declaration(e, l)
  OBVIOUS
<1>2. l \notin e.declared /\ Kind(l) /\ Old(l, e.label_num, c) /\ ~e.twice
  BY DEF LabelsInv
<1>3. /\ Shape(d) /\ d.label_num = e.label_num
      /\ d.ok = e.ok /\ d.function = e.function
      /\ d.declared = e.declared \cup {l} /\ d.used = e.used /\ ~d.twice
  BY <1>1, <1>2 DEF emit_label_declaration, Shape, LabelsInv
<1>4. \A m : Safe(e, t, o, m) => Safe(d, t, u, m)
  BY <1>3 DEF Safe
<1>5. FunctionsInv(d)
  BY <1>2, <1>3, FunctionsKept DEF LabelsInv
<1>6. d.ok => /\ \A m \in d.used : Safe(d, t, u, m)
              /\ \A k \in DOMAIN t : \A m \in Named(t[k]) : Reached(d, t, u, m)
  BY <1>3, <1>4 DEF LabelsInv, Reached
<1>7. \A m \in d.declared : Old(m, d.label_num, c)
  BY <1>2, <1>3 DEF LabelsInv
<1>8. \A m \in u : Kind(m) /\ Old(m, d.label_num, c) /\ m \notin d.declared
  BY <1>3 DEF LabelsInv
<1>9. \A k \in DOMAIN t : \A m \in Owned(t[k]) :
          Kind(m) /\ Old(m, d.label_num, c) /\ m \notin d.declared /\ m \notin u
  BY <1>3 DEF LabelsInv
<1>10. LabelsInv(d, t, u, c)
  BY <1>3, <1>5, <1>6, <1>7, <1>8, <1>9 DEF LabelsInv
<1> QED
  BY <1>1, <1>10

\* What the head owns is owed when it is done.
LEMMA LabelsPop ==
    ASSUME NEW e, NEW t, NEW c, LabelsInv(e, t, {}, c), NEW S, t \in Seq(S), t # <<>>
    PROVE  /\ LabelsInv(e, Tail(t), Owned(Head(t)), c)
           /\ e.ok => \A l \in Named(Head(t)) : Reached(e, Tail(t), Owned(Head(t)), l)
<1>1. PICK u : u = Tail(t)
  OBVIOUS
<1>2. PICK o : o = Owned(Head(t))
  OBVIOUS
<1>3. /\ DOMAIN t = 1..Len(t) /\ Len(t) \in Nat \ {0} /\ Head(t) = t[1] /\ 1 \in DOMAIN t
      /\ DOMAIN u = 1..Len(t) - 1
      /\ \A k \in 1..Len(t) - 1 : u[k] = t[k + 1]
  BY <1>1
<1>4. \A k \in DOMAIN u : k \in Int /\ k + 1 \in DOMAIN t /\ k + 1 # 1 /\ u[k] = t[k + 1]
  BY <1>3
<1>5. \A k \in DOMAIN t : k = 1 \/ (k - 1 \in DOMAIN u /\ u[k - 1] = t[k])
  <2>1. ASSUME NEW k \in DOMAIN t, k # 1 PROVE k - 1 \in DOMAIN u /\ u[k - 1] = t[k]
    <3>1. PICK m : m = k - 1
      OBVIOUS
    <3>2. m \in DOMAIN u /\ m + 1 = k
      BY <3>1, <2>1, <1>3
    <3> QED
      BY <3>1, <3>2, <1>4
  <2> QED
    BY <2>1
<1>6. \A l : Safe(e, t, {}, l) => Safe(e, u, o, l)
  BY <1>2, <1>3, <1>5 DEF Safe
<1>7. \A l \in o : Kind(l) /\ Old(l, e.label_num, c) /\ l \notin e.declared
  BY <1>2, <1>3 DEF LabelsInv
<1>8. ASSUME NEW k \in DOMAIN u, NEW l \in Owned(u[k])
      PROVE  Kind(l) /\ Old(l, e.label_num, c) /\ l \notin e.declared /\ l \notin o
  <2>1. PICK m : m = k + 1
    OBVIOUS
  <2>2. m \in DOMAIN t /\ m # 1 /\ u[k] = t[m]
    BY <2>1, <1>4
  <2>3. Owned(t[m]) \cap Owned(t[1]) = {}
    BY <2>2, <1>3 DEF LabelsInv
  <2> QED
    BY <2>2, <2>3, <1>2, <1>3, <1>8 DEF LabelsInv
<1>9. ASSUME NEW k \in DOMAIN u, NEW m \in DOMAIN u, k # m PROVE Owned(u[k]) \cap Owned(u[m]) = {}
  <2>1. PICK p, q : p = k + 1 /\ q = m + 1
    OBVIOUS
  <2>2. p \in DOMAIN t /\ q \in DOMAIN t /\ u[k] = t[p] /\ u[m] = t[q] /\ p # q
    BY <2>1, <1>4, <1>9
  <2> QED
    BY <2>2 DEF LabelsInv
<1>10. e.ok => /\ \A l \in e.used : Safe(e, u, o, l)
               /\ \A k \in DOMAIN u : \A l \in Named(u[k]) : Reached(e, u, o, l)
  BY <1>4, <1>6 DEF LabelsInv, Reached
<1>11. LabelsInv(e, u, o, c)
  BY <1>7, <1>8, <1>9, <1>10 DEF LabelsInv
<1>12. e.ok => \A l \in Named(Head(t)) : Reached(e, u, o, l)
  BY <1>3, <1>6 DEF LabelsInv, Reached
<1> QED
  BY <1>1, <1>2, <1>11, <1>12

\* New items own all that is owed.
LEMMA LabelsPush ==
    ASSUME NEW e, NEW t, NEW o, NEW c, LabelsInv(e, t, o, c), NEW S, t \in Seq(S),
           NEW R, NEW items \in Seq(R),
           \A k \in DOMAIN items : Owned(items[k]) \subseteq o,
           \A l \in o : \E k \in DOMAIN items : l \in Owned(items[k]),
           \A k, m \in DOMAIN items : k # m => Owned(items[k]) \cap Owned(items[m]) = {},
           e.ok => \A k \in DOMAIN items : \A l \in Named(items[k]) : Reached(e, t, o, l)
    PROVE  LabelsInv(e, items \o t, {}, c)
<1>1. PICK u : u = items \o t
  OBVIOUS
<1>2. PICK n : n = Len(items)
  OBVIOUS
<1>3. items \in Seq(R \cup S) /\ t \in Seq(R \cup S)
  OBVIOUS
<1>4. /\ DOMAIN t = 1..Len(t) /\ DOMAIN items = 1..n /\ n \in Nat /\ Len(t) \in Nat
      /\ DOMAIN u = 1..n + Len(t)
      /\ \A k \in 1..n : u[k] = items[k]
      /\ \A k \in 1..Len(t) : u[n + k] = t[k]
  BY <1>1, <1>2, <1>3
<1>5. \A k \in DOMAIN t : n + k \in DOMAIN u /\ u[n + k] = t[k]
  BY <1>4
<1>6. \A k \in DOMAIN items : k \in DOMAIN u /\ u[k] = items[k]
  BY <1>4
<1>7. ASSUME NEW k \in DOMAIN u
      PROVE  \/ k \in DOMAIN items /\ u[k] = items[k]
             \/ k - n \in DOMAIN t /\ u[k] = t[k - n]
  <2>1. CASE k \in 1..n
    BY <2>1, <1>4
  <2>2. CASE k \notin 1..n
    <3>1. PICK m : m = k - n
      OBVIOUS
    <3>2. m \in 1..Len(t) /\ n + m = k
      BY <2>2, <3>1, <1>4, <1>7
    <3> QED
      BY <3>1, <3>2, <1>4
  <2> QED
    BY <2>1, <2>2
<1>8. \A l : Safe(e, t, o, l) => Safe(e, u, {}, l)
  BY <1>5, <1>6 DEF Safe
<1>9. \A k \in DOMAIN u : \A l \in Owned(u[k]) :
          Kind(l) /\ Old(l, e.label_num, c) /\ l \notin e.declared /\ l \notin {}
  BY <1>7 DEF LabelsInv
<1>10. ASSUME NEW k \in DOMAIN u, NEW m \in DOMAIN u, k # m PROVE Owned(u[k]) \cap Owned(u[m]) = {}
  <2>1. k \in Int /\ m \in Int
    BY <1>4
  <2>2. PICK p, q : p = k - n /\ q = m - n
    OBVIOUS
  <2>3. p # q
    BY <2>1, <2>2, <1>4, <1>10
  <2>4. \A x \in DOMAIN items, y \in DOMAIN t : Owned(items[x]) \cap Owned(t[y]) = {}
    BY DEF LabelsInv
  <2>5. /\ (k \in DOMAIN items /\ u[k] = items[k]) \/ (p \in DOMAIN t /\ u[k] = t[p])
        /\ (m \in DOMAIN items /\ u[m] = items[m]) \/ (q \in DOMAIN t /\ u[m] = t[q])
    BY <2>2, <1>7
  <2>6. p \in DOMAIN t /\ q \in DOMAIN t => Owned(t[p]) \cap Owned(t[q]) = {}
    BY <2>3 DEF LabelsInv
  <2>7. k \in DOMAIN items /\ m \in DOMAIN items => Owned(items[k]) \cap Owned(items[m]) = {}
    BY <1>10
  <2> QED
    BY <2>4, <2>5, <2>6, <2>7
<1>11. e.ok => /\ \A l \in e.used : Safe(e, u, {}, l)
               /\ \A k \in DOMAIN u : \A l \in Named(u[k]) : Reached(e, u, {}, l)
  BY <1>7, <1>8 DEF LabelsInv, Reached
<1>12. LabelsInv(e, u, {}, c)
  BY <1>9, <1>10, <1>11 DEF LabelsInv
<1> QED
  BY <1>1, <1>12

\* After a failed assertion nothing is owed.
LEMMA LabelsFail ==
    ASSUME NEW e, NEW t, NEW o, NEW c, LabelsInv(e, t, o, c), ~e.ok PROVE LabelsInv(e, t, {}, c)
  BY DEF LabelsInv

-----------------------------------------------------------------------------
(* The labels of the innermost loop or switch *)

\* What the first end after position i says, or no label.
Nexts(t, ends, i, v, new) ==
    \/ v = NoLabel /\ \A k \in DOMAIN t : k > i => t[k].do \notin ends
    \/ \E k \in DOMAIN t :
          /\ k > i /\ t[k].do \in ends /\ v = t[k].x[new]
          /\ \A m \in DOMAIN t : i < m /\ m < k => t[m].do \notin ends

\* A field of the encoder and those saved for it are the labels of the ends, in order.
Threaded(t, ends, v, new, old) ==
    /\ Nexts(t, ends, 0, v, new)
    /\ \A i \in DOMAIN t : t[i].do \in ends => Nexts(t, ends, i, t[i].x[old], new)

Threads(e, t) ==
    /\ Threaded(t, Ends, e.label_break, "break", "old_break")
    /\ Threaded(t, Loops, e.label_continue, "continue", "old_continue")

\* New items do not change what comes after an old one.
LEMMA NextsLater ==
    ASSUME NEW S, NEW t \in Seq(S), t # <<>>, NEW R, NEW items \in Seq(R), NEW ends, NEW v, NEW new,
           NEW i \in 1..Len(t), Nexts(t, ends, i, v, new)
    PROVE  Nexts(items \o Tail(t), ends, Len(items) + i - 1, v, new)
<1>1. PICK u, n : u = items \o Tail(t) /\ n = Len(items)
  OBVIOUS
<1>2. /\ DOMAIN t = 1..Len(t) /\ n \in Nat /\ Len(t) \in Nat /\ DOMAIN u \subseteq Nat
      /\ \A k \in 2..Len(t) : n + k - 1 \in DOMAIN u /\ u[n + k - 1] = t[k]
      /\ \A k \in DOMAIN u : k \in 1..n \/ (k - n + 1 \in 2..Len(t) /\ u[k] = t[k - n + 1])
  BY <1>1, Stepped
<1>3. ASSUME NEW k \in DOMAIN u, k > n + i - 1
      PROVE  \E p \in DOMAIN t : p = k - n + 1 /\ p > i /\ u[k] = t[p]
  BY <1>2, <1>3
<1>4. CASE v = NoLabel /\ \A k \in DOMAIN t : k > i => t[k].do \notin ends
  <2>1. \A k \in DOMAIN u : k > n + i - 1 => u[k].do \notin ends
    BY <1>3, <1>4
  <2>2. Nexts(u, ends, n + i - 1, v, new)
    BY <1>4, <2>1 DEF Nexts
  <2> QED
    BY <1>1, <2>2
<1>5. ASSUME NEW k \in DOMAIN t, k > i, t[k].do \in ends, v = t[k].x[new],
             \A m \in DOMAIN t : i < m /\ m < k => t[m].do \notin ends
      PROVE  Nexts(u, ends, n + i - 1, v, new)
  <2>1. PICK q : q = n + k - 1
    OBVIOUS
  <2>2. q \in DOMAIN u /\ u[q] = t[k] /\ q > n + i - 1
    BY <2>1, <1>2, <1>5
  <2>3. ASSUME NEW m \in DOMAIN u, n + i - 1 < m, m < q PROVE u[m].do \notin ends
    <3>1. PICK p \in DOMAIN t : p = m - n + 1 /\ p > i /\ u[m] = t[p]
      BY <1>2, <1>3, <2>3
    <3>2. p < k
      BY <2>1, <2>3, <3>1, <1>2
    <3>3. i < p
      BY <3>1, <1>2
    <3> QED
      BY <1>5, <3>1, <3>2, <3>3
  <2> QED
    BY <1>5, <2>2, <2>3 DEF Nexts
<1> QED
  BY <1>1, <1>4, <1>5 DEF Nexts

\* Items that are no ends change nothing.
LEMMA ThreadStep ==
    ASSUME NEW S, NEW t \in Seq(S), t # <<>>, NEW R, NEW items \in Seq(R), NEW ends, NEW v, NEW new, NEW old,
           Threaded(t, ends, v, new, old), Head(t).do \notin ends, \A k \in DOMAIN items : items[k].do \notin ends
    PROVE  Threaded(items \o Tail(t), ends, v, new, old)
<1>1. PICK u, n : u = items \o Tail(t) /\ n = Len(items)
  OBVIOUS
<1>2. /\ DOMAIN t = 1..Len(t) /\ DOMAIN items = 1..n /\ n \in Nat /\ Len(t) \in Nat \ {0} /\ DOMAIN u \subseteq Nat
      /\ Head(t) = t[1] /\ 1 \in DOMAIN t
      /\ \A k \in 1..n : u[k] = items[k]
      /\ \A k \in DOMAIN u : k \in 1..n \/ (k - n + 1 \in 2..Len(t) /\ u[k] = t[k - n + 1])
      /\ DOMAIN u = 1..Len(u)
  BY <1>1, Stepped
<1>3. Nexts(t, ends, 1, v, new)
  BY <1>2 DEF Threaded, Nexts
<1>4. Nexts(u, ends, n, v, new)
  <2>1. Nexts(u, ends, n + 1 - 1, v, new)
    BY <1>1, <1>2, <1>3, NextsLater
  <2>2. n + 1 - 1 = n
    BY <1>2
  <2> QED
    BY <2>1, <2>2
<1>5. \A k \in DOMAIN u : k <= n => u[k].do \notin ends
  BY <1>2
<1>6. Nexts(u, ends, 0, v, new)
  <2>1. CASE v = NoLabel /\ \A k \in DOMAIN u : k > n => u[k].do \notin ends
    BY <2>1, <1>2, <1>5 DEF Nexts
  <2>2. ASSUME NEW k \in DOMAIN u, k > n, u[k].do \in ends, v = u[k].x[new],
               \A m \in DOMAIN u : n < m /\ m < k => u[m].do \notin ends
        PROVE  Nexts(u, ends, 0, v, new)
    <3>1. \A m \in DOMAIN u : m < k => u[m].do \notin ends
      BY <2>2, <1>2, <1>5
    <3>2. k > 0
      BY <2>2, <1>2
    <3> QED
      BY <2>2, <3>1, <3>2 DEF Nexts
  <2> QED
    BY <1>4, <2>1, <2>2 DEF Nexts
<1>7. ASSUME NEW k \in DOMAIN u, u[k].do \in ends PROVE Nexts(u, ends, k, u[k].x[old], new)
  <2>1. PICK p : p = k - n + 1
    OBVIOUS
  <2>2. p \in 2..Len(t) /\ p \in DOMAIN t /\ u[k] = t[p] /\ n + p - 1 = k
    BY <2>1, <1>2, <1>5, <1>7
  <2>3. Nexts(t, ends, p, t[p].x[old], new)
    BY <2>2, <1>7 DEF Threaded
  <2>4. Nexts(u, ends, n + p - 1, t[p].x[old], new)
    BY <2>2, <2>3, <1>1, <1>2, NextsLater
  <2> QED
    BY <2>2, <2>4
<1>8. Threaded(u, ends, v, new, old)
  BY <1>6, <1>7 DEF Threaded
<1> QED
  BY <1>1, <1>8

\* The last item is an end that saves the label so far and brings its own.
LEMMA ThreadPush ==
    ASSUME NEW S, NEW t \in Seq(S), t # <<>>, NEW R, NEW items \in Seq(R), NEW ends, NEW v, NEW new, NEW old,
           Threaded(t, ends, v, new, old), Head(t).do \notin ends,
           Len(items) > 0, \A k \in DOMAIN items : k # Len(items) => items[k].do \notin ends,
           NEW item, item = items[Len(items)], item.do \in ends, item.x[old] = v
    PROVE  Threaded(items \o Tail(t), ends, item.x[new], new, old)
<1>1. PICK u, n : u = items \o Tail(t) /\ n = Len(items)
  OBVIOUS
<1>2. /\ DOMAIN t = 1..Len(t) /\ DOMAIN items = 1..n /\ n \in Nat \ {0} /\ Len(t) \in Nat \ {0} /\ DOMAIN u \subseteq Nat
      /\ Head(t) = t[1] /\ 1 \in DOMAIN t
      /\ \A k \in 1..n : k \in DOMAIN u /\ u[k] = items[k]
      /\ \A k \in DOMAIN u : k \in 1..n \/ (k - n + 1 \in 2..Len(t) /\ u[k] = t[k - n + 1])
      /\ DOMAIN u = 1..Len(u)
  BY <1>1, Stepped
<1>3. Nexts(t, ends, 1, v, new)
  BY <1>2 DEF Threaded, Nexts
<1>4. Nexts(u, ends, n, v, new)
  <2>1. Nexts(u, ends, n + 1 - 1, v, new)
    BY <1>1, <1>2, <1>3, NextsLater
  <2>2. n + 1 - 1 = n
    BY <1>2
  <2> QED
    BY <2>1, <2>2
<1>5. /\ n \in DOMAIN u /\ n > 0 /\ u[n] = item
      /\ \A k \in DOMAIN u : k < n => u[k].do \notin ends
  BY <1>1, <1>2
<1>6. Nexts(u, ends, 0, item.x[new], new)
  BY <1>5 DEF Nexts
<1>7. ASSUME NEW k \in DOMAIN u, u[k].do \in ends PROVE Nexts(u, ends, k, u[k].x[old], new)
  <2>1. CASE k = n
    BY <2>1, <1>4, <1>5
  <2>2. CASE k # n
    <3>1. PICK p : p = k - n + 1
      OBVIOUS
    <3>2. p \in 2..Len(t) /\ p \in DOMAIN t /\ u[k] = t[p] /\ n + p - 1 = k
      BY <3>1, <2>2, <1>2, <1>5, <1>7
    <3>3. Nexts(t, ends, p, t[p].x[old], new)
      BY <3>2, <1>7 DEF Threaded
    <3>4. Nexts(u, ends, n + p - 1, t[p].x[old], new)
      BY <3>2, <3>3, <1>1, <1>2, NextsLater
    <3> QED
      BY <3>2, <3>4
  <2> QED
    BY <2>1, <2>2
<1>8. Threaded(u, ends, item.x[new], new, old)
  BY <1>6, <1>7 DEF Threaded
<1> QED
  BY <1>1, <1>8

\* A done end gives back the label it has saved.
LEMMA ThreadPop ==
    ASSUME NEW S, NEW t \in Seq(S), t # <<>>, NEW ends, NEW v, NEW new, NEW old,
           Threaded(t, ends, v, new, old), Head(t).do \in ends
    PROVE  v = Head(t).x[new] /\ Threaded(<<>> \o Tail(t), ends, Head(t).x[old], new, old)
<1>1. PICK u, items : items = <<>> /\ u = items \o Tail(t)
  OBVIOUS
<1>2. items \in Seq({}) /\ Len(items) = 0
  BY <1>1
<1>3. /\ DOMAIN t = 1..Len(t) /\ Len(t) \in Nat \ {0} /\ DOMAIN u \subseteq Nat
      /\ Head(t) = t[1] /\ 1 \in DOMAIN t
      /\ \A k \in DOMAIN u : k - 0 + 1 \in 2..Len(t) /\ u[k] = t[k - 0 + 1]
  BY <1>1, <1>2, Stepped
<1>4. v = Head(t).x[new]
  <2>1. \A k \in DOMAIN t : k > 0
    BY <1>3
  <2>2. PICK k \in DOMAIN t : /\ v = t[k].x[new] /\ \A m \in DOMAIN t : 0 < m /\ m < k => t[m].do \notin ends
    BY <1>3, <2>1 DEF Threaded, Nexts
  <2>3. ~(1 < k)
    BY <2>2, <1>3
  <2> QED
    BY <1>3, <2>2, <2>3
<1>5. Nexts(u, ends, 0, Head(t).x[old], new)
  <2>1. Nexts(t, ends, 1, Head(t).x[old], new)
    BY <1>3 DEF Threaded
  <2>2. Nexts(u, ends, Len(items) + 1 - 1, Head(t).x[old], new)
    BY <2>1, <1>1, <1>2, <1>3, NextsLater
  <2>3. Len(items) + 1 - 1 = 0
    BY <1>2
  <2> QED
    BY <2>2, <2>3
<1>6. ASSUME NEW k \in DOMAIN u, u[k].do \in ends PROVE Nexts(u, ends, k, u[k].x[old], new)
  <2>1. PICK p : p = k - 0 + 1
    OBVIOUS
  <2>2. p \in 2..Len(t) /\ p \in DOMAIN t /\ u[k] = t[p] /\ Len(items) + p - 1 = k
    BY <2>1, <1>2, <1>3
  <2>3. Nexts(t, ends, p, t[p].x[old], new)
    BY <2>2, <1>6 DEF Threaded
  <2>4. Nexts(u, ends, Len(items) + p - 1, t[p].x[old], new)
    BY <2>2, <2>3, <1>1, <1>2, <1>3, NextsLater
  <2> QED
    BY <2>2, <2>4
<1>7. Threaded(u, ends, Head(t).x[old], new, old)
  BY <1>5, <1>6 DEF Threaded
<1> QED
  BY <1>1, <1>4, <1>7
-----------------------------------------------------------------------------
(* The labels of a switch under emission *)

\* The tests that are left are at the front, then the bodies: the counter is as far as the
\* tests that are done, and c where it will be when all are.
Cases(e, t, c) ==
    /\ \A k \in DOMAIN t : t[k].do = "test" => \E p \in DOMAIN t : p > k /\ t[p].do = "bodies"
    /\ (\A p \in DOMAIN t : t[p].do # "bodies") => c = e.case_label_num
    /\ \A p \in DOMAIN t : t[p].do = "bodies" =>
          /\ p - 1 <= Len(t[p].x.body)
          /\ \A k \in 1..p - 1 : t[k].do = "test" /\ t[k].x = t[p].x.body[Len(t[p].x.body) - (p - 1) + k]
          /\ e.case_label_num =
                t[p].x.first + Cardinality({i \in LabelsOf(t[p].x.body) : i <= Len(t[p].x.body) - (p - 1)})
          /\ c = t[p].x.first + Cardinality(LabelsOf(t[p].x.body))

\* Away from the tests there are none, and no bodies.
LEMMA NoCases ==
    ASSUME NEW S, NEW t \in Seq(S), t # <<>>, NEW e, NEW c, Cases(e, t, c), Head(t).do \notin {"test", "bodies"}
    PROVE  c = e.case_label_num /\ \A k \in DOMAIN t : t[k].do \notin {"test", "bodies"}
<1>1. DOMAIN t = 1..Len(t) /\ Len(t) \in Nat \ {0} /\ Head(t) = t[1]
  OBVIOUS
<1>2. ASSUME NEW p \in DOMAIN t, t[p].do = "bodies" PROVE FALSE
  <2>1. p # 1
    BY <1>1, <1>2
  <2>2. 1 \in 1..p - 1
    BY <1>1, <1>2, <2>1
  <2> QED
    BY <1>1, <1>2, <2>2 DEF Cases
<1> QED
  BY <1>2 DEF Cases

LEMMA CasesStep ==
    ASSUME NEW S, NEW t \in Seq(S), t # <<>>, NEW e, NEW c, Cases(e, t, c), Head(t).do \notin {"test", "bodies"},
           NEW R, NEW items \in Seq(R), \A k \in DOMAIN items : items[k].do \notin {"test", "bodies"},
           NEW d, d.case_label_num = e.case_label_num
    PROVE  Cases(d, items \o Tail(t), c)
<1>1. c = e.case_label_num /\ \A k \in DOMAIN t : t[k].do \notin {"test", "bodies"}
  BY NoCases
<1>2. PICK u : u = items \o Tail(t)
  OBVIOUS
<1>3. \A k \in DOMAIN u : \/ k \in DOMAIN items /\ u[k] = items[k]
                          \/ k - Len(items) + 1 \in DOMAIN t /\ u[k] = t[k - Len(items) + 1]
  BY <1>2, Stepped
<1>4. \A k \in DOMAIN u : u[k].do \notin {"test", "bodies"}
  BY <1>1, <1>3
<1>5. Cases(d, u, c)
  BY <1>1, <1>4 DEF Cases
<1> QED
  BY <1>2, <1>5

LEMMA LabelsFinite ==
    ASSUME NEW S, NEW body \in Seq(S)
    PROVE  /\ LabelsOf(body) \subseteq 1..Len(body) /\ IsFiniteSet(LabelsOf(body)) /\ Len(body) \in Nat
           /\ Cardinality(LabelsOf(body)) \in Nat
           /\ \A P \in SUBSET LabelsOf(body) :
                 IsFiniteSet(P) /\ Cardinality(P) \in Nat /\ Cardinality(P) <= Cardinality(LabelsOf(body))
<1>1. LabelsOf(body) \subseteq 1..Len(body) /\ Len(body) \in Nat
  BY DEF LabelsOf
<1>2. IsFiniteSet(1..Len(body))
  BY <1>1, FS_Interval
<1>3. IsFiniteSet(LabelsOf(body))
  BY <1>1, <1>2, FS_Subset
<1> QED
  BY <1>1, <1>3, FS_Subset, FS_CardinalityType

\* Counting the labels before one of them
LEMMA LabelsCounted ==
    ASSUME NEW S, NEW body \in Seq(S), NEW i \in LabelsOf(body), NEW P, P = {j \in LabelsOf(body) : j < i}
    PROVE  /\ Cardinality(P) \in Nat /\ Cardinality(P) < Cardinality(LabelsOf(body))
           /\ Cardinality({j \in LabelsOf(body) : j <= i}) = Cardinality(P) + 1
<1>1. /\ LabelsOf(body) \subseteq 1..Len(body) /\ IsFiniteSet(LabelsOf(body)) /\ Len(body) \in Nat
      /\ \A Q \in SUBSET LabelsOf(body) :
            IsFiniteSet(Q) /\ Cardinality(Q) \in Nat /\ Cardinality(Q) <= Cardinality(LabelsOf(body))
  BY LabelsFinite
<1>2. P \subseteq LabelsOf(body) /\ i \notin P
  BY <1>1
<1>3. Cardinality(P \cup {i}) = Cardinality(P) + 1
  BY <1>1, <1>2, FS_AddElement
<1>4. {j \in LabelsOf(body) : j <= i} = P \cup {i}
  BY <1>1
<1>5. Cardinality(P \cup {i}) <= Cardinality(LabelsOf(body)) /\ Cardinality(P) \in Nat
  BY <1>1, <1>2
<1>6. Cardinality(LabelsOf(body)) \in Nat
  BY LabelsFinite
<1>7. Cardinality({j \in LabelsOf(body) : j <= i}) = Cardinality(P) + 1
  BY <1>3, <1>4
<1>8. Cardinality(P) < Cardinality(LabelsOf(body))
  BY <1>3, <1>5, <1>6
<1> QED
  BY <1>5, <1>7, <1>8

LEMMA LabelsOrdered ==
    ASSUME NEW S, NEW body \in Seq(S), NEW i \in LabelsOf(body), NEW n \in LabelsOf(body), i < n,
           NEW P, P = {j \in LabelsOf(body) : j < i}, NEW Q, Q = {j \in LabelsOf(body) : j < n}
    PROVE  Cardinality(P) < Cardinality(Q)
<1>1. LabelsOf(body) \subseteq 1..Len(body) /\ Len(body) \in Nat
  BY LabelsFinite
<1>2. Q \subseteq LabelsOf(body) /\ i \notin P /\ P \cup {i} \subseteq Q
  BY <1>1
<1>3. IsFiniteSet(Q) /\ Cardinality(Q) \in Nat
  BY <1>2, LabelsFinite
<1>4. IsFiniteSet(P) /\ Cardinality(P) \in Nat /\ Cardinality(P \cup {i}) <= Cardinality(Q)
  BY <1>2, <1>3, FS_Subset, FS_CardinalityType
<1>5. Cardinality(P \cup {i}) = Cardinality(P) + 1
  BY <1>2, <1>4, FS_AddElement
<1> QED
  BY <1>3, <1>4, <1>5

\* The condition: all tests are left.
LEMMA CasesBegin ==
    ASSUME NEW S, NEW t \in Seq(S), t # <<>>, NEW e, NEW c, Cases(e, t, c), Head(t).do \notin {"test", "bodies"},
           NEW B, NEW body \in Seq(B), e.case_label_num \in Nat, NEW n, n = Len(body),
           NEW R, NEW items \in Seq(R), Len(items) = n + 1,
           \A k \in 1..n : items[k].do = "test" /\ items[k].x = body[k],
           items[n + 1].do = "bodies", items[n + 1].x.body = body, items[n + 1].x.first = e.case_label_num,
           NEW d, d.case_label_num = e.case_label_num
    PROVE  Cases(d, items \o Tail(t), c + Cardinality(LabelsOf(body)))
<1>1. c = e.case_label_num /\ \A k \in DOMAIN t : t[k].do \notin {"test", "bodies"}
  BY NoCases
<1>2. PICK u : u = items \o Tail(t)
  OBVIOUS
<1>3. /\ n \in Nat /\ n + 1 \in DOMAIN u /\ u[n + 1] = items[n + 1] /\ DOMAIN u = 1..Len(u)
      /\ \A k \in 1..n : k \in DOMAIN u /\ u[k] = items[k]
      /\ \A k \in DOMAIN u : k \in 1..n + 1 \/ (k - Len(items) + 1 \in DOMAIN t /\ u[k] = t[k - Len(items) + 1])
  <2>1. /\ DOMAIN u = 1..Len(u) /\ DOMAIN t = 1..Len(t) /\ Len(t) \in Nat
        /\ \A k \in 1..Len(items) : k \in DOMAIN u /\ u[k] = items[k]
        /\ \A k \in DOMAIN u : k \in 1..Len(items) \/ (k - Len(items) + 1 \in 2..Len(t) /\ u[k] = t[k - Len(items) + 1])
    BY ONLY t \in Seq(S), t # <<>>, items \in Seq(R), <1>2, Stepped
  <2>2. n \in Nat /\ Len(items) = n + 1
    OBVIOUS
  <2>3. n + 1 \in 1..n + 1 /\ (\A k \in 1..n : k \in 1..n + 1) /\ \A k \in 2..Len(t) : k \in 1..Len(t)
    BY ONLY <2>1, <2>2
  <2> QED
    BY ONLY <2>1, <2>2, <2>3
<1>4. \A p \in DOMAIN u : u[p].do = "bodies" => p = n + 1
  <2>1. \A p \in DOMAIN u : p \in 1..n + 1 => p \in 1..n \/ p = n + 1
    BY <1>3
  <2> QED
    BY <1>1, <1>3, <2>1
<1>6. ASSUME NEW p \in DOMAIN u, u[p].do = "bodies"
      PROVE  /\ p - 1 <= Len(u[p].x.body)
             /\ \A k \in 1..p - 1 : u[k].do = "test" /\ u[k].x = u[p].x.body[Len(u[p].x.body) - (p - 1) + k]
             /\ d.case_label_num =
                   u[p].x.first + Cardinality({i \in LabelsOf(u[p].x.body) : i <= Len(u[p].x.body) - (p - 1)})
             /\ c + Cardinality(LabelsOf(body)) = u[p].x.first + Cardinality(LabelsOf(u[p].x.body))
  <2>1. p = n + 1 /\ p - 1 = n /\ u[p].x.body = body /\ u[p].x.first = e.case_label_num
    BY <1>3, <1>4, <1>6
  <2>2. \A k \in 1..p - 1 : u[k].do = "test" /\ u[k].x = body[k] /\ Len(body) - (p - 1) + k = k
    BY <1>3, <2>1
  <2>3. \A k \in 1..p - 1 : u[k].do = "test" /\ u[k].x = u[p].x.body[Len(u[p].x.body) - (p - 1) + k]
    BY <2>1, <2>2
  <2>4. d.case_label_num =
           u[p].x.first + Cardinality({i \in LabelsOf(u[p].x.body) : i <= Len(u[p].x.body) - (p - 1)})
    <3>1. PICK Q : Q = {j \in LabelsOf(body) : j <= Len(body) - (p - 1)}
      OBVIOUS
    <3>2. Len(body) - (p - 1) = 0 /\ LabelsOf(body) \subseteq 1..Len(body)
      BY <1>3, <2>1, LabelsFinite
    <3>3. Q = {}
      BY ONLY <3>1, <3>2
    <3>4. Cardinality(Q) = 0
      BY <3>3, FS_EmptySet
    <3>5. d.case_label_num = e.case_label_num + Cardinality(Q)
      BY <3>4
    <3> QED
      BY <2>1, <3>1, <3>5
  <2> QED
    BY <1>1, <1>3, <2>1, <2>3, <2>4
<1>7. \A k \in DOMAIN u : u[k].do = "test" => n + 1 \in DOMAIN u /\ n + 1 > k /\ u[n + 1].do = "bodies"
  <2>1. \A k \in DOMAIN u : k \in 1..n + 1 => k \in 1..n \/ k = n + 1
    BY <1>3
  <2> QED
    BY <1>1, <1>3, <2>1
<1>8. Cases(d, u, c + Cardinality(LabelsOf(body)))
  <2>1. \A k \in DOMAIN u : u[k].do = "test" => \E p \in DOMAIN u : p > k /\ u[p].do = "bodies"
    BY ONLY <1>7
  <2>2. ~\A p \in DOMAIN u : u[p].do # "bodies"
    BY ONLY <1>3, items[n + 1].do = "bodies"
  <2>3. PICK v : v = c + Cardinality(LabelsOf(body))
    OBVIOUS
  <2>4. \A p \in DOMAIN u : u[p].do = "bodies" =>
           /\ p - 1 <= Len(u[p].x.body)
           /\ \A k \in 1..p - 1 : u[k].do = "test" /\ u[k].x = u[p].x.body[Len(u[p].x.body) - (p - 1) + k]
           /\ d.case_label_num =
                 u[p].x.first + Cardinality({i \in LabelsOf(u[p].x.body) : i <= Len(u[p].x.body) - (p - 1)})
           /\ v = u[p].x.first + Cardinality(LabelsOf(u[p].x.body))
    BY ONLY <1>6, <2>3
  <2>5. Cases(d, u, v)
    BY ONLY <2>1, <2>2, <2>4 DEF Cases
  <2> QED
    BY ONLY <2>3, <2>5
<1> QED
  BY <1>2, <1>8

\* A test: the counter moves by one for a label.
LEMMA CasesTest ==
    ASSUME NEW S, NEW t \in Seq(S), t # <<>>, NEW e, NEW c, Cases(e, t, c), Head(t).do = "test",
           \A p \in DOMAIN t : t[p].do = "bodies" => t[p].x.first \in Nat /\ \E B : t[p].x.body \in Seq(B),
           NEW d, d.case_label_num = IF Head(t).x = "stmt" THEN e.case_label_num ELSE e.case_label_num + 1
    PROVE  /\ Cases(d, <<>> \o Tail(t), c)
           /\ Head(t).x # "stmt" => \E p \in DOMAIN t :
                 /\ p > 1 /\ t[p].do = "bodies"
                 /\ e.case_label_num \in
                       t[p].x.first..t[p].x.first + Cardinality(LabelsOf(t[p].x.body)) - 1
<1>1. PICK u : u = <<>> \o Tail(t)
  OBVIOUS
<1>2. /\ DOMAIN t = 1..Len(t) /\ Len(t) \in Nat \ {0} /\ 1 \in DOMAIN t /\ Head(t) = t[1]
      /\ DOMAIN u = 1..Len(t) - 1 /\ \A k \in 1..Len(t) - 1 : u[k] = t[k + 1]
  BY <1>1
<1>3. PICK p \in DOMAIN t : t[p].do = "bodies"
  BY <1>2 DEF Cases
<1>4. PICK B : t[p].x.body \in Seq(B)
  BY <1>3
<1>5. PICK body, first, n, i : body = t[p].x.body /\ first = t[p].x.first /\ n = Len(body) /\ i = n - (p - 1) + 1
  OBVIOUS
<1>6. body \in Seq(B) /\ n \in Nat /\ first \in Nat /\ DOMAIN body = 1..n
  BY <1>3, <1>4, <1>5
<1>7. p > 1 /\ p \in Nat
  BY <1>2, <1>3
<1>8. /\ p - 1 <= n
      /\ \A k \in 1..p - 1 : t[k].do = "test" /\ t[k].x = body[n - (p - 1) + k]
      /\ e.case_label_num = first + Cardinality({j \in LabelsOf(body) : j <= n - (p - 1)})
      /\ c = first + Cardinality(LabelsOf(body))
  BY <1>3, <1>5 DEF Cases
<1>9. i \in DOMAIN body /\ Head(t).x = body[i]
  <2>1. 1 \in 1..p - 1
    BY <1>7
  <2>2. t[1].x = body[n - (p - 1) + 1]
    BY <1>8, <2>1
  <2> QED
    BY <1>2, <1>5, <1>6, <1>7, <1>8, <2>2
<1>10. LabelsOf(body) \subseteq 1..n
  BY <1>5, <1>6, LabelsFinite
<1>11. {j \in LabelsOf(body) : j <= n - (p - 1)} = {j \in LabelsOf(body) : j < i}
  BY <1>5, <1>6, <1>7, <1>10
<1>12. d.case_label_num = first + Cardinality({j \in LabelsOf(body) : j <= i})
  <2>1. CASE Head(t).x = "stmt"
    <3>1. i \notin LabelsOf(body)
      BY <1>9, <2>1 DEF LabelsOf
    <3>2. {j \in LabelsOf(body) : j <= i} = {j \in LabelsOf(body) : j < i}
      BY <1>5, <1>6, <1>7, <1>10, <3>1
    <3> QED
      BY <1>8, <1>11, <2>1, <3>2
  <2>2. CASE Head(t).x # "stmt"
    <3>1. i \in LabelsOf(body)
      BY <1>9, <2>2 DEF LabelsOf
    <3>2. /\ Cardinality({j \in LabelsOf(body) : j < i}) \in Nat
          /\ Cardinality({j \in LabelsOf(body) : j <= i}) = Cardinality({j \in LabelsOf(body) : j < i}) + 1
      BY <1>6, <3>1, LabelsCounted
    <3>3. PICK a, b : /\ a = Cardinality({j \in LabelsOf(body) : j < i})
                      /\ b = Cardinality({j \in LabelsOf(body) : j <= i})
      OBVIOUS
    <3>4. a \in Nat /\ b = a + 1 /\ e.case_label_num = first + a
      BY <1>8, <1>11, <3>2, <3>3
    <3>5. d.case_label_num = e.case_label_num + 1
      BY <2>2
    <3>6. d.case_label_num = first + b
      BY <1>6, <3>4, <3>5
    <3> QED
      BY <3>3, <3>6
  <2> QED
    BY <2>1, <2>2
<1>13. \A q \in DOMAIN t : t[q].do = "bodies" => q = p
  <2>1. ASSUME NEW q \in DOMAIN t, t[q].do = "bodies", q # p PROVE FALSE
    <3>1. q \in 1..p - 1 \/ p \in 1..q - 1
      BY <1>2, <1>7, <2>1
    <3>2. q \in 1..p - 1 => t[q].do = "test"
      BY <1>8
    <3>3. p \in 1..q - 1 => t[p].do = "test"
      BY <2>1 DEF Cases
    <3> QED
      BY <1>3, <2>1, <3>1, <3>2, <3>3
  <2> QED
    BY <2>1
<1>14. ASSUME NEW q \in DOMAIN u, u[q].do = "bodies"
       PROVE  /\ q - 1 <= Len(u[q].x.body)
              /\ \A k \in 1..q - 1 : u[k].do = "test" /\ u[k].x = u[q].x.body[Len(u[q].x.body) - (q - 1) + k]
              /\ d.case_label_num =
                    u[q].x.first + Cardinality({j \in LabelsOf(u[q].x.body) : j <= Len(u[q].x.body) - (q - 1)})
              /\ c = u[q].x.first + Cardinality(LabelsOf(u[q].x.body))
  <2>1. q = p - 1 /\ u[q] = t[p] /\ u[q].x.body = body /\ u[q].x.first = first
    <3>1. PICK m : m = q + 1
      OBVIOUS
    <3>2. m \in DOMAIN t /\ u[q] = t[m] /\ q = m - 1
      BY <1>2, <1>14, <3>1
    <3>3. m = p
      BY <1>13, <1>14, <3>2
    <3> QED
      BY <1>5, <3>2, <3>3
  <2>2. q - 1 <= n /\ n - (q - 1) = i
    BY <1>5, <1>6, <1>7, <1>8, <2>1
  <2>3. ASSUME NEW k \in 1..q - 1 PROVE u[k].do = "test" /\ u[k].x = body[n - (q - 1) + k]
    <3>1. PICK m : m = k + 1
      OBVIOUS
    <3>2. m \in 1..p - 1 /\ u[k] = t[m] /\ n - (p - 1) + m = n - (q - 1) + k
      BY <1>2, <1>3, <1>6, <1>7, <2>1, <2>3, <3>1
    <3> QED
      BY <1>8, <3>2
  <2>4. d.case_label_num = first + Cardinality({j \in LabelsOf(body) : j <= n - (q - 1)})
    BY <1>12, <2>2
  <2> QED
    BY <1>5, <1>8, <2>1, <2>2, <2>3, <2>4
<1>15. p - 1 \in DOMAIN u /\ u[p - 1].do = "bodies"
  <2>1. PICK m : m = p - 1
    OBVIOUS
  <2>2. m \in 1..Len(t) - 1 /\ m + 1 = p
    BY <1>2, <1>3, <1>7, <2>1
  <2> QED
    BY <1>2, <1>3, <2>1, <2>2
<1>16. Cases(d, u, c)
  <2>1. ASSUME NEW k \in DOMAIN u, u[k].do = "test" PROVE p - 1 > k
    <3>1. PICK m : m = k + 1
      OBVIOUS
    <3>0. k \in 1..Len(t) - 1 /\ u[k] = t[k + 1]
      BY <1>2, <2>1
    <3>2. m \in DOMAIN t /\ t[m].do = "test" /\ k = m - 1 /\ m \in Int
      BY <1>2, <2>1, <3>0, <3>1
    <3>3. p > m
      BY <1>13, <3>2 DEF Cases
    <3> QED
      BY <1>7, <3>2, <3>3
  <2> QED
    BY <1>14, <1>15, <2>1 DEF Cases
<1>17. ASSUME Head(t).x # "stmt" PROVE e.case_label_num \in first..first + Cardinality(LabelsOf(body)) - 1
  <2>1. i \in LabelsOf(body)
    BY <1>9, <1>17 DEF LabelsOf
  <2>2. /\ Cardinality({j \in LabelsOf(body) : j < i}) \in Nat
        /\ Cardinality({j \in LabelsOf(body) : j < i}) < Cardinality(LabelsOf(body))
    BY <1>6, <2>1, LabelsCounted
  <2>3. Cardinality(LabelsOf(body)) \in Nat
    BY <1>6, LabelsFinite
  <2>4. PICK a, b : a = Cardinality({j \in LabelsOf(body) : j < i}) /\ b = Cardinality(LabelsOf(body))
    OBVIOUS
  <2>5. e.case_label_num = first + a /\ a \in Nat /\ b \in Nat /\ a < b
    BY <1>8, <1>11, <2>2, <2>3, <2>4
  <2>6. first + a \in first..first + b - 1
    BY <1>6, <2>5
  <2> QED
    BY <2>4, <2>5, <2>6
<1> QED
  BY <1>1, <1>3, <1>5, <1>7, <1>16, <1>17

\* The bodies: the counter is where it was to be.
LEMMA CasesEnd ==
    ASSUME NEW S, NEW t \in Seq(S), t # <<>>, NEW e, NEW c, Cases(e, t, c), Head(t).do = "bodies",
           NEW B, Head(t).x.body \in Seq(B),
           NEW R, NEW items \in Seq(R), \A k \in DOMAIN items : items[k].do \notin {"test", "bodies"},
           NEW d, d.case_label_num = e.case_label_num
    PROVE  Cases(d, items \o Tail(t), c)
<1>1. PICK body, n : body = Head(t).x.body /\ n = Len(body)
  OBVIOUS
<1>2. DOMAIN t = 1..Len(t) /\ Len(t) \in Nat \ {0} /\ Head(t) = t[1] /\ 1 \in DOMAIN t /\ body \in Seq(B) /\ n \in Nat
  BY <1>1
<1>3. /\ e.case_label_num = t[1].x.first + Cardinality({i \in LabelsOf(body) : i <= n - (1 - 1)})
      /\ c = t[1].x.first + Cardinality(LabelsOf(body))
  BY <1>1, <1>2 DEF Cases
<1>4. {i \in LabelsOf(body) : i <= n - (1 - 1)} = LabelsOf(body)
  <2>1. LabelsOf(body) \subseteq 1..n
    BY <1>1, <1>2, LabelsFinite
  <2> QED
    BY <1>2, <2>1
<1>5. c = d.case_label_num
  BY <1>3, <1>4
<1>6. \A k \in DOMAIN t : k = 1 \/ t[k].do # "bodies"
  <2>1. ASSUME NEW k \in DOMAIN t, k # 1, t[k].do = "bodies" PROVE FALSE
    <3>1. 1 \in 1..k - 1
      BY <1>2, <2>1
    <3> QED
      BY <1>2, <2>1, <3>1 DEF Cases
  <2> QED
    BY <2>1
<1>7. PICK u : u = items \o Tail(t)
  OBVIOUS
<1>8. \A k \in DOMAIN u : \/ k \in DOMAIN items /\ u[k] = items[k]
                          \/ \E m \in DOMAIN t : m # 1 /\ u[k] = t[m]
  <2>1. /\ DOMAIN items = 1..Len(items)
        /\ \A k \in 1..Len(items) : u[k] = items[k]
        /\ \A k \in DOMAIN u : k \in 1..Len(items) \/ (k - Len(items) + 1 \in 2..Len(t) /\ u[k] = t[k - Len(items) + 1])
    BY <1>7, Stepped
  <2>2. \A m \in 2..Len(t) : m \in DOMAIN t /\ m # 1
    BY <1>2
  <2> QED
    BY <2>1, <2>2
<1>9. \A k \in DOMAIN u : u[k].do # "bodies"
  BY <1>6, <1>8
<1> QED
  <2>1. \A k \in DOMAIN t : t[k].do # "test"
    <3>1. ASSUME NEW k \in DOMAIN t, t[k].do = "test" PROVE FALSE
      <4>1. PICK p \in DOMAIN t : p > k /\ t[p].do = "bodies"
        BY <3>1 DEF Cases
      <4>2. p # 1
        BY <1>2, <3>1, <4>1
      <4> QED
        BY <1>6, <4>1, <4>2
    <3> QED
      BY <3>1
  <2>2. \A k \in DOMAIN u : u[k].do # "test"
    BY <1>8, <2>1
  <2>3. Cases(d, u, c)
    BY ONLY <1>5, <1>9, <2>2 DEF Cases
  <2> QED
    BY ONLY <1>7, <2>3

-----------------------------------------------------------------------------
(* Steps of work with labels *)

\* What the ends, the tests and the functions see of the encoder
Steady(e, d) ==
    /\ d.function = e.function /\ d.case_label_num = e.case_label_num
    /\ d.label_break = e.label_break /\ d.label_continue = e.label_continue

\* Work that is no end and no part of the head of a switch
Modest(x, f) ==
    /\ Typed(x) /\ x.do \notin Ends \cup {"unit", "endfunction", "switch", "test", "bodies"}
    /\ x.do \in InFunction => f # 0

\* What is left to do is in order.
Ordered(e, t, c) == Work(e.function, t) /\ Threads(e, t) /\ Cases(e, t, c)

LEMMA Remains ==
    ASSUME NEW f, NEW t, Work(f, t), t # <<>>, Head(t).do # "unit", NEW R, NEW items \in Seq(R)
    PROVE  items \o Tail(t) # <<>> /\ Tail(t) # <<>>
<1>1. PICK S : t \in Seq(S)
  BY DEF Work
<1>2. PICK s, n : s = Tail(t) /\ n = Len(t)
  OBVIOUS
<1>3. n \in Nat \ {0} /\ 1 \in DOMAIN t /\ Head(t) = t[1] /\ s \in Seq(S) /\ Len(s) = n - 1
  BY <1>1, <1>2
<1>4. n # 1
  <2>1. t[1].do = "unit" <=> 1 = n
    BY <1>2, <1>3 DEF Work
  <2> QED
    BY <1>3, <2>1
<1>5. Len(s) > 0 /\ s # <<>>
  BY <1>3, <1>4
<1>6. items \in Seq(R \cup S) /\ s \in Seq(R \cup S)
  BY <1>3
<1>7. PICK u : u = items \o s
  OBVIOUS
<1>8. Len(u) = Len(items) + Len(s) /\ Len(items) \in Nat
  BY <1>6, <1>7
<1>9. Len(u) > 0
  BY <1>3, <1>5, <1>8
<1>10. u # <<>>
  BY <1>9
<1> QED
  BY <1>2, <1>5, <1>7, <1>10

\* The head is replaced by modest work.
LEMMA Turn ==
    ASSUME NEW e, NEW t, NEW c, Ordered(e, t, c), t # <<>>,
           Head(t).do \notin Ends \cup {"unit", "endfunction", "test", "bodies"},
           NEW R, NEW items \in Seq(R), \A k \in DOMAIN items : Modest(items[k], e.function),
           NEW d, Steady(e, d)
    PROVE  Ordered(d, items \o Tail(t), c) /\ items \o Tail(t) # <<>>
<1>1. PICK S : t \in Seq(S)
  BY DEF Ordered, Work
<1>2. Work(e.function, items \o Tail(t))
  <2>1. \A k \in DOMAIN items :
              /\ Typed(items[k]) /\ items[k].do \notin {"unit", "endfunction"}
              /\ items[k].do \in InFunction => e.function # 0
              /\ items[k].do \notin {"switch", "test", "bodies"}
    BY DEF Modest
  <2> QED
    BY <2>1, WorkStep DEF Ordered
<1>3. Loops \subseteq Ends
  BY DEF Ends
<1>4. Threads(d, items \o Tail(t))
  <2>1. \A k \in DOMAIN items : items[k].do \notin Ends /\ items[k].do \notin Loops
    BY <1>3 DEF Modest
  <2>2. Head(t).do \notin Ends /\ Head(t).do \notin Loops
    BY <1>3
  <2>3. Threaded(items \o Tail(t), Ends, e.label_break, "break", "old_break")
    BY <1>1, <2>1, <2>2, ThreadStep DEF Ordered, Threads
  <2>4. Threaded(items \o Tail(t), Loops, e.label_continue, "continue", "old_continue")
    BY <1>1, <2>1, <2>2, ThreadStep DEF Ordered, Threads
  <2> QED
    BY <2>3, <2>4 DEF Threads, Steady
<1>5. Cases(d, items \o Tail(t), c)
  <2>1. \A k \in DOMAIN items : items[k].do \notin {"test", "bodies"}
    BY DEF Modest
  <2> QED
    BY <1>1, <2>1, CasesStep DEF Ordered, Steady
<1>6. items \o Tail(t) # <<>>
  BY Remains DEF Ordered
<1> QED
  BY <1>2, <1>4, <1>5, <1>6 DEF Ordered, Steady

LEMMA TurnDone ==
    ASSUME NEW e, NEW t, NEW c, Ordered(e, t, c), t # <<>>,
           Head(t).do \notin Ends \cup {"unit", "endfunction", "test", "bodies"},
           NEW d, Steady(e, d)
    PROVE  Ordered(d, <<>> \o Tail(t), c) /\ <<>> \o Tail(t) # <<>>
<1>1. PICK items : items = <<>>
  OBVIOUS
<1>2. items \in Seq({}) /\ \A k \in DOMAIN items : Modest(items[k], e.function)
  BY <1>1
<1>3. Ordered(d, items \o Tail(t), c) /\ items \o Tail(t) # <<>>
  BY <1>2, Turn
<1> QED
  BY <1>1, <1>3

LEMMA OwnedNone ==
    ASSUME NEW x
    PROVE  /\ x.do \notin Owners => Owned(x) = {}
           /\ x.do \notin {"ternaryelse", "else", "leave"} \cup Loops => Named(x) = {}
  BY DEF Owned, Named, Owners, Ends

\* Items that own nothing and name nothing
LEMMA PushNone ==
    ASSUME NEW e, NEW t, NEW c, LabelsInv(e, t, {}, c), NEW S, t \in Seq(S),
           NEW R, NEW items \in Seq(R), \A k \in DOMAIN items : Owned(items[k]) = {} /\ Named(items[k]) = {}
    PROVE  LabelsInv(e, items \o t, {}, c)
  BY LabelsPush

\* The last of the items owns what is owed.
LEMMA PushLast ==
    ASSUME NEW e, NEW t, NEW o, NEW c, LabelsInv(e, t, o, c), NEW S, t \in Seq(S),
           NEW R, NEW items \in Seq(R), Len(items) > 0,
           Owned(items[Len(items)]) = o, \A k \in DOMAIN items : k # Len(items) => Owned(items[k]) = {},
           e.ok => \A k \in DOMAIN items : \A l \in Named(items[k]) : Reached(e, t, o, l)
    PROVE  LabelsInv(e, items \o t, {}, c)
<1>1. Len(items) \in DOMAIN items
  OBVIOUS
<1>2. \A k \in DOMAIN items : Owned(items[k]) \subseteq o
  OBVIOUS
<1>3. \A l \in o : \E k \in DOMAIN items : l \in Owned(items[k])
  BY <1>1
<1>4. \A k, m \in DOMAIN items : k # m => Owned(items[k]) \cap Owned(items[m]) = {}
  OBVIOUS
<1> QED
  BY <1>2, <1>3, <1>4, LabelsPush

\* The invariant that is inductive: when all is done, all functions are declared.
Jumps(e, t, c) == LabelsInv(e, t, {}, c) /\ Ordered(e, t, c)
JumpsKept ==
    /\ \E c : Jumps(enc, todo, c)
    /\ todo = <<>> => enc.ok /\ \A f \in DOMAIN Functions : Label("FUNC", f) \in enc.declared

\* The head is taken off the stack.
LEMMA Popped ==
    ASSUME NEW c, Jumps(enc, todo, c), todo # <<>>
    PROVE  /\ LabelsInv(enc, Tail(todo), Owned(Head(todo)), c)
           /\ enc.ok => \A l \in Named(Head(todo)) : Reached(enc, Tail(todo), Owned(Head(todo)), l)
           /\ \E S : todo \in Seq(S) /\ Tail(todo) \in Seq(S)
           /\ Shape(enc)
<1>1. PICK S : todo \in Seq(S)
  BY DEF Jumps, Ordered, Work
<1>2. Tail(todo) \in Seq(S)
  BY <1>1
<1> QED
  BY <1>1, <1>2, LabelsPop DEF Jumps, LabelsInv

LEMMA SmoothJumps == ASSUME JumpsKept, Smooth PROVE JumpsKept'
<1>1. PICK c : Jumps(enc, todo, c)
  BY DEF JumpsKept
<1>2. PICK items :
          /\ \E R : items \in Seq(R)
          /\ \A k \in DOMAIN items :
                \/ Plain(items[k])
                \/ items[k].do \in {"stmt", "then", "return"} /\ Head(todo).do = "stmt"
          /\ todo' = items \o Tail(todo)
  BY DEF Smooth
<1>3. PICK R : items \in Seq(R)
  BY <1>2
<1>4. /\ todo # <<>> /\ Calm(enc, enc') /\ Head(todo).do \notin Owners
      /\ Head(todo).do \notin Owners \cup Saves \cup {"unit", "endfunction", "test"}
  BY DEF Smooth
<1>5. PICK S : todo \in Seq(S) /\ Tail(todo) \in Seq(S)
  BY <1>1, <1>4, Popped
<1>6. Owned(Head(todo)) = {}
  BY <1>4, OwnedNone
<1>7. LabelsInv(enc', Tail(todo), {}, c)
  BY <1>1, <1>4, <1>6, Popped, LabelsCalmly
<1>8. ASSUME NEW k \in DOMAIN items PROVE Owned(items[k]) = {} /\ Named(items[k]) = {}
  <2>1. items[k].do \notin Owners /\ items[k].do \notin {"ternaryelse", "else", "leave"} \cup Loops
    BY <1>2, <1>8 DEF Plain, Owners, InFunction, Ends, Loops
  <2> QED
    BY <2>1, OwnedNone
<1>9. LabelsInv(enc', todo', {}, c)
  BY <1>2, <1>3, <1>5, <1>7, <1>8, PushNone
<1>10. Ordered(enc', todo', c) /\ todo' # <<>>
  <2>1. Steady(enc, enc')
    BY <1>4 DEF Steady, Calm
  <2>2. ASSUME NEW k \in DOMAIN items PROVE Modest(items[k], enc.function)
    <3>1. CASE Plain(items[k])
      BY <3>1 DEF Plain, Modest, InFunction, Owners
    <3>2. CASE items[k].do \in {"stmt", "then", "return"} /\ Head(todo).do = "stmt"
      <4>1. enc.function # 0
        BY <1>1, <1>4, <3>2, HeadInside DEF Jumps, Ordered, InFunction
      <4> QED
        BY <3>2, <4>1 DEF Modest, Typed, Ends, Loops
    <3> QED
      BY <1>2, <2>2, <3>1, <3>2
  <2>3. Head(todo).do \notin Ends \cup {"unit", "endfunction", "test", "bodies"}
    BY <1>4 DEF Owners
  <2> QED
    BY <1>1, <1>2, <1>3, <1>4, <2>1, <2>2, <2>3, Turn DEF Jumps
<1> QED
  BY <1>9, <1>10 DEF JumpsKept, Jumps

LEMMA Onward ==
    ASSUME NEW c, LabelsInv(enc', todo', {}, c), Ordered(enc', todo', c), todo' # <<>> PROVE JumpsKept'
  BY DEF JumpsKept, Jumps

-----------------------------------------------------------------------------
(* Operations one after another *)

\* From encoder b to d with t left to do and o owed
Carried(b, d, t, o, c) == LabelsInv(d, t, o, c) /\ Steady(b, d)

LEMMA CarriedSame ==
    ASSUME NEW b, NEW d, NEW t, NEW o, NEW c, Carried(b, d, t, o, c), NEW e, Shape(d) => Same(d, e)
    PROVE  Carried(b, e, t, o, c)
<1>1. Same(d, e)
  BY DEF Carried, LabelsInv
<1>2. LabelsInv(e, t, o, c)
  BY <1>1, SameApart, LabelsApart DEF Carried
<1>3. Steady(b, e)
  BY <1>1 DEF Carried, Steady, Same, Labels
<1> QED
  BY <1>2, <1>3 DEF Carried

LEMMA CarriedFree ==
    ASSUME NEW b, NEW d, NEW t, NEW o, NEW c, Carried(b, d, t, o, c), NEW x
    PROVE  Carried(b, free_rvalue(d, x), t, o, c)
  BY FreeValueSame, CarriedSame

LEMMA CarriedGet ==
    ASSUME NEW b, NEW d, NEW t, NEW o, NEW c, Carried(b, d, t, o, c)
    PROVE  Carried(b, get_register(d), t, o, c) /\ Carried(b, Settled(d), t, o, c)
  BY GetSame, GotSame, CarriedSame

LEMMA CarriedTake ==
    ASSUME NEW b, NEW d, NEW t, NEW o, NEW c, Carried(b, d, t, o, c), NEW kinds \in SUBSET Numbered,
           NEW u, u = o \cup {Label(kind, d.label_num) : kind \in kinds}
    PROVE  Carried(b, TakeLabel(d), t, u, c)
<1>1. LabelsInv(TakeLabel(d), t, u, c)
  BY LabelsTake DEF Carried
<1>2. Steady(b, TakeLabel(d))
  BY DEF Carried, Steady, TakeLabel, LabelsInv, Shape
<1> QED
  BY <1>1, <1>2 DEF Carried

LEMMA CarriedBranch ==
    ASSUME NEW b, NEW d, NEW t, NEW o, NEW c, Carried(b, d, t, o, c), NEW l, Safe(d, t, o, l), l[1] # "FUNCEND"
    PROVE  /\ Carried(b, emit_unconditional_branch(d, l), t, o, c)
           /\ \A x : Carried(b, emit_conditional_branch(d, x, l), t, o, c)
<1>1. /\ LabelsInv(emit_unconditional_branch(d, l), t, o, c)
      /\ \A x : LabelsInv(emit_conditional_branch(d, x, l), t, o, c)
  BY LabelsBranch DEF Carried
<1>2. Steady(b, emit_unconditional_branch(d, l))
  BY DEF Carried, Steady, emit_unconditional_branch, LabelsInv, Shape
<1>3. \A x : Steady(b, emit_conditional_branch(d, x, l))
  BY <1>2 DEF Carried, emit_conditional_branch
<1> QED
  BY <1>1, <1>2, <1>3 DEF Carried

\* to a label that is owed
LEMMA CarriedOwed ==
    ASSUME NEW b, NEW d, NEW t, NEW o, NEW c, Carried(b, d, t, o, c), NEW l \in o
    PROVE  /\ Carried(b, emit_unconditional_branch(d, l), t, o, c)
           /\ \A x : Carried(b, emit_conditional_branch(d, x, l), t, o, c)
<1>1. Safe(d, t, o, l)
  BY DEF Safe
<1>2. l[1] # "FUNCEND"
  BY NotFunction DEF Carried, LabelsInv
<1> QED
  BY <1>1, <1>2, CarriedBranch

LEMMA CarriedDeclare ==
    ASSUME NEW b, NEW d, NEW t, NEW o, NEW c, Carried(b, d, t, o, c), NEW l \in o, NEW u, u = o \ {l}
    PROVE  Carried(b, emit_label_declaration(d, l), t, u, c)
<1>1. LabelsInv(emit_label_declaration(d, l), t, u, c)
  BY LabelsDeclare DEF Carried
<1>2. Steady(b, emit_label_declaration(d, l))
  BY DEF Carried, Steady, emit_label_declaration, LabelsInv, Shape
<1> QED
  BY <1>1, <1>2 DEF Carried

LEMMA CarriedStart ==
    ASSUME NEW c, Jumps(enc, todo, c), todo # <<>>
    PROVE  /\ Carried(enc, enc, Tail(todo), Owned(Head(todo)), c)
           /\ Head(todo).do \notin Owners => Carried(enc, enc, Tail(todo), {}, c)
<1>1. Carried(enc, enc, Tail(todo), Owned(Head(todo)), c)
  BY Popped DEF Carried, Steady
<1>2. Head(todo).do \notin Owners => Owned(Head(todo)) = {}
  BY OwnedNone
<1> QED
  BY <1>1, <1>2

LEMMA OwnedWith ==
    ASSUME NEW n
    PROVE  /\ Owned(With("ternaryelse", n)) = {Label("ELSE", n)} /\ Owned(With("else", n)) = {Label("ELSE", n)}
           /\ Owned(With("endternary", n)) = {Label("END", n)} /\ Owned(With("endif", n)) = {Label("END", n)}
           /\ Owned(With("docondition", n)) = {Label("NEXT", n)} /\ Owned(With("label", n)) = {Label("CASE", n)}
           /\ Named(With("ternaryelse", n)) = {Label("END", n)} /\ Named(With("else", n)) = {Label("END", n)}
           /\ Named(With("leave", n)) = {Label("END", n)} /\ Owned(With("leave", n)) = {}
           /\ \A w \in {"endternary", "endif", "docondition", "label"} : Named(With(w, n)) = {}
           /\ Owned(Stmt) = {} /\ Named(Stmt) = {}
           /\ \A t : Owned(Expr(t)) = {} /\ Named(Expr(t)) = {} /\ Owned(Void(t)) = {} /\ Named(Void(t)) = {}
  BY DEF Owned, Named, With, Stmt, Item, Expr, Void, Ends, Loops

LEMMA ModestWith ==
    ASSUME NEW f, NEW n
    PROVE  /\ \A w \in {"ternaryelse", "endternary"} : Modest(With(w, n), f)
           /\ f # 0 => \A w \in {"else", "endif", "docondition", "label", "leave"} : Modest(With(w, n), f)
           /\ f # 0 => Modest(Stmt, f)
           /\ \A t : Modest(Expr(t), f) /\ Modest(Void(t), f)
  BY DEF Modest, Typed, With, Stmt, Item, Expr, Void, Ends, Loops, InFunction, Saves

LEMMA LabelsDistinct ==
    ASSUME NEW n
    PROVE  /\ Label("ELSE", n) # Label("END", n) /\ Label("BEGIN_CYCLE", n) # Label("END", n)
           /\ Label("NEXT", n) # Label("END", n) /\ Label("NEXT", n) # Label("BEGIN_CYCLE", n)
           /\ \A k \in Numbered : Label(k, n)[1] = k /\ k # "FUNCEND"
  BY DEF Label, Numbered

\* The head is replaced by modest work, the last of which owns what is owed.
LEMMA LastOwns ==
    ASSUME NEW c, Jumps(enc, todo, c), todo # <<>>, Head(todo).do \notin Ends \cup {"unit", "endfunction", "test", "bodies"},
           NEW o, Carried(enc, enc', Tail(todo), o, c), NEW R, NEW items \in Seq(R), Len(items) > 0,
           todo' = items \o Tail(todo), Owned(items[Len(items)]) = o,
           \A k \in DOMAIN items :
              /\ Modest(items[k], enc.function)
              /\ k # Len(items) => Owned(items[k]) = {}
              /\ enc'.ok => \A l \in Named(items[k]) : Reached(enc', Tail(todo), o, l)
    PROVE  JumpsKept'
<1>1. PICK S : Tail(todo) \in Seq(S)
  BY Popped
<1>2. PICK d, t, u : d = enc' /\ t = Tail(todo) /\ u = todo'
  OBVIOUS
<1>3. LabelsInv(d, t, o, c) /\ Steady(enc, d)
  BY <1>2 DEF Carried
<1>4. LabelsInv(d, items \o t, {}, c)
  BY <1>1, <1>2, <1>3, PushLast
<1>5. Ordered(d, items \o t, c) /\ items \o t # <<>>
  BY <1>2, <1>3, Turn DEF Jumps
<1> QED
  BY <1>2, <1>4, <1>5, Onward

\* The items own all that is owed.
LEMMA AllOwn ==
    ASSUME NEW c, Jumps(enc, todo, c), todo # <<>>, Head(todo).do \notin Ends \cup {"unit", "endfunction", "test", "bodies"},
           NEW o, Carried(enc, enc', Tail(todo), o, c), NEW R, NEW items \in Seq(R), todo' = items \o Tail(todo),
           \A l \in o : \E k \in DOMAIN items : l \in Owned(items[k]),
           \A k, m \in DOMAIN items : k # m => Owned(items[k]) \cap Owned(items[m]) = {},
           \A k \in DOMAIN items :
              /\ Modest(items[k], enc.function)
              /\ Owned(items[k]) \subseteq o
              /\ enc'.ok => \A l \in Named(items[k]) : Reached(enc', Tail(todo), o, l)
    PROVE  JumpsKept'
<1>1. PICK S : Tail(todo) \in Seq(S)
  BY Popped
<1>2. PICK d, t, u : d = enc' /\ t = Tail(todo) /\ u = todo'
  OBVIOUS
<1>3. LabelsInv(d, t, o, c) /\ Steady(enc, d)
  BY <1>2 DEF Carried
<1>4. LabelsInv(d, items \o t, {}, c)
  BY <1>1, <1>2, <1>3, LabelsPush
<1>5. Ordered(d, items \o t, c) /\ items \o t # <<>>
  BY <1>2, <1>3, Turn DEF Jumps
<1> QED
  BY <1>2, <1>4, <1>5, Onward

\* The second and the last of four own one label each, and name no label but the last.
LEMMA TwoOwn ==
    ASSUME NEW o, NEW l \in o, NEW m \in o, \A n \in o : n = l \/ n = m, l # m, m[1] # "FUNCEND",
           NEW R, NEW items \in Seq(R), Len(items) = 4, NEW e, NEW t,
           Owned(items[1]) = {}, Owned(items[2]) = {l}, Owned(items[3]) = {}, Owned(items[4]) = {m},
           \A k \in DOMAIN items : \A n \in Named(items[k]) : n = m
    PROVE  /\ \A n \in o : \E k \in DOMAIN items : n \in Owned(items[k])
           /\ \A k, j \in DOMAIN items : k # j => Owned(items[k]) \cap Owned(items[j]) = {}
           /\ \A k \in DOMAIN items : Owned(items[k]) \subseteq o
           /\ \A k \in DOMAIN items : \A n \in Named(items[k]) : Reached(e, t, o, n)
<1>1. DOMAIN items = {1, 2, 3, 4}
  OBVIOUS
<1>2. Reached(e, t, o, m)
  BY DEF Reached, Safe
<1> QED
  BY <1>1, <1>2

LEMMA Joined ==
    ASSUME NEW R, NEW a \in R, NEW b \in R, NEW d \in R, NEW p, p = <<a>> \o <<b, a>> \o <<d>>
    PROVE  p \in Seq(R) /\ Len(p) = 4 /\ p[1] = a /\ p[2] = b /\ p[3] = a /\ p[4] = d
  OBVIOUS

LEMMA JoinedNone ==
    ASSUME NEW R, NEW a \in R, NEW d \in R, NEW p, p = <<a>> \o <<>> \o <<d>>
    PROVE  p \in Seq(R) /\ Len(p) = 2 /\ p[1] = a /\ p[2] = d
  OBVIOUS

\* The head is done and nothing is owed.
LEMMA HeadDone ==
    ASSUME NEW c, Jumps(enc, todo, c), todo # <<>>, Head(todo).do \notin Ends \cup {"unit", "endfunction", "test", "bodies"},
           Carried(enc, enc', Tail(todo), {}, c), Done
    PROVE  JumpsKept'
<1>1. PICK S : todo \in Seq(S) /\ Tail(todo) \in Seq(S)
  BY Popped
<1>2. PICK d, u : d = enc' /\ u = todo'
  OBVIOUS
<1>3. u = <<>> \o Tail(todo) /\ u = Tail(todo)
  BY <1>1, <1>2 DEF Done, Then
<1>4. LabelsInv(d, u, {}, c) /\ Steady(enc, d)
  BY <1>2, <1>3 DEF Carried
<1>5. Ordered(d, u, c) /\ u # <<>>
  BY <1>3, <1>4, TurnDone DEF Jumps
<1> QED
  BY <1>2, <1>4, <1>5, Onward

\* A label is taken for the end of what is done next, and jumped to when the value is zero.
LEMMA LogicalBranchJumps == ASSUME JumpsKept, LogicalBranch PROVE JumpsKept'
<1>1. PICK c : Jumps(enc, todo, c)
  BY DEF JumpsKept
<1>2. todo # <<>> /\ Head(todo).do = "logical"
  BY DEF LogicalBranch, Do
<1>3. PICK lbl, a, b :
         /\ lbl = Label("END", enc.label_num) /\ a = Expr("int") /\ b = With("endlogical", [lbl |-> lbl, lhs |-> First])
  OBVIOUS
<1>4. todo' = <<a, b>> \o Tail(todo)
  BY <1>3 DEF LogicalBranch, Then
<1>5. Carried(enc, enc', Tail(todo), {lbl}, c)
  <2>1. Carried(enc, enc, Tail(todo), {}, c)
    BY <1>1, <1>2, CarriedStart DEF Owners, Ends, Loops
  <2>2. {"END"} \in SUBSET Numbered /\ {lbl} = {} \cup {Label(kind, enc.label_num) : kind \in {"END"}}
    BY <1>3 DEF Numbered
  <2>3. Carried(enc, TakeLabel(enc), Tail(todo), {lbl}, c)
    BY <2>1, <2>2, CarriedTake
  <2>4. Carried(enc, emit_conditional_branch(TakeLabel(enc), First, lbl), Tail(todo), {lbl}, c)
    BY <2>3, CarriedOwed
  <2> QED
    BY <1>3, <2>4, CarriedFree DEF LogicalBranch
<1>6. Owned(a) = {} /\ Owned(b) = {lbl} /\ Named(a) = {} /\ Named(b) = {}
  BY <1>3 DEF Owned, Named, Expr, With, Ends, Loops
<1>7. Modest(a, enc.function) /\ Modest(b, enc.function)
  BY <1>3 DEF Modest, Typed, Expr, With, Ends, Loops, InFunction, Saves, Label
<1>8. PICK items, R : items = <<a, b>> /\ R = {a, b}
  OBVIOUS
<1>9. items \in Seq(R) /\ Len(items) = 2 /\ DOMAIN items = {1, 2} /\ items[1] = a /\ items[2] = b
  BY <1>8
<1>10. Head(todo).do \notin Ends \cup {"unit", "endfunction", "test", "bodies"}
  BY <1>2 DEF Ends, Loops
<1>11. /\ Len(items) > 0 /\ todo' = items \o Tail(todo) /\ Owned(items[Len(items)]) = {lbl}
       /\ \A k \in DOMAIN items :
              /\ Modest(items[k], enc.function)
              /\ k # Len(items) => Owned(items[k]) = {}
              /\ enc'.ok => \A l \in Named(items[k]) : Reached(enc', Tail(todo), {lbl}, l)
  BY <1>4, <1>6, <1>7, <1>8, <1>9
<1> QED
  BY <1>1, <1>2, <1>5, <1>9, <1>10, <1>11, LastOwns

\* The label is declared, or the assertion has failed.
LEMMA EndLogicalJumps == ASSUME JumpsKept, EndLogical PROVE JumpsKept'
<1>1. PICK c : Jumps(enc, todo, c)
  BY DEF JumpsKept
<1>2. todo # <<>> /\ Head(todo).do = "endlogical" /\ Done
  BY DEF EndLogical, Do
<1>3. Carried(enc, enc, Tail(todo), {X.lbl}, c)
  BY <1>1, <1>2, CarriedStart DEF Owned, X
<1>4. Carried(enc, emit_label_declaration(enc, X.lbl), Tail(todo), {}, c)
  BY <1>3, CarriedDeclare
<1>5. Carried(enc, Fail(enc), Tail(todo), {}, c)
  <2>1. PICK d : d = Fail(enc)
    OBVIOUS
  <2>2. Carried(enc, d, Tail(todo), {X.lbl}, c)
    BY <1>3, <2>1, FailSame, CarriedSame
  <2>3. ~d.ok
    BY <1>3, <2>1 DEF Fail, Carried, LabelsInv, Shape
  <2> QED
    BY <2>1, <2>2, <2>3, LabelsFail DEF Carried
<1>6. Carried(enc, enc', Tail(todo), {}, c)
  BY <1>4, <1>5 DEF EndLogical
<1>7. Head(todo).do \notin Ends \cup {"unit", "endfunction", "test", "bodies"}
  BY <1>2 DEF Ends, Loops
<1> QED
  BY <1>1, <1>2, <1>6, <1>7, HeadDone

\* One label for the other branch and one for the end
LEMMA TernaryBranchJumps == ASSUME JumpsKept, TernaryBranch PROVE JumpsKept'
<1>1. PICK c : Jumps(enc, todo, c)
  BY DEF JumpsKept
<1>2. todo # <<>> /\ Head(todo).do = "ternary"
  BY DEF TernaryBranch, Do
<1>3. PICK n, l, m, x1, x2, x4 :
         /\ n = enc.label_num /\ l = Label("ELSE", n) /\ m = Label("END", n)
         /\ x1 = Expr("int") /\ x2 = With("ternaryelse", n) /\ x4 = With("endternary", n)
  OBVIOUS
<1>4. PICK items, R, o : items = <<x1, x2, x1, x4>> /\ R = {x1, x2, x4} /\ o = {l, m}
  OBVIOUS
<1>5. /\ items \in Seq(R) /\ Len(items) = 4 /\ DOMAIN items = {1, 2, 3, 4}
      /\ items[1] = x1 /\ items[2] = x2 /\ items[3] = x1 /\ items[4] = x4
  BY <1>4
<1>6. todo' = items \o Tail(todo)
  BY <1>3, <1>4 DEF TernaryBranch, Then
<1>7. Carried(enc, enc', Tail(todo), o, c)
  <2>1. Carried(enc, enc, Tail(todo), {}, c)
    BY <1>1, <1>2, CarriedStart DEF Owners, Ends, Loops
  <2>2. {"ELSE", "END"} \in SUBSET Numbered /\ o = {} \cup {Label(kind, enc.label_num) : kind \in {"ELSE", "END"}}
    BY <1>3, <1>4 DEF Numbered
  <2>3. Carried(enc, TakeLabel(enc), Tail(todo), o, c)
    BY <2>1, <2>2, CarriedTake
  <2>4. Carried(enc, emit_conditional_branch(TakeLabel(enc), First, l), Tail(todo), o, c)
    BY <1>4, <2>3, CarriedOwed
  <2> QED
    BY <1>3, <2>4, CarriedFree, CarriedGet DEF TernaryBranch
<1>8. l # m /\ m[1] # "FUNCEND"
  BY <1>3, LabelsDistinct DEF Numbered
<1>9. Owned(x1) = {} /\ Owned(x2) = {l} /\ Owned(x4) = {m} /\ \A x \in R : \A k \in Named(x) : k = m
  BY <1>3, <1>4, OwnedWith
<1>10. Head(todo).do \notin Ends \cup {"unit", "endfunction", "test", "bodies"}
  BY <1>2 DEF Ends, Loops
<1>11. \A x \in R : Modest(x, enc.function)
  BY <1>3, <1>4, ModestWith
<1>12. \A k \in DOMAIN items : Modest(items[k], enc.function) /\ \A q \in Named(items[k]) : q = m
  BY <1>4, <1>5, <1>9, <1>11
<1>13. Owned(items[1]) = {} /\ Owned(items[2]) = {l} /\ Owned(items[3]) = {} /\ Owned(items[4]) = {m}
  BY <1>5, <1>9
<1>14. l \in o /\ m \in o /\ \A k \in o : k = l \/ k = m
  BY <1>4
<1>15. /\ \A k \in o : \E j \in DOMAIN items : k \in Owned(items[j])
       /\ \A k, j \in DOMAIN items : k # j => Owned(items[k]) \cap Owned(items[j]) = {}
       /\ \A k \in DOMAIN items : Owned(items[k]) \subseteq o
       /\ \A k \in DOMAIN items : \A j \in Named(items[k]) : Reached(enc', Tail(todo), o, j)
  <2>1. items \in Seq(R) /\ Len(items) = 4
    BY <1>5
  <2>2. \A k \in DOMAIN items : \A n0 \in Named(items[k]) : n0 = m
    BY <1>12
  <2> QED
    BY <2>1, <2>2, <1>8, <1>13, <1>14, TwoOwn
<1> QED
  BY <1>1, <1>2, <1>5, <1>6, <1>7, <1>10, <1>12, <1>15, AllOwn

\* What leaves other items as they are can still jump where it could.
LEMMA FreeSafe ==
    ASSUME NEW e, Shape(e), NEW t, NEW o, NEW l, Safe(e, t, o, l), NEW x
    PROVE  Safe(free_rvalue(e, x), t, o, l)
<1>1. free_rvalue(e, x).declared = e.declared
  BY FreeValueSame DEF Same, Labels
<1> QED
  BY <1>1 DEF Safe

LEMMA TernaryElseJumps == ASSUME JumpsKept, TernaryElse PROVE JumpsKept'
<1>1. PICK c : Jumps(enc, todo, c)
  BY DEF JumpsKept
<1>2. todo # <<>> /\ enc.ok /\ Head(todo).do = "ternaryelse" /\ Done
  BY DEF TernaryElse, Do
<1>3. PICK l, m, d, t : l = Label("ELSE", X) /\ m = Label("END", X) /\ d = free_rvalue(enc, First) /\ t = Tail(todo)
  OBVIOUS
<1>4. Owned(Head(todo)) = {l} /\ m \in Named(Head(todo))
  BY <1>2, <1>3 DEF Owned, Named, X
<1>5. Carried(enc, enc, t, {l}, c)
  BY <1>1, <1>2, <1>3, <1>4, CarriedStart
<1>6. Carried(enc, d, t, {l}, c)
  BY <1>3, <1>5, CarriedFree
<1>7. Safe(d, t, {l}, m) /\ m[1] # "FUNCEND"
  <2>1. Reached(enc, t, {l}, m) /\ Shape(enc)
    BY <1>1, <1>2, <1>3, <1>4, Popped
  <2> QED
    BY <1>3, <2>1, FreeSafe DEF Reached
<1>8. Carried(enc, emit_unconditional_branch(d, m), t, {l}, c)
  BY <1>6, <1>7, CarriedBranch
<1>9. Carried(enc, emit_label_declaration(emit_unconditional_branch(d, m), l), t, {}, c)
  BY <1>8, CarriedDeclare
<1>10. Carried(enc, enc', Tail(todo), {}, c)
  BY <1>3, <1>9 DEF TernaryElse
<1>11. Head(todo).do \notin Ends \cup {"unit", "endfunction", "test", "bodies"}
  BY <1>2 DEF Ends, Loops
<1> QED
  BY <1>1, <1>2, <1>10, <1>11, HeadDone

LEMMA EndTernaryJumps == ASSUME JumpsKept, EndTernary PROVE JumpsKept'
<1>1. PICK c : Jumps(enc, todo, c)
  BY DEF JumpsKept
<1>2. todo # <<>> /\ Head(todo).do = "endternary" /\ Done
  BY DEF EndTernary, Do
<1>3. PICK l, t : l = Label("END", X) /\ t = Tail(todo)
  OBVIOUS
<1>4. Owned(Head(todo)) = {l}
  BY <1>2, <1>3 DEF Owned, X
<1>5. Carried(enc, enc, t, {l}, c)
  BY <1>1, <1>2, <1>3, <1>4, CarriedStart
<1>6. Carried(enc, free_rvalue(enc, First), t, {l}, c)
  BY <1>5, CarriedFree
<1>7. Carried(enc, enc', Tail(todo), {}, c)
  BY <1>3, <1>6, CarriedDeclare DEF EndTernary
<1>8. Head(todo).do \notin Ends \cup {"unit", "endfunction", "test", "bodies"}
  BY <1>2 DEF Ends, Loops
<1> QED
  BY <1>1, <1>2, <1>7, <1>8, HeadDone

-----------------------------------------------------------------------------
(* Statements *)

\* One label when there is no else, two when there is one
LEMMA IfBranchJumps == ASSUME JumpsKept, IfBranch PROVE JumpsKept'
<1>1. PICK c : Jumps(enc, todo, c)
  BY DEF JumpsKept
<1>2. todo # <<>> /\ Head(todo).do = "then"
  BY DEF IfBranch, Do
<1>3. enc.function # 0
  BY <1>1, <1>2, HeadInside DEF Jumps, Ordered, InFunction
<1>4. PICK n, l, m, b, d :
         n = enc.label_num /\ l = Label("ELSE", n) /\ m = Label("END", n) /\ b = With("else", n) /\ d = With("endif", n)
  OBVIOUS
<1>5. l # m /\ m[1] # "FUNCEND"
  BY <1>4, LabelsDistinct DEF Numbered
<1>6. Head(todo).do \notin Ends \cup {"unit", "endfunction", "test", "bodies"}
  BY <1>2 DEF Ends, Loops
<1>7. Carried(enc, enc, Tail(todo), {}, c)
  BY <1>1, <1>2, CarriedStart DEF Owners, Ends, Loops
<1>8. /\ Owned(Stmt) = {} /\ Owned(b) = {l} /\ Owned(d) = {m}
      /\ \A x \in {Stmt, b, d} : Modest(x, enc.function) /\ \A k \in Named(x) : k = m
      /\ Named(d) = {} /\ Named(Stmt) = {}
  <2>1. /\ Owned(Stmt) = {} /\ Owned(b) = {l} /\ Owned(d) = {m}
        /\ Named(b) = {m} /\ Named(d) = {} /\ Named(Stmt) = {}
    BY ONLY <1>4, OwnedWith
  <2>2. Modest(Stmt, enc.function) /\ Modest(b, enc.function) /\ Modest(d, enc.function)
    BY ONLY <1>3, <1>4, ModestWith
  <2> QED
    BY ONLY <2>1, <2>2
<1>9. CASE X
  <2>1. PICK items, R, o : items = <<Stmt>> \o <<b, Stmt>> \o <<d>> /\ R = {Stmt, b, d} /\ o = {l, m}
    OBVIOUS
  <2>0. items \in Seq(R) /\ Len(items) = 4 /\ items[1] = Stmt /\ items[2] = b /\ items[3] = Stmt /\ items[4] = d
    BY <2>1, Joined
  <2>2. /\ items \in Seq(R) /\ Len(items) = 4 /\ DOMAIN items = {1, 2, 3, 4}
        /\ items[1] = Stmt /\ items[2] = b /\ items[3] = Stmt /\ items[4] = d
    BY <2>0
  <2>3. {"ELSE", "END"} \in SUBSET Numbered /\ o = {} \cup {Label(kind, enc.label_num) : kind \in {"ELSE", "END"}}
    BY <1>4, <2>1 DEF Numbered
  <2>4. Carried(enc, TakeLabel(enc), Tail(todo), o, c)
    BY <1>7, <2>3, CarriedTake
  <2>5. Carried(enc, emit_conditional_branch(TakeLabel(enc), First, l), Tail(todo), o, c)
    BY <2>1, <2>4, CarriedOwed
  <2>6. Carried(enc, enc', Tail(todo), o, c)
    BY <1>4, <1>9, <2>5, CarriedFree DEF IfBranch
  <2>7. todo' = items \o Tail(todo)
    BY <1>4, <1>9, <2>1 DEF IfBranch, Then
  <2>8. \A k \in DOMAIN items : Modest(items[k], enc.function) /\ \A n0 \in Named(items[k]) : n0 = m
    BY <1>8, <2>2
  <2>9. Owned(items[1]) = {} /\ Owned(items[2]) = {l} /\ Owned(items[3]) = {} /\ Owned(items[4]) = {m}
    BY <1>8, <2>2
  <2>10. l \in o /\ m \in o /\ \A k \in o : k = l \/ k = m
    BY <2>1
  <2>11. /\ \A k \in o : \E j \in DOMAIN items : k \in Owned(items[j])
         /\ \A k, j \in DOMAIN items : k # j => Owned(items[k]) \cap Owned(items[j]) = {}
         /\ \A k \in DOMAIN items : Owned(items[k]) \subseteq o
         /\ \A k \in DOMAIN items : \A j \in Named(items[k]) : Reached(enc', Tail(todo), o, j)
    <3>1. \A k \in DOMAIN items : \A j \in Named(items[k]) : j = m
      BY ONLY <2>8
    <3> QED
      BY ONLY <1>5, <2>0, <2>9, <2>10, <3>1, TwoOwn
  <2> QED
    BY <1>1, <1>2, <1>6, <2>2, <2>6, <2>7, <2>8, <2>11, AllOwn
<1>10. CASE ~X
  <2>1. PICK items, R, o : items = <<Stmt>> \o <<>> \o <<d>> /\ R = {Stmt, d} /\ o = {m}
    OBVIOUS
  <2>0. items \in Seq(R) /\ Len(items) = 2 /\ items[1] = Stmt /\ items[2] = d
    BY <2>1, JoinedNone
  <2>2. items \in Seq(R) /\ Len(items) = 2 /\ DOMAIN items = {1, 2} /\ items[1] = Stmt /\ items[2] = d
    BY <2>0
  <2>3. {"END"} \in SUBSET Numbered /\ o = {} \cup {Label(kind, enc.label_num) : kind \in {"END"}}
    BY <1>4, <2>1 DEF Numbered
  <2>4. Carried(enc, TakeLabel(enc), Tail(todo), o, c)
    BY <1>7, <2>3, CarriedTake
  <2>5. Carried(enc, emit_conditional_branch(TakeLabel(enc), First, m), Tail(todo), o, c)
    BY <2>1, <2>4, CarriedOwed
  <2>6. Carried(enc, enc', Tail(todo), o, c)
    BY <1>4, <1>10, <2>5, CarriedFree DEF IfBranch
  <2>7. todo' = items \o Tail(todo)
    BY <1>4, <1>10, <2>1 DEF IfBranch, Then
  <2>8. Len(items) > 0 /\ Owned(items[Len(items)]) = o
    BY <1>8, <2>1, <2>2
  <2>9. \A k \in DOMAIN items :
              /\ Modest(items[k], enc.function)
              /\ k # Len(items) => Owned(items[k]) = {}
              /\ enc'.ok => \A x \in Named(items[k]) : Reached(enc', Tail(todo), o, x)
    BY <1>8, <2>2
  <2> QED
    BY <1>1, <1>2, <1>6, <2>2, <2>6, <2>7, <2>8, <2>9, LastOwns
<1> QED
  BY <1>9, <1>10

LEMMA IfElseJumps == ASSUME JumpsKept, IfElse PROVE JumpsKept'
<1>1. PICK c : Jumps(enc, todo, c)
  BY DEF JumpsKept
<1>2. todo # <<>> /\ enc.ok /\ Head(todo).do = "else" /\ Done
  BY DEF IfElse, Do
<1>3. PICK l, m, t : l = Label("ELSE", X) /\ m = Label("END", X) /\ t = Tail(todo)
  OBVIOUS
<1>4. Owned(Head(todo)) = {l} /\ m \in Named(Head(todo))
  BY <1>2, <1>3 DEF Owned, Named, X
<1>5. Carried(enc, enc, t, {l}, c)
  BY <1>1, <1>2, <1>3, <1>4, CarriedStart
<1>6. Safe(enc, t, {l}, m) /\ m[1] # "FUNCEND"
  BY <1>1, <1>2, <1>3, <1>4, Popped DEF Reached
<1>7. Carried(enc, emit_unconditional_branch(enc, m), t, {l}, c)
  BY <1>5, <1>6, CarriedBranch
<1>8. Carried(enc, emit_label_declaration(emit_unconditional_branch(enc, m), l), t, {}, c)
  BY <1>7, CarriedDeclare
<1>9. Carried(enc, enc', Tail(todo), {}, c)
  BY <1>3, <1>8 DEF IfElse
<1>10. Head(todo).do \notin Ends \cup {"unit", "endfunction", "test", "bodies"}
  BY <1>2 DEF Ends, Loops
<1> QED
  BY <1>1, <1>2, <1>9, <1>10, HeadDone

\* The last label of an if, and that of the condition of a do
LEMMA EndIfJumps == ASSUME JumpsKept, EndIf \/ DoCondition PROVE JumpsKept'
<1>1. PICK c : Jumps(enc, todo, c)
  BY DEF JumpsKept
<1>2. todo # <<>> /\ Head(todo).do \in {"endif", "docondition"} /\ Done
  BY DEF EndIf, DoCondition, Do
<1>3. PICK l : enc' = emit_label_declaration(enc, l) /\ Owned(Head(todo)) = {l}
  BY DEF EndIf, DoCondition, Do, Owned, X
<1>4. Carried(enc, enc, Tail(todo), {l}, c)
  BY <1>1, <1>2, <1>3, CarriedStart
<1>5. Carried(enc, enc', Tail(todo), {}, c)
  BY <1>3, <1>4, CarriedDeclare
<1>6. Head(todo).do \notin Ends \cup {"unit", "endfunction", "test", "bodies"}
  BY <1>2 DEF Ends, Loops
<1> QED
  BY <1>1, <1>2, <1>5, <1>6, HeadDone

-----------------------------------------------------------------------------
(* Loops and switches *)

\* An end is pushed that saves the labels so far and brings its own.
LEMMA TurnEnd ==
    ASSUME NEW e, NEW t, NEW c, Ordered(e, t, c), t # <<>>, e.function # 0,
           Head(t).do \notin Ends \cup {"unit", "endfunction", "test", "bodies"},
           NEW R, NEW items \in Seq(R), Len(items) > 0, NEW end, end = items[Len(items)], Typed(end), end.do \in Ends,
           end.x.old_break = e.label_break, end.do \in Loops => end.x.old_continue = e.label_continue,
           \A k \in DOMAIN items : k # Len(items) =>
               \/ Modest(items[k], e.function)
               \/ items[k].do = "switch" /\ Typed(items[k]) /\ end.do = "endswitch",
           NEW d, d.function = e.function, d.case_label_num = e.case_label_num, d.label_break = end.x.break,
           d.label_continue = IF end.do \in Loops THEN end.x.continue ELSE e.label_continue
    PROVE  Ordered(d, items \o Tail(t), c) /\ items \o Tail(t) # <<>>
<1>1. PICK S : t \in Seq(S)
  BY DEF Ordered, Work
<1>2. DOMAIN items = 1..Len(items) /\ Len(items) \in Nat /\ Len(items) \in DOMAIN items
  OBVIOUS
<1>3. \A w : w \in Ends <=> w \in Loops \cup {"endswitch"}
  BY DEF Ends
<1>4. \A k \in DOMAIN items : k # Len(items) => items[k].do \notin Ends /\ items[k].do \notin Loops
  BY <1>3 DEF Modest, Loops
<1>5. Head(t).do \notin Ends /\ Head(t).do \notin Loops
  BY <1>3
<1>6. \A k \in DOMAIN items :
         /\ Typed(items[k]) /\ items[k].do \notin {"unit", "endfunction"}
         /\ items[k].do \in {"switch", "test", "bodies"} => \E m \in DOMAIN items : m > k /\ items[m].do = "endswitch"
  <2>1. ASSUME NEW k \in DOMAIN items, k # Len(items)
        PROVE  /\ Typed(items[k]) /\ items[k].do \notin {"unit", "endfunction"}
               /\ items[k].do \in {"switch", "test", "bodies"} => \E m \in DOMAIN items : m > k /\ items[m].do = "endswitch"
    BY <1>2, <2>1 DEF Modest
  <2>2. end.do \notin {"unit", "endfunction", "switch", "test", "bodies"}
    BY DEF Ends, Loops
  <2> QED
    BY <2>1, <2>2
<1>7. Work(e.function, items \o Tail(t))
  BY <1>6, WorkStep DEF Ordered
<1>12. Threaded(t, Ends, e.label_break, "break", "old_break") /\ Threaded(t, Loops, e.label_continue, "continue", "old_continue")
  BY DEF Ordered, Threads
<1>13. \A k \in DOMAIN items : k # Len(items) => items[k].do \notin Ends
  BY <1>4
<1>14. \A k \in DOMAIN items : k # Len(items) => items[k].do \notin Loops
  BY <1>4
<1>8. Threaded(items \o Tail(t), Ends, d.label_break, "break", "old_break")
  BY ONLY <1>1, <1>5, <1>12, <1>13, ThreadPush, t # <<>>, items \in Seq(R), Len(items) > 0, end = items[Len(items)], end.do \in Ends,
          end.x.old_break = e.label_break, d.label_break = end.x.break
<1>9. Threaded(items \o Tail(t), Loops, d.label_continue, "continue", "old_continue")
  <2>1. CASE end.do \in Loops
    <3>1. end.x.old_continue = e.label_continue /\ d.label_continue = end.x.continue
      BY <2>1
    <3> QED
      BY ONLY <1>1, <1>5, <1>12, <1>14, <2>1, <3>1, ThreadPush, t # <<>>, items \in Seq(R), Len(items) > 0,
              end = items[Len(items)]
  <2>2. CASE end.do \notin Loops
    <3>1. \A k \in DOMAIN items : items[k].do \notin Loops
      BY <1>4, <2>2
    <3> QED
      BY <1>1, <1>5, <2>2, <3>1, ThreadStep DEF Ordered, Threads
  <2> QED
    BY <2>1, <2>2
<1>10. Cases(d, items \o Tail(t), c)
  <2>1. end.do \notin {"test", "bodies"}
    BY DEF Ends, Loops
  <2>2. \A k \in DOMAIN items : items[k].do \notin {"test", "bodies"}
    BY <2>1 DEF Modest
  <2> QED
    BY <1>1, <2>2, CasesStep DEF Ordered
<1>11. items \o Tail(t) # <<>>
  BY Remains DEF Ordered
<1> QED
  BY <1>7, <1>8, <1>9, <1>10, <1>11 DEF Ordered, Threads

\* A done end gives back what it has saved.
LEMMA TurnBack ==
    ASSUME NEW e, NEW t, NEW c, Ordered(e, t, c), t # <<>>, Head(t).do \in Ends,
           NEW d, d.function = e.function, d.case_label_num = e.case_label_num, d.label_break = Head(t).x.old_break,
           d.label_continue = IF Head(t).do \in Loops THEN Head(t).x.old_continue ELSE e.label_continue
    PROVE  Ordered(d, <<>> \o Tail(t), c) /\ <<>> \o Tail(t) # <<>>
<1>1. PICK S : t \in Seq(S)
  BY DEF Ordered, Work
<1>2. PICK items : items = <<>>
  OBVIOUS
<1>3. items \in Seq({}) /\ DOMAIN items = {}
  BY <1>2
<1>4. Head(t).do \notin {"unit", "endfunction", "test", "bodies"}
  BY DEF Ends, Loops
<1>5. Work(e.function, items \o Tail(t))
  BY <1>3, <1>4, WorkStep DEF Ordered
<1>6. Threaded(items \o Tail(t), Ends, d.label_break, "break", "old_break")
  BY <1>1, <1>2, ThreadPop DEF Ordered, Threads
<1>7. Threaded(items \o Tail(t), Loops, d.label_continue, "continue", "old_continue")
  <2>1. CASE Head(t).do \in Loops
    BY <1>1, <1>2, <2>1, ThreadPop DEF Ordered, Threads
  <2>2. CASE Head(t).do \notin Loops
    BY <1>1, <1>3, <2>2, ThreadStep DEF Ordered, Threads
  <2> QED
    BY <2>1, <2>2
<1>8. Cases(d, items \o Tail(t), c)
  BY <1>1, <1>3, <1>4, CasesStep DEF Ordered
<1>9. items \o Tail(t) # <<>>
  BY <1>3, <1>4, Remains DEF Ordered
<1> QED
  BY <1>2, <1>5, <1>6, <1>7, <1>8, <1>9 DEF Ordered, Threads

\* The end of the innermost loop or switch knows where break leads.
LEMMA EndKnows ==
    ASSUME NEW e, NEW t, NEW c, Ordered(e, t, c), t # <<>>, Head(t).do \in Ends
    PROVE  e.label_break = Head(t).x.break /\ Head(t).x.break = Label("END", Head(t).x.num)
<1>1. PICK S : t \in Seq(S)
  BY DEF Ordered, Work
<1>2. e.label_break = Head(t).x.break
  BY <1>1, ThreadPop DEF Ordered, Threads
<1>3. Typed(Head(t))
  BY HeadTyped DEF Ordered
<1> QED
  BY <1>2, <1>3 DEF Typed

\* The last of the items is an end that saves the labels of encoder e for d and brings its own.
Closes(e, d, items) ==
    LET end == items[Len(items)]
    IN  /\ Len(items) > 0 /\ Typed(end) /\ end.do \in Ends
        /\ end.x.old_break = e.label_break /\ (end.do \in Loops => end.x.old_continue = e.label_continue)
        /\ \A k \in DOMAIN items : k # Len(items) =>
               \/ Modest(items[k], e.function)
               \/ items[k].do = "switch" /\ Typed(items[k]) /\ end.do = "endswitch"
        /\ d.function = e.function /\ d.case_label_num = e.case_label_num /\ d.label_break = end.x.break
        /\ d.label_continue = IF end.do \in Loops THEN end.x.continue ELSE e.label_continue

\* The items own what is owed, each a part, and can jump where they do.
Fits(items, d, t, o) ==
    /\ \A l \in o : \E k \in DOMAIN items : l \in Owned(items[k])
    /\ \A k, m \in DOMAIN items : k # m => Owned(items[k]) \cap Owned(items[m]) = {}
    /\ \A k \in DOMAIN items : Owned(items[k]) \subseteq o
    /\ \A k \in DOMAIN items : \A l \in Named(items[k]) : Reached(d, t, o, l)

\* The head is replaced by work before an end, which owns its label.
LEMMA EndOwns ==
    ASSUME NEW c, Jumps(enc, todo, c), todo # <<>>, enc.function # 0,
           Head(todo).do \notin Ends \cup {"unit", "endfunction", "test", "bodies"},
           NEW o, LabelsInv(enc', Tail(todo), o, c), NEW R, NEW items \in Seq(R),
           Closes(enc, enc', items), Fits(items, enc', Tail(todo), o), todo' = items \o Tail(todo)
    PROVE  JumpsKept'
<1>1. PICK S : Tail(todo) \in Seq(S)
  BY Popped
<1>2. PICK d, t, u : d = enc' /\ t = Tail(todo) /\ u = todo'
  OBVIOUS
<1>3. LabelsInv(d, items \o t, {}, c)
  <2>1. LabelsInv(d, t, o, c) /\ t \in Seq(S) /\ Fits(items, d, t, o)
    BY <1>1, <1>2
  <2>2. /\ \A k \in DOMAIN items : Owned(items[k]) \subseteq o
        /\ \A l \in o : \E k \in DOMAIN items : l \in Owned(items[k])
        /\ \A k, m \in DOMAIN items : k # m => Owned(items[k]) \cap Owned(items[m]) = {}
        /\ d.ok => \A k \in DOMAIN items : \A l \in Named(items[k]) : Reached(d, t, o, l)
    BY <2>1 DEF Fits
  <2> QED
    BY ONLY <2>1, <2>2, items \in Seq(R), LabelsPush
<1>4. Ordered(d, items \o t, c) /\ items \o t # <<>>
  <2>1. Ordered(enc, todo, c)
    BY DEF Jumps
  <2>2. PICK end : end = items[Len(items)]
    OBVIOUS
  <2>3. Closes(enc, d, items)
    BY <1>2
  <2>4. /\ Len(items) > 0 /\ Typed(end) /\ end.do \in Ends
        /\ end.x.old_break = enc.label_break /\ (end.do \in Loops => end.x.old_continue = enc.label_continue)
        /\ \A k \in DOMAIN items : k # Len(items) =>
               \/ Modest(items[k], enc.function)
               \/ items[k].do = "switch" /\ Typed(items[k]) /\ end.do = "endswitch"
        /\ d.function = enc.function /\ d.case_label_num = enc.case_label_num /\ d.label_break = end.x.break
        /\ d.label_continue = IF end.do \in Loops THEN end.x.continue ELSE enc.label_continue
    BY <2>2, <2>3 DEF Closes
  <2>5. Ordered(d, items \o Tail(todo), c) /\ items \o Tail(todo) # <<>>
    BY ONLY <2>1, <2>2, <2>4, TurnEnd, todo # <<>>, enc.function # 0,
           Head(todo).do \notin Ends \cup {"unit", "endfunction", "test", "bodies"}, items \in Seq(R)
  <2> QED
    BY <1>2, <2>5
<1> QED
  BY <1>2, <1>3, <1>4, Onward

\* The end is done and its label declared.
LEMMA EndDone ==
    ASSUME NEW c, Jumps(enc, todo, c), todo # <<>>, Head(todo).do \in Ends, LabelsInv(enc', Tail(todo), {}, c), Done,
           enc'.function = enc.function, enc'.case_label_num = enc.case_label_num, enc'.label_break = X.old_break,
           enc'.label_continue = IF Head(todo).do \in Loops THEN X.old_continue ELSE enc.label_continue
    PROVE  JumpsKept'
<1>1. PICK S : todo \in Seq(S) /\ Tail(todo) \in Seq(S)
  BY Popped
<1>2. PICK d, u : d = enc' /\ u = todo'
  OBVIOUS
<1>3. u = <<>> \o Tail(todo) /\ u = Tail(todo)
  BY <1>1, <1>2 DEF Done, Then
<1>4. Ordered(d, u, c) /\ u # <<>>
  BY <1>2, <1>3, TurnBack DEF Jumps, X
<1> QED
  BY <1>2, <1>3, <1>4, Onward

LEMMA EnterApart ==
    ASSUME NEW e, Shape(e), NEW n, NEW l, NEW s
    PROVE  Apart(e, Enter(e, n, l)) /\ Apart(e, Leave(e, s))
  BY DEF Apart, Enter, Leave, Shape

\* A loop that is entered: its first label is declared and its last is owed.
LEMMA LoopEntered ==
    ASSUME NEW e, NEW t, NEW c, LabelsInv(e, t, {}, c), NEW n, n = e.label_num,
           NEW begin, begin = Label("BEGIN_CYCLE", n), NEW last, last = Label("END", n),
           NEW d, d = emit_label_declaration(Enter(TakeLabel(e), n, begin), begin)
    PROVE  /\ LabelsInv(d, t, {last}, c)
           /\ d.function = e.function /\ d.case_label_num = e.case_label_num
           /\ d.label_break = last /\ d.label_continue = begin
           /\ begin \in d.declared
<1>1. PICK o : o = {begin, last}
  OBVIOUS
<1>2. begin # last
  BY DEF Label
<1>3. {"BEGIN_CYCLE", "END"} \in SUBSET Numbered /\ o = {} \cup {Label(kind, e.label_num) : kind \in {"BEGIN_CYCLE", "END"}}
  BY <1>1 DEF Numbered
<1>4. PICK b : b = TakeLabel(e)
  OBVIOUS
<1>5. LabelsInv(b, t, o, c)
  BY <1>3, <1>4, LabelsTake
<1>9. b.function = e.function /\ b.case_label_num = e.case_label_num /\ Shape(b)
  BY <1>4, <1>5 DEF TakeLabel, LabelsInv, Shape
<1>6. PICK f : f = Enter(b, n, begin)
  OBVIOUS
<1>7. LabelsInv(f, t, o, c)
  BY <1>5, <1>6, <1>9, EnterApart, LabelsApart
<1>8. LabelsInv(d, t, {last}, c)
  <2>1. begin \in o /\ {last} = o \ {begin}
    BY <1>1, <1>2
  <2> QED
    BY <1>4, <1>6, <1>7, <2>1, LabelsDeclare
<1>10. /\ f.function = e.function /\ f.case_label_num = e.case_label_num /\ Shape(f)
       /\ f.label_break = last /\ f.label_continue = begin
  BY <1>6, <1>9 DEF Enter, Shape
<1>11. d = emit_label_declaration(f, begin)
  BY <1>4, <1>6
<1>12. /\ d.function = e.function /\ d.case_label_num = e.case_label_num
       /\ d.label_break = last /\ d.label_continue = begin /\ begin \in d.declared
  BY <1>10, <1>11 DEF emit_label_declaration, Shape
<1> QED
  BY <1>8, <1>12

\* What the ends save and own
LEMMA SavedEnd ==
    ASSUME NEW e, NEW n, NEW l, NEW w \in Ends, NEW x, x = With(w, Saved(e, n, l))
    PROVE  /\ Typed(x) /\ x.do = w /\ x.x.break = Label("END", n) /\ x.x.continue = l
           /\ x.x.old_break = e.label_break /\ x.x.old_continue = e.label_continue
           /\ Owned(x) = {Label("END", n)}
           /\ w \in Loops => Named(x) = {Label("BEGIN_CYCLE", n), l}
           /\ w \notin Loops => Named(x) = {}
<1>1. x.do = w /\ x.x = Saved(e, n, l)
  BY DEF With
<1>2. /\ x.x.break = Label("END", n) /\ x.x.continue = l /\ x.x.num = n
      /\ x.x.old_break = e.label_break /\ x.x.old_continue = e.label_continue
  BY <1>1 DEF Saved
<1>3. w \in {"endwhile", "enddo", "endfor", "endswitch"}
  BY DEF Ends, Loops
<1>4. Typed(x)
  BY <1>1, <1>2, <1>3 DEF Typed
<1>5. Owned(x) = {Label("END", n)}
  BY <1>1, <1>2, <1>3 DEF Owned
<1>6. (w \in Loops => Named(x) = {Label("BEGIN_CYCLE", n), l}) /\ (w \notin Loops => Named(x) = {})
  BY <1>1, <1>2, <1>3 DEF Named
<1> QED
  BY <1>1, <1>2, <1>4, <1>5, <1>6

LEMMA BeginSwitchJumps == ASSUME JumpsKept, BeginSwitch PROVE JumpsKept'
<1>1. PICK c : Jumps(enc, todo, c)
  BY DEF JumpsKept
<1>2. todo # <<>> /\ Head(todo).do = "stmt"
  BY DEF BeginSwitch, BeginStmt, Do
<1>3. enc.function # 0
  BY <1>1, <1>2, HeadInside DEF Jumps, Ordered, InFunction
<1>4. PICK body \in Bodies : Then(<<Expr("int"), With("switch", body),
                                    With("endswitch", Saved(enc, enc.label_num, enc.label_continue))>>)
  BY DEF BeginSwitch
<1>5. PICK n, l, a, b, d :
         /\ n = enc.label_num /\ l = Label("END", n) /\ a = Expr("int") /\ b = With("switch", body)
         /\ d = With("endswitch", Saved(enc, n, enc.label_continue))
  OBVIOUS
<1>6. PICK items, R : items = <<a, b, d>> /\ R = {a, b, d}
  OBVIOUS
<1>7. /\ items \in Seq(R) /\ Len(items) = 3 /\ DOMAIN items = {1, 2, 3}
      /\ items[1] = a /\ items[2] = b /\ items[3] = d
  BY <1>6
<1>8. todo' = items \o Tail(todo)
  BY <1>4, <1>5, <1>6 DEF Then
<1>9. Head(todo).do \notin Ends \cup {"unit", "endfunction", "test", "bodies"}
  BY <1>2 DEF Ends, Loops
<1>10. /\ Typed(d) /\ d.do = "endswitch" /\ "endswitch" \in Ends /\ "endswitch" \notin Loops
       /\ d.x.break = l /\ d.x.old_break = enc.label_break /\ d.x.old_continue = enc.label_continue
       /\ Owned(d) = {l} /\ Named(d) = {}
  <2>1. "endswitch" \in Ends /\ "endswitch" \notin Loops
    BY DEF Ends, Loops
  <2> QED
    BY <1>5, <2>1, SavedEnd
<1>11. PICK f : f = TakeLabel(enc)
  OBVIOUS
<1>12. enc' = [f EXCEPT !.label_break = l]
  BY <1>5, <1>11 DEF BeginSwitch
<1>13. Carried(enc, f, Tail(todo), {l}, c)
  <2>1. Carried(enc, enc, Tail(todo), {}, c)
    BY <1>1, <1>2, CarriedStart DEF Owners, Ends, Loops
  <2>2. {"END"} \in SUBSET Numbered /\ {l} = {} \cup {Label(kind, enc.label_num) : kind \in {"END"}}
    BY <1>5 DEF Numbered
  <2> QED
    BY <1>11, <2>1, <2>2, CarriedTake
<1>14. /\ Apart(f, enc') /\ enc'.function = enc.function /\ enc'.case_label_num = enc.case_label_num
       /\ enc'.label_break = l /\ enc'.label_continue = enc.label_continue
  <2>1. Shape(f) /\ Steady(enc, f)
    BY <1>13 DEF Carried, LabelsInv
  <2> QED
    BY <1>12, <2>1 DEF Apart, Shape, Steady
<1>15. LabelsInv(enc', Tail(todo), {l}, c)
  BY <1>13, <1>14, LabelsApart DEF Carried
<1>16. /\ Owned(a) = {} /\ Owned(b) = {} /\ Named(a) = {} /\ Named(b) = {}
       /\ Modest(a, enc.function) /\ b.do = "switch" /\ Typed(b)
  <2>1. Owned(b) = {} /\ Named(b) = {} /\ b.do = "switch" /\ Typed(b)
    BY <1>5 DEF With, Owned, Named, Ends, Loops, Typed
  <2> QED
    BY <1>5, <2>1, OwnedWith, ModestWith
<1>17. Fits(items, enc', Tail(todo), {l})
  <2>1. /\ \A k \in {l} : \E j \in DOMAIN items : k \in Owned(items[j])
        /\ \A k, j \in DOMAIN items : k # j => Owned(items[k]) \cap Owned(items[j]) = {}
        /\ \A k \in DOMAIN items : Owned(items[k]) \subseteq {l}
        /\ \A k \in DOMAIN items : \A j \in Named(items[k]) : Reached(enc', Tail(todo), {l}, j)
    BY <1>7, <1>10, <1>16
  <2> QED
    BY ONLY <2>1 DEF Fits
<1>18. Closes(enc, enc', items)
  <2>1. \A k \in DOMAIN items : k # Len(items) =>
               \/ Modest(items[k], enc.function)
               \/ items[k].do = "switch" /\ Typed(items[k]) /\ d.do = "endswitch"
    BY <1>7, <1>10, <1>16
  <2>2. d = items[Len(items)] /\ Len(items) > 0
    BY <1>7
  <2>3. /\ Typed(d) /\ d.do \in Ends /\ d.x.old_break = enc.label_break
        /\ d.do \in Loops => d.x.old_continue = enc.label_continue
        /\ enc'.function = enc.function /\ enc'.case_label_num = enc.case_label_num /\ enc'.label_break = d.x.break
        /\ enc'.label_continue = IF d.do \in Loops THEN d.x.continue ELSE enc.label_continue
    BY <1>10, <1>14
  <2> QED
    BY ONLY <2>1, <2>2, <2>3 DEF Closes
<1>19. items \in Seq(R)
  BY <1>7
<1> QED
  BY ONLY <1>1, <1>2, <1>3, <1>8, <1>9, <1>15, <1>17, <1>18, <1>19, EndOwns

\* The label is the one that break has led to.
LEMMA EndSwitchJumps == ASSUME JumpsKept, EndSwitch PROVE JumpsKept'
<1>1. PICK c : Jumps(enc, todo, c)
  BY DEF JumpsKept
<1>2. todo # <<>> /\ Head(todo).do = "endswitch" /\ Done
  BY DEF EndSwitch, Do
<1>3. Head(todo).do \in Ends /\ Head(todo).do \notin Loops
  BY <1>2 DEF Ends, Loops
<1>4. PICK l : l = enc.label_break
  OBVIOUS
<1>5. Owned(Head(todo)) = {l}
  <2>1. enc.label_break = Head(todo).x.break
    BY <1>1, <1>2, <1>3, EndKnows DEF Jumps
  <2> QED
    BY <1>2, <1>3, <1>4, <2>1 DEF Owned
<1>6. PICK f : f = emit_label_declaration(enc, l)
  OBVIOUS
<1>7. Carried(enc, f, Tail(todo), {}, c)
  BY <1>1, <1>2, <1>5, <1>6, CarriedStart, CarriedDeclare
<1>8. enc' = [f EXCEPT !.label_break = X.old_break, !.visible = X.visible]
  BY <1>4, <1>6 DEF EndSwitch
<1>9. /\ Apart(f, enc') /\ enc'.function = enc.function /\ enc'.case_label_num = enc.case_label_num
      /\ enc'.label_break = X.old_break /\ enc'.label_continue = enc.label_continue
  <2>1. Shape(f) /\ Steady(enc, f)
    BY <1>7 DEF Carried, LabelsInv
  <2> QED
    BY <1>8, <2>1 DEF Apart, Shape, Steady
<1>10. LabelsInv(enc', Tail(todo), {}, c)
  BY <1>7, <1>9, LabelsApart DEF Carried
<1> QED
  BY <1>1, <1>2, <1>3, <1>9, <1>10, EndDone

LEMMA BeginWhileJumps == ASSUME JumpsKept, BeginWhile PROVE JumpsKept'
<1>1. PICK c : Jumps(enc, todo, c)
  BY DEF JumpsKept
<1>2. todo # <<>> /\ Head(todo).do = "stmt"
  BY DEF BeginWhile, BeginStmt, Do
<1>3. enc.function # 0
  BY <1>1, <1>2, HeadInside DEF Jumps, Ordered, InFunction
<1>4. PICK n, begin, l, a, b, d :
         /\ n = enc.label_num /\ begin = Label("BEGIN_CYCLE", n) /\ l = Label("END", n)
         /\ a = Expr("int") /\ b = With("leave", n) /\ d = With("endwhile", Saved(enc, n, begin))
  OBVIOUS
<1>5. PICK items, R : items = <<a, b, Stmt, d>> /\ R = {a, b, Stmt, d}
  OBVIOUS
<1>6. /\ items \in Seq(R) /\ Len(items) = 4 /\ DOMAIN items = {1, 2, 3, 4}
      /\ items[1] = a /\ items[2] = b /\ items[3] = Stmt /\ items[4] = d
  BY <1>5
<1>7. todo' = items \o Tail(todo)
  BY <1>4, <1>5 DEF BeginWhile, Then
<1>8. Head(todo).do \notin Ends \cup {"unit", "endfunction", "test", "bodies"}
  BY <1>2 DEF Ends, Loops
<1>9. /\ Typed(d) /\ d.do = "endwhile" /\ "endwhile" \in Ends /\ "endwhile" \in Loops
      /\ d.x.break = l /\ d.x.old_break = enc.label_break /\ d.x.old_continue = enc.label_continue
      /\ d.x.continue = begin /\ Owned(d) = {l} /\ Named(d) = {begin}
  <2>1. "endwhile" \in Ends /\ "endwhile" \in Loops
    BY DEF Ends, Loops
  <2> QED
    BY <1>4, <2>1, SavedEnd
<1>10. enc' = emit_label_declaration(Enter(TakeLabel(enc), n, begin), begin)
  BY <1>4 DEF BeginWhile
<1>11. LabelsInv(enc, Tail(todo), {}, c)
  BY <1>1, <1>2, CarriedStart DEF Owners, Ends, Loops, Carried
<1>12. /\ LabelsInv(enc', Tail(todo), {l}, c)
       /\ enc'.function = enc.function /\ enc'.case_label_num = enc.case_label_num
       /\ enc'.label_break = l /\ enc'.label_continue = begin /\ begin \in enc'.declared
  BY <1>4, <1>10, <1>11, LoopEntered
<1>13. /\ Owned(a) = {} /\ Owned(b) = {} /\ Owned(Stmt) = {} /\ Named(a) = {} /\ Named(b) = {l} /\ Named(Stmt) = {}
       /\ Modest(a, enc.function) /\ Modest(b, enc.function) /\ Modest(Stmt, enc.function)
  BY <1>3, <1>4, OwnedWith, ModestWith
<1>14. Reached(enc', Tail(todo), {l}, l) /\ Reached(enc', Tail(todo), {l}, begin)
  BY <1>4, <1>12, LabelsDistinct DEF Reached, Safe, Numbered
<1>15. Fits(items, enc', Tail(todo), {l})
  <2>1. /\ \A k \in {l} : \E j \in DOMAIN items : k \in Owned(items[j])
        /\ \A k, j \in DOMAIN items : k # j => Owned(items[k]) \cap Owned(items[j]) = {}
        /\ \A k \in DOMAIN items : Owned(items[k]) \subseteq {l}
        /\ \A k \in DOMAIN items : \A j \in Named(items[k]) : Reached(enc', Tail(todo), {l}, j)
    BY <1>6, <1>9, <1>13, <1>14
  <2> QED
    BY ONLY <2>1 DEF Fits
<1>16. Closes(enc, enc', items)
  <2>1. \A k \in DOMAIN items : k # Len(items) => Modest(items[k], enc.function)
    BY <1>6, <1>13
  <2>2. d = items[Len(items)] /\ Len(items) > 0
    BY <1>6
  <2>3. /\ Typed(d) /\ d.do \in Ends /\ d.x.old_break = enc.label_break
        /\ d.do \in Loops => d.x.old_continue = enc.label_continue
        /\ enc'.function = enc.function /\ enc'.case_label_num = enc.case_label_num /\ enc'.label_break = d.x.break
        /\ enc'.label_continue = IF d.do \in Loops THEN d.x.continue ELSE enc.label_continue
    BY <1>9, <1>12
  <2> QED
    BY ONLY <2>1, <2>2, <2>3 DEF Closes
<1>17. items \in Seq(R) /\ LabelsInv(enc', Tail(todo), {l}, c)
  BY <1>6, <1>12
<1> QED
  BY ONLY <1>1, <1>2, <1>3, <1>7, <1>8, <1>15, <1>16, <1>17, EndOwns

LEMMA LeaveBranchJumps == ASSUME JumpsKept, LeaveBranch PROVE JumpsKept'
<1>1. PICK c : Jumps(enc, todo, c)
  BY DEF JumpsKept
<1>2. todo # <<>> /\ enc.ok /\ Head(todo).do = "leave" /\ Done
  BY DEF LeaveBranch, Do
<1>3. PICK l : l = Label("END", X)
  OBVIOUS
<1>4. l \in Named(Head(todo)) /\ Owned(Head(todo)) = {}
  BY <1>2, <1>3 DEF Owned, Named, X, Ends, Loops
<1>5. Safe(enc, Tail(todo), {}, l) /\ l[1] # "FUNCEND"
  BY <1>1, <1>2, <1>4, Popped DEF Reached
<1>6. Carried(enc, emit_conditional_branch(enc, First, l), Tail(todo), {}, c)
  BY <1>1, <1>2, <1>4, <1>5, CarriedStart, CarriedBranch
<1>7. Carried(enc, enc', Tail(todo), {}, c)
  BY <1>3, <1>6, CarriedFree DEF LeaveBranch
<1>8. Head(todo).do \notin Ends \cup {"unit", "endfunction", "test", "bodies"}
  BY <1>2 DEF Ends, Loops
<1> QED
  BY <1>1, <1>2, <1>7, <1>8, HeadDone

\* Work that owns no label takes the place of the head.
LEMMA NoneOwn ==
    ASSUME NEW c, Jumps(enc, todo, c), todo # <<>>, Head(todo).do \notin Ends \cup {"unit", "endfunction", "test", "bodies"},
           Carried(enc, enc', Tail(todo), {}, c), NEW R, NEW items \in Seq(R), todo' = items \o Tail(todo),
           \A x \in R : Modest(x, enc.function) /\ Owned(x) = {} /\ Named(x) = {}
    PROVE  JumpsKept'
<1>1. PICK S : Tail(todo) \in Seq(S)
  BY Popped
<1>2. PICK d, t, u : d = enc' /\ t = Tail(todo) /\ u = todo'
  OBVIOUS
<1>3. \A k \in DOMAIN items : Modest(items[k], enc.function) /\ Owned(items[k]) = {} /\ Named(items[k]) = {}
  OBVIOUS
<1>4. LabelsInv(d, t, {}, c) /\ Steady(enc, d)
  BY <1>2 DEF Carried
<1>5. LabelsInv(d, items \o t, {}, c)
  BY <1>1, <1>2, <1>3, <1>4, PushNone
<1>6. Ordered(d, items \o t, c) /\ items \o t # <<>>
  BY <1>2, <1>3, <1>4, Turn DEF Jumps
<1> QED
  BY <1>2, <1>5, <1>6, Onward

LEMMA LastItem ==
    ASSUME NEW Q, NEW p \in Seq(Q), NEW d, NEW items, items = p \o <<d>>
    PROVE  /\ items \in Seq(Q \cup {d}) /\ Len(items) = Len(p) + 1 /\ Len(items) > 0 /\ items[Len(items)] = d
           /\ \A k \in DOMAIN items : k # Len(items) => items[k] \in Q
<1>1. PICK s : s = <<d>>
  OBVIOUS
<1>2. s \in Seq({d}) /\ Len(s) = 1 /\ s[1] = d
  BY <1>1
<1>3. p \in Seq(Q \cup {d}) /\ s \in Seq(Q \cup {d})
  BY <1>2
<1>4. /\ items \in Seq(Q \cup {d}) /\ Len(items) = Len(p) + 1 /\ Len(p) \in Nat
      /\ \A k \in 1..Len(p) : items[k] = p[k]
      /\ items[Len(p) + 1] = s[1]
  BY <1>1, <1>2, <1>3
<1>5. \A k \in DOMAIN items : k # Len(items) => k \in 1..Len(p)
  BY <1>4
<1>6. \A k \in 1..Len(p) : p[k] \in Q
  OBVIOUS
<1> QED
  BY <1>2, <1>4, <1>5, <1>6

LEMMA ShortSeq ==
    ASSUME NEW Q, NEW a \in Q, NEW b \in Q PROVE <<>> \in Seq(Q) /\ <<a>> \in Seq(Q) /\ <<a, b>> \in Seq(Q)
  OBVIOUS

LEMMA ConcatSeq == ASSUME NEW Q, NEW p \in Seq(Q), NEW q \in Seq(Q) PROVE p \o q \in Seq(Q)
  OBVIOUS

\* The end of a loop may jump to its beginning, and owns the label behind it.
LEMMA LoopEnd ==
    ASSUME NEW c, Jumps(enc, todo, c), todo # <<>>, enc.ok, Head(todo).do \in Loops
    PROVE  /\ Carried(enc, enc, Tail(todo), {Label("END", X.num)}, c)
           /\ Safe(enc, Tail(todo), {Label("END", X.num)}, Label("BEGIN_CYCLE", X.num))
           /\ Label("BEGIN_CYCLE", X.num)[1] # "FUNCEND"
<1>1. PICK l, m, x : l = Label("BEGIN_CYCLE", X.num) /\ m = Label("END", X.num) /\ x = Head(todo)
  OBVIOUS
<1>2. x.do \in {"endwhile", "enddo", "endfor"} /\ x.do \in Ends
  BY <1>1 DEF Loops, Ends
<1>3. x.x.break = m
  BY <1>1, <1>2, EndKnows DEF Jumps, X
<1>4. Owned(x) = {m} /\ l \in Named(x)
  BY <1>1, <1>2, <1>3 DEF Owned, Named, X
<1>5. Reached(enc, Tail(todo), {m}, l)
  BY <1>1, <1>4, Popped
<1>6. Carried(enc, enc, Tail(todo), {m}, c)
  BY <1>1, <1>4, CarriedStart
<1> QED
  BY <1>1, <1>5, <1>6 DEF Reached

\* The labels around the loop are back; the end of a for takes its variables away too.
LEMMA LoopLeft ==
    ASSUME NEW c, Jumps(enc, todo, c), todo # <<>>, Head(todo).do \in Loops, Done,
           NEW d, Carried(enc, d, Tail(todo), {}, c), NEW s, NEW v,
           enc' = Leave(d, X) \/ enc' = [Leave(d, X) EXCEPT !.scope_displ = s, !.visible = v]
    PROVE  JumpsKept'
<1>1. Head(todo).do \in Ends
  BY DEF Ends
<1>2. PICK e, f : e = Leave(d, X) /\ f = enc'
  OBVIOUS
<1>3. Shape(d) /\ Steady(enc, d)
  BY DEF Carried, LabelsInv
<1>4. /\ Apart(d, e) /\ e.function = enc.function /\ e.case_label_num = enc.case_label_num
      /\ e.label_break = X.old_break /\ e.label_continue = X.old_continue
  <2>1. e.function = enc.function /\ e.case_label_num = enc.case_label_num
        /\ e.label_break = X.old_break /\ e.label_continue = X.old_continue
    BY <1>2, <1>3 DEF Leave, Steady, Shape
  <2>2. Apart(d, e)
    BY <1>2, <1>3, EnterApart
  <2> QED
    BY <2>1, <2>2
<1>5. /\ Apart(e, f) /\ f.function = e.function /\ f.case_label_num = e.case_label_num
      /\ f.label_break = e.label_break /\ f.label_continue = e.label_continue
  <2>1. f = e \/ f = [e EXCEPT !.scope_displ = s, !.visible = v]
    BY <1>2
  <2>2. Shape(e)
    BY <1>4 DEF Apart
  <2> QED
    BY <2>1, <2>2 DEF Apart, Shape
<1>6. LabelsInv(f, Tail(todo), {}, c)
  BY <1>4, <1>5, LabelsApart DEF Carried
<1>7. /\ LabelsInv(enc', Tail(todo), {}, c)
      /\ enc'.function = enc.function /\ enc'.case_label_num = enc.case_label_num /\ enc'.label_break = X.old_break
      /\ enc'.label_continue = IF Head(todo).do \in Loops THEN X.old_continue ELSE enc.label_continue
  BY <1>2, <1>4, <1>5, <1>6
<1> QED
  BY ONLY <1>1, <1>7, Jumps(enc, todo, c), todo # <<>>, Done, EndDone

LEMMA EndWhileJumps == ASSUME JumpsKept, EndWhile PROVE JumpsKept'
<1>1. PICK c : Jumps(enc, todo, c)
  BY DEF JumpsKept
<1>2. todo # <<>> /\ enc.ok /\ Head(todo).do \in Loops /\ Done
  BY DEF EndWhile, Do, Loops
<1>3. PICK l, m, d : /\ l = Label("BEGIN_CYCLE", X.num) /\ m = Label("END", X.num)
                     /\ d = emit_label_declaration(emit_unconditional_branch(enc, l), m)
  OBVIOUS
<1>4. /\ Carried(enc, enc, Tail(todo), {m}, c)
      /\ Safe(enc, Tail(todo), {m}, l) /\ l[1] # "FUNCEND"
  BY <1>1, <1>2, <1>3, LoopEnd
<1>5. Carried(enc, emit_unconditional_branch(enc, l), Tail(todo), {m}, c)
  BY <1>4, CarriedBranch
<1>6. Carried(enc, d, Tail(todo), {}, c)
  BY <1>3, <1>5, CarriedDeclare
<1>7. enc' = Leave(d, X)
  BY <1>3 DEF EndWhile
<1> QED
  BY <1>1, <1>2, <1>6, <1>7, LoopLeft

LEMMA EndForJumps == ASSUME JumpsKept, EndFor PROVE JumpsKept'
<1>1. PICK c : Jumps(enc, todo, c)
  BY DEF JumpsKept
<1>2. todo # <<>> /\ enc.ok /\ Head(todo).do \in Loops /\ Done
  BY DEF EndFor, Do, Loops
<1>3. PICK l, m, d : /\ l = Label("BEGIN_CYCLE", X.num) /\ m = Label("END", X.num)
                     /\ d = emit_label_declaration(emit_unconditional_branch(enc, l), m)
  OBVIOUS
<1>4. /\ Carried(enc, enc, Tail(todo), {m}, c)
      /\ Safe(enc, Tail(todo), {m}, l) /\ l[1] # "FUNCEND"
  BY <1>1, <1>2, <1>3, LoopEnd
<1>5. Carried(enc, emit_unconditional_branch(enc, l), Tail(todo), {m}, c)
  BY <1>4, CarriedBranch
<1>6. Carried(enc, d, Tail(todo), {}, c)
  BY <1>3, <1>5, CarriedDeclare
<1>7. enc' = [Leave(d, X) EXCEPT !.scope_displ = X.displ, !.visible = X.visible]
  BY <1>3 DEF EndFor
<1> QED
  BY <1>1, <1>2, <1>6, <1>7, LoopLeft

LEMMA EndDoJumps == ASSUME JumpsKept, EndDo PROVE JumpsKept'
<1>1. PICK c : Jumps(enc, todo, c)
  BY DEF JumpsKept
<1>2. todo # <<>> /\ enc.ok /\ Head(todo).do \in Loops /\ Done
  BY DEF EndDo, Do, Loops
<1>3. PICK l, m, d : /\ l = Label("BEGIN_CYCLE", X.num) /\ m = Label("END", X.num)
                     /\ d = free_rvalue(emit_label_declaration(emit_conditional_branch(enc, First, l), m), First)
  OBVIOUS
<1>4. /\ Carried(enc, enc, Tail(todo), {m}, c)
      /\ Safe(enc, Tail(todo), {m}, l) /\ l[1] # "FUNCEND"
  BY <1>1, <1>2, <1>3, LoopEnd
<1>5. Carried(enc, emit_conditional_branch(enc, First, l), Tail(todo), {m}, c)
  BY <1>4, CarriedBranch
<1>6. Carried(enc, emit_label_declaration(emit_conditional_branch(enc, First, l), m), Tail(todo), {}, c)
  BY <1>5, CarriedDeclare
<1>7. Carried(enc, d, Tail(todo), {}, c)
  BY <1>3, <1>6, CarriedFree
<1>8. enc' = Leave(d, X)
  BY <1>3 DEF EndDo
<1> QED
  BY <1>1, <1>2, <1>7, <1>8, LoopLeft

LEMMA BeginDoJumps == ASSUME JumpsKept, BeginDo PROVE JumpsKept'
<1>1. PICK c : Jumps(enc, todo, c)
  BY DEF JumpsKept
<1>2. todo # <<>> /\ Head(todo).do = "stmt"
  BY DEF BeginDo, BeginStmt, Do
<1>3. enc.function # 0
  BY <1>1, <1>2, HeadInside DEF Jumps, Ordered, InFunction
<1>4. PICK n, begin, next, l, a, b, d :
         /\ n = enc.label_num /\ begin = Label("BEGIN_CYCLE", n) /\ next = Label("NEXT", n) /\ l = Label("END", n)
         /\ a = Expr("int") /\ b = With("docondition", n) /\ d = With("enddo", Saved(enc, n, next))
  OBVIOUS
<1>5. PICK items, R, o : items = <<Stmt, b, a, d>> /\ R = {Stmt, b, a, d} /\ o = {next, l}
  OBVIOUS
<1>6. /\ items \in Seq(R) /\ Len(items) = 4 /\ DOMAIN items = {1, 2, 3, 4}
      /\ items[1] = Stmt /\ items[2] = b /\ items[3] = a /\ items[4] = d
  BY <1>5
<1>7. todo' = items \o Tail(todo)
  BY <1>4, <1>5 DEF BeginDo, Then
<1>8. Head(todo).do \notin Ends \cup {"unit", "endfunction", "test", "bodies"}
  BY <1>2 DEF Ends, Loops
<1>9. /\ Typed(d) /\ d.do = "enddo" /\ "enddo" \in Ends /\ "enddo" \in Loops
      /\ d.x.break = l /\ d.x.old_break = enc.label_break /\ d.x.old_continue = enc.label_continue
      /\ d.x.continue = next /\ Owned(d) = {l} /\ Named(d) = {begin, next}
  <2>1. "enddo" \in Ends /\ "enddo" \in Loops
    BY DEF Ends, Loops
  <2> QED
    BY <1>4, <2>1, SavedEnd
<1>10. next # l /\ next # begin /\ begin # l /\ begin[1] # "FUNCEND" /\ next[1] # "FUNCEND"
  BY <1>4, LabelsDistinct DEF Numbered
<1>11. PICK e, f : e = TakeLabel(enc) /\ f = emit_label_declaration(e, begin)
  OBVIOUS
<1>12. Carried(enc, f, Tail(todo), o, c) /\ begin \in f.declared
  <2>1. Carried(enc, enc, Tail(todo), {}, c)
    BY <1>1, <1>2, CarriedStart DEF Owners, Ends, Loops
  <2>2. PICK u : u = {begin, next, l}
    OBVIOUS
  <2>3. {"BEGIN_CYCLE", "NEXT", "END"} \in SUBSET Numbered
        /\ u = {} \cup {Label(kind, enc.label_num) : kind \in {"BEGIN_CYCLE", "NEXT", "END"}}
    BY <1>4, <2>2 DEF Numbered
  <2>4. Carried(enc, e, Tail(todo), u, c)
    BY <1>11, <2>1, <2>3, CarriedTake
  <2>5. begin \in u /\ o = u \ {begin}
    BY <1>5, <1>10, <2>2
  <2>6. Carried(enc, f, Tail(todo), o, c)
    BY <1>11, <2>4, <2>5, CarriedDeclare
  <2>7. begin \in f.declared
    BY <1>11, <2>4 DEF emit_label_declaration, Carried, LabelsInv, Shape
  <2> QED
    BY <2>6, <2>7
<1>13. enc' = Enter(f, n, next)
  BY <1>4, <1>11 DEF BeginDo
<1>14. /\ Apart(f, enc') /\ enc'.function = enc.function /\ enc'.case_label_num = enc.case_label_num
       /\ enc'.label_break = l /\ enc'.label_continue = next /\ begin \in enc'.declared
  <2>1. Shape(f) /\ Steady(enc, f)
    BY <1>12 DEF Carried, LabelsInv
  <2>2. Apart(f, enc')
    BY <1>13, <2>1, EnterApart
  <2>3. /\ enc'.function = enc.function /\ enc'.case_label_num = enc.case_label_num
        /\ enc'.label_break = l /\ enc'.label_continue = next
    BY <1>4, <1>13, <2>1 DEF Enter, Shape, Steady
  <2> QED
    BY <1>12, <2>2, <2>3 DEF Apart
<1>15. LabelsInv(enc', Tail(todo), o, c)
  BY <1>12, <1>14, LabelsApart DEF Carried
<1>16. /\ Owned(a) = {} /\ Owned(b) = {next} /\ Owned(Stmt) = {} /\ Named(a) = {} /\ Named(b) = {} /\ Named(Stmt) = {}
       /\ Modest(a, enc.function) /\ Modest(b, enc.function) /\ Modest(Stmt, enc.function)
  BY <1>3, <1>4, OwnedWith, ModestWith
<1>17. Fits(items, enc', Tail(todo), o)
  <2>1. next \in o /\ l \in o /\ \A k \in o : k = next \/ k = l
    BY <1>5
  <2>2. Reached(enc', Tail(todo), o, begin) /\ Reached(enc', Tail(todo), o, next)
    BY <1>10, <1>14, <2>1 DEF Reached, Safe
  <2>3. Owned(items[1]) = {} /\ Owned(items[2]) = {next} /\ Owned(items[3]) = {} /\ Owned(items[4]) = {l}
    BY <1>6, <1>9, <1>16
  <2>4. \A k \in DOMAIN items : \A j \in Named(items[k]) : j = begin \/ j = next
    BY <1>6, <1>9, <1>16
  <2>5. next # l /\ DOMAIN items = {1, 2, 3, 4}
    BY <1>6, <1>10
  <2>6. \A k, j \in DOMAIN items : k # j => Owned(items[k]) \cap Owned(items[j]) = {}
    BY ONLY <2>3, <2>5
  <2>7. \A k \in o : \E j \in DOMAIN items : k \in Owned(items[j])
    BY ONLY <2>1, <2>3, <2>5
  <2>8. \A k \in DOMAIN items : Owned(items[k]) \subseteq o
    BY ONLY <2>1, <2>3, <2>5
  <2>9. \A k \in DOMAIN items : \A j \in Named(items[k]) : Reached(enc', Tail(todo), o, j)
    BY <2>2, <2>4
  <2> QED
    BY ONLY <2>6, <2>7, <2>8, <2>9 DEF Fits
<1>18. Closes(enc, enc', items)
  <2>1. \A k \in DOMAIN items : k # Len(items) => Modest(items[k], enc.function)
    BY <1>6, <1>16
  <2>2. d = items[Len(items)] /\ Len(items) > 0
    BY <1>6
  <2>3. /\ Typed(d) /\ d.do \in Ends /\ d.x.old_break = enc.label_break
        /\ d.do \in Loops => d.x.old_continue = enc.label_continue
        /\ enc'.function = enc.function /\ enc'.case_label_num = enc.case_label_num /\ enc'.label_break = d.x.break
        /\ enc'.label_continue = IF d.do \in Loops THEN d.x.continue ELSE enc.label_continue
    BY <1>9, <1>14
  <2> QED
    BY ONLY <2>1, <2>2, <2>3 DEF Closes
<1>19. items \in Seq(R)
  BY <1>6
<1> QED
  BY ONLY <1>1, <1>2, <1>3, <1>7, <1>8, <1>15, <1>17, <1>18, <1>19, EndOwns

LEMMA BeginForJumps == ASSUME JumpsKept, NEW has_inition, BeginFor(has_inition) PROVE JumpsKept'
<1>1. PICK c : Jumps(enc, todo, c)
  BY DEF JumpsKept
<1>2. todo # <<>> /\ Head(todo).do = "stmt" /\ enc' = enc
  BY DEF BeginFor, BeginStmt, Do
<1>3. enc.function # 0
  BY <1>1, <1>2, HeadInside DEF Jumps, Ordered, InFunction
<1>4. PICK p, d : /\ p = IF has_inition THEN <<Stmt>> ELSE <<>>
                  /\ d = With("for", [displ |-> enc.scope_displ, visible |-> enc.visible])
  OBVIOUS
<1>5. PICK items : items = p \o <<d>>
  OBVIOUS
<1>6. todo' = items \o Tail(todo)
  BY <1>4, <1>5 DEF BeginFor, Then
<1>7. p \in Seq({Stmt})
  <2>1. Stmt \in {Stmt}
    OBVIOUS
  <2> QED
    BY <1>4, <2>1, ShortSeq
<1>8. items \in Seq({Stmt} \cup {d})
  BY <1>5, <1>7, LastItem
<1>9. Modest(d, enc.function) /\ Owned(d) = {} /\ Named(d) = {}
  <2>1. d.do = "for"
    BY <1>4 DEF With
  <2> QED
    BY <1>3, <2>1, OwnedNone DEF Modest, Typed, Ends, Loops, Owners
<1>10. \A x \in {Stmt} \cup {d} : Modest(x, enc.function) /\ Owned(x) = {} /\ Named(x) = {}
  <2>1. Owned(Stmt) = {} /\ Named(Stmt) = {}
    BY ONLY OwnedWith
  <2>2. Modest(Stmt, enc.function)
    BY ONLY <1>3, ModestWith
  <2> QED
    BY ONLY <1>9, <2>1, <2>2
<1>11. Head(todo).do \notin Ends \cup {"unit", "endfunction", "test", "bodies"}
  BY <1>2 DEF Ends, Loops
<1>12. Carried(enc, enc', Tail(todo), {}, c)
  BY <1>1, <1>2, CarriedStart DEF Owners, Ends, Loops
<1> QED
  BY <1>1, <1>2, <1>6, <1>8, <1>10, <1>11, <1>12, NoneOwn

LEMMA EnterForJumps ==
    ASSUME JumpsKept, NEW has_condition, NEW has_increment, EnterFor(has_condition, has_increment) PROVE JumpsKept'
<1>1. PICK c : Jumps(enc, todo, c)
  BY DEF JumpsKept
<1>2. todo # <<>> /\ Head(todo).do = "for"
  BY DEF EnterFor, Do
<1>3. enc.function # 0
  BY <1>1, <1>2, HeadInside DEF Jumps, Ordered, InFunction, Saves
<1>4. PICK n, begin, l, a, b, v, s, d :
         /\ n = enc.label_num /\ begin = Label("BEGIN_CYCLE", n) /\ l = Label("END", n)
         /\ a = Expr("int") /\ b = With("leave", n) /\ v = Void("int")
         /\ s = [Saved(enc, n, begin) EXCEPT !.displ = X.displ, !.visible = X.visible] /\ d = With("endfor", s)
  OBVIOUS
<1>5. PICK p1, p2, p, items, Q :
         /\ p1 = IF has_condition THEN <<a, b>> ELSE <<>>
         /\ p2 = IF has_increment THEN <<v>> ELSE <<>>
         /\ p = p1 \o <<Stmt>> \o p2 /\ items = p \o <<d>> /\ Q = {a, b, v, Stmt}
  OBVIOUS
<1>6. todo' = items \o Tail(todo)
  BY <1>4, <1>5 DEF EnterFor, Then
<1>7. p \in Seq(Q)
  <2>0. a \in Q /\ b \in Q /\ v \in Q /\ Stmt \in Q
    BY <1>5
  <2>1. p1 \in Seq(Q) /\ p2 \in Seq(Q) /\ <<Stmt>> \in Seq(Q)
    <3>1. <<a, b>> \in Seq(Q) /\ <<v>> \in Seq(Q) /\ <<Stmt>> \in Seq(Q) /\ <<>> \in Seq(Q)
      BY ONLY <2>0, ShortSeq
    <3> QED
      BY <1>5, <3>1
  <2>2. p1 \o <<Stmt>> \in Seq(Q)
    BY <2>1, ConcatSeq
  <2> QED
    BY <1>5, <2>1, <2>2, ConcatSeq
<1>8. /\ items \in Seq(Q \cup {d}) /\ Len(items) > 0 /\ items[Len(items)] = d
      /\ \A k \in DOMAIN items : k # Len(items) => items[k] \in Q
  BY <1>5, <1>7, LastItem
<1>9. Head(todo).do \notin Ends \cup {"unit", "endfunction", "test", "bodies"}
  BY <1>2 DEF Ends, Loops
<1>10. /\ Typed(d) /\ d.do = "endfor" /\ "endfor" \in Ends /\ "endfor" \in Loops
       /\ d.x.break = l /\ d.x.old_break = enc.label_break /\ d.x.old_continue = enc.label_continue
       /\ d.x.continue = begin /\ Owned(d) = {l} /\ Named(d) = {begin}
  <2>1. "endfor" \in Ends /\ "endfor" \in Loops
    BY DEF Ends, Loops
  <2>2. d.do = "endfor" /\ d.x = s
    BY <1>4 DEF With
  <2>3. /\ s.break = l /\ s.continue = begin /\ s.num = n
        /\ s.old_break = enc.label_break /\ s.old_continue = enc.label_continue
    BY <1>4 DEF Saved
  <2>4. Typed(d)
    BY <1>4, <2>2, <2>3 DEF Typed
  <2>5. Owned(d) = {l}
    BY <2>1, <2>2, <2>3 DEF Owned
  <2>6. Named(d) = {begin}
    <3>1. Named(d) = {Label("BEGIN_CYCLE", d.x.num), d.x.continue}
      BY <2>1, <2>2 DEF Named
    <3>2. d.x.num = n /\ d.x.continue = begin
      BY ONLY <2>2, <2>3
    <3> QED
      BY ONLY <1>4, <3>1, <3>2
  <2> QED
    BY <2>1, <2>2, <2>3, <2>4, <2>5, <2>6
<1>11. enc' = emit_label_declaration(Enter(TakeLabel(enc), n, begin), begin)
  BY <1>4 DEF EnterFor
<1>12. LabelsInv(enc, Tail(todo), {}, c)
  BY <1>1, <1>2, CarriedStart DEF Owners, Ends, Loops, Carried
<1>13. /\ LabelsInv(enc', Tail(todo), {l}, c)
       /\ enc'.function = enc.function /\ enc'.case_label_num = enc.case_label_num
       /\ enc'.label_break = l /\ enc'.label_continue = begin /\ begin \in enc'.declared
  BY <1>4, <1>11, <1>12, LoopEntered
<1>14. \A x \in Q : Owned(x) = {} /\ (\A k \in Named(x) : k = l) /\ Modest(x, enc.function)
  <2>1. /\ Owned(a) = {} /\ Owned(b) = {} /\ Owned(v) = {} /\ Owned(Stmt) = {}
        /\ Named(a) = {} /\ Named(b) = {l} /\ Named(v) = {} /\ Named(Stmt) = {}
    BY <1>4, OwnedWith
  <2>2. /\ Modest(a, enc.function) /\ Modest(b, enc.function)
        /\ Modest(v, enc.function) /\ Modest(Stmt, enc.function)
    BY <1>3, <1>4, ModestWith
  <2> QED
    BY <1>5, <2>1, <2>2
<1>15. Reached(enc', Tail(todo), {l}, l) /\ Reached(enc', Tail(todo), {l}, begin)
  BY <1>4, <1>13, LabelsDistinct DEF Reached, Safe, Numbered
<1>16. Fits(items, enc', Tail(todo), {l})
  <2>1. /\ Len(items) \in DOMAIN items
        /\ \A k \in DOMAIN items : (k # Len(items) => Owned(items[k]) = {})
        /\ Owned(items[Len(items)]) = {l}
    BY <1>8, <1>10, <1>14
  <2>2. \A k \in DOMAIN items : \A j \in Named(items[k]) : Reached(enc', Tail(todo), {l}, j)
    BY <1>8, <1>10, <1>14, <1>15
  <2> QED
    BY ONLY <2>1, <2>2 DEF Fits
<1>17. Closes(enc, enc', items)
  <2>1. \A k \in DOMAIN items : k # Len(items) => Modest(items[k], enc.function)
    BY <1>8, <1>14
  <2>2. d = items[Len(items)] /\ Len(items) > 0
    BY <1>8
  <2>3. /\ Typed(d) /\ d.do \in Ends /\ d.x.old_break = enc.label_break
        /\ d.do \in Loops => d.x.old_continue = enc.label_continue
        /\ enc'.function = enc.function /\ enc'.case_label_num = enc.case_label_num /\ enc'.label_break = d.x.break
        /\ enc'.label_continue = IF d.do \in Loops THEN d.x.continue ELSE enc.label_continue
    BY <1>10, <1>13
  <2> QED
    BY ONLY <2>1, <2>2, <2>3 DEF Closes
<1>18. PICK R : items \in Seq(R)
  BY <1>8
<1>19. LabelsInv(enc', Tail(todo), {l}, c)
  BY <1>13
<1> QED
  BY ONLY <1>1, <1>2, <1>3, <1>6, <1>9, <1>16, <1>17, <1>18, <1>19, EndOwns

-----------------------------------------------------------------------------
(* Jumps, blocks and declarations *)

\* A done statement that jumps: the label is safe before it is taken off.
LEMMA BranchBefore ==
    ASSUME NEW c, Jumps(enc, todo, c), todo # <<>>, Head(todo).do \in {"stmt", "return"}, Done,
           NEW l, Safe(enc, todo, {}, l), l[1] = "FUNCEND" => enc.function # 0 /\ l = Label("FUNCEND", enc.function),
           enc' = emit_unconditional_branch(enc, l)
    PROVE  JumpsKept'
<1>1. PICK S : todo \in Seq(S)
  BY Popped
<1>2. PICK d : d = enc'
  OBVIOUS
<1>3. LabelsInv(d, todo, {}, c)
  BY <1>2, LabelsBranch DEF Jumps
<1>4. Owned(Head(todo)) = {}
  BY OwnedNone DEF Owners, Ends, Loops
<1>5. LabelsInv(d, Tail(todo), {}, c)
  BY <1>1, <1>3, <1>4, LabelsPop
<1>6. Steady(enc, d)
  <2>1. Shape(enc)
    BY Popped
  <2> QED
    BY <1>2, <2>1 DEF Steady, emit_unconditional_branch, Shape
<1>7. Carried(enc, enc', Tail(todo), {}, c)
  BY <1>2, <1>5, <1>6 DEF Carried
<1>8. Head(todo).do \notin Ends \cup {"unit", "endfunction", "test", "bodies"}
  BY DEF Ends, Loops
<1> QED
  BY <1>7, <1>8, HeadDone

\* What a field of the encoder says is the label of an end.
LEMMA InnermostKnown ==
    ASSUME NEW S, NEW t \in Seq(S), NEW ends, NEW v, NEW new, NEW old, Threaded(t, ends, v, new, old),
           NEW k \in DOMAIN t, t[k].do \in ends
    PROVE  \E m \in DOMAIN t : t[m].do \in ends /\ v = t[m].x[new]
<1>1. k > 0
  OBVIOUS
<1>2. Nexts(t, ends, 0, v, new)
  BY DEF Threaded
<1> QED
  BY <1>1, <1>2 DEF Nexts

LEMMA BreakJumps == ASSUME JumpsKept, emit_break_statement PROVE JumpsKept'
<1>1. PICK c : Jumps(enc, todo, c)
  BY DEF JumpsKept
<1>2. /\ todo # <<>> /\ Head(todo).do = "stmt" /\ Done
      /\ enc' = emit_unconditional_branch(enc, enc.label_break)
  BY DEF emit_break_statement, BeginStmt, Do
<1>3. PICK k \in DOMAIN todo : todo[k].do \in Ends
  BY DEF emit_break_statement, Inside, Ends
<1>4. PICK S : todo \in Seq(S)
  BY <1>1, <1>2, Popped
<1>5. PICK m \in DOMAIN todo : todo[m].do \in Ends /\ enc.label_break = todo[m].x.break
  <2>1. Threaded(todo, Ends, enc.label_break, "break", "old_break")
    BY <1>1 DEF Jumps, Ordered, Threads
  <2> QED
    BY <1>3, <1>4, <2>1, InnermostKnown
<1>6. enc.label_break \in Owned(todo[m])
  BY <1>5 DEF Owned, Ends, Loops
<1>7. Safe(enc, todo, {}, enc.label_break) /\ enc.label_break[1] # "FUNCEND"
  <2>1. Kind(enc.label_break)
    BY <1>1, <1>6 DEF Jumps, LabelsInv
  <2> QED
    BY <1>6, <2>1, NotFunction DEF Safe
<1> QED
  BY <1>1, <1>2, <1>7, BranchBefore

LEMMA ContinueJumps == ASSUME JumpsKept, emit_continue_statement PROVE JumpsKept'
<1>1. PICK c : Jumps(enc, todo, c)
  BY DEF JumpsKept
<1>2. /\ todo # <<>> /\ Head(todo).do = "stmt" /\ Done /\ enc.ok
      /\ enc' = emit_unconditional_branch(enc, enc.label_continue)
  BY DEF emit_continue_statement, BeginStmt, Do
<1>3. PICK k \in DOMAIN todo : todo[k].do \in Loops
  BY DEF emit_continue_statement, Inside
<1>4. PICK S : todo \in Seq(S)
  BY <1>1, <1>2, Popped
<1>5. PICK m \in DOMAIN todo : todo[m].do \in Loops /\ enc.label_continue = todo[m].x.continue
  <2>1. Threaded(todo, Loops, enc.label_continue, "continue", "old_continue")
    BY <1>1 DEF Jumps, Ordered, Threads
  <2> QED
    BY <1>3, <1>4, <2>1, InnermostKnown
<1>6. enc.label_continue \in Named(todo[m])
  BY <1>5 DEF Named, Loops
<1>7. Safe(enc, todo, {}, enc.label_continue) /\ enc.label_continue[1] # "FUNCEND"
  BY <1>1, <1>2, <1>6 DEF Jumps, LabelsInv, Reached
<1> QED
  BY <1>1, <1>2, <1>7, BranchBefore

LEMMA EndReturnJumps == ASSUME JumpsKept, EndReturn PROVE JumpsKept'
<1>1. PICK c : Jumps(enc, todo, c)
  BY DEF JumpsKept
<1>2. todo # <<>> /\ Head(todo).do = "return" /\ Done
  BY DEF EndReturn, Do
<1>3. PICK l : l = Label("FUNCEND", enc.function)
  OBVIOUS
<1>4. enc' = emit_unconditional_branch(enc, l) /\ l[1] = "FUNCEND"
  BY <1>3 DEF EndReturn, Label
<1>5. enc.function # 0
  BY <1>1, <1>2, HeadInside DEF Jumps, Ordered, InFunction
<1>6. Safe(enc, todo, {}, l)
  BY <1>4 DEF Safe
<1> QED
  BY <1>1, <1>2, <1>3, <1>4, <1>5, <1>6, BranchBefore

LEMMA BeginCompoundJumps == ASSUME JumpsKept, BeginCompound PROVE JumpsKept'
<1>1. PICK c : Jumps(enc, todo, c)
  BY DEF JumpsKept
<1>2. todo # <<>> /\ Head(todo).do = "stmt" /\ enc' = enc
  BY DEF BeginCompound, BeginStmt, Do
<1>3. enc.function # 0
  BY <1>1, <1>2, HeadInside DEF Jumps, Ordered, InFunction
<1>4. PICK d : d = With("endcompound", [displ |-> enc.scope_displ, visible |-> enc.visible])
  OBVIOUS
<1>5. PICK n \in 1..2 : todo' = ([i \in 1..n |-> Stmt] \o <<d>>) \o Tail(todo)
  BY <1>4 DEF BeginCompound, Then
<1>6. PICK p, items : p = [i \in 1..n |-> Stmt] /\ items = p \o <<d>>
  OBVIOUS
<1>7. p \in Seq({Stmt})
  <2>1. p \in [1..n -> {Stmt}] /\ n \in Nat
    BY <1>6
  <2> QED
    BY <2>1
<1>8. items \in Seq({Stmt} \cup {d})
  BY <1>6, <1>7, LastItem
<1>9. Modest(d, enc.function) /\ Owned(d) = {} /\ Named(d) = {}
  <2>1. d.do = "endcompound"
    BY <1>4 DEF With
  <2> QED
    BY <1>3, <2>1, OwnedNone DEF Modest, Typed, Ends, Loops, Owners
<1>10. \A x \in {Stmt} \cup {d} : Modest(x, enc.function) /\ Owned(x) = {} /\ Named(x) = {}
  BY <1>3, <1>9, OwnedWith, ModestWith
<1>11. Head(todo).do \notin Ends \cup {"unit", "endfunction", "test", "bodies"}
  BY <1>2 DEF Ends, Loops
<1>12. Carried(enc, enc', Tail(todo), {}, c)
  BY <1>1, <1>2, CarriedStart DEF Owners, Ends, Loops
<1>13. todo' = items \o Tail(todo)
  BY <1>5, <1>6
<1> QED
  BY <1>1, <1>2, <1>8, <1>10, <1>11, <1>12, <1>13, NoneOwn

LEMMA EndCompoundJumps == ASSUME JumpsKept, EndCompound PROVE JumpsKept'
<1>1. PICK c : Jumps(enc, todo, c)
  BY DEF JumpsKept
<1>2. todo # <<>> /\ Head(todo).do = "endcompound" /\ Done
  BY DEF EndCompound, Do
<1>3. PICK m, d : m = Max({enc.max_displ, enc.scope_displ}) /\ d = enc'
  OBVIOUS
<1>4. d = [enc EXCEPT !.max_displ = m, !.scope_displ = X.displ, !.visible = X.visible]
  BY <1>3 DEF EndCompound
<1>5. Shape(enc)
  BY <1>1, <1>2, Popped
<1>6. Apart(enc, d) /\ Steady(enc, d)
  BY <1>4, <1>5 DEF Apart, Steady, Shape
<1>7. LabelsInv(enc, Tail(todo), {}, c)
  BY <1>1, <1>2, CarriedStart DEF Owners, Ends, Loops, Carried
<1>8. Carried(enc, enc', Tail(todo), {}, c)
  BY <1>3, <1>6, <1>7, LabelsApart DEF Carried
<1>9. Head(todo).do \notin Ends \cup {"unit", "endfunction", "test", "bodies"}
  BY <1>2 DEF Ends, Loops
<1> QED
  BY <1>1, <1>2, <1>8, <1>9, HeadDone

-----------------------------------------------------------------------------
(* Declarations, functions and the unit *)

LEMMA AddedLabels == ASSUME NEW e, Shape(e), NEW type PROVE Labels(e, displacements_add(e, type))
<1>1. PICK scope, v : scope = e.scope_displ + mips_type_size[type]
                      /\ v = IF e.function # 0 THEN Stack(R_FP, -scope, type) ELSE Stack(R_GP, e.global_displ, type)
  OBVIOUS
<1>2. PICK f : f = [e EXCEPT !.visible = @ \cup {v}, !.variable = v]
  OBVIOUS
<1>3. Labels(e, f)
  BY <1>2 DEF Labels, Shape
<1>4. Labels(e, [f EXCEPT !.scope_displ = scope, !.max_displ = Max({@, scope})])
  <2>1. PICK m : m = Max({f.max_displ, scope})
    OBVIOUS
  <2>2. Labels(e, [f EXCEPT !.scope_displ = scope, !.max_displ = m])
    BY <1>3 DEF Labels, Shape
  <2> QED
    BY <2>1, <2>2
<1>5. Labels(e, [f EXCEPT !.global_displ = @ + mips_type_size[type]])
  BY <1>3 DEF Labels, Shape
<1> QED
  BY <1>1, <1>2, <1>4, <1>5 DEF displacements_add

LEMMA DeclarationSmooth ==
    ASSUME todo # <<>>, enc.ok, Head(todo).do = "declare", Calm(enc, enc'),
           NEW items, PlainSeq(items), todo' = items \o Tail(todo)
    PROVE  Smooth
<1>1. "declare" \notin Owners \cup Saves \cup {"unit", "endfunction", "test"}
  BY DEF Owners, Ends, Loops, Saves
<1> QED
  BY <1>1 DEF Smooth, PlainSeq

LEMMA VariableJumps ==
    ASSUME JumpsKept, NEW type, NEW initialised, emit_variable_declaration(type, initialised) PROVE JumpsKept'
<1>1. PICK a, b : a = <<Item("struct"), Item("drop")>> /\ b = <<Expr(type), With("store", enc'.variable)>>
  OBVIOUS
<1>2. todo' = a \o Tail(todo) \/ todo' = b \o Tail(todo) \/ todo' = <<>> \o Tail(todo)
  BY <1>1 DEF emit_variable_declaration, Then
<1>3. PlainSeq(a) /\ PlainSeq(b) /\ PlainSeq(<<>>)
  BY <1>1, PlainTuples, PlainRequests, PlainItem, Kinds
<1>4. todo # <<>> /\ enc.ok /\ Head(todo).do = "declare" /\ enc' = displacements_add(enc, type)
  BY DEF emit_variable_declaration, BeginDeclaration, Do
<1>5. Shape(enc)
  BY <1>4, Popped DEF JumpsKept
<1>6. Calm(enc, enc')
  BY <1>4, <1>5, AddedLabels, LabelsCalm
<1>7. PICK items : PlainSeq(items) /\ todo' = items \o Tail(todo)
  BY <1>2, <1>3
<1> QED
  BY <1>4, <1>6, <1>7, DeclarationSmooth, SmoothJumps

LEMMA ArrayJumps ==
    ASSUME JumpsKept, NEW dim, NEW initialised, emit_array_declaration(dim, initialised) PROVE JumpsKept'
<1>1. PICK d : d = displacements_add(enc, "array")
  OBVIOUS
<1>2. PICK a, b, c :
         /\ a = <<Bound, Item("loadbound")>> /\ b = IF dim = 2 THEN <<Bound, Item("loadbound")>> ELSE <<>>
         /\ c = IF initialised THEN <<With("arrayinit", [dim |-> dim, variable |-> d.variable])>> ELSE <<>>
  OBVIOUS
<1>3. todo' = (a \o b \o c) \o Tail(todo)
  BY <1>1, <1>2 DEF emit_array_declaration, Then
<1>4. PlainSeq(a) /\ PlainSeq(b) /\ PlainSeq(c)
  BY <1>2, PlainTuples, PlainBound, PlainItem, Kinds
<1>5. PlainSeq(a \o b \o c)
  BY <1>4, PlainConcat
<1>6. todo # <<>> /\ enc.ok /\ Head(todo).do = "declare"
  BY DEF emit_array_declaration, BeginDeclaration, Do
<1>7. Shape(enc)
  BY <1>6, Popped DEF JumpsKept
<1>8. Calm(enc, enc')
  <2>1. Labels(enc, d) /\ Shape(d)
    BY <1>1, <1>7, AddedLabels DEF Labels
  <2>2. PICK e : e = get_register(d)
    OBVIOUS
  <2>3. PICK v, w : v = Reg(e.got, "int") /\ w = [d.variable EXCEPT !.type = "int"]
    OBVIOUS
  <2>4. PICK f : f = emit_store_of_rvalue(e, w, v)
    OBVIOUS
  <2>5. enc' = free_rvalue(f, v)
    BY <1>1, <2>2, <2>3, <2>4 DEF emit_array_declaration
  <2>6. Same(d, e) /\ Shape(e)
    BY <2>1, <2>2, GetSame DEF Same, Labels
  <2>7. Same(e, f) /\ Shape(f)
    BY <2>4, <2>6, StoreSame DEF Same, Labels
  <2>8. Same(f, enc')
    BY <2>5, <2>7, FreeValueSame
  <2>9. Same(d, enc')
    BY <2>6, <2>7, <2>8, SameTrans
  <2>10. Calm(enc, d) /\ Calm(d, enc')
    BY <1>7, <2>1, <2>9, LabelsCalm DEF Same
  <2> QED
    BY <1>7, <2>10, CalmTrans
<1>9. PICK items : items = a \o b \o c
  OBVIOUS
<1> QED
  BY <1>3, <1>5, <1>6, <1>8, <1>9, DeclarationSmooth, SmoothJumps

LEMMA LabelStatementJumps == ASSUME JumpsKept, LabelStatement PROVE JumpsKept'
<1>1. PICK c : Jumps(enc, todo, c)
  BY DEF JumpsKept
<1>2. PICK items : items = <<Stmt>>
  OBVIOUS
<1>3. items \in Seq({Stmt}) /\ todo' = items \o Tail(todo) /\ todo # <<>> /\ Head(todo).do = "label"
  BY <1>2 DEF LabelStatement, Then, Do
<1>4. enc.function # 0
  BY <1>1, <1>3, HeadInside DEF Jumps, Ordered, InFunction
<1>5. Owned(Head(todo)) = {Label("CASE", X)}
  BY <1>3 DEF Owned, X
<1>6. PICK o : o = {Label("CASE", X)}
  OBVIOUS
<1>7. Carried(enc, enc, Tail(todo), o, c)
  BY <1>1, <1>3, <1>5, <1>6, CarriedStart
<1>8. Label("CASE", X) \in o /\ {} = o \ {Label("CASE", X)}
  BY <1>6
<1>9. Carried(enc, enc', Tail(todo), {}, c)
  BY <1>7, <1>8, CarriedDeclare DEF LabelStatement
<1>10. \A x \in {Stmt} : Modest(x, enc.function) /\ Owned(x) = {} /\ Named(x) = {}
  BY <1>4, OwnedWith, ModestWith
<1>11. Head(todo).do \notin Ends \cup {"unit", "endfunction", "test", "bodies"}
  BY <1>3 DEF Ends, Loops
<1> QED
  BY ONLY <1>1, <1>3, <1>9, <1>10, <1>11, NoneOwn

-----------------------------------------------------------------------------
(* Switches *)

\* Labels of cases are owed, above all there are.
LEMMA CasesTaken ==
    ASSUME NEW e, NEW t, NEW c, LabelsInv(e, t, {}, c), NEW n \in Nat,
           NEW o, o = {Label("CASE", k) : k \in c..c + n - 1}
    PROVE  LabelsInv(e, t, o, c + n)
<1>1. PICK z : z = c + n
  OBVIOUS
<1>2. c \in Nat /\ z \in Nat /\ c <= z /\ e.label_num \in Nat
  BY <1>1 DEF LabelsInv, Shape
<1>3. \A l : Old(l, e.label_num, c) => Old(l, e.label_num, z)
  BY <1>2, OldLater
<1>4. \A l \in o : Kind(l) /\ Old(l, e.label_num, z) /\ ~Old(l, e.label_num, c)
  <2>1. ASSUME NEW k \in c..z - 1, NEW l, l = Label("CASE", k)
        PROVE  Kind(l) /\ Old(l, e.label_num, z) /\ ~Old(l, e.label_num, c)
    <3>1. l[1] = "CASE" /\ l[2] = k /\ "CASE" \notin Numbered
      BY <2>1 DEF Label, Numbered
    <3>2. k \in 0..z - 1 /\ k \notin 0..c - 1
      BY <1>2
    <3> QED
      BY <3>1, <3>2 DEF Kind, Old
  <2>2. \A l \in o : \E k \in c..z - 1 : l = Label("CASE", k)
    BY <1>1, <1>2
  <2> QED
    BY <2>1, <2>2
<1>5. \A l : Safe(e, t, {}, l) => Safe(e, t, o, l)
  BY DEF Safe
<1>6. \A l \in o : l \notin e.declared
  BY <1>4 DEF LabelsInv
<1>7. \A k \in DOMAIN t : \A l \in Owned(t[k]) : l \notin o
  BY <1>4 DEF LabelsInv
<1>8. e.ok => /\ \A l \in e.used : Safe(e, t, o, l)
              /\ \A k \in DOMAIN t : \A l \in Named(t[k]) : Reached(e, t, o, l)
  BY <1>5 DEF LabelsInv, Reached
<1>9. LabelsInv(e, t, o, z)
  BY <1>2, <1>3, <1>4, <1>6, <1>7, <1>8 DEF LabelsInv
<1> QED
  BY <1>1, <1>9

\* The head of a switch is replaced by work that is no end.
LEMMA TurnCases ==
    ASSUME NEW e, NEW t, NEW c, Ordered(e, t, c), t # <<>>, Head(t).do \in {"switch", "test", "bodies"},
           NEW R, NEW items \in Seq(R),
           \A k \in DOMAIN items : Typed(items[k]) /\ items[k].do \notin Ends \cup {"unit", "endfunction"},
           NEW d, d.function = e.function, d.label_break = e.label_break, d.label_continue = e.label_continue
    PROVE  Work(d.function, items \o Tail(t)) /\ Threads(d, items \o Tail(t)) /\ items \o Tail(t) # <<>>
<1>1. PICK S : t \in Seq(S)
  BY DEF Ordered, Work
<1>2. e.function # 0
  BY HeadInside DEF Ordered, InFunction
<1>3. Work(e.function, items \o Tail(t))
  <2>1. \A k \in DOMAIN items :
              /\ Typed(items[k]) /\ items[k].do \notin {"unit", "endfunction"}
              /\ items[k].do \in InFunction => e.function # 0
    BY <1>2
  <2> QED
    BY <2>1, WorkStep DEF Ordered
<1>4. Loops \subseteq Ends
  BY DEF Ends
<1>5. Threads(d, items \o Tail(t))
  <2>1. \A k \in DOMAIN items : items[k].do \notin Ends /\ items[k].do \notin Loops
    BY <1>4
  <2>2. Head(t).do \notin Ends /\ Head(t).do \notin Loops
    BY DEF Ends, Loops
  <2>3. Threaded(items \o Tail(t), Ends, e.label_break, "break", "old_break")
    BY <1>1, <2>1, <2>2, ThreadStep DEF Ordered, Threads
  <2>4. Threaded(items \o Tail(t), Loops, e.label_continue, "continue", "old_continue")
    BY <1>1, <2>1, <2>2, ThreadStep DEF Ordered, Threads
  <2> QED
    BY <2>3, <2>4 DEF Threads
<1>6. items \o Tail(t) # <<>>
  BY Remains DEF Ordered
<1> QED
  BY <1>3, <1>5, <1>6

\* A test for every body, then the bodies
Tested(items, body, b) ==
    /\ Len(items) = Len(body) + 1 /\ items[Len(body) + 1] = b
    /\ \A k \in 1..Len(body) : items[k].do = "test" /\ items[k].x = body[k]
    /\ \A k \in DOMAIN items :
          /\ Typed(items[k]) /\ items[k].do \in {"test", "bodies"}
          /\ k # Len(body) + 1 => items[k].do = "test"

LEMMA SwitchItems ==
    ASSUME NEW body \in Bodies, NEW first \in Nat, NEW n, n = Len(body),
           NEW a, a = [i \in DOMAIN body |-> With("test", body[i])],
           NEW b, b = With("bodies", [body |-> body, first |-> first]), NEW items, items = a \o <<b>>
    PROVE  (\E R : items \in Seq(R)) /\ Tested(items, body, b)
<1>1. body \in Seq({"case", "default", "stmt"})
  BY MipsAssumption
<1>2. n \in Nat /\ DOMAIN body = 1..n /\ \A i \in 1..n : body[i] \in {"case", "default", "stmt"}
  BY <1>1
<1>3. PICK Q : Q = {With("test", x) : x \in {"case", "default", "stmt"}}
  OBVIOUS
<1>4. a \in [1..n -> Q]
  BY <1>2, <1>3
<1>5. a \in Seq(Q) /\ Len(a) = n
  BY <1>2, <1>4
<1>6. \A k \in 1..n : a[k] = With("test", body[k])
  BY <1>2
<1>7. /\ items \in Seq(Q \cup {b}) /\ Len(items) = n + 1 /\ items[n + 1] = b /\ DOMAIN items = 1..n + 1
      /\ \A k \in 1..n : items[k] = a[k]
  <2>1. <<b>> \in Seq({b}) /\ Len(<<b>>) = 1 /\ <<b>>[1] = b
    OBVIOUS
  <2>2. a \in Seq(Q \cup {b}) /\ <<b>> \in Seq(Q \cup {b})
    BY <1>5, <2>1
  <2> QED
    BY <1>2, <1>5, <2>1, <2>2
<1>8. \A k \in 1..n : items[k].do = "test" /\ items[k].x = body[k] /\ Typed(items[k])
  <2>1. \A w \in {"case", "default", "stmt"} :
           Typed(With("test", w)) /\ With("test", w).do = "test" /\ With("test", w).x = w
    BY DEF Typed, With, Ends, Loops
  <2> QED
    BY <1>2, <1>6, <1>7, <2>1
<1>9. Typed(b) /\ b.do = "bodies"
  <2>1. b.do = "bodies" /\ b.x.body = body /\ b.x.first = first
    BY DEF With
  <2> QED
    BY <2>1 DEF Typed, Ends, Loops
<1>10. \A k \in DOMAIN items : k = n + 1 \/ k \in 1..n
  BY <1>2, <1>7
<1>11. \A k \in DOMAIN items :
          Typed(items[k]) /\ (k # n + 1 => items[k].do = "test") /\ items[k].do \in {"test", "bodies"}
  BY <1>7, <1>8, <1>9, <1>10
<1> QED
  BY <1>2, <1>7, <1>8, <1>11 DEF Tested

LEMMA SwitchConditionJumps == ASSUME JumpsKept, SwitchCondition PROVE JumpsKept'
<1>1. PICK c : Jumps(enc, todo, c)
  BY DEF JumpsKept
<1>2. PICK body, first, n, a, b, items :
         /\ body = X /\ first = enc.case_label_num /\ n = Len(body)
         /\ a = [i \in DOMAIN body |-> With("test", body[i])]
         /\ b = With("bodies", [body |-> body, first |-> first]) /\ items = a \o <<b>>
  OBVIOUS
<1>3. todo # <<>> /\ Head(todo).do = "switch" /\ todo' = items \o Tail(todo)
  BY <1>2 DEF SwitchCondition, Do, Then
<1>4. body \in Bodies /\ first \in Nat
  <2>1. Typed(Head(todo))
    BY <1>1, <1>3, HeadTyped DEF Jumps, Ordered
  <2>2. enc.case_label_num \in Nat
    BY <1>1 DEF Jumps, LabelsInv, Shape
  <2> QED
    BY <1>2, <1>3, <2>1, <2>2 DEF Typed, X
<1>5. body \in Seq({"case", "default", "stmt"})
  BY <1>4, MipsAssumption
<1>6. PICK R : items \in Seq(R)
  BY <1>2, <1>4, SwitchItems
<1>7. /\ Len(items) = n + 1 /\ n \in Nat /\ items[n + 1] = b
      /\ \A k \in 1..n : items[k].do = "test" /\ items[k].x = body[k]
      /\ \A k \in DOMAIN items :
            Typed(items[k]) /\ (k # n + 1 => items[k].do = "test") /\ items[k].do \in {"test", "bodies"}
  <2>1. Tested(items, body, b)
    BY ONLY <1>2, <1>4, SwitchItems
  <2>2. n \in Nat /\ n = Len(body)
    BY <1>2, <1>5
  <2> QED
    BY ONLY <2>1, <2>2 DEF Tested
<1>8. b.do = "bodies" /\ b.x.body = body /\ b.x.first = first
  BY <1>2 DEF With
<1>9. PICK S : todo \in Seq(S) /\ Tail(todo) \in Seq(S)
  BY <1>1, <1>3, Popped
<1>10. c = first
  BY <1>1, <1>2, <1>3, <1>9, NoCases DEF Jumps, Ordered
<1>11. Shape(enc) /\ LabelsInv(enc, Tail(todo), {}, c)
  <2>1. Owned(Head(todo)) = {}
    BY <1>3, OwnedNone DEF Owners, Ends, Loops
  <2> QED
    BY <1>1, <1>3, <2>1, Popped
<1>12. Same(enc, enc')
  <2>1. Same(enc, Loaded(enc, First)) /\ Shape(Loaded(enc, First))
    BY <1>11, LoadedSame DEF Same, Labels
  <2> QED
    BY <2>1, GotSame, SameTrans DEF SwitchCondition
<1>13. PICK d, size, o : /\ d = enc' /\ size = Cardinality(LabelsOf(body))
                         /\ o = {Label("CASE", k) : k \in c..c + size - 1}
  OBVIOUS
<1>14. size \in Nat
  BY <1>5, <1>13, LabelsFinite
<1>15. LabelsInv(d, Tail(todo), o, c + size)
  <2>1. LabelsInv(d, Tail(todo), {}, c)
    BY <1>11, <1>12, <1>13, SameApart, LabelsApart
  <2> QED
    BY <1>13, <1>14, <2>1, CasesTaken
<1>16. Owned(b) = o /\ Named(b) = {}
  <2>1. Owned(b) = {Label("CASE", k) : k \in first..first + Cardinality(LabelsOf(body)) - 1}
    BY <1>8 DEF Owned, Ends, Loops
  <2>2. Named(b) = {}
    BY <1>8 DEF Named, Loops
  <2> QED
    BY <1>10, <1>13, <2>1, <2>2
<1>17. LabelsInv(d, items \o Tail(todo), {}, c + size)
  <2>1. \A k \in DOMAIN items : k # n + 1 => Owned(items[k]) = {} /\ Named(items[k]) = {}
    <3>1. ASSUME NEW k \in DOMAIN items, k # n + 1 PROVE Owned(items[k]) = {} /\ Named(items[k]) = {}
      <4>1. items[k].do = "test"
        BY <1>7, <3>1
      <4> QED
        BY <4>1, OwnedNone DEF Owners, Ends, Loops
    <3> QED
      BY <3>1
  <2>2. Len(items) > 0 /\ Owned(items[Len(items)]) = o
    BY <1>7, <1>16
  <2>3. \A k \in DOMAIN items : k # Len(items) => Owned(items[k]) = {}
    BY <1>7, <2>1
  <2>4. \A k \in DOMAIN items : Named(items[k]) = {}
    BY <1>7, <1>16, <2>1
  <2> QED
    BY ONLY <1>6, <1>9, <1>15, <2>2, <2>3, <2>4, PushLast
<1>18. Work(d.function, items \o Tail(todo)) /\ Threads(d, items \o Tail(todo)) /\ items \o Tail(todo) # <<>>
  <2>1. \A k \in DOMAIN items : Typed(items[k]) /\ items[k].do \notin Ends \cup {"unit", "endfunction"}
    BY <1>7 DEF Ends, Loops
  <2>2. d.function = enc.function /\ d.label_break = enc.label_break /\ d.label_continue = enc.label_continue
    BY <1>12, <1>13 DEF Same, Labels
  <2>3. Ordered(enc, todo, c) /\ Head(todo).do \in {"switch", "test", "bodies"}
    BY <1>1, <1>3 DEF Jumps
  <2> QED
    BY ONLY <1>3, <1>6, <2>1, <2>2, <2>3, TurnCases
<1>19. Cases(d, items \o Tail(todo), c + size)
  <2>1. d.case_label_num = enc.case_label_num
    BY <1>12, <1>13 DEF Same, Labels
  <2>2. Cases(enc, todo, c) /\ Head(todo).do \notin {"test", "bodies"}
    BY <1>1, <1>3 DEF Jumps, Ordered
  <2>3. items[n + 1].do = "bodies" /\ items[n + 1].x.body = body /\ items[n + 1].x.first = enc.case_label_num
    BY <1>2, <1>7, <1>8
  <2>4. enc.case_label_num \in Nat /\ n = Len(body)
    BY <1>2, <1>4
  <2>5. Cases(d, items \o Tail(todo), c + Cardinality(LabelsOf(body)))
    BY ONLY <1>3, <1>5, <1>6, <1>7, <1>9, <2>1, <2>2, <2>3, <2>4, CasesBegin
  <2> QED
    BY <1>13, <2>5
<1>20. \E z : Jumps(d, items \o Tail(todo), z)
  BY <1>17, <1>18, <1>19 DEF Jumps, Ordered
<1> QED
  BY <1>3, <1>13, <1>18, <1>20 DEF JumpsKept

\* What the encoder of a test is
LEMMA TestKept ==
    ASSUME NEW e, NEW t, NEW c, LabelsInv(e, t, {}, c), NEW l, Safe(e, t, {}, l), l[1] = "CASE",
           NEW r, NEW v, NEW w, NEW d, d = emit_binary_operation(e, r, v, w, "cmp"),
           NEW f, f = Settled(free_rvalue(emit_conditional_branch(d, r, l), r))
    PROVE  /\ LabelsInv(f, t, {}, c) /\ f.function = e.function /\ f.label_break = e.label_break
           /\ f.label_continue = e.label_continue /\ f.case_label_num = e.case_label_num
<1>1. Shape(e)
  BY DEF LabelsInv
<1>2. Calm(e, d) /\ Shape(d)
  BY <1>1, BinaryAlike DEF Alike, Frame
<1>3. LabelsInv(d, t, {}, c) /\ Steady(e, d)
  BY <1>2, LabelsCalmly DEF Steady, Calm
<1>4. Safe(d, t, {}, l)
  BY <1>2 DEF Safe, Calm
<1>5. Carried(e, d, t, {}, c)
  BY <1>3 DEF Carried
<1>6. Carried(e, emit_conditional_branch(d, r, l), t, {}, c)
  BY <1>4, <1>5, CarriedBranch
<1>7. Carried(e, f, t, {}, c)
  BY <1>6, CarriedFree, CarriedGet
<1> QED
  BY <1>7 DEF Carried, Steady

LEMMA SwitchTestJumps == ASSUME JumpsKept, SwitchTest PROVE JumpsKept'
<1>1. PICK c : Jumps(enc, todo, c)
  BY DEF JumpsKept
<1>2. todo # <<>> /\ Head(todo).do = "test" /\ Done
  BY DEF SwitchTest, Do
<1>3. PICK S : todo \in Seq(S) /\ Tail(todo) \in Seq(S)
  BY <1>1, <1>2, Popped
<1>4. Head(todo).x \in {"case", "default", "stmt"} /\ X = Head(todo).x
  BY <1>1, <1>2, HeadTyped DEF Jumps, Ordered, Typed, X
<1>5. Shape(enc) /\ enc.case_label_num \in Nat
  BY <1>1 DEF Jumps, LabelsInv, Shape
<1>6. PICK n, m : n = enc.case_label_num /\ m = IF Head(todo).x = "stmt" THEN n ELSE n + 1
  OBVIOUS
<1>7. /\ \A d : d.case_label_num = m => Cases(d, <<>> \o Tail(todo), c)
      /\ Head(todo).x # "stmt" => \E p \in DOMAIN todo :
            /\ p > 1 /\ todo[p].do = "bodies"
            /\ n \in todo[p].x.first..todo[p].x.first + Cardinality(LabelsOf(todo[p].x.body)) - 1
  <2>1. \A p \in DOMAIN todo : todo[p].do = "bodies" => todo[p].x.first \in Nat /\ \E B : todo[p].x.body \in Seq(B)
    BY <1>1, MipsAssumption DEF Jumps, Ordered, Work, Typed
  <2>2. Cases(enc, todo, c)
    BY <1>1 DEF Jumps, Ordered
  <2>3. PICK e : e = [case_label_num |-> m]
    OBVIOUS
  <2>4. e.case_label_num = IF Head(todo).x = "stmt" THEN enc.case_label_num ELSE enc.case_label_num + 1
    BY <1>6, <2>3
  <2>5. \A d : d.case_label_num = m =>
           d.case_label_num = IF Head(todo).x = "stmt" THEN enc.case_label_num ELSE enc.case_label_num + 1
    BY <1>6
  <2>6. \A d : d.case_label_num = m => Cases(d, <<>> \o Tail(todo), c)
    BY ONLY <1>2, <1>3, <2>1, <2>2, <2>5, CasesTest
  <2> QED
    BY ONLY <1>2, <1>3, <1>6, <2>1, <2>2, <2>4, <2>6, CasesTest
<1>8. PICK d, t : d = enc' /\ t = Tail(todo)
  OBVIOUS
<1>9. LabelsInv(enc, t, {}, c)
  <2>1. Owned(Head(todo)) = {}
    BY <1>2, OwnedNone DEF Owners, Ends, Loops
  <2> QED
    BY <1>1, <1>2, <1>8, <2>1, Popped
<1>10. PICK l : l = Label("CASE", n)
  OBVIOUS
<1>11. Head(todo).x # "stmt" => Safe(enc, t, {}, l)
  <2> SUFFICES ASSUME Head(todo).x # "stmt" PROVE Safe(enc, t, {}, l)
    OBVIOUS
  <2>1. PICK p \in DOMAIN todo :
            /\ p > 1 /\ todo[p].do = "bodies"
            /\ n \in todo[p].x.first..todo[p].x.first + Cardinality(LabelsOf(todo[p].x.body)) - 1
    BY <1>7
  <2>2. l \in Owned(todo[p])
    BY <1>10, <2>1 DEF Owned, Ends, Loops
  <2>3. PICK q : q = p - 1
    OBVIOUS
  <2>4. q \in DOMAIN t /\ t[q] = todo[p]
    BY <1>2, <1>3, <1>8, <2>1, <2>3
  <2> QED
    BY <2>2, <2>4 DEF Safe
<1>12. PICK a, e, r, f :
          /\ a = [enc EXCEPT !.case_label_num = @ + 1] /\ e = get_register(a) /\ r = Reg(e.got, "int")
          /\ f = emit_binary_operation(e, r, First, Const(1, "int"), "cmp")
  OBVIOUS
<1>13. enc' = CASE X = "stmt" -> enc
                [] X = "default" -> a
                [] X = "case" -> Settled(free_rvalue(emit_conditional_branch(f, r, l), r))
  BY <1>6, <1>10, <1>12 DEF SwitchTest
<1>14. /\ Shape(a) /\ Apart(enc, a) /\ a.label_break = enc.label_break /\ a.label_continue = enc.label_continue
       /\ a.case_label_num = n + 1
  BY <1>5, <1>6, <1>12 DEF Shape, Apart
<1>15. LabelsInv(a, t, {}, c)
  BY <1>9, <1>14, LabelsApart
<1>16. Same(a, e) /\ LabelsInv(e, t, {}, c)
  BY <1>12, <1>14, <1>15, GetSame, SameApart, LabelsApart
<1>17. /\ LabelsInv(d, t, {}, c) /\ d.function = enc.function /\ d.label_break = enc.label_break
       /\ d.label_continue = enc.label_continue /\ d.case_label_num = m
  <2>1. CASE X = "stmt"
    BY <2>1, <1>4, <1>6, <1>8, <1>9, <1>13
  <2>2. CASE X = "default"
    BY <2>2, <1>4, <1>6, <1>8, <1>13, <1>14, <1>15 DEF Apart
  <2>3. CASE X = "case"
    <3>1. d = Settled(free_rvalue(emit_conditional_branch(f, r, l), r))
      BY <2>3, <1>8, <1>13
    <3>2. Safe(e, t, {}, l) /\ l[1] = "CASE"
      <4>1. Safe(enc, t, {}, l)
        BY <2>3, <1>4, <1>11
      <4>2. e.declared = enc.declared
        BY <1>14, <1>16 DEF Same, Labels, Apart
      <4> QED
        BY <1>10, <4>1, <4>2 DEF Safe, Label
    <3>3. /\ LabelsInv(d, t, {}, c) /\ d.function = e.function /\ d.label_break = e.label_break
          /\ d.label_continue = e.label_continue /\ d.case_label_num = e.case_label_num
      BY ONLY <1>12, <1>16, <3>1, <3>2, TestKept
    <3>4. /\ e.function = enc.function /\ e.label_break = enc.label_break
          /\ e.label_continue = enc.label_continue /\ e.case_label_num = n + 1
      BY <1>14, <1>16 DEF Same, Labels, Apart
    <3> QED
      BY <2>3, <1>4, <1>6, <3>3, <3>4
  <2> QED
    BY <2>1, <2>2, <2>3, <1>4
<1>18. PICK items, u : items = <<>> /\ u = items \o t
  OBVIOUS
<1>19. u = t /\ todo' = u /\ items \in Seq({}) /\ DOMAIN items = {}
  BY <1>2, <1>3, <1>8, <1>18 DEF Done, Then
<1>20. Work(d.function, u) /\ Threads(d, u) /\ u # <<>>
  <2>1. \A k \in DOMAIN items : Typed(items[k]) /\ items[k].do \notin Ends \cup {"unit", "endfunction"}
    BY <1>19
  <2>2. Ordered(enc, todo, c) /\ Head(todo).do \in {"switch", "test", "bodies"}
    BY <1>1, <1>2 DEF Jumps
  <2>3. d.function = enc.function /\ d.label_break = enc.label_break /\ d.label_continue = enc.label_continue
    BY <1>17
  <2>4. items \in Seq({}) /\ todo # <<>>
    BY <1>2, <1>19
  <2>5. Work(d.function, items \o Tail(todo)) /\ Threads(d, items \o Tail(todo)) /\ items \o Tail(todo) # <<>>
    BY ONLY <2>1, <2>2, <2>3, <2>4, TurnCases
  <2> QED
    BY <1>8, <1>18, <2>5
<1>21. Cases(d, u, c)
  BY <1>7, <1>8, <1>17, <1>18
<1> QED
  BY <1>8, <1>17, <1>19, <1>20, <1>21 DEF JumpsKept, Jumps, Ordered

\* The labels of a body are numbered one after another.
Numbering(num, labels, first, last) ==
    /\ num \in [labels -> first..last]
    /\ \A i, k \in labels : num[i] = num[k] => i = k
    /\ \A n \in first..last : \E i \in labels : num[i] = n

LEMMA BodiesNumbered ==
    ASSUME NEW B, NEW body \in Seq(B), NEW first \in Nat, NEW labels, labels = LabelsOf(body),
           NEW last, last = first + Cardinality(labels) - 1,
           NEW num, num = [i \in labels |-> first + Cardinality({j \in labels : j < i})]
    PROVE  Numbering(num, labels, first, last)
<1>1. /\ labels \subseteq 1..Len(body) /\ IsFiniteSet(labels) /\ Len(body) \in Nat /\ Cardinality(labels) \in Nat
  BY LabelsFinite
<1>2. \A i \in labels : /\ Cardinality({j \in labels : j < i}) \in Nat
                        /\ Cardinality({j \in labels : j < i}) < Cardinality(labels)
  BY LabelsCounted
<1>3. ASSUME NEW i \in labels, NEW k \in labels, i < k
      PROVE  Cardinality({j \in labels : j < i}) < Cardinality({j \in labels : j < k})
  <2>1. PICK P, Q : P = {j \in LabelsOf(body) : j < i} /\ Q = {j \in LabelsOf(body) : j < k}
    OBVIOUS
  <2>2. Cardinality(P) < Cardinality(Q)
    BY <1>3, <2>1, LabelsOrdered
  <2> QED
    BY <2>1, <2>2
<1>4. PICK count : count = [i \in labels |-> Cardinality({j \in labels : j < i})]
  OBVIOUS
<1>5. /\ \A i \in labels : count[i] \in Nat /\ count[i] < Cardinality(labels) /\ num[i] = first + count[i]
      /\ \A i, k \in labels : i < k => count[i] < count[k]
  BY <1>2, <1>3, <1>4
<1>6. PICK size : size = Cardinality(labels) /\ size \in Nat /\ last = first + size - 1
  BY <1>1
<1>7. \A i \in labels : num[i] \in first..last
  BY <1>5, <1>6
<1>8. num \in [labels -> first..last]
  BY <1>7
<1>9. ASSUME NEW i \in labels, NEW k \in labels, num[i] = num[k] PROVE i = k
  <2>1. count[i] = count[k]
    BY <1>5, <1>9
  <2>2. i \in Int /\ k \in Int
    BY <1>1
  <2>3. ~(count[i] < count[k]) /\ ~(count[k] < count[i])
    <3>1. count[i] \in Nat /\ count[k] \in Nat
      BY <1>5
    <3> QED
      BY ONLY <2>1, <3>1
  <2>4. ~(i < k) /\ ~(k < i)
    BY <1>5, <2>3
  <2> QED
    BY <2>2, <2>4
<1>10. num \in Injection(labels, first..last)
  <2>1. \A i, k \in labels : num[i] = num[k] => i = k
    BY <1>9
  <2> QED
    BY <1>8, <2>1 DEF Injection, IsInjective
<1>11. IsFiniteSet(first..last) /\ Cardinality(first..last) = Cardinality(labels)
  <2>1. first \in Int /\ last \in Int
    BY <1>6
  <2>2. IsFiniteSet(first..last) /\ Cardinality(first..last) = IF first > last THEN 0 ELSE last - first + 1
    BY <2>1, FS_Interval
  <2> QED
    BY <1>6, <2>2
<1>12. num \in Surjection(labels, first..last)
  BY <1>10, <1>11, FS_Injection
<1>13. \A n \in first..last : \E i \in labels : num[i] = n
  BY <1>12 DEF Surjection
<1> QED
  BY <1>8, <1>9, <1>13 DEF Numbering

\* What the switch jumps to is the label of a body, or of the end of the switch.
LEMMA SwitchTarget ==
    ASSUME NEW c, Jumps(enc, todo, c), todo # <<>>, Head(todo).do = "bodies",
           NEW l, l = enc.label_break \/ l \in Owned(Head(todo))
    PROVE  Safe(enc, todo, {}, l) /\ l[1] # "FUNCEND"
<1>1. PICK S : todo \in Seq(S)
  BY Popped
<1>2. 1 \in DOMAIN todo /\ Head(todo) = todo[1]
  BY <1>1
<1>3. \E m \in DOMAIN todo : l \in Owned(todo[m])
  <2>1. CASE l \in Owned(Head(todo))
    BY <1>2, <2>1
  <2>2. CASE l = enc.label_break
    <3>1. PICK k \in DOMAIN todo : todo[k].do = "endswitch"
      BY <1>2 DEF Jumps, Ordered, Work
    <3>2. todo[k].do \in Ends
      BY <3>1 DEF Ends
    <3>3. Threaded(todo, Ends, enc.label_break, "break", "old_break")
      BY DEF Jumps, Ordered, Threads
    <3>4. PICK m \in DOMAIN todo : todo[m].do \in Ends /\ enc.label_break = todo[m].x.break
      BY <1>1, <3>2, <3>3, InnermostKnown
    <3> QED
      BY <2>2, <3>4 DEF Owned, Ends, Loops
  <2> QED
    BY <2>1, <2>2
<1>4. Kind(l)
  BY <1>3 DEF Jumps, LabelsInv
<1> QED
  BY <1>3, <1>4, NotFunction DEF Safe

LEMMA SwitchJumpJumps == ASSUME JumpsKept, SwitchJump PROVE JumpsKept'
<1>1. PICK c : Jumps(enc, todo, c)
  BY DEF JumpsKept
<1>2. todo # <<>> /\ Head(todo).do = "bodies"
  BY DEF SwitchJump, Do
<1>3. PICK S : todo \in Seq(S) /\ Tail(todo) \in Seq(S)
  BY <1>1, <1>2, Popped
<1>4. PICK body, first, labels, last, num :
         /\ body = X.body /\ first = X.first /\ labels = LabelsOf(body)
         /\ last = first + Cardinality(labels) - 1
         /\ num = [i \in labels |-> first + Cardinality({j \in labels : j < i})]
  OBVIOUS
<1>5. body \in Seq({"case", "default", "stmt"}) /\ first \in Nat /\ X = Head(todo).x
  BY <1>1, <1>2, <1>4, HeadTyped, MipsAssumption DEF Jumps, Ordered, Typed, X
<1>6. /\ \A i \in labels : num[i] \in first..last
      /\ \A i, k \in labels : num[i] = num[k] => i = k
      /\ \A n \in first..last : \E i \in labels : num[i] = n
  <2>1. Numbering(num, labels, first, last)
    BY ONLY <1>4, <1>5, BodiesNumbered
  <2> QED
    BY ONLY <2>1 DEF Numbering
<1>7. PICK o : o = {Label("CASE", n) : n \in first..last}
  OBVIOUS
<1>8. Owned(Head(todo)) = o
  BY <1>2, <1>4, <1>5, <1>7 DEF Owned, Ends, Loops
<1>9. PICK items : items = [i \in DOMAIN body |-> IF i \in labels THEN With("label", num[i]) ELSE Stmt]
  OBVIOUS
<1>10. /\ \E l : /\ l = enc.label_break \/ l \in o
                 /\ enc' = free_rvalue(emit_unconditional_branch(enc, l), First)
       /\ todo' = items \o Tail(todo)
  <2>1. labels = {i \in DOMAIN X.body : X.body[i] # "stmt"}
    BY <1>4 DEF LabelsOf
  <2>2. \A i \in labels : first + Cardinality({j \in labels : j < i}) = num[i]
    BY <1>4
  <2>3. PICK last_default : last_default \subseteq labels /\
           \E l \in IF {i \in labels : X.body[i] = "default"} = {} THEN {enc.label_break}
                    ELSE {Label("CASE", first + Cardinality({j \in labels : j < i})) : i \in last_default} :
              enc' = free_rvalue(emit_unconditional_branch(enc, l), First)
    BY <1>4, <2>1 DEF SwitchJump
  <2>4. PICK l : /\ \/ l = enc.label_break
                    \/ \E i \in labels : l = Label("CASE", first + Cardinality({j \in labels : j < i}))
                 /\ enc' = free_rvalue(emit_unconditional_branch(enc, l), First)
    BY <2>3
  <2>5. l = enc.label_break \/ l \in o
    <3>1. ASSUME NEW i \in labels, l = Label("CASE", first + Cardinality({j \in labels : j < i})) PROVE l \in o
      <4>1. l = Label("CASE", num[i])
        BY <2>2, <3>1
      <4> QED
        BY <1>6, <1>7, <4>1
    <3> QED
      BY <2>4, <3>1
  <2>6. todo' = [i \in DOMAIN X.body |->
                   IF i \in labels THEN With("label", X.first + Cardinality({j \in labels : j < i})) ELSE Stmt]
                \o Tail(todo)
    BY <2>1 DEF SwitchJump, Then
  <2>7. items = [i \in DOMAIN X.body |->
                   IF i \in labels THEN With("label", X.first + Cardinality({j \in labels : j < i})) ELSE Stmt]
    BY <1>4, <1>9, <2>2
  <2> QED
    BY <2>4, <2>5, <2>6, <2>7
<1>11. PICK l : /\ l = enc.label_break \/ l \in o
                /\ enc' = free_rvalue(emit_unconditional_branch(enc, l), First)
  BY <1>10
<1>12. PICK d, e, t : d = enc' /\ e = emit_unconditional_branch(enc, l) /\ t = Tail(todo)
  OBVIOUS
<1>13. Safe(enc, todo, {}, l) /\ l[1] # "FUNCEND"
  BY <1>1, <1>2, <1>8, <1>11, SwitchTarget
<1>14. Carried(enc, enc, todo, {}, c)
  BY <1>1 DEF Carried, Jumps, Steady
<1>15. Carried(enc, d, todo, {}, c)
  <2>1. Carried(enc, e, todo, {}, c)
    BY <1>12, <1>13, <1>14, CarriedBranch
  <2> QED
    BY <1>11, <1>12, <2>1, CarriedFree
<1>16. LabelsInv(d, t, o, c)
  BY <1>2, <1>3, <1>8, <1>12, <1>15, LabelsPop DEF Carried
<1>17. DOMAIN body = 1..Len(body) /\ Len(body) \in Nat /\ labels \subseteq DOMAIN body
  BY <1>4, <1>5 DEF LabelsOf
<1>18. PICK R : R = {items[i] : i \in DOMAIN body}
  OBVIOUS
<1>19. items \in Seq(R) /\ DOMAIN items = DOMAIN body
  <2>1. items \in [1..Len(body) -> R]
    BY <1>9, <1>17, <1>18
  <2> QED
    BY <1>9, <1>17, <2>1
<1>20. /\ \A k \in labels : items[k] = With("label", num[k])
       /\ \A k \in DOMAIN items : k \notin labels => items[k] = Stmt
  BY <1>9, <1>17
<1>21. /\ \A k \in labels : Owned(items[k]) = {Label("CASE", num[k])} /\ Named(items[k]) = {}
       /\ \A k \in DOMAIN items : k \notin labels => Owned(items[k]) = {} /\ Named(items[k]) = {}
  BY <1>20, OwnedWith
<1>22. \A n, m : Label("CASE", n) = Label("CASE", m) => n = m
  BY DEF Label
<1>23. LabelsInv(d, items \o t, {}, c)
  <2>1. \A k \in DOMAIN items : Owned(items[k]) \subseteq o
    BY <1>6, <1>7, <1>21
  <2>2. \A x \in o : \E k \in DOMAIN items : x \in Owned(items[k])
    <3>1. ASSUME NEW n \in first..last PROVE \E k \in DOMAIN items : Label("CASE", n) \in Owned(items[k])
      <4>1. PICK k \in labels : num[k] = n
        BY <1>6
      <4> QED
        BY <4>1, <1>17, <1>19, <1>21
    <3> QED
      BY <1>7, <3>1
  <2>3. \A k, m \in DOMAIN items : k # m => Owned(items[k]) \cap Owned(items[m]) = {}
    BY <1>6, <1>21, <1>22
  <2>4. d.ok => \A k \in DOMAIN items : \A x \in Named(items[k]) : Reached(d, t, o, x)
    BY <1>21
  <2>5. t \in Seq(S) /\ items \in Seq(R)
    BY <1>3, <1>12, <1>19
  <2> QED
    BY ONLY <1>16, <2>1, <2>2, <2>3, <2>4, <2>5, LabelsPush
<1>24. \A k \in DOMAIN items : items[k].do \in {"label", "stmt"} /\ Typed(items[k])
  <2>1. Stmt.do = "stmt" /\ \A n : With("label", n).do = "label"
    BY DEF Stmt, Item, With
  <2>2. \A k \in DOMAIN items : items[k].do \in {"label", "stmt"}
    BY <1>20, <2>1
  <2> QED
    BY <2>2 DEF Typed, Ends, Loops
<1>25. Work(d.function, items \o t) /\ Threads(d, items \o t) /\ items \o t # <<>>
  <2>1. \A k \in DOMAIN items : Typed(items[k]) /\ items[k].do \notin Ends \cup {"unit", "endfunction"}
    BY <1>24 DEF Ends, Loops
  <2>2. Ordered(enc, todo, c) /\ Head(todo).do \in {"switch", "test", "bodies"}
    BY <1>1, <1>2 DEF Jumps
  <2>3. d.function = enc.function /\ d.label_break = enc.label_break /\ d.label_continue = enc.label_continue
    BY <1>15 DEF Carried, Steady
  <2> QED
    BY ONLY <1>2, <1>12, <1>19, <2>1, <2>2, <2>3, TurnCases
<1>26. Cases(d, items \o t, c)
  <2>1. d.case_label_num = enc.case_label_num
    BY <1>15 DEF Carried, Steady
  <2>2. Cases(enc, todo, c) /\ Head(todo).x.body \in Seq({"case", "default", "stmt"})
    BY <1>1, <1>4, <1>5 DEF Jumps, Ordered
  <2>3. \A k \in DOMAIN items : items[k].do \notin {"test", "bodies"}
    BY <1>24
  <2> QED
    BY ONLY <1>2, <1>3, <1>12, <1>19, <2>1, <2>2, <2>3, CasesEnd
<1> QED
  BY <1>10, <1>12, <1>23, <1>25, <1>26, Onward DEF Ordered

-----------------------------------------------------------------------------
(* Functions *)

\* The functions that are declared are counted by their labels.
LEMMA FunctionsCounted ==
    ASSUME NEW D, NEW n \in Nat, \A g \in 1..n : Label("FUNC", g) \in D,
           \A l \in D : l[1] = "FUNC" => \E g \in 1..n : l = Label("FUNC", g),
           NEW C, \A l : l \in C <=> l \in D /\ l[1] = "FUNC"
    PROVE  Cardinality(C) = n
<1>1. \A g : Label("FUNC", g)[1] = "FUNC" /\ Label("FUNC", g)[2] = g
  BY DEF Label
<1>2. PICK F : F = [g \in 1..n |-> Label("FUNC", g)]
  OBVIOUS
<1>3. F \in [1..n -> C]
  BY <1>1, <1>2
<1>4. F \in Injection(1..n, C)
  <2>1. \A g, h \in 1..n : F[g] = F[h] => g = h
    BY <1>1, <1>2
  <2> QED
    BY <1>3, <2>1 DEF Injection, IsInjective
<1>5. F \in Surjection(1..n, C)
  <2>1. \A l \in C : \E g \in 1..n : F[g] = l
    BY <1>2
  <2> QED
    BY <1>3, <2>1 DEF Surjection
<1>6. IsFiniteSet(1..n) /\ Cardinality(1..n) = n
  <2>1. n \in Nat /\ n \in Int /\ 1 \in Int
    OBVIOUS
  <2>2. IsFiniteSet(1..n) /\ Cardinality(1..n) = IF 1 > n THEN 0 ELSE n - 1 + 1
    BY ONLY <2>1, FS_Interval
  <2> QED
    BY ONLY <2>1, <2>2
<1>7. Cardinality(C) = Cardinality(1..n)
  BY <1>4, <1>5, <1>6, FS_Surjection
<1> QED
  BY <1>6, <1>7

\* The next function is entered, or the one that is emitted is left.
LEMMA FunctionEntered ==
    ASSUME NEW e, NEW t, NEW c, LabelsInv(e, t, {}, c), e.function = 0,
           NEW C, \A l : l \in C <=> l \in e.declared /\ l[1] = "FUNC",
           NEW f, f = Cardinality(C) + 1, f \in DOMAIN Functions,
           NEW d, Shape(d), d.ok => e.ok, d.function = f, d.label_num = e.label_num, d.used = e.used,
           d.declared = e.declared \cup {Label("FUNC", f)}, d.twice = (e.twice \/ Label("FUNC", f) \in e.declared)
    PROVE  LabelsInv(d, t, {}, c)
<1>1. PICK n \in 0..Len(Functions) :
          /\ e.function \in 0..n
          /\ \A g \in 1..n : Label("FUNC", g) \in e.declared
          /\ \A l \in e.declared : l[1] = "FUNC" => \E g \in 1..n : l = Label("FUNC", g)
          /\ \A l \in e.declared : l[1] = "FUNCEND" => \E g \in 1..n : g # e.function /\ l = Label("FUNCEND", g)
  BY DEF LabelsInv, FunctionsInv
<1>2. n \in Nat /\ DOMAIN Functions = 1..Len(Functions) /\ Len(Functions) \in Nat
  BY MipsAssumption
<1>3. f = n + 1
  BY <1>1, <1>2, FunctionsCounted
<1>4. PICK l : l = Label("FUNC", f)
  OBVIOUS
<1>5. l[1] = "FUNC" /\ l[2] = f /\ l[1] \notin Numbered /\ l[1] # "CASE"
  BY <1>4 DEF Label, Numbered
<1>6. l \notin e.declared
  <2>1. \A g : Label("FUNC", g)[2] = g
    BY DEF Label
  <2>2. f \notin 1..n
    BY <1>2, <1>3
  <2> QED
    BY <1>1, <1>5, <2>1, <2>2
<1>7. d.declared = e.declared \cup {l} /\ ~d.twice
  BY <1>4, <1>6 DEF LabelsInv
<1>8. FunctionsInv(d)
  <2>1. f \in 0..Len(Functions) /\ f # 0 /\ \A g \in 1..f : g \in 1..n \/ g = f
    <3>1. \A g \in 1..f : g \in 1..n \/ g = f
      BY ONLY <1>2, <1>3
    <3>2. f \in 1..Len(Functions)
      BY <1>2
    <3>3. f \in 0..Len(Functions) /\ f # 0
      BY ONLY <1>2, <3>2
    <3> QED
      BY ONLY <3>1, <3>3
  <2>2. \A g \in 1..n : g \in 1..f /\ g # f
    BY <1>2, <1>3
  <2>3. \A g \in 1..f : Label("FUNC", g) \in d.declared
    BY <1>1, <1>4, <1>7, <2>1
  <2>4. f \in 1..f /\ f \in 0..f
    BY <1>2, <1>3
  <2>5. \A m \in d.declared : m[1] = "FUNC" => \E g \in 1..f : m = Label("FUNC", g)
    BY <1>1, <1>4, <1>7, <2>2, <2>4
  <2>6. \A m \in d.declared : m[1] = "FUNCEND" => \E g \in 1..f : g # d.function /\ m = Label("FUNCEND", g)
    BY <1>1, <1>5, <1>7, <2>2
  <2>7. /\ \A m \in d.used : m[1] = "FUNCEND" => m \in d.declared
        /\ \A p \in Pieces : StringLabel(p[1], p[2]) \in d.declared
    BY <1>7 DEF LabelsInv, FunctionsInv
  <2> QED
    BY <2>1, <2>3, <2>4, <2>5, <2>6, <2>7 DEF FunctionsInv
<1>9. \A m : Safe(e, t, {}, m) => Safe(d, t, {}, m)
  BY <1>7 DEF Safe
<1>10. \A m \in d.declared : Old(m, d.label_num, c)
  BY <1>5, <1>7 DEF LabelsInv, Old
<1>11. \A k \in DOMAIN t : \A m \in Owned(t[k]) : Kind(m) /\ Old(m, d.label_num, c) /\ m \notin d.declared /\ m \notin {}
  <2>1. ~Kind(l)
    BY <1>5 DEF Kind
  <2> QED
    BY <1>7, <2>1 DEF LabelsInv
<1>12. d.ok => /\ \A m \in d.used : Safe(d, t, {}, m)
               /\ \A k \in DOMAIN t : \A m \in Named(t[k]) : Reached(d, t, {}, m)
  BY <1>9 DEF LabelsInv, Reached
<1> QED
  BY <1>7, <1>8, <1>10, <1>11, <1>12 DEF LabelsInv

LEMMA FunctionLeft ==
    ASSUME NEW e, NEW t, NEW c, LabelsInv(e, t, {}, c), e.function # 0, NEW l, l = Label("FUNCEND", e.function),
           NEW d, Shape(d), d.ok => e.ok, d.function = 0, d.label_num = e.label_num, d.used = e.used,
           d.declared = e.declared \cup {l}, d.twice = (e.twice \/ l \in e.declared)
    PROVE  LabelsInv(d, t, {}, c)
<1>1. PICK n \in 0..Len(Functions) :
          /\ e.function \in 0..n
          /\ \A g \in 1..n : Label("FUNC", g) \in e.declared
          /\ \A m \in e.declared : m[1] = "FUNC" => \E g \in 1..n : m = Label("FUNC", g)
          /\ \A m \in e.declared : m[1] = "FUNCEND" => \E g \in 1..n : g # e.function /\ m = Label("FUNCEND", g)
  BY DEF LabelsInv, FunctionsInv
<1>2. n \in Nat /\ e.function \in 1..n
  BY <1>1, MipsAssumption
<1>3. l[1] = "FUNCEND" /\ l[1] \notin Numbered /\ l[1] # "CASE" /\ l[1] # "FUNC"
  BY DEF Label, Numbered
<1>4. l \notin e.declared
  <2>1. \A g : Label("FUNCEND", g)[2] = g
    BY DEF Label
  <2> QED
    BY <1>1, <1>3, <2>1
<1>5. ~d.twice
  BY <1>4 DEF LabelsInv
<1>6. FunctionsInv(d)
  <2>1. d.function \in 0..n
    BY <1>2
  <2>2. \A m \in d.declared : m[1] = "FUNC" => \E g \in 1..n : m = Label("FUNC", g)
    BY <1>1, <1>3
  <2>3. \A m \in d.declared : m[1] = "FUNCEND" => \E g \in 1..n : g # d.function /\ m = Label("FUNCEND", g)
    <3>1. \A g \in 1..n : g # d.function
      BY <1>2
    <3> QED
      BY <1>1, <1>2, <3>1
  <2>4. /\ \A m \in d.used : m[1] = "FUNCEND" => m \in d.declared
        /\ \A p \in Pieces : StringLabel(p[1], p[2]) \in d.declared
    BY DEF LabelsInv, FunctionsInv
  <2> QED
    BY <1>1, <2>1, <2>2, <2>3, <2>4 DEF FunctionsInv
<1>7. \A m : Safe(e, t, {}, m) => Safe(d, t, {}, m)
  BY DEF Safe
<1>8. \A m \in d.declared : Old(m, d.label_num, c)
  BY <1>3 DEF LabelsInv, Old
<1>9. \A k \in DOMAIN t : \A m \in Owned(t[k]) : Kind(m) /\ Old(m, d.label_num, c) /\ m \notin d.declared /\ m \notin {}
  <2>1. ~Kind(l)
    BY <1>3 DEF Kind
  <2> QED
    BY <2>1 DEF LabelsInv
<1>10. d.ok => /\ \A m \in d.used : Safe(d, t, {}, m)
               /\ \A k \in DOMAIN t : \A m \in Named(t[k]) : Reached(d, t, {}, m)
  BY <1>7 DEF LabelsInv, Reached
<1> QED
  BY <1>5, <1>6, <1>8, <1>9, <1>10 DEF LabelsInv

\* The head is the unit or the end of the function.
LEMMA TurnUnit ==
    ASSUME NEW c, Jumps(enc, todo, c), todo # <<>>, Head(todo).do \in {"unit", "endfunction"},
           NEW R, NEW items \in Seq(R),
           \A k \in DOMAIN items : /\ items[k].do \notin Owners \cup {"test", "leave"}
                                   /\ Owned(items[k]) = {} /\ Named(items[k]) = {},
           NEW d, LabelsInv(d, Tail(todo), {}, c), Work(d.function, items \o Tail(todo)),
           d.label_break = enc.label_break, d.label_continue = enc.label_continue,
           d.case_label_num = enc.case_label_num
    PROVE  Jumps(d, items \o Tail(todo), c)
<1>1. PICK S : todo \in Seq(S) /\ Tail(todo) \in Seq(S)
  BY Popped
<1>2. LabelsInv(d, items \o Tail(todo), {}, c)
  <2>1. \A k \in DOMAIN items : Owned(items[k]) = {} /\ Named(items[k]) = {}
    OBVIOUS
  <2> QED
    BY <1>1, <2>1, PushNone
<1>3. Threads(d, items \o Tail(todo))
  <2>1. \A k \in DOMAIN items : items[k].do \notin Ends /\ items[k].do \notin Loops
    BY DEF Owners, Ends
  <2>2. Head(todo).do \notin Ends /\ Head(todo).do \notin Loops
    BY DEF Ends, Loops
  <2>3. Threaded(items \o Tail(todo), Ends, enc.label_break, "break", "old_break")
    BY <1>1, <2>1, <2>2, ThreadStep DEF Jumps, Ordered, Threads
  <2>4. Threaded(items \o Tail(todo), Loops, enc.label_continue, "continue", "old_continue")
    BY <1>1, <2>1, <2>2, ThreadStep DEF Jumps, Ordered, Threads
  <2> QED
    BY <2>3, <2>4 DEF Threads
<1>4. Cases(d, items \o Tail(todo), c)
  <2>1. \A k \in DOMAIN items : items[k].do \notin {"test", "bodies"}
    BY DEF Owners
  <2> QED
    BY <1>1, <2>1, CasesStep DEF Jumps, Ordered
<1> QED
  BY <1>2, <1>3, <1>4 DEF Jumps, Ordered

LEMMA UnitOwnsNone ==
    ASSUME NEW c, Jumps(enc, todo, c), todo # <<>>, Head(todo).do \in {"unit", "endfunction"}
    PROVE  LabelsInv(enc, Tail(todo), {}, c)
<1>1. Owned(Head(todo)) = {}
  BY OwnedNone DEF Owners, Ends, Loops
<1> QED
  BY <1>1, Popped

\* What a function leaves to do
LEMMA FunctionWork ==
    ASSUME NEW x, NEW a, NEW b, NEW s, s = <<x, x>> \/ s = <<>>, NEW items, items = s \o <<a, b>>
    PROVE  items \in Seq({x, a, b}) /\ \A k \in DOMAIN items : items[k] \in {x, a, b}
<1>1. PICK S : S = {x, a, b}
  OBVIOUS
<1>2. s \in Seq(S) /\ <<a, b>> \in Seq(S)
  <2>1. <<x, x>> \in Seq(S) /\ <<>> \in Seq(S) /\ <<a, b>> \in Seq(S)
    BY ONLY <1>1
  <2>2. s \in Seq(S)
    BY ONLY <2>1, s = <<x, x>> \/ s = <<>>
  <2> QED
    BY ONLY <2>1, <2>2
<1>3. items \in Seq(S)
  BY <1>2
<1> QED
  BY <1>1, <1>3

LEMMA BeginFunctionJumps == ASSUME JumpsKept, BeginFunction PROVE JumpsKept'
<1>1. PICK c : Jumps(enc, todo, c)
  BY DEF JumpsKept
<1>2. PICK f, d, a, b, s :
         /\ f = Cardinality({l \in enc.declared : l[1] = "FUNC"}) + 1
         /\ d = emit_label_declaration(enc, Label("FUNC", f))
         /\ a = With("endfunction", enc.visible) /\ b = Item("unit")
         /\ s = IF f <= MaxBodies THEN <<Stmt, Stmt>> ELSE <<>>
  OBVIOUS
<1>3. PICK v : v = enc.visible \cup {Parameter(Functions[f], i) : i \in DOMAIN Functions[f]}
  OBVIOUS
<1>4. /\ f \in DOMAIN Functions
      /\ enc' = [d EXCEPT !.function = f, !.max_displ = 0, !.scope_displ = 0, !.visible = v]
      /\ todo' = (s \o <<a, b>>) \o Tail(todo)
      /\ todo # <<>> /\ Head(todo).do = "unit"
  <2>1. enc' = [d EXCEPT !.function = f, !.max_displ = 0, !.scope_displ = 0,
                         !.visible = @ \cup {Parameter(Functions[f], i) : i \in DOMAIN Functions[f]}]
    BY <1>2 DEF BeginFunction
  <2>2. d.visible = enc.visible
    BY <1>1, <1>2 DEF Jumps, LabelsInv, Shape, emit_label_declaration
  <2> QED
    BY <1>2, <1>3, <2>1, <2>2 DEF BeginFunction, Then, Do
<1>5. enc.function = 0 /\ Tail(todo) = <<>>
  BY <1>1, <1>4, UnitLast DEF Jumps, Ordered
<1>6. PICK items : items = s \o <<a, b>>
  OBVIOUS
<1>7. items \in Seq({Stmt, a, b}) /\ \A k \in DOMAIN items : items[k] \in {Stmt, a, b}
  BY <1>2, <1>6, FunctionWork
<1>8. a.do = "endfunction" /\ b.do = "unit" /\ Stmt.do = "stmt"
  BY <1>2 DEF With, Item, Stmt
<1>9. /\ Shape(d) /\ (d.ok => enc.ok) /\ d.label_num = enc.label_num /\ d.used = enc.used
      /\ d.declared = enc.declared \cup {Label("FUNC", f)}
      /\ d.twice = (enc.twice \/ Label("FUNC", f) \in enc.declared)
      /\ d.label_break = enc.label_break /\ d.label_continue = enc.label_continue
      /\ d.case_label_num = enc.case_label_num
  BY <1>1, <1>2 DEF Jumps, LabelsInv, Shape, emit_label_declaration
<1>10. /\ Shape(enc') /\ (enc'.ok => enc.ok) /\ enc'.function = f
       /\ enc'.label_num = enc.label_num /\ enc'.used = enc.used
       /\ enc'.declared = enc.declared \cup {Label("FUNC", f)}
       /\ enc'.twice = (enc.twice \/ Label("FUNC", f) \in enc.declared)
       /\ enc'.label_break = enc.label_break /\ enc'.label_continue = enc.label_continue
       /\ enc'.case_label_num = enc.case_label_num
  BY <1>4, <1>9 DEF Shape
<1>11. LabelsInv(enc, Tail(todo), {}, c)
  BY <1>1, <1>4, UnitOwnsNone
<1>12. LabelsInv(enc', Tail(todo), {}, c)
  <2>1. PICK C : C = {l \in enc.declared : l[1] = "FUNC"}
    OBVIOUS
  <2>2. f = Cardinality(C) + 1 /\ \A l : l \in C <=> l \in enc.declared /\ l[1] = "FUNC"
    BY ONLY <1>2, <2>1
  <2>3. f \in DOMAIN Functions
    BY ONLY <1>4
  <2> QED
    BY ONLY <1>5, <1>10, <1>11, <2>2, <2>3, FunctionEntered
<1>13. todo' = items \o Tail(todo) /\ (todo' = <<a, b>> \/ todo' = <<Stmt, Stmt, a, b>>)
  BY <1>2, <1>4, <1>5, <1>6, FunctionItems
<1>14. f # 0
  BY <1>4, MipsAssumption
<1>15. Work(enc'.function, todo')
  BY <1>8, <1>10, <1>13, <1>14, WorkFunction
<1>16. \A k \in DOMAIN items : /\ items[k].do \notin Owners \cup {"test", "leave"}
                               /\ Owned(items[k]) = {} /\ Named(items[k]) = {}
  <2>1. \A k \in DOMAIN items : items[k].do \in {"stmt", "endfunction", "unit"}
    BY <1>7, <1>8
  <2>2. \A w \in {"stmt", "endfunction", "unit"} :
           w \notin Owners \cup {"test", "leave"} /\ w \notin {"ternaryelse", "else", "leave"} \cup Loops
    BY DEF Owners, Ends, Loops
  <2> QED
    BY <2>1, <2>2, OwnedNone
<1>17. Work(enc'.function, items \o Tail(todo))
  BY <1>13, <1>15
<1>18. Jumps(enc', items \o Tail(todo), c)
  BY ONLY <1>1, <1>4, <1>7, <1>10, <1>12, <1>16, <1>17, TurnUnit
<1>19. todo' # <<>>
  <2>1. \E k \in DOMAIN todo' : TRUE
    BY <1>10, <1>14, <1>15 DEF Work
  <2> QED
    BY <2>1
<1> QED
  BY <1>13, <1>18, <1>19 DEF JumpsKept

LEMMA EndFunctionJumps == ASSUME JumpsKept, EndFunction PROVE JumpsKept'
<1>1. PICK c : Jumps(enc, todo, c)
  BY DEF JumpsKept
<1>2. todo # <<>> /\ Head(todo).do = "endfunction" /\ todo' = <<>> \o Tail(todo)
  BY DEF EndFunction, Do, Done, Then
<1>3. enc.function # 0 /\ Work(0, Tail(todo)) /\ Tail(todo) # <<>>
  BY <1>1, <1>2, FunctionLast DEF Jumps, Ordered
<1>4. PICK S : todo \in Seq(S) /\ Tail(todo) \in Seq(S)
  BY <1>1, <1>2, Popped
<1>5. todo' = Tail(todo)
  BY <1>2, <1>4
<1>6. PICK l, d, v : l = Label("FUNCEND", enc.function) /\ d = emit_label_declaration(enc, l) /\ v = X
  OBVIOUS
<1>7. enc' = [d EXCEPT !.function = 0, !.visible = v]
  BY <1>6 DEF EndFunction
<1>8. /\ Shape(d) /\ (d.ok => enc.ok) /\ d.label_num = enc.label_num /\ d.used = enc.used
      /\ d.declared = enc.declared \cup {l} /\ d.twice = (enc.twice \/ l \in enc.declared)
      /\ d.label_break = enc.label_break /\ d.label_continue = enc.label_continue
      /\ d.case_label_num = enc.case_label_num
  BY <1>1, <1>6 DEF Jumps, LabelsInv, Shape, emit_label_declaration
<1>9. /\ Shape(enc') /\ (enc'.ok => enc.ok) /\ enc'.function = 0
      /\ enc'.label_num = enc.label_num /\ enc'.used = enc.used
      /\ enc'.declared = enc.declared \cup {l} /\ enc'.twice = (enc.twice \/ l \in enc.declared)
      /\ enc'.label_break = enc.label_break /\ enc'.label_continue = enc.label_continue
      /\ enc'.case_label_num = enc.case_label_num
  BY <1>7, <1>8 DEF Shape
<1>10. LabelsInv(enc, Tail(todo), {}, c)
  BY <1>1, <1>2, UnitOwnsNone
<1>11. LabelsInv(enc', Tail(todo), {}, c)
  BY ONLY <1>3, <1>6, <1>9, <1>10, FunctionLeft
<1>12. PICK items : items = <<>>
  OBVIOUS
<1>13. items \in Seq({}) /\ DOMAIN items = {} /\ items \o Tail(todo) = todo'
  BY <1>2, <1>12
<1>14. Work(enc'.function, items \o Tail(todo))
  BY <1>3, <1>5, <1>9, <1>13
<1>15. Jumps(enc', items \o Tail(todo), c)
  BY ONLY <1>1, <1>2, <1>9, <1>11, <1>13, <1>14, TurnUnit
<1> QED
  BY <1>3, <1>5, <1>13, <1>15 DEF JumpsKept

LEMMA GlobalDeclarationJumps == ASSUME JumpsKept, GlobalDeclaration PROVE JumpsKept'
<1>1. PICK c : Jumps(enc, todo, c)
  BY DEF JumpsKept
<1>2. PICK a, b : a = Item("declare") /\ b = Item("unit")
  OBVIOUS
<1>3. todo # <<>> /\ Head(todo).do = "unit" /\ enc' = enc /\ todo' = <<a, b>> \o Tail(todo)
  BY <1>2 DEF GlobalDeclaration, Do, Then
<1>4. enc.function = 0 /\ Tail(todo) = <<>>
  BY <1>1, <1>3, UnitLast DEF Jumps, Ordered
<1>5. PICK items : items = <<a, b>>
  OBVIOUS
<1>6. items \in Seq({a, b}) /\ \A k \in DOMAIN items : items[k] \in {a, b}
  BY <1>5
<1>7. \A k \in DOMAIN items : /\ items[k].do \notin Owners \cup {"test", "leave"}
                              /\ Owned(items[k]) = {} /\ Named(items[k]) = {}
  <2>1. \A k \in DOMAIN items : items[k].do \in {"declare", "unit"}
    BY <1>2, <1>6 DEF Item
  <2>2. \A w \in {"declare", "unit"} :
           w \notin Owners \cup {"test", "leave"} /\ w \notin {"ternaryelse", "else", "leave"} \cup Loops
    BY DEF Owners, Ends, Loops
  <2> QED
    BY <2>1, <2>2, OwnedNone
<1>8. todo' = items \o Tail(todo) /\ todo' = items
  <2>1. todo' = items \o Tail(todo)
    BY ONLY <1>3, <1>5
  <2>2. items \o <<>> = items
    BY ONLY <1>6
  <2> QED
    BY ONLY <1>4, <2>1, <2>2
<1>9. Work(enc'.function, items \o Tail(todo))
  BY <1>2, <1>3, <1>4, <1>5, <1>8, WorkGlobal
<1>10. LabelsInv(enc', Tail(todo), {}, c)
  BY <1>1, <1>3, UnitOwnsNone
<1>11. Jumps(enc', items \o Tail(todo), c)
  <2>1. /\ enc'.label_break = enc.label_break /\ enc'.label_continue = enc.label_continue
        /\ enc'.case_label_num = enc.case_label_num
    BY <1>3
  <2> QED
    BY ONLY <1>1, <1>3, <1>6, <1>7, <1>9, <1>10, <2>1, TurnUnit
<1>12. todo' # <<>>
  BY <1>5, <1>8
<1> QED
  BY <1>8, <1>11, <1>12 DEF JumpsKept

LEMMA EndUnitJumps == ASSUME JumpsKept, EndUnit PROVE JumpsKept'
<1>1. PICK c : Jumps(enc, todo, c)
  BY DEF JumpsKept
<1>2. /\ todo # <<>> /\ Head(todo).do = "unit" /\ enc' = enc /\ enc.ok /\ todo' = <<>> \o Tail(todo)
      /\ \A f \in DOMAIN Functions : Label("FUNC", f) \in enc.declared
  BY DEF EndUnit, Do, Done, Then
<1>3. enc.function = 0 /\ Tail(todo) = <<>>
  BY <1>1, <1>2, UnitLast DEF Jumps, Ordered
<1>4. PICK items : items = <<>>
  OBVIOUS
<1>5. items \in Seq({}) /\ DOMAIN items = {} /\ items \o Tail(todo) = todo' /\ todo' = <<>>
  BY <1>2, <1>3, <1>4
<1>6. Work(enc'.function, items \o Tail(todo))
  BY <1>2, <1>3, <1>5, WorkNone
<1>7. LabelsInv(enc', Tail(todo), {}, c)
  BY <1>1, <1>2, UnitOwnsNone
<1>8. Jumps(enc', items \o Tail(todo), c)
  <2>1. /\ enc'.label_break = enc.label_break /\ enc'.label_continue = enc.label_continue
        /\ enc'.case_label_num = enc.case_label_num
    BY <1>2
  <2> QED
    BY ONLY <1>1, <1>2, <1>5, <1>6, <1>7, <2>1, TurnUnit
<1> QED
  BY <1>2, <1>5, <1>8 DEF JumpsKept

-----------------------------------------------------------------------------
(* Every jump has one label to go to *)

\* The pieces of the strings have labels of their own.
LEMMA StringsApart ==
    ASSUME NEW p \in Pieces, NEW q \in Pieces, StringLabel(p[1], p[2]) = StringLabel(q[1], q[2])
    PROVE  p = q
<1>1. PICK n : n = Len(Strings)
  OBVIOUS
<1>2. n \in Nat /\ DOMAIN Strings = 1..n
  BY <1>1, MipsAssumption
<1>3. /\ p[1] \in 1..n /\ p[2] \in Nat /\ p = <<p[1], p[2]>>
      /\ q[1] \in 1..n /\ q[2] \in Nat /\ q = <<q[1], q[2]>>
  <2>1. ASSUME NEW r \in Pieces PROVE r[1] \in 1..n /\ r[2] \in Nat /\ r = <<r[1], r[2]>>
    <3>1. PICK s \in DOMAIN Strings : r \in {s} \X (0..Strings[s])
      BY DEF Pieces
    <3>2. 0..Strings[s] \subseteq Nat
      BY MipsAssumption
    <3> QED
      BY <1>2, <3>1, <3>2
  <2> QED
    BY <2>1
<1>4. (p[1] - 1) + p[2] * n = (q[1] - 1) + q[2] * n
  BY <1>1 DEF StringLabel, Label
<1>5. PICK a, b, i, j : a = p[1] - 1 /\ b = q[1] - 1 /\ i = p[2] /\ j = q[2]
  OBVIOUS
<1>6. a \in 0..n - 1 /\ b \in 0..n - 1 /\ i \in Nat /\ j \in Nat /\ a + i * n = b + j * n
  BY ONLY <1>2, <1>3, <1>4, <1>5
<1>7. i = j
  <2>1. ASSUME NEW x \in Nat, NEW y \in Nat, NEW u \in 0..n - 1, NEW v \in 0..n - 1, x < y
        PROVE  u + x * n < v + y * n
    <3>1. x * n \in Int /\ y * n \in Int
      BY ONLY <1>2, x \in Nat, y \in Nat
    <3>2. (x + 1) * n <= y * n
      <4>1. x + 1 <= y /\ x + 1 \in Nat
        BY ONLY <2>1
      <4>2. PICK z : z = y - (x + 1)
        OBVIOUS
      <4>3. z \in Nat /\ y = z + (x + 1)
        BY ONLY <4>1, <4>2, y \in Nat, x \in Nat
      <4>4. y * n = z * n + (x + 1) * n
        BY ONLY <1>2, <4>1, <4>3
      <4>5. z * n \in Nat /\ (x + 1) * n \in Int
        BY ONLY <1>2, <4>1, <4>3
      <4> QED
        BY ONLY <3>1, <4>4, <4>5
    <3>3. (x + 1) * n = x * n + n
      BY ONLY <1>2, x \in Nat
    <3> QED
      BY ONLY <1>2, <3>1, <3>2, <3>3, u \in 0..n - 1, v \in 0..n - 1
  <2>2. ~(i < j) /\ ~(j < i)
    <3>1. a + i * n \in Int /\ b + j * n \in Int
      BY ONLY <1>2, <1>6
    <3> QED
      BY <1>6, <2>1, <3>1
  <2> QED
    BY ONLY <1>6, <2>2
<1>8. a = b
  <2>1. i * n \in Int
    BY ONLY <1>2, <1>6
  <2> QED
    BY ONLY <1>6, <1>7, <2>1
<1>9. p[1] = q[1] /\ p[2] = q[2]
  BY ONLY <1>3, <1>5, <1>7, <1>8
<1> QED
  BY ONLY <1>3, <1>9

LEMMA JumpsInit == Init => JumpsKept
<1>1. ASSUME Init PROVE JumpsKept
  <2>1. PICK D : D = {StringLabel(p[1], p[2]) : p \in Pieces}
    OBVIOUS
  <2>2. /\ Shape(enc) /\ enc.function = 0 /\ enc.label_num = 1 /\ enc.case_label_num = 1
        /\ enc.label_break = NoLabel /\ enc.label_continue = NoLabel
        /\ enc.used = {} /\ enc.declared = D /\ todo = <<Item("unit")>>
        /\ enc.twice = \E p, q \in Pieces : p # q /\ StringLabel(p[1], p[2]) = StringLabel(q[1], q[2])
    BY <1>1, <2>1 DEF Init, strings_declaration, Shape
  <2>3. ~enc.twice
    BY <2>2, StringsApart
  <2>4. Item("unit").do = "unit" /\ Typed(Item("unit"))
    BY DEF Item, Typed, Ends, Loops
  <2>5. /\ todo \in Seq({Item("unit")}) /\ Len(todo) = 1 /\ \A k \in DOMAIN todo : k = 1 /\ todo[k] = Item("unit")
        /\ todo # <<>>
    BY <2>2
  <2>6. \A k \in DOMAIN todo : todo[k].do = "unit"
    BY <2>4, <2>5
  <2>7. Work(0, todo)
    BY <2>4, <2>5 DEF Work, InFunction, Ends, Loops, Saves
  <2>8. Threads(enc, todo)
    <3>1. \A k \in DOMAIN todo : todo[k].do \notin Ends /\ todo[k].do \notin Loops
      BY <2>6 DEF Ends, Loops
    <3> QED
      BY <2>2, <3>1 DEF Threads, Threaded, Nexts
  <2>9. Cases(enc, todo, 1)
    BY <2>2, <2>6 DEF Cases
  <2>10. \A l \in D : l[1] = "STRING"
    BY <2>1 DEF StringLabel, Label
  <2>11. FunctionsInv(enc)
    <3>1. 0 \in 0..Len(Functions) /\ 0 \in 0..0 /\ 1..0 = {}
      BY MipsAssumption
    <3> QED
      BY <2>1, <2>2, <2>10, <3>1 DEF FunctionsInv
  <2>12. \A k \in DOMAIN todo : Owned(todo[k]) = {} /\ Named(todo[k]) = {}
    <3>1. "unit" \notin Owners /\ "unit" \notin {"ternaryelse", "else", "leave"} \cup Loops
      BY DEF Owners, Ends, Loops
    <3> QED
      BY <2>6, <3>1, OwnedNone
  <2>13. LabelsInv(enc, todo, {}, 1)
    <3>1. \A l \in enc.declared : Old(l, enc.label_num, 1)
      BY <2>2, <2>10 DEF Old, Numbered
    <3> QED
      BY <2>2, <2>3, <2>11, <2>12, <3>1 DEF LabelsInv
  <2>14. Jumps(enc, todo, 1)
    BY <2>2, <2>7, <2>8, <2>9, <2>13 DEF Jumps, Ordered
  <2> QED
    BY <2>5, <2>14 DEF JumpsKept
<1> QED
  BY <1>1

LEMMA QuietJumps == ASSUME JumpsKept, Quiet PROVE JumpsKept'
  BY SmoothJumps DEF Quiet

LEMMA JumpsNext == JumpsKept /\ [Next]_vars => JumpsKept'
<1> SUFFICES ASSUME JumpsKept, [Next]_vars PROVE JumpsKept'
  OBVIOUS
<1>0. Shape(enc) /\ Work(enc.function, todo)
  BY DEF JumpsKept, Jumps, LabelsInv, Ordered
<1>1. CASE NextLvalue
  BY <1>0, <1>1, LvaluesQuiet, QuietJumps
<1>2. CASE NextExpression
  <2>1. CASE Quiet
    BY <2>1, QuietJumps
  <2> QED
    BY <1>0, <1>2, <2>1, ExpressionsQuiet, LogicalBranchJumps, EndLogicalJumps, TernaryBranchJumps,
       TernaryElseJumps, EndTernaryJumps
<1>3. CASE NextDeclaration
  <2>1. CASE Quiet
    BY <2>1, QuietJumps
  <2>2. CASE \E type \in Types, initialised \in BOOLEAN : emit_variable_declaration(type, initialised)
    BY <2>2, VariableJumps
  <2>3. CASE \E dim \in 1..2, initialised \in BOOLEAN : emit_array_declaration(dim, initialised)
    BY <2>3, ArrayJumps
  <2> QED
    BY <1>0, <1>3, <2>1, <2>2, <2>3, DeclarationsQuiet, BeginFunctionJumps, EndFunctionJumps,
       GlobalDeclarationJumps, EndUnitJumps
<1>4. CASE NextStatement
  <2>1. CASE Quiet
    BY <2>1, QuietJumps
  <2>2. CASE BeginCompound \/ EndCompound
    BY <2>2, BeginCompoundJumps, EndCompoundJumps
  <2>3. CASE IfBranch \/ IfElse \/ EndIf \/ DoCondition
    BY <2>3, IfBranchJumps, IfElseJumps, EndIfJumps
  <2>4. CASE BeginSwitch \/ SwitchCondition \/ SwitchTest \/ SwitchJump \/ LabelStatement \/ EndSwitch
    BY <2>4, BeginSwitchJumps, SwitchConditionJumps, SwitchTestJumps, SwitchJumpJumps, LabelStatementJumps,
       EndSwitchJumps
  <2>5. CASE BeginWhile \/ LeaveBranch \/ EndWhile \/ BeginDo \/ EndDo \/ EndFor
    BY <2>5, BeginWhileJumps, LeaveBranchJumps, EndWhileJumps, BeginDoJumps, EndDoJumps, EndForJumps
  <2>6. CASE \E has_inition \in BOOLEAN : BeginFor(has_inition)
    BY <2>6, BeginForJumps
  <2>7. CASE \E has_condition, has_increment \in BOOLEAN : EnterFor(has_condition, has_increment)
    BY <2>7, EnterForJumps
  <2>8. CASE emit_continue_statement \/ emit_break_statement \/ EndReturn
    BY <2>8, ContinueJumps, BreakJumps, EndReturnJumps
  <2> QED
    BY <1>0, <1>4, <2>1, <2>2, <2>3, <2>4, <2>5, <2>6, <2>7, <2>8, StatementsQuiet
<1>5. CASE UNCHANGED vars
  BY <1>5 DEF vars, JumpsKept
<1> QED
  BY <1>1, <1>2, <1>3, <1>4, <1>5 DEF Next

\* The first end on the stack is that of the innermost statement.
LEMMA InnermostFirst ==
    ASSUME NEW S, todo \in Seq(S), NEW ends, NEW v, NEW new, Nexts(todo, ends, 0, v, new)
    PROVE  /\ \A s \in InnermostOf(ends) : v = s[new]
           /\ ~Inside(ends) => v = NoLabel
<1>1. DOMAIN todo \subseteq Nat \ {0}
  OBVIOUS
<1>2. CASE v = NoLabel /\ \A k \in DOMAIN todo : k > 0 => todo[k].do \notin ends
  <2>1. ~Inside(ends)
    BY <1>1, <1>2 DEF Inside
  <2> QED
    BY <1>2, <2>1 DEF InnermostOf
<1>3. ASSUME NEW k \in DOMAIN todo, todo[k].do \in ends, v = todo[k].x[new],
             \A m \in DOMAIN todo : 0 < m /\ m < k => todo[m].do \notin ends
      PROVE  InnermostOf(ends) = {todo[k].x} /\ Inside(ends)
  <2>1. PICK E : E = {i \in DOMAIN todo : todo[i].do \in ends}
    OBVIOUS
  <2>2. k \in E /\ k \in Nat /\ \A m \in E : m \in Nat /\ k <= m
    BY <1>1, <1>3, <2>1
  <2>3. Min(E) = k
    <3>1. ASSUME NEW x \in E, \A y \in E : x =< y PROVE x = k
      <4>1. x \in Nat /\ x =< k /\ k <= x
        BY ONLY <2>2, <3>1
      <4> QED
        BY ONLY <2>2, <4>1
    <3>2. \A y \in E : k =< y
      BY ONLY <2>2
    <3> QED
      BY ONLY <2>2, <3>1, <3>2 DEF Min
  <2>4. Inside(ends)
    BY <1>3 DEF Inside
  <2> QED
    BY <2>1, <2>3, <2>4 DEF InnermostOf
<1> QED
  BY <1>2, <1>3 DEF Nexts

LEMMA JumpsLand == JumpsKept => JumpTargets
<1> SUFFICES ASSUME JumpsKept PROVE JumpTargets
  OBVIOUS
<1>1. PICK c : Jumps(enc, todo, c)
  BY DEF JumpsKept
<1>2. ~enc.twice
  BY <1>1 DEF Jumps, LabelsInv
<1>3. ASSUME todo = <<>>, NEW l \in enc.used PROVE l \in enc.declared \/ l = Label("error", 0)
  <2>1. DOMAIN todo = {}
    BY <1>3
  <2>2. enc.ok /\ \A f \in DOMAIN Functions : Label("FUNC", f) \in enc.declared
    BY <1>3 DEF JumpsKept
  <2>3. Safe(enc, todo, {}, l) /\ FunctionsInv(enc)
    BY <1>1, <1>3, <2>2 DEF Jumps, LabelsInv
  <2>4. enc.function = 0
    BY <1>1, <2>1 DEF Jumps, Ordered, Work
  <2>5. CASE l[1] = "FUNCEND"
    BY <1>3, <2>3, <2>4, <2>5 DEF FunctionsInv
  <2>6. CASE Library(l)
    BY <2>2, <2>3, <2>6 DEF Library, FunctionsInv
  <2> QED
    BY <2>1, <2>3, <2>5, <2>6 DEF Safe
<1>4. PICK S : todo \in Seq(S)
  BY <1>1 DEF Jumps, Ordered, Work
<1>5. /\ Nexts(todo, Loops \cup {"endswitch"}, 0, enc.label_break, "break")
      /\ Nexts(todo, Loops, 0, enc.label_continue, "continue")
  BY <1>1 DEF Jumps, Ordered, Threads, Threaded, Ends
<1>6. /\ \A s \in InnermostOf(Loops \cup {"endswitch"}) : enc.label_break = s["break"]
      /\ ~Inside(Loops \cup {"endswitch"}) => enc.label_break = NoLabel
  BY <1>4, <1>5, InnermostFirst
<1>7. /\ \A s \in InnermostOf(Loops) : enc.label_continue = s["continue"]
      /\ ~Inside(Loops) => enc.label_continue = NoLabel
  BY <1>4, <1>5, InnermostFirst
<1>8. Inside(Loops) => Inside(Loops \cup {"endswitch"})
  BY DEF Inside
<1> QED
  BY <1>2, <1>3, <1>6, <1>7, <1>8 DEF JumpTargets

\* Whatever the program, no label is declared twice, every label that is jumped to is
\* declared in the end, and label_break and label_continue are those of the innermost loop
\* or switch (emit_label_declaration and the branches of emit_statement, emit_expression,
\* emit_function_definition and strings_declaration).
THEOREM JumpsHaveTargets == Spec => []JumpTargets
<1>1. Spec => []JumpsKept
  BY JumpsInit, JumpsNext, PTL DEF Spec
<1> QED
  BY <1>1, JumpsLand, PTL
=============================================================================
