----------------------------- MODULE LlvmProofs -----------------------------
(***************************************************************************)
(* What is proved about the LLVM generator, for any program: the state of  *)
(* the stack is restored only from a place where the function has saved    *)
(* it, and no place is used twice.                                         *)
(***************************************************************************)
EXTENDS Llvm, SequenceTheorems, TLAPS

\* Two encoders that agree on the places of the stack.
Shape(i) == {"slots", "was_dynamic", "block_num", "faults", "arrays"} \subseteq DOMAIN i
Alike(i, j) ==
    /\ Shape(j)
    /\ j.slots = i.slots /\ j.was_dynamic = i.was_dynamic /\ j.block_num = i.block_num
    /\ "slot" \in j.faults => "slot" \in i.faults
    /\ \A a \in j.arrays : a \in i.arrays \/ a.dimensions \in Nat

LEMMA AlikeTrans ==
    ASSUME NEW i, NEW j, NEW k, Alike(i, j), Alike(j, k) PROVE Alike(i, k)
  BY DEF Alike

LEMMA AlikeSame == ASSUME NEW i, Shape(i) PROVE Alike(i, i)
  BY DEF Alike

-----------------------------------------------------------------------------
(* Instructions that do not move the stack *)

LEMMA FaultAlike ==
    ASSUME NEW i, Shape(i), NEW refused, NEW what, what # "slot"
    PROVE  Alike(i, Fault(i, refused, what))
  BY DEF Alike, Shape, Fault

LEMMA AdvanceAlike == ASSUME NEW i, Shape(i) PROVE Alike(i, Advance(i))
  BY DEF Alike, Shape, Advance

LEMMA ReadsAlike == ASSUME NEW i, Shape(i), NEW regs PROVE Alike(i, Reads(i, regs))
  BY FaultAlike DEF Reads

LEMMA DefineAlike == ASSUME NEW i, Shape(i), NEW regs PROVE Alike(i, Define(i, regs))
<1>1. PICK j : j = Reads(i, regs)
  OBVIOUS
<1>2. PICK k : k = [j EXCEPT !.defined = @ \cup {i.register_num}]
  OBVIOUS
<1>3. Alike(i, j)
  BY <1>1, ReadsAlike
<1>4. Alike(i, k)
  BY <1>2, <1>3 DEF Alike, Shape
<1>5. Define(i, regs) = Fault(k, i.register_num \in i.defined, "redefined")
  BY <1>1, <1>2 DEF Define
<1> QED
  BY <1>4, <1>5, FaultAlike, AlikeTrans DEF Alike

LEMMA NextAlike == ASSUME NEW i, Shape(i), NEW regs PROVE Alike(i, Advance(Define(i, regs)))
  BY DefineAlike, AdvanceAlike, AlikeTrans DEF Alike

LEMMA OperationsAlike ==
    ASSUME NEW i, Shape(i), NEW a, NEW b, NEW c
    PROVE  /\ Alike(i, to_code_operation_reg_reg(i, a, b))
           /\ Alike(i, to_code_operation_reg_const_integer(i, a))
           /\ Alike(i, to_code_operation_const_reg_integer(i, a))
           /\ Alike(i, to_code_operation_reg_null(i, a))
           /\ Alike(i, to_code_operation_null_reg(i, a))
           /\ Alike(i, to_code_char_to_int(i, a))
           /\ Alike(i, to_code_load(i, a))
           /\ Alike(i, to_code_store_reg(i, a, b))
           /\ Alike(i, to_code_store_const_integer(i, a))
           /\ Alike(i, Answer(i, a))
           /\ Alike(i, at(i, a))
           /\ Alike(i, to_code_slice(i, a, b, c))
           /\ Alike(i, to_code_alloc_array_dynamic(i, a))
           /\ Alike(i, TakeLabels(i, a))
<1>1. Alike(i, Answer(i, a)) /\ Alike(i, at(i, a)) /\ Alike(i, TakeLabels(i, a))
  BY DEF Answer, at, TakeLabels, Alike, Shape
<1>2. /\ Alike(i, to_code_operation_reg_reg(i, a, b))
      /\ Alike(i, to_code_operation_reg_const_integer(i, a))
      /\ Alike(i, to_code_operation_const_reg_integer(i, a))
      /\ Alike(i, to_code_operation_reg_null(i, a))
      /\ Alike(i, to_code_operation_null_reg(i, a))
      /\ Alike(i, to_code_char_to_int(i, a))
      /\ Alike(i, to_code_load(i, a))
      /\ Alike(i, to_code_slice(i, a, b, c))
  BY NextAlike DEF to_code_operation_reg_reg, to_code_operation_reg_const_integer, to_code_operation_const_reg_integer,
     to_code_operation_reg_null, to_code_operation_null_reg, to_code_char_to_int, to_code_load, to_code_slice
<1>3. /\ Alike(i, to_code_store_reg(i, a, b))
      /\ Alike(i, to_code_store_const_integer(i, a))
      /\ Alike(i, to_code_alloc_array_dynamic(i, a))
  BY ReadsAlike, NextAlike DEF to_code_store_reg, to_code_store_const_integer, to_code_alloc_array_dynamic,
     to_code_operation_reg_reg
<1> QED
  BY <1>1, <1>2, <1>3

LEMMA AnsweredAlike == ASSUME NEW i, Shape(i) PROVE Alike(i, Answered(i))
  BY ReadsAlike, FaultAlike, AlikeTrans DEF Answered, Alike

LEMMA LabelAlike == ASSUME NEW i, Shape(i), NEW label PROVE Alike(i, to_code_label(i, label))
<1>1. PICK j : j = Fault(Fault(i, label \in i.declared, "twice"), i.block # Dead, "open")
  OBVIOUS
<1>2. Alike(i, j)
  BY <1>1, FaultAlike, AlikeTrans DEF Alike
<1>3. to_code_label(i, label) = [j EXCEPT !.declared = @ \cup {label}, !.block = label]
  BY <1>1 DEF to_code_label
<1> QED
  BY <1>2, <1>3 DEF Alike, Shape

LEMMA LeaveAlike == ASSUME NEW i, Shape(i), NEW labels PROVE Alike(i, Leave(i, labels))
  BY DEF Leave, Alike, Shape

LEMMA BranchAlike == ASSUME NEW i, Shape(i), NEW label PROVE Alike(i, to_code_unconditional_branch(i, label))
  BY LeaveAlike DEF to_code_unconditional_branch

LEMMA ConditionalAlike == ASSUME NEW i, Shape(i) PROVE Alike(i, to_code_conditional_branch(i))
  BY LeaveAlike, ReadsAlike, AlikeTrans DEF to_code_conditional_branch, Alike

LEMMA LabelledAlike == ASSUME NEW i, Shape(i), NEW label PROVE Alike(i, Labelled(i, label))
  BY LabelAlike, BranchAlike, AlikeTrans DEF Labelled, Alike

LEMMA CheckAlike == ASSUME NEW i, Shape(i) PROVE Alike(i, check_type_and_branch(i))
<1>1. PICK test : test = IF i.kind = "AREG" THEN Answer(to_code_operation_reg_const_integer(i, i.reg), "AREG") ELSE i
  OBVIOUS
<1>2. Alike(i, test)
  <2>1. PICK k : k = to_code_operation_reg_const_integer(i, i.reg)
    OBVIOUS
  <2>2. Alike(i, k)
    BY <2>1, OperationsAlike
  <2>3. Alike(k, Answer(k, "AREG"))
    BY <2>2, OperationsAlike, ZenonT(40) DEF Alike
  <2> QED
    BY <1>1, <2>1, <2>2, <2>3, AlikeSame, AlikeTrans
<1>3. Alike(i, to_code_unconditional_branch(test, i.label_false)) /\ Alike(i, to_code_conditional_branch(test))
  BY <1>2, BranchAlike, ConditionalAlike, AlikeTrans DEF Alike
<1>4. /\ Alike(i, to_code_unconditional_branch(i, IF i.const THEN i.label_true ELSE i.label_false))
      /\ Alike(i, i)
  BY BranchAlike, AlikeSame
<1> QED
  BY <1>1, <1>3, <1>4 DEF check_type_and_branch

LEMMA MemberAlike == ASSUME NEW i, Shape(i), NEW is_complex PROVE Alike(i, Member(i, is_complex))
<1>1. PICK field : field = Advance(Define(i, IF is_complex THEN {Newest(i)} ELSE {}))
  OBVIOUS
<1>2. Alike(i, field)
  BY <1>1, NextAlike
<1>3. Alike(field, [field EXCEPT !.reg = Newest(field)])
  BY <1>2 DEF Alike, Shape
<1>4. PICK k : k = to_code_load(field, {Newest(field)})
  OBVIOUS
<1>5. Alike(field, k)
  BY <1>2, <1>4, OperationsAlike, ZenonT(40) DEF Alike
<1>6. Alike(k, Answer(k, "AREG"))
  BY <1>5, OperationsAlike, ZenonT(40) DEF Alike
<1> QED
  BY <1>1, <1>2, <1>3, <1>4, <1>5, <1>6, AlikeTrans DEF Member

LEMMA InitializerAlike == ASSUME NEW i, Shape(i) PROVE Alike(i, Initializer(i))
<1>1. PICK j : j = Advance(Define(i, {Newest(i)}))
  OBVIOUS
<1>2. Alike(i, j)
  BY <1>1, NextAlike
<1>3. Alike(j, Advance(Define(j, {Newest(i)})))
  BY <1>2, NextAlike DEF Alike
<1> QED
  BY <1>1, <1>2, <1>3, AlikeTrans DEF Initializer

LEMMA RestoreAlike ==
    ASSUME NEW i, Shape(i), NEW old, NEW a, NEW b
    PROVE  /\ Alike(i, Restore(i, old)) /\ Alike(i, Conditional(i, a, b)) /\ Alike(i, Loop(i, a, b))
           /\ Alike(i, Return(i)) /\ Alike(i, AbsUsed(i))
<1>1. Alike(i, Restore(i, old)) /\ Alike(i, Return(i)) /\ Alike(i, AbsUsed(i))
  BY DEF Restore, Return, AbsUsed, Alike, Shape
<1>2. Alike(i, Conditional(i, a, b)) /\ Alike(i, Loop(i, a, b))
  BY DEF Conditional, Loop, Alike, Shape
<1> QED
  BY <1>1, <1>2

-----------------------------------------------------------------------------
(* What is left to do *)

Request(e) == DOMAIN e = {"do", "type", "of", "cond", "inner"} /\ e.do = "expr"

\* Work that neither begins a function nor ends a block, nor declares a global variable.
Plain(item) ==
    /\ item.do \notin {"function", "block", "global"}
    /\ item.do = "cases" => item.x \in Bodies
    /\ item.do = "dynamic" => item.x \in 1..2
    /\ item.do = "right" => Request(item.x)
    /\ item.do = "logical" => Request(item.x.right)
PlainSeq(items) == (\E S : items \in Seq(S)) /\ \A k \in DOMAIN items : Plain(items[k])

LEMMA PlainTuples ==
    ASSUME NEW a, NEW b, NEW c, NEW d, NEW e, NEW f
    PROVE  /\ PlainSeq(<<>>)
           /\ Plain(a) => PlainSeq(<<a>>)
           /\ Plain(a) /\ Plain(b) => PlainSeq(<<a, b>>)
           /\ Plain(a) /\ Plain(b) /\ Plain(c) => PlainSeq(<<a, b, c>>)
           /\ Plain(a) /\ Plain(b) /\ Plain(c) /\ Plain(d) => PlainSeq(<<a, b, c, d>>)
           /\ Plain(a) /\ Plain(b) /\ Plain(c) /\ Plain(d) /\ Plain(e) /\ Plain(f) => PlainSeq(<<a, b, c, d, e, f>>)
<1>1. PlainSeq(<<>>)
  <2>1. <<>> \in Seq({})
    OBVIOUS
  <2> QED
    BY <2>1 DEF PlainSeq
<1>2. Plain(a) => PlainSeq(<<a>>)
  <2>1. PICK s : s = <<a>>
    OBVIOUS
  <2>2. s \in Seq({a}) /\ DOMAIN s = 1..1 /\ s[1] = a
    BY <2>1
  <2>3. \A k \in 1..1 : k = 1
    OBVIOUS
  <2> QED
    BY <2>1, <2>2, <2>3 DEF PlainSeq
<1>3. Plain(a) /\ Plain(b) => PlainSeq(<<a, b>>)
  <2>1. PICK s : s = <<a, b>>
    OBVIOUS
  <2>2. s \in Seq({a, b}) /\ DOMAIN s = 1..2 /\ s[1] = a /\ s[2] = b
    BY <2>1
  <2>3. \A k \in 1..2 : k = 1 \/ k = 2
    OBVIOUS
  <2> QED
    BY <2>1, <2>2, <2>3 DEF PlainSeq
<1>4. Plain(a) /\ Plain(b) /\ Plain(c) => PlainSeq(<<a, b, c>>)
  <2>1. PICK s : s = <<a, b, c>>
    OBVIOUS
  <2>2. s \in Seq({a, b, c}) /\ DOMAIN s = 1..3 /\ s[1] = a /\ s[2] = b /\ s[3] = c
    BY <2>1
  <2>3. \A k \in 1..3 : k = 1 \/ k = 2 \/ k = 3
    OBVIOUS
  <2> QED
    BY <2>1, <2>2, <2>3 DEF PlainSeq
<1>5. Plain(a) /\ Plain(b) /\ Plain(c) /\ Plain(d) => PlainSeq(<<a, b, c, d>>)
  <2>1. PICK s : s = <<a, b, c, d>>
    OBVIOUS
  <2>2. s \in Seq({a, b, c, d}) /\ DOMAIN s = 1..4 /\ s[1] = a /\ s[2] = b /\ s[3] = c /\ s[4] = d
    BY <2>1
  <2>3. \A k \in 1..4 : k = 1 \/ k = 2 \/ k = 3 \/ k = 4
    OBVIOUS
  <2> QED
    BY <2>1, <2>2, <2>3 DEF PlainSeq
<1>6. Plain(a) /\ Plain(b) /\ Plain(c) /\ Plain(d) /\ Plain(e) /\ Plain(f) => PlainSeq(<<a, b, c, d, e, f>>)
  <2>1. PICK s : s = <<a, b, c, d, e, f>>
    OBVIOUS
  <2>2. s \in Seq({a, b, c, d, e, f}) /\ DOMAIN s = 1..6 /\ s[1] = a /\ s[2] = b /\ s[3] = c /\ s[4] = d /\ s[5] = e /\ s[6] = f
    BY <2>1
  <2>3. \A k \in 1..6 : k = 1 \/ k = 2 \/ k = 3 \/ k = 4 \/ k = 5 \/ k = 6
    OBVIOUS
  <2> QED
    BY <2>1, <2>2, <2>3 DEF PlainSeq
<1> QED
  BY <1>1, <1>2, <1>3, <1>4, <1>5, <1>6

LEMMA SeqUnion ==
    ASSUME NEW S, NEW R, NEW s \in Seq(S), NEW r \in Seq(R)
    PROVE  /\ s \o r \in Seq(S \cup R)
           /\ Len(s) \in Nat /\ Len(r) \in Nat /\ Len(s \o r) = Len(s) + Len(r)
           /\ \A k \in 1..Len(s) : (s \o r)[k] = s[k]
           /\ \A k \in 1..Len(r) : (s \o r)[Len(s) + k] = r[k]
           /\ \A k \in DOMAIN (s \o r) : k \in 1..Len(s) \/ k - Len(s) \in 1..Len(r)
<1>1. s \in Seq(S \cup R) /\ r \in Seq(S \cup R)
  OBVIOUS
<1> QED
  BY <1>1

LEMMA PartOfConcat ==
    ASSUME NEW S, NEW R, NEW s \in Seq(S), NEW r \in Seq(R), NEW u, u = s \o r, NEW k \in DOMAIN u
    PROVE  (\E n \in DOMAIN s : u[k] = s[n]) \/ \E n \in DOMAIN r : u[k] = r[n]
<1>1. /\ k \in 1..Len(s) \/ k - Len(s) \in 1..Len(r)
      /\ \A n \in 1..Len(s) : u[n] = s[n]
      /\ \A n \in 1..Len(r) : u[Len(s) + n] = r[n]
      /\ Len(s) \in Nat /\ DOMAIN u \subseteq Int
  BY SeqUnion
<1>2. CASE k \in 1..Len(s)
  BY <1>1, <1>2
<1>3. CASE k - Len(s) \in 1..Len(r)
  <2>1. Len(s) + (k - Len(s)) = k
    BY <1>1
  <2> QED
    BY <1>1, <1>3, <2>1
<1> QED
  BY <1>1, <1>2, <1>3

LEMMA PlainConcat ==
    ASSUME NEW s, NEW r, PlainSeq(s), PlainSeq(r) PROVE PlainSeq(s \o r)
<1>1. PICK S : s \in Seq(S)
  BY DEF PlainSeq
<1>2. PICK R : r \in Seq(R)
  BY DEF PlainSeq
<1>3. /\ s \o r \in Seq(S \cup R)
      /\ \A k \in 1..Len(s) : (s \o r)[k] = s[k]
      /\ \A k \in 1..Len(r) : (s \o r)[Len(s) + k] = r[k]
      /\ \A k \in DOMAIN (s \o r) : k \in 1..Len(s) \/ k - Len(s) \in 1..Len(r)
      /\ Len(s) \in Nat /\ Len(s \o r) \in Nat
  BY <1>1, <1>2, SeqUnion
<1>4. ASSUME NEW k \in DOMAIN (s \o r) PROVE Plain((s \o r)[k])
  <2>1. CASE k \in 1..Len(s)
    BY <2>1, <1>1, <1>3 DEF PlainSeq
  <2>2. CASE k - Len(s) \in 1..Len(r)
    <3>1. (s \o r)[Len(s) + (k - Len(s))] = r[k - Len(s)]
      BY <2>2, <1>3
    <3>2. Len(s) + (k - Len(s)) = k
      BY <1>3
    <3> QED
      BY <3>1, <3>2, <2>2, <1>2 DEF PlainSeq
  <2> QED
    BY <2>1, <2>2, <1>3
<1> QED
  BY <1>3, <1>4 DEF PlainSeq

LEMMA PlainFunction ==
    ASSUME NEW n \in Nat, NEW s, s = [k \in 1..n |-> s[k]], \A k \in 1..n : Plain(s[k])
    PROVE  PlainSeq(s)
<1>1. PICK S : S = {s[k] : k \in 1..n}
  OBVIOUS
<1>2. s \in [1..n -> S]
  BY <1>1
<1>3. s \in Seq(S)
  BY <1>2, IsASeq
<1> QED
  BY <1>3 DEF PlainSeq

\* An item that is left: a block has its place, unless it is the body of a function.
Placed(item, slots) ==
    /\ item.do = "block" =>
          /\ item.x \in [num: Nat, is_function_body: BOOLEAN, empty: BOOLEAN]
          /\ ~item.x.is_function_body => item.x.num \in slots
    /\ item.do = "global" => item.x \in {"scalar", "list", "table"}
    /\ item.do = "cases" => item.x \in Bodies
    /\ item.do = "dynamic" => item.x \in 1..2
    /\ item.do = "right" => Request(item.x)
    /\ item.do = "logical" => Request(item.x.right)

\* Blocks of a function end before another function begins.
TodoInv(t, slots) ==
    /\ \E S : t \in Seq(S)
    /\ \A k \in DOMAIN t : Placed(t[k], slots)
    /\ \A k, n \in DOMAIN t : k < n /\ t[k].do = "function" => t[n].do # "block"

\* The places of blocks are numbers that were handed out, -1 is that of the function.
EncoderInv(i) ==
    /\ Shape(i)
    /\ i.block_num \in Nat
    /\ \A n \in i.slots : n = -1 \/ (n \in Nat /\ n < i.block_num)
    /\ i.was_dynamic => -1 \in i.slots
    /\ -1 \in i.slots => i.was_dynamic
    /\ "slot" \notin i.faults
    /\ \A a \in i.arrays : a.dimensions \in Nat

SlotsInv == EncoderInv(info) /\ TodoInv(todo, info.slots)

LEMMA AlikeInv == ASSUME NEW i, NEW j, EncoderInv(i), Alike(i, j) PROVE EncoderInv(j)
  BY DEF EncoderInv, Alike

\* The head is replaced by items that begin no function; places are lost only with a function.
LEMMA TodoReplaced ==
    ASSUME NEW t, NEW slots, TodoInv(t, slots), t # <<>>,
           NEW R, NEW items \in Seq(R), NEW more,
           \A k \in DOMAIN items : Placed(items[k], more) /\ items[k].do # "function",
           \/ \A n \in slots : n \in more
           \/ Head(t).do = "function"
    PROVE  TodoInv(items \o Tail(t), more)
<1>1. PICK S : t \in Seq(S)
  BY DEF TodoInv
<1>3. PICK r : r = Tail(t)
  OBVIOUS
<1>4. r \in Seq(S) /\ Len(r) = Len(t) - 1 /\ Len(t) \in Nat /\ \A k \in 1..Len(r) : r[k] = t[k + 1]
  BY <1>1, <1>3
<1>5. PICK u : u = items \o r
  OBVIOUS
<1>6. /\ u \in Seq(R \cup S)
      /\ \A k \in 1..Len(items) : u[k] = items[k]
      /\ \A k \in 1..Len(r) : u[Len(items) + k] = r[k]
      /\ \A k \in DOMAIN u : k \in 1..Len(items) \/ k - Len(items) \in 1..Len(r)
      /\ Len(items) \in Nat
  BY <1>4, <1>5, SeqUnion
<1>7. ASSUME NEW k \in DOMAIN u
      PROVE  \/ k \in DOMAIN items /\ u[k] = items[k]
             \/ k - Len(items) + 1 \in DOMAIN t /\ k - Len(items) + 1 > 1 /\ u[k] = t[k - Len(items) + 1]
  <2>1. CASE k \in 1..Len(items)
    BY <2>1, <1>6
  <2>2. CASE k - Len(items) \in 1..Len(r)
    <3>1. u[Len(items) + (k - Len(items))] = r[k - Len(items)]
      BY <2>2, <1>6
    <3>2. Len(items) + (k - Len(items)) = k /\ k \in Int
      BY <1>6
    <3>3. r[k - Len(items)] = t[k - Len(items) + 1] /\ k - Len(items) + 1 \in 1..Len(t) /\ k - Len(items) + 1 > 1
      BY <2>2, <1>4
    <3> QED
      BY <3>1, <3>2, <3>3, <1>1
  <2> QED
    BY <2>1, <2>2, <1>6
<1>8. ASSUME NEW k \in DOMAIN t, k > 1 PROVE Placed(t[k], more)
  <2>1. CASE \A n \in slots : n \in more
    BY <2>1 DEF TodoInv, Placed
  <2>2. CASE Head(t).do = "function"
    <3>1. 1 \in DOMAIN t /\ t[1].do = "function"
      BY <2>2, <1>1
    <3>2. t[k].do # "block"
      BY <3>1, <1>8 DEF TodoInv
    <3> QED
      BY <3>2 DEF TodoInv, Placed
  <2> QED
    BY <2>1, <2>2
<1>9. \A k \in DOMAIN u : Placed(u[k], more)
  BY <1>7, <1>8
<1>10. ASSUME NEW k \in DOMAIN u, NEW n \in DOMAIN u, k < n, u[k].do = "function"
       PROVE  u[n].do # "block"
  <2>1. k \in Nat /\ n \in Nat
    BY <1>6
  <2>2. k - Len(items) + 1 \in DOMAIN t /\ u[k] = t[k - Len(items) + 1] /\ k - Len(items) + 1 > 1
    BY <1>7, <1>10
  <2>3. n \notin DOMAIN items
    BY <2>1, <2>2, <1>6, <1>10
  <2>4. n - Len(items) + 1 \in DOMAIN t /\ u[n] = t[n - Len(items) + 1]
    BY <2>3, <1>7
  <2>5. k - Len(items) + 1 < n - Len(items) + 1
    BY <2>1, <1>6, <1>10
  <2> QED
    BY <2>2, <2>4, <2>5, <1>10 DEF TodoInv
<1> QED
  BY <1>3, <1>5, <1>6, <1>9, <1>10 DEF TodoInv

LEMMA PlainReplaced ==
    ASSUME NEW t, NEW slots, TodoInv(t, slots), t # <<>>, NEW items, PlainSeq(items),
           NEW more, \A n \in slots : n \in more
    PROVE  TodoInv(items \o Tail(t), more)
<1>1. PICK R : items \in Seq(R)
  BY DEF PlainSeq
<1>2. \A k \in DOMAIN items : Placed(items[k], more) /\ items[k].do # "function"
  BY DEF PlainSeq, Plain, Placed
<1> QED
  BY <1>1, <1>2, TodoReplaced

LEMMA TwoReplaced ==
    ASSUME NEW t, NEW slots, TodoInv(t, slots), t # <<>>, NEW more,
           NEW a, Placed(a, more), a.do # "function", NEW b, Placed(b, more), b.do # "function",
           \/ \A n \in slots : n \in more
           \/ Head(t).do = "function"
    PROVE  TodoInv(<<b>> \o Tail(t), more) /\ TodoInv(<<a, b>> \o Tail(t), more)
<1>1. PICK s : s = <<b>>
  OBVIOUS
<1>2. s \in Seq({b}) /\ \A k \in DOMAIN s : s[k] = b
  BY <1>1
<1>3. TodoInv(s \o Tail(t), more)
  BY <1>2, TodoReplaced
<1>4. PICK r : r = <<a, b>>
  OBVIOUS
<1>5. r \in Seq({a, b}) /\ \A k \in DOMAIN r : r[k] = a \/ r[k] = b
  BY <1>4
<1>6. TodoInv(r \o Tail(t), more)
  BY <1>5, TodoReplaced
<1> QED
  BY <1>1, <1>3, <1>4, <1>6

-----------------------------------------------------------------------------
(* One instruction after another *)

\* A field that is none of those of the stack.
LEMMA FieldKept ==
    ASSUME NEW b, NEW i, Alike(b, i), NEW field, field \notin {"slots", "was_dynamic", "block_num", "faults", "arrays"}, NEW v
    PROVE  Alike(b, [i EXCEPT ![field] = v])
  BY DEF Alike, Shape

LEMMA OperationKept ==
    ASSUME NEW b, NEW i, Alike(b, i), NEW x, NEW y PROVE Alike(b, to_code_operation_reg_reg(i, x, y))
<1>1. Shape(i)
  BY DEF Alike
<1>2. Alike(i, to_code_operation_reg_reg(i, x, y))
  BY <1>1, OperationsAlike
<1> QED
  BY <1>2, AlikeTrans

LEMMA OperationConstKept ==
    ASSUME NEW b, NEW i, Alike(b, i), NEW x PROVE Alike(b, to_code_operation_reg_const_integer(i, x))
<1>1. Shape(i)
  BY DEF Alike
<1>2. Alike(i, to_code_operation_reg_const_integer(i, x))
  BY <1>1, OperationsAlike
<1> QED
  BY <1>2, AlikeTrans

LEMMA ConstOperationKept ==
    ASSUME NEW b, NEW i, Alike(b, i), NEW x PROVE Alike(b, to_code_operation_const_reg_integer(i, x))
<1>1. Shape(i)
  BY DEF Alike
<1>2. Alike(i, to_code_operation_const_reg_integer(i, x))
  BY <1>1, OperationsAlike
<1> QED
  BY <1>2, AlikeTrans

LEMMA OperationNullKept ==
    ASSUME NEW b, NEW i, Alike(b, i), NEW x PROVE Alike(b, to_code_operation_reg_null(i, x))
<1>1. Shape(i)
  BY DEF Alike
<1>2. Alike(i, to_code_operation_reg_null(i, x))
  BY <1>1, OperationsAlike
<1> QED
  BY <1>2, AlikeTrans

LEMMA NullOperationKept ==
    ASSUME NEW b, NEW i, Alike(b, i), NEW x PROVE Alike(b, to_code_operation_null_reg(i, x))
<1>1. Shape(i)
  BY DEF Alike
<1>2. Alike(i, to_code_operation_null_reg(i, x))
  BY <1>1, OperationsAlike
<1> QED
  BY <1>2, AlikeTrans

LEMMA CharToIntKept ==
    ASSUME NEW b, NEW i, Alike(b, i), NEW x PROVE Alike(b, to_code_char_to_int(i, x))
<1>1. Shape(i)
  BY DEF Alike
<1>2. Alike(i, to_code_char_to_int(i, x))
  BY <1>1, OperationsAlike
<1> QED
  BY <1>2, AlikeTrans

LEMMA LoadKept ==
    ASSUME NEW b, NEW i, Alike(b, i), NEW x PROVE Alike(b, to_code_load(i, x))
<1>1. Shape(i)
  BY DEF Alike
<1>2. Alike(i, to_code_load(i, x))
  BY <1>1, OperationsAlike
<1> QED
  BY <1>2, AlikeTrans

LEMMA StoreRegKept ==
    ASSUME NEW b, NEW i, Alike(b, i), NEW x, NEW y PROVE Alike(b, to_code_store_reg(i, x, y))
<1>1. Shape(i)
  BY DEF Alike
<1>2. Alike(i, to_code_store_reg(i, x, y))
  BY <1>1, OperationsAlike
<1> QED
  BY <1>2, AlikeTrans

LEMMA StoreConstKept ==
    ASSUME NEW b, NEW i, Alike(b, i), NEW x PROVE Alike(b, to_code_store_const_integer(i, x))
<1>1. Shape(i)
  BY DEF Alike
<1>2. Alike(i, to_code_store_const_integer(i, x))
  BY <1>1, OperationsAlike
<1> QED
  BY <1>2, AlikeTrans

LEMMA AnswerKept ==
    ASSUME NEW b, NEW i, Alike(b, i), NEW x PROVE Alike(b, Answer(i, x))
<1>1. Shape(i)
  BY DEF Alike
<1>2. Alike(i, Answer(i, x))
  BY <1>1, OperationsAlike
<1> QED
  BY <1>2, AlikeTrans

LEMMA PlaceKept ==
    ASSUME NEW b, NEW i, Alike(b, i), NEW x PROVE Alike(b, at(i, x))
<1>1. Shape(i)
  BY DEF Alike
<1>2. Alike(i, at(i, x))
  BY <1>1, OperationsAlike
<1> QED
  BY <1>2, AlikeTrans

LEMMA SliceKept ==
    ASSUME NEW b, NEW i, Alike(b, i), NEW x, NEW y, NEW z PROVE Alike(b, to_code_slice(i, x, y, z))
<1>1. Shape(i)
  BY DEF Alike
<1>2. Alike(i, to_code_slice(i, x, y, z))
  BY <1>1, OperationsAlike
<1> QED
  BY <1>2, AlikeTrans

LEMMA AllocKept ==
    ASSUME NEW b, NEW i, Alike(b, i), NEW x PROVE Alike(b, to_code_alloc_array_dynamic(i, x))
<1>1. Shape(i)
  BY DEF Alike
<1>2. Alike(i, to_code_alloc_array_dynamic(i, x))
  BY <1>1, OperationsAlike
<1> QED
  BY <1>2, AlikeTrans

LEMMA TakeKept ==
    ASSUME NEW b, NEW i, Alike(b, i), NEW x PROVE Alike(b, TakeLabels(i, x))
<1>1. Shape(i)
  BY DEF Alike
<1>2. Alike(i, TakeLabels(i, x))
  BY <1>1, OperationsAlike
<1> QED
  BY <1>2, AlikeTrans

LEMMA ReadingKept ==
    ASSUME NEW b, NEW i, Alike(b, i), NEW x PROVE Alike(b, Reads(i, x))
<1>1. Shape(i)
  BY DEF Alike
<1>2. Alike(i, Reads(i, x))
  BY <1>1, ReadsAlike
<1> QED
  BY <1>2, AlikeTrans

LEMMA NextKept ==
    ASSUME NEW b, NEW i, Alike(b, i), NEW x PROVE Alike(b, Advance(Define(i, x)))
<1>1. Shape(i)
  BY DEF Alike
<1>2. Alike(i, Advance(Define(i, x)))
  BY <1>1, NextAlike
<1> QED
  BY <1>2, AlikeTrans

LEMMA AnsweredOfKept ==
    ASSUME NEW b, NEW i, Alike(b, i) PROVE Alike(b, Answered(i))
<1>1. Shape(i)
  BY DEF Alike
<1>2. Alike(i, Answered(i))
  BY <1>1, AnsweredAlike
<1> QED
  BY <1>2, AlikeTrans

LEMMA LabelOfKept ==
    ASSUME NEW b, NEW i, Alike(b, i), NEW x PROVE Alike(b, to_code_label(i, x))
<1>1. Shape(i)
  BY DEF Alike
<1>2. Alike(i, to_code_label(i, x))
  BY <1>1, LabelAlike
<1> QED
  BY <1>2, AlikeTrans

LEMMA LeavingKept ==
    ASSUME NEW b, NEW i, Alike(b, i), NEW x PROVE Alike(b, Leave(i, x))
<1>1. Shape(i)
  BY DEF Alike
<1>2. Alike(i, Leave(i, x))
  BY <1>1, LeaveAlike
<1> QED
  BY <1>2, AlikeTrans

LEMMA BranchingKept ==
    ASSUME NEW b, NEW i, Alike(b, i), NEW x PROVE Alike(b, to_code_unconditional_branch(i, x))
<1>1. Shape(i)
  BY DEF Alike
<1>2. Alike(i, to_code_unconditional_branch(i, x))
  BY <1>1, BranchAlike
<1> QED
  BY <1>2, AlikeTrans

LEMMA LabelledOfKept ==
    ASSUME NEW b, NEW i, Alike(b, i), NEW x PROVE Alike(b, Labelled(i, x))
<1>1. Shape(i)
  BY DEF Alike
<1>2. Alike(i, Labelled(i, x))
  BY <1>1, LabelledAlike
<1> QED
  BY <1>2, AlikeTrans

LEMMA CheckedKept ==
    ASSUME NEW b, NEW i, Alike(b, i) PROVE Alike(b, check_type_and_branch(i))
<1>1. Shape(i)
  BY DEF Alike
<1>2. Alike(i, check_type_and_branch(i))
  BY <1>1, CheckAlike
<1> QED
  BY <1>2, AlikeTrans

LEMMA MemberOfRecordKept ==
    ASSUME NEW b, NEW i, Alike(b, i), NEW x PROVE Alike(b, Member(i, x))
<1>1. Shape(i)
  BY DEF Alike
<1>2. Alike(i, Member(i, x))
  BY <1>1, MemberAlike
<1> QED
  BY <1>2, AlikeTrans

LEMMA InitializerOfKept ==
    ASSUME NEW b, NEW i, Alike(b, i) PROVE Alike(b, Initializer(i))
<1>1. Shape(i)
  BY DEF Alike
<1>2. Alike(i, Initializer(i))
  BY <1>1, InitializerAlike
<1> QED
  BY <1>2, AlikeTrans

LEMMA RestoreOfKept ==
    ASSUME NEW b, NEW i, Alike(b, i), NEW x PROVE Alike(b, Restore(i, x))
<1>1. Shape(i)
  BY DEF Alike
<1>2. Alike(i, Restore(i, x))
  BY <1>1, RestoreAlike
<1> QED
  BY <1>2, AlikeTrans

LEMMA ConditionalOfKept ==
    ASSUME NEW b, NEW i, Alike(b, i), NEW x, NEW y PROVE Alike(b, Conditional(i, x, y))
<1>1. Shape(i)
  BY DEF Alike
<1>2. Alike(i, Conditional(i, x, y))
  BY <1>1, RestoreAlike
<1> QED
  BY <1>2, AlikeTrans

LEMMA LoopOfKept ==
    ASSUME NEW b, NEW i, Alike(b, i), NEW x, NEW y PROVE Alike(b, Loop(i, x, y))
<1>1. Shape(i)
  BY DEF Alike
<1>2. Alike(i, Loop(i, x, y))
  BY <1>1, RestoreAlike
<1> QED
  BY <1>2, AlikeTrans

LEMMA ReturnOfKept ==
    ASSUME NEW b, NEW i, Alike(b, i) PROVE Alike(b, Return(i))
<1>1. Shape(i)
  BY DEF Alike
<1>2. Alike(i, Return(i))
  BY <1>1, RestoreAlike
<1> QED
  BY <1>2, AlikeTrans

LEMMA AbsOfKept ==
    ASSUME NEW b, NEW i, Alike(b, i) PROVE Alike(b, AbsUsed(i))
<1>1. Shape(i)
  BY DEF Alike
<1>2. Alike(i, AbsUsed(i))
  BY <1>1, RestoreAlike
<1> QED
  BY <1>2, AlikeTrans

LEMMA FaultKept ==
    ASSUME NEW b, NEW i, Alike(b, i), NEW x, NEW what, what # "slot" PROVE Alike(b, Fault(i, x, what))
<1>1. Shape(i)
  BY DEF Alike
<1>2. Alike(i, Fault(i, x, what))
  BY <1>1, FaultAlike
<1> QED
  BY <1>2, AlikeTrans

-----------------------------------------------------------------------------
(* Steps that leave the stack and its places alone *)

Quiet ==
    /\ Alike(info, info') /\ todo # <<>>
    /\ \E items : PlainSeq(items) /\ todo' = items \o Tail(todo)

LEMMA QuietKeeps == ASSUME SlotsInv, Quiet PROVE SlotsInv'
<1>1. EncoderInv(info')
  BY AlikeInv DEF SlotsInv, Quiet
<1>2. TodoInv(todo', info.slots)
  BY PlainReplaced DEF SlotsInv, Quiet
<1>3. info'.slots = info.slots
  BY DEF Quiet, Alike
<1> QED
  BY <1>1, <1>2, <1>3 DEF SlotsInv

\* Requests for expressions
LEMMA RequestKept ==
    ASSUME NEW e, Request(e), NEW v
    PROVE  /\ Request([e EXCEPT !.of = v]) /\ Request([e EXCEPT !.cond = v])
           /\ Request([e EXCEPT !.inner = v]) /\ Request([e EXCEPT !.type = v])
  BY DEF Request

LEMMA Requests ==
    ASSUME NEW t, NEW v
    PROVE  /\ Request(Expr(t)) /\ Request(Cond(t)) /\ Request(Sub(t)) /\ Request(SubOf(t, v))
           /\ Request(NonLiteral(t)) /\ Request(Lvalue(t)) /\ Request(Value(t, v))
<1>1. Request(Expr(t))
  BY DEF Expr, Request
<1>2. Request(Cond(t)) /\ Request(Sub(t))
  BY <1>1, RequestKept DEF Cond, Sub
<1>3. \A c : Request(SubOf(t, c))
  BY <1>2, RequestKept DEF SubOf
<1>4. Request(Value(t, v))
  BY <1>1, RequestKept DEF Value
<1> QED
  BY <1>1, <1>2, <1>3, <1>4 DEF NonLiteral, Lvalue

LEMMA PlainRequest == ASSUME NEW e, Request(e) PROVE Plain(e)
  BY DEF Request, Plain

LEMMA PlainItem ==
    ASSUME NEW w, w \notin {"function", "block", "global", "cases", "dynamic", "right", "logical"}, NEW x
    PROVE  Plain(Item(w)) /\ Plain(With(w, x))
  BY DEF Plain, Item, With

LEMMA PlainStmt == Plain(Stmt)
  BY PlainItem DEF Stmt

LEMMA Plain0 == PlainSeq(<<>>)
  BY PlainTuples

LEMMA Plain1 ==
    ASSUME NEW a, Plain(a) PROVE PlainSeq(<<a>>)
  BY PlainTuples

LEMMA Plain2 ==
    ASSUME NEW a, NEW b, Plain(a), Plain(b) PROVE PlainSeq(<<a, b>>)
  BY PlainTuples

LEMMA Plain3 ==
    ASSUME NEW a, NEW b, NEW c, Plain(a), Plain(b), Plain(c) PROVE PlainSeq(<<a, b, c>>)
  BY PlainTuples

LEMMA Plain4 ==
    ASSUME NEW a, NEW b, NEW c, NEW d, Plain(a), Plain(b), Plain(c), Plain(d) PROVE PlainSeq(<<a, b, c, d>>)
  BY PlainTuples

LEMMA Plain6 ==
    ASSUME NEW a, NEW b, NEW c, NEW d, NEW e, NEW f, Plain(a), Plain(b), Plain(c), Plain(d), Plain(e), Plain(f) PROVE PlainSeq(<<a, b, c, d, e, f>>)
  BY PlainTuples

LEMMA QuietBy ==
    ASSUME Alike(info, info'), todo # <<>>, NEW items, PlainSeq(items), todo' = items \o Tail(todo)
    PROVE  Quiet
  BY DEF Quiet

LEMMA DoneQuiet == ASSUME Alike(info, info'), todo # <<>>, Done PROVE Quiet
  BY Plain0, QuietBy DEF Done, Then

\* Fields that have nothing to do with the stack
LEMMA SetKept ==
    ASSUME NEW b, NEW i, Alike(b, i), NEW v
    PROVE  /\ Alike(b, [i EXCEPT !.kind = v]) /\ Alike(b, [i EXCEPT !.reg = v]) /\ Alike(b, [i EXCEPT !.const = v])
           /\ Alike(b, [i EXCEPT !.label_true = v]) /\ Alike(b, [i EXCEPT !.label_false = v])
           /\ Alike(b, [i EXCEPT !.label_break = v]) /\ Alike(b, [i EXCEPT !.location = v])
           /\ Alike(b, [i EXCEPT !.switches = v]) /\ Alike(b, [i EXCEPT !.label_switch = v])
           /\ Alike(b, [i EXCEPT !.is_main = v]) /\ Alike(b, [i EXCEPT !.declares = v])
           /\ Alike(b, [i EXCEPT !.was_function = v]) /\ Alike(b, [i EXCEPT !.helpers = v])
           /\ Alike(b, [i EXCEPT !.label_phi_previous = v]) /\ Alike(b, [i EXCEPT !.label_ternary_end = v])
           /\ Alike(b, [i EXCEPT !.was_fabs = v])
           /\ (\A a \in v : a \in i.arrays \/ a.dimensions \in Nat) => Alike(b, [i EXCEPT !.arrays = v])
  BY DEF Alike, Shape

\* Sequences whose parts are there or not
LEMMA PlainIf ==
    ASSUME NEW c, NEW s, NEW r, PlainSeq(s), PlainSeq(r) PROVE PlainSeq(IF c THEN s ELSE r)
  OBVIOUS

LEMMA PlainIndices == ASSUME NEW a, NEW n \in Nat PROVE PlainSeq(Indices(a, n))
<1>1. PICK s : s = Indices(a, n)
  OBVIOUS
<1>2. s = [k \in 1..3 * n |-> s[k]]
  BY <1>1 DEF Indices
<1>3. ASSUME NEW k \in 1..3 * n PROVE Plain(s[k])
  <2>1. \/ s[k] = Item("index")
        \/ s[k] = Sub("int")
        \/ s[k] = With("slice", [a |-> a, cur |-> a.dimensions - k \div 3])
    BY <1>1 DEF Indices
  <2> QED
    BY <2>1, PlainItem, Requests, PlainRequest
<1> QED
  BY <1>1, <1>2, <1>3, PlainFunction

LEMMA LiteralQuiet == ASSUME Shape(info), emit_literal_expression PROVE Quiet
<1>0. Alike(info, info)
  BY AlikeSame
<1>1. ASSUME NEW c PROVE Alike(info, [info EXCEPT !.kind = "ACONST", !.const = c])
  BY <1>0 DEF Alike, Shape
<1>2. \/ info' = [info EXCEPT !.kind = "ANULL"]
      \/ info' = [info EXCEPT !.kind = "ASTR"]
      \/ info' = [info EXCEPT !.kind = "AREG"]
      \/ \E c : info' = [info EXCEPT !.kind = "ACONST", !.const = c]
  <2>1. T \in {"int", "bool", "float", "null", "string"}
    BY DEF emit_literal_expression, Begin
  <2>2. CASE T \in {"int", "bool", "float"} /\ info.location # "LMEM"
    <3>1. T # "null" /\ T # "string" /\ ~(T \in {"int", "bool", "float"} /\ info.location = "LMEM")
      BY <2>2
    <3>2. \E c \in {TRUE, Head(todo).cond} : info' = [info EXCEPT !.kind = "ACONST", !.const = c]
      BY <2>2, <3>1 DEF emit_literal_expression
    <3> QED
      BY <3>2
  <2>3. CASE T \in {"int", "bool", "float"} /\ info.location = "LMEM"
    BY <2>3 DEF emit_literal_expression
  <2> QED
    BY <2>1, <2>2, <2>3 DEF emit_literal_expression
<1>3. Alike(info, info')
  <2>1. CASE \E c : info' = [info EXCEPT !.kind = "ACONST", !.const = c]
    BY <1>1, <2>1
  <2>2. CASE \E k : info' = [info EXCEPT !.kind = k]
    BY <1>0, <2>2 DEF Alike, Shape
  <2> QED
    BY <1>2, <2>1, <2>2
<1> QED
  BY <1>3, DoneQuiet DEF emit_literal_expression, Begin, Do

LEMMA UpbQuiet == ASSUME Shape(info), emit_upb PROVE Quiet
<1>0. Alike(info, info)
  BY AlikeSame
<1>1. PICK a : info' = CASE a.is_static -> Answer(Advance(Define(info, {})), "AREG")
                    [] ~a.is_static /\ a.dimensions > 1 ->
                          Answer(to_code_operation_reg_reg(info, a.bounds[1], a.bounds[2]), "AREG")
                    [] OTHER -> [info EXCEPT !.kind = "AREG", !.reg = a.bounds[1]]
  BY DEF emit_upb
<1>2. Alike(info, [info EXCEPT !.kind = "AREG", !.reg = a.bounds[1]])
  BY <1>0 DEF Alike, Shape
<1>3. Alike(info, Answer(to_code_operation_reg_reg(info, a.bounds[1], a.bounds[2]), "AREG"))
  BY <1>0, OperationKept, AnswerKept
<1>4. Alike(info, Answer(Advance(Define(info, {})), "AREG"))
  BY <1>0, NextKept, AnswerKept
<1>5. Alike(info, info')
  BY <1>1, <1>2, <1>3, <1>4
<1> QED
  BY <1>5, DoneQuiet DEF emit_upb, Begin, Do

LEMMA IntegralQuiet == ASSUME Shape(info), emit_integral_expression PROVE Quiet
<1>0. Alike(info, info)
  BY AlikeSame
<1> DEFINE left == vals[1]
           right == [kind |-> info.kind, reg |-> info.reg]
           wide_left == X.types = <<"char", "int">> /\ left.kind # "ACONST"
           wide_right == X.types = <<"int", "char">> /\ right.kind # "ACONST"
           i == CASE wide_left -> to_code_char_to_int(info, left.reg)
                  [] wide_right -> to_code_char_to_int(info, right.reg)
                  [] OTHER -> info
           fst == IF wide_left THEN Newest(i) ELSE left.reg
           snd == IF wide_right THEN Newest(i) ELSE right.reg
           j == CASE <<left.kind, right.kind>> = <<"AREG", "AREG">> -> to_code_operation_reg_reg(i, fst, snd)
                  [] <<left.kind, right.kind>> = <<"AREG", "ACONST">> -> to_code_operation_reg_const_integer(i, fst)
                  [] <<left.kind, right.kind>> = <<"ACONST", "AREG">> -> to_code_operation_const_reg_integer(i, snd)
                  [] <<left.kind, right.kind>> = <<"AREG", "ANULL">> -> to_code_operation_reg_null(i, fst)
                  [] <<left.kind, right.kind>> = <<"ANULL", "AREG">> -> to_code_operation_null_reg(i, snd)
                  [] OTHER -> Advance(i)
<1>1. info' = Answer(IF X.types = <<"char", "char">> /\ X.kind = "AREG" THEN to_code_char_to_int(j, Newest(j)) ELSE j,
                     X.kind)
  BY DEF emit_integral_expression
<1> HIDE DEF left, right, wide_left, wide_right, i, fst, snd, j
<1>2. Alike(info, i)
  <2>1. i \in {to_code_char_to_int(info, left.reg), to_code_char_to_int(info, right.reg), info}
    BY DEF i
  <2> QED
    BY <1>0, <2>1, CharToIntKept
<1>3. Alike(info, j)
  <2>1. Alike(info, Advance(i))
    BY <1>2, AdvanceAlike, AlikeTrans DEF Alike
  <2>2. j \in {to_code_operation_reg_reg(i, fst, snd), to_code_operation_reg_const_integer(i, fst),
               to_code_operation_const_reg_integer(i, snd), to_code_operation_reg_null(i, fst),
               to_code_operation_null_reg(i, snd), Advance(i)}
    BY DEF j
  <2> QED
    BY <1>2, <2>1, <2>2, OperationKept, OperationConstKept, ConstOperationKept, OperationNullKept, NullOperationKept
<1>4. Alike(info, info')
  BY <1>1, <1>3, CharToIntKept, AnswerKept
<1> QED
  BY <1>4, DoneQuiet DEF emit_integral_expression, Do

LEMMA AssignmentQuiet == ASSUME Shape(info), emit_assignment_expression PROVE Quiet
<1>0. Alike(info, info)
  BY AlikeSame
<1>1. PICK address : address = IF X.is_complex THEN {vals[1]} ELSE {}
  OBVIOUS
<1>2. PICK widen : widen = (X.type = "int" /\ X.from = "char" /\ info.kind # "ACONST")
  OBVIOUS
<1>3. PICK i : i = IF widen THEN to_code_char_to_int(info, info.reg) ELSE info
  OBVIOUS
<1>4. PICK old : old = to_code_load(i, address)
  OBVIOUS
<1>5. PICK sum : sum = IF i.kind = "AREG" THEN to_code_operation_reg_reg(old, Newest(old), i.reg)
                    ELSE to_code_operation_reg_const_integer(old, Newest(old))
  OBVIOUS
<1>6. PICK j : j = IF X.compound THEN [sum EXCEPT !.kind = "AREG"] ELSE i
  OBVIOUS
<1>7. PICK result : result = IF X.compound \/ widen THEN Newest(j) ELSE info.reg
  OBVIOUS
<1>8. Alike(info, i)
  BY <1>0, <1>3, CharToIntKept
<1>9. Alike(info, sum)
  BY <1>4, <1>5, <1>8, LoadKept, OperationKept, OperationConstKept
<1>10. Alike(info, j)
  BY <1>6, <1>8, <1>9, SetKept
<1>11. info' = CASE j.kind \in {"AREG", "ALOGIC"} ->
                              [to_code_store_reg(j, result, address) EXCEPT !.kind = "AREG", !.reg = result]
                        [] j.kind = "AMEM" -> [j EXCEPT !.kind = "AREG"]
                        [] OTHER -> to_code_store_const_integer(j, address)
  BY <1>1, <1>2, <1>3, <1>4, <1>5, <1>6, <1>7 DEF emit_assignment_expression
<1>12. PICK stored : stored = to_code_store_reg(j, result, address)
  OBVIOUS
<1>13. Alike(info, stored)
  BY <1>10, <1>12, StoreRegKept
<1>14. Alike(info, [stored EXCEPT !.kind = "AREG", !.reg = result])
  BY <1>13 DEF Alike, Shape
<1>15. Alike(info, info')
  BY <1>10, <1>11, <1>12, <1>14, SetKept, StoreConstKept
<1> QED
  BY <1>15, DoneQuiet DEF emit_assignment_expression, Do

LEMMA TernaryQuiet == ASSUME Shape(info), emit_ternary_expression PROVE Quiet
<1>0. Alike(info, info)
  BY AlikeSame
<1>1. PICK i : i = to_code_label(to_code_unconditional_branch(info, X.label_end), X.label_end)
  OBVIOUS
<1>2. Alike(info, i)
  BY <1>0, <1>1, BranchingKept, LabelOfKept
<1>3. \E listed, regs :
         LET j == Fault(i, listed # {e[1] : e \in {e \in i.edges : e[2] = X.label_end}}, "phi")
         IN  info' = [Answer(Advance(Define(j, regs)), "AREG") EXCEPT
                       !.label_true = X.old_true, !.label_false = X.old_false, !.label_ternary_end = X.label_end]
  BY <1>1 DEF emit_ternary_expression
<1>4. \E wrong, regs :
         info' = [Answer(Advance(Define(Fault(i, wrong, "phi"), regs)), "AREG") EXCEPT
                       !.label_true = X.old_true, !.label_false = X.old_false, !.label_ternary_end = X.label_end]
  BY <1>3
<1>5. PICK wrong, regs :
         info' = [Answer(Advance(Define(Fault(i, wrong, "phi"), regs)), "AREG") EXCEPT
                       !.label_true = X.old_true, !.label_false = X.old_false, !.label_ternary_end = X.label_end]
  BY <1>4
<1>6. PICK j : j = Answer(Advance(Define(Fault(i, wrong, "phi"), regs)), "AREG")
  OBVIOUS
<1>7. Alike(info, j)
  BY <1>2, <1>6, FaultKept, NextKept, AnswerKept
<1>8. Alike(info, info')
  BY <1>5, <1>6, <1>7 DEF Alike, Shape
<1> QED
  BY <1>8, DoneQuiet DEF emit_ternary_expression, Do

LEMMA SubscriptQuiet ==
    ASSUME Shape(info), \A a \in info.arrays : a.dimensions \in Nat, BeginSubscript \/ BeginRow PROVE Quiet
<1>1. Alike(info, info')
  BY AlikeSame DEF BeginSubscript, BeginRow
<1>2. todo # <<>>
  BY DEF BeginSubscript, BeginRow, Begin, Do
<1>3. \E a \in info.arrays, n \in Nat : \E last :
         /\ Plain(last)
         /\ todo' = (Indices(a, n) \o <<last>>) \o Tail(todo)
  <2>1. CASE BeginSubscript
    <3>1. Plain(With("element", info.location))
      BY PlainItem
    <3> QED
      BY <2>1, <3>1 DEF BeginSubscript, Then
  <2>2. CASE BeginRow
    <3>1. PICK a \in info.arrays : a.dimensions > 1 /\ Then(Indices(a, a.dimensions - 1) \o <<With("row", a)>>)
      BY <2>2 DEF BeginRow
    <3>2. a.dimensions - 1 \in Nat
      BY <3>1
    <3>3. Plain(With("row", a))
      BY PlainItem
    <3> QED
      BY <3>1, <3>2, <3>3 DEF Then
  <2> QED
    BY <2>1, <2>2
<1>4. PICK a \in info.arrays, n \in Nat : \E last :
         Plain(last) /\ todo' = (Indices(a, n) \o <<last>>) \o Tail(todo)
  BY <1>3
<1>6. PICK last : Plain(last) /\ todo' = (Indices(a, n) \o <<last>>) \o Tail(todo)
  BY <1>4
<1>5. PlainSeq(Indices(a, n) \o <<last>>)
  BY <1>6, PlainIndices, Plain1, PlainConcat
<1> QED
  BY <1>1, <1>2, <1>6, <1>5, QuietBy

\* The place of the head, and what its requests look like.
LEMMA HeadPlaced ==
    ASSUME TodoInv(todo, info.slots), todo # <<>> PROVE Placed(Head(todo), info.slots)
<1>1. PICK S : todo \in Seq(S)
  BY DEF TodoInv
<1>2. 1 \in DOMAIN todo /\ Head(todo) = todo[1]
  BY <1>1
<1> QED
  BY <1>2 DEF TodoInv

LEMMA CallQuiet == ASSUME Shape(info), BeginCall PROVE Quiet
<1>0. Alike(info, info)
  BY AlikeSame
<1>1. PICK f \in Callees :
          /\ LET i == [info EXCEPT !.was_function = IF f.builtin THEN @ \cup {f.name} ELSE @]
                 j == IF f.pointer THEN to_code_load(i, {}) ELSE i
             IN  info' = IF f.args = <<>> THEN j ELSE at(j, "LFREE")
          /\ Then([k \in 1..2 * Len(f.args) |-> IF k % 2 = 1 THEN Sub(f.args[(k + 1) \div 2]) ELSE Item("argument")]
                  \o <<With("call", f)>>)
  BY DEF BeginCall
<1>2. Alike(info, info')
  BY <1>0, <1>1, SetKept, LoadKept, PlaceKept
<1>3. PICK s : s = [k \in 1..2 * Len(f.args) |-> IF k % 2 = 1 THEN Sub(f.args[(k + 1) \div 2]) ELSE Item("argument")]
  OBVIOUS
<1>4. 2 * Len(f.args) \in Nat
  BY LlvmAssumption DEF LlvmAssumption
<1>5. ASSUME NEW k \in 1..2 * Len(f.args) PROVE Plain(s[k])
  <2>1. s[k] = Sub(f.args[(k + 1) \div 2]) \/ s[k] = Item("argument")
    BY <1>3
  <2> QED
    BY <2>1, PlainItem, Requests, PlainRequest
<1>6. PlainSeq(s)
  BY <1>3, <1>4, <1>5, PlainFunction
<1>7. PlainSeq(<<With("call", f)>>)
  BY PlainItem, Plain1
<1>8. todo # <<>> /\ todo' = (s \o <<With("call", f)>>) \o Tail(todo)
  BY <1>1, <1>3 DEF BeginCall, Begin, Do, Then
<1> QED
  BY <1>2, <1>6, <1>7, <1>8, PlainConcat, QuietBy

LEMMA IncrementQuiet == ASSUME Shape(info), NEW prefix, NEW is_complex, BeginIncrement(prefix, is_complex) PROVE Quiet
<1>0. Alike(info, info)
  BY AlikeSame
<1>1. Alike(info, info')
  BY <1>0, PlaceKept DEF BeginIncrement
<1>2. PICK s : s = IF is_complex THEN <<Lvalue("int")>> ELSE <<>>
  OBVIOUS
<1>3. PICK r : r = <<With("increment", [prefix |-> prefix, is_complex |-> is_complex])>>
  OBVIOUS
<1>4. PlainSeq(s) /\ PlainSeq(r)
  BY <1>2, <1>3, PlainItem, Plain0, Plain1, Requests, PlainRequest
<1>5. todo # <<>> /\ todo' = (s \o r) \o Tail(todo)
  BY <1>2, <1>3 DEF BeginIncrement, Begin, Do, Then
<1> QED
  BY <1>1, <1>4, <1>5, PlainConcat, QuietBy

LEMMA NegationQuiet == ASSUME Shape(info), BeginNegation PROVE Quiet
<1>1. Alike(info, info')
  BY DEF BeginNegation, Alike, Shape
<1>2. PICK t : Then(<<[NonLiteral(t) EXCEPT !.cond = TRUE], With("negation", t)>>)
  BY DEF BeginNegation
<1>3. PlainSeq(<<[NonLiteral(t) EXCEPT !.cond = TRUE], With("negation", t)>>)
  BY PlainItem, Plain2, Requests, RequestKept, PlainRequest
<1> QED
  BY <1>1, <1>2, <1>3, QuietBy DEF BeginNegation, Begin, Do, Then

LEMMA BeginIntegralQuiet == ASSUME Shape(info), BeginIntegral PROVE Quiet
<1>0. Alike(info, info)
  BY AlikeSame
<1>1. Alike(info, info')
  BY <1>0, PlaceKept DEF BeginIntegral
<1>2. \E e, r, k, types :
         /\ Request(e) /\ Request(r)
         /\ Then(<<e, With("right", r), With("integral", [types |-> types, kind |-> k])>>)
  <2>1. PICK types : Then(<<IF types[1] = "ptr" THEN SubOf("ptr", {"identifier"}) ELSE Sub(types[1]), With("right", Sub(types[2])),
                    With("integral", [types |-> types, kind |-> IF T = "bool" THEN "ALOGIC" ELSE "AREG"])>>)
    BY DEF BeginIntegral
  <2>2. Request(IF types[1] = "ptr" THEN SubOf("ptr", {"identifier"}) ELSE Sub(types[1])) /\ Request(Sub(types[2]))
    BY Requests
  <2> QED
    BY <2>1, <2>2
<1>3. PICK e, r, k, types :
         /\ Request(e) /\ Request(r)
         /\ Then(<<e, With("right", r), With("integral", [types |-> types, kind |-> k])>>)
  BY <1>2
<1>4. Plain(With("right", r))
  BY <1>3 DEF Plain, With
<1>5. PlainSeq(<<e, With("right", r), With("integral", [types |-> types, kind |-> k])>>)
  BY <1>3, <1>4, PlainItem, Plain3, PlainRequest
<1> QED
  BY <1>1, <1>3, <1>5, QuietBy DEF BeginIntegral, Begin, Do, Then

LEMMA RightQuiet == ASSUME Shape(info), TodoInv(todo, info.slots), RightOperand PROVE Quiet
<1>0. Alike(info, info)
  BY AlikeSame
<1>1. Alike(info, info')
  BY <1>0, PlaceKept DEF RightOperand
<1>2. Request(X)
  BY HeadPlaced DEF RightOperand, Do, X, Placed
<1>3. PICK e : e = IF info.kind = "ACONST" THEN [X EXCEPT !.of = Registers] ELSE X
  OBVIOUS
<1>4. PlainSeq(<<e>>)
  BY <1>2, <1>3, RequestKept, PlainRequest, Plain1
<1> QED
  BY <1>1, <1>3, <1>4, QuietBy DEF RightOperand, Do, Then

LEMMA BeginAssignmentQuiet ==
    ASSUME Shape(info), NEW compound, NEW is_complex, BeginAssignment(compound, is_complex) PROVE Quiet
<1>0. Alike(info, info)
  BY AlikeSame
<1>1. Alike(info, info')
  BY <1>0, PlaceKept DEF BeginAssignment
<1>2. PICK s : s = IF is_complex THEN <<Lvalue(T), Item("target")>> ELSE <<>>
  OBVIOUS
<1>3. PICK from : Then(s \o <<Value(from, Head(todo).inner), With("assign", [compound |-> compound, is_complex |-> is_complex, type |-> T, from |-> from])>>)
  BY <1>2 DEF BeginAssignment
<1>4. PICK r : r = <<Value(from, Head(todo).inner), With("assign", [compound |-> compound, is_complex |-> is_complex, type |-> T, from |-> from])>>
  OBVIOUS
<1>5. PlainSeq(s)
  BY <1>2, PlainItem, Plain0, Plain2, Requests, PlainRequest
<1>6. PlainSeq(r)
  BY <1>4, PlainItem, Plain2, Requests, PlainRequest
<1>7. todo # <<>> /\ todo' = (s \o r) \o Tail(todo)
  BY <1>3, <1>4 DEF BeginAssignment, Begin, Do, Then
<1> QED
  BY <1>1, <1>5, <1>6, <1>7, PlainConcat, QuietBy

LEMMA BeginLogicalQuiet == ASSUME Shape(info), NEW or, BeginLogical(or) PROVE Quiet
<1>0. Alike(info, info)
  BY AlikeSame
<1>1. \E n, a, b, c : info' = [TakeLabels(info, n) EXCEPT !.label_true = a, !.label_false = b, !.location = c]
  BY DEF BeginLogical
<1>2. PICK n, a, b, c : info' = [TakeLabels(info, n) EXCEPT !.label_true = a, !.label_false = b, !.location = c]
  BY <1>1
<1>3. PICK i : i = TakeLabels(info, n)
  OBVIOUS
<1>4. Alike(info, i)
  BY <1>0, <1>3, TakeKept
<1>5. Alike(info, info')
  BY <1>2, <1>3, <1>4 DEF Alike, Shape
<1>6. PICK value : value = (info.location = "LNOLOG")
  OBVIOUS
<1>7. PICK right : right = [Sub("int") EXCEPT !.cond = ~value, !.of = IF value THEN Registers \ {"logical"} ELSE @]
  OBVIOUS
<1>8. Request(right)
  BY <1>7, Requests, RequestKept
<1>9. \E t, x, cond : x.right = right /\ Then(<<[Sub(t) EXCEPT !.cond = cond], With("logical", x)>>)
  <2>1. PICK x : /\ x = [or |-> or, value |-> info.location = "LNOLOG",
                         old_true |-> IF info.location = "LNOLOG" THEN info.label_num ELSE info.label_true,
                         old_false |-> IF info.location = "LNOLOG" THEN info.label_num + 1 ELSE info.label_false,
                         next |-> IF info.location = "LNOLOG" THEN info.label_num + 2 ELSE info.label_num,
                         right |-> [Sub("int") EXCEPT !.cond = ~(info.location = "LNOLOG"),
                                       !.of = IF info.location = "LNOLOG" THEN Registers \ {"logical"} ELSE @]]
    OBVIOUS
  <2>2. x.right = right
    BY <1>6, <1>7, <2>1
  <2>3. \E t \in {"int", "bool"} : Then(<<[Sub(t) EXCEPT !.cond = ~(info.location = "LNOLOG")], With("logical", x)>>)
    BY ONLY BeginLogical(or), <2>1 DEF BeginLogical
  <2> QED
    BY <2>2, <2>3
<1>10. PICK t, x, cond : x.right = right /\ Then(<<[Sub(t) EXCEPT !.cond = cond], With("logical", x)>>)
  BY <1>9
<1>11. Plain(With("logical", x))
  BY <1>8, <1>10 DEF Plain, With
<1>12. PlainSeq(<<[Sub(t) EXCEPT !.cond = cond], With("logical", x)>>)
  BY <1>11, Plain2, Requests, RequestKept, PlainRequest
<1> QED
  BY <1>5, <1>10, <1>12, QuietBy DEF BeginLogical, Begin, Do, Then

LEMMA LeftLogicalQuiet == ASSUME Shape(info), TodoInv(todo, info.slots), LeftLogical PROVE Quiet
<1>0. Alike(info, info)
  BY AlikeSame
<1>1. \E a, b, c, d, e, i, j :
         /\ i = info \/ i = [info EXCEPT !.label_true = a, !.label_false = b]
         /\ j = to_code_label(check_type_and_branch(at(i, "LFREE")), X.next)
         /\ info' = [j EXCEPT !.label_true = c, !.label_false = d, !.location = e]
  BY DEF LeftLogical
<1>2. PICK a, b, c, d, e, i, j :
         /\ i = info \/ i = [info EXCEPT !.label_true = a, !.label_false = b]
         /\ j = to_code_label(check_type_and_branch(at(i, "LFREE")), X.next)
         /\ info' = [j EXCEPT !.label_true = c, !.label_false = d, !.location = e]
  BY <1>1
<1>3. Alike(info, i)
  BY <1>0, <1>2 DEF Alike, Shape
<1>4. Alike(info, j)
  BY <1>2, <1>3, PlaceKept, CheckedKept, LabelOfKept
<1>5. Alike(info, info')
  BY <1>2, <1>4 DEF Alike, Shape
<1>6. todo # <<>> /\ Request(X.right)
  BY HeadPlaced DEF LeftLogical, Do, X, Placed
<1>7. PICK t, of : Then(<<[X.right EXCEPT !.type = t, !.of = of], With("endlogical", X)>>)
  <2>1. \E t : Then(<<[X.right EXCEPT !.type = t, !.of = IF info.kind = "ACONST" THEN @ \cap Registers ELSE @],
                 With("endlogical", X)>>)
    BY DEF LeftLogical
  <2>2. PICK t : Then(<<[X.right EXCEPT !.type = t, !.of = IF info.kind = "ACONST" THEN @ \cap Registers ELSE @],
                 With("endlogical", X)>>)
    BY <2>1
  <2>3. PICK e1 : e1 = [X.right EXCEPT !.type = t]
    OBVIOUS
  <2>4. [X.right EXCEPT !.type = t, !.of = IF info.kind = "ACONST" THEN @ \cap Registers ELSE @]
        = [X.right EXCEPT !.type = t, !.of = IF info.kind = "ACONST" THEN e1.of \cap Registers ELSE e1.of]
    BY <2>3
  <2> QED
    BY <2>2, <2>4
<1>8. Request([X.right EXCEPT !.type = t, !.of = of])
  BY <1>6, RequestKept
<1>9. PlainSeq(<<[X.right EXCEPT !.type = t, !.of = of], With("endlogical", X)>>)
  BY <1>8, PlainItem, Plain2, PlainRequest
<1> QED
  BY <1>5, <1>6, <1>7, <1>9, QuietBy DEF Then

LEMMA BeginTernaryQuiet == ASSUME Shape(info), BeginTernary PROVE Quiet
<1>0. Alike(info, info)
  BY AlikeSame
<1>1. PICK t, a, b, x :
         /\ info' = [TakeLabels(info, 3) EXCEPT !.label_true = x.label_then, !.label_false = x.label_else, !.location = "LFREE"]
         /\ Then(<<[Sub(t) EXCEPT !.cond = TRUE], With("then", x.label_then),
                   [Expr("int") EXCEPT !.inner = TRUE, !.of = IF a THEN {"ternary"} ELSE @ \ {"ternary"}],
                   With("else", x),
                   [Expr("int") EXCEPT !.inner = TRUE, !.of = IF b THEN {"ternary"} ELSE @ \ {"ternary"}],
                   With("ternary", x)>>)
  <2>1. PICK a \in BOOLEAN, b \in BOOLEAN, t \in {"int", "bool"} :
          LET x == [old_true |-> info.label_true, old_false |-> info.label_false, label_then |-> info.label_num,
                    label_else |-> info.label_num + 1, label_end |-> info.label_num + 2,
                    then_is_ternary |-> a, else_is_ternary |-> b]
              branch(is_ternary) ==
                  [Expr("int") EXCEPT !.inner = TRUE, !.of = IF is_ternary THEN {"ternary"} ELSE @ \ {"ternary"}]
          IN  /\ info' = [TakeLabels(info, 3) EXCEPT !.label_true = x.label_then, !.label_false = x.label_else,
                                                     !.location = "LFREE"]
              /\ Then(<<[Sub(t) EXCEPT !.cond = TRUE], With("then", x.label_then), branch(a),
                        With("else", x), branch(b), With("ternary", x)>>)
    BY ONLY BeginTernary DEF BeginTernary
  <2>2. PICK x : x = [old_true |-> info.label_true, old_false |-> info.label_false, label_then |-> info.label_num,
                    label_else |-> info.label_num + 1, label_end |-> info.label_num + 2,
                    then_is_ternary |-> a, else_is_ternary |-> b]
    OBVIOUS
  <2>3. /\ info' = [TakeLabels(info, 3) EXCEPT !.label_true = x.label_then, !.label_false = x.label_else, !.location = "LFREE"]
        /\ Then(<<[Sub(t) EXCEPT !.cond = TRUE], With("then", x.label_then),
                   [Expr("int") EXCEPT !.inner = TRUE, !.of = IF a THEN {"ternary"} ELSE @ \ {"ternary"}],
                   With("else", x),
                   [Expr("int") EXCEPT !.inner = TRUE, !.of = IF b THEN {"ternary"} ELSE @ \ {"ternary"}],
                   With("ternary", x)>>)
    BY ONLY <2>1, <2>2
  <2> QED
    BY <2>3
<1>2. PICK i : i = TakeLabels(info, 3)
  OBVIOUS
<1>3. Alike(info, i)
  BY <1>0, <1>2, TakeKept
<1>4. Alike(info, info')
  BY <1>1, <1>2, <1>3 DEF Alike, Shape
<1>5. PICK e : e = [Expr("int") EXCEPT !.inner = TRUE]
  OBVIOUS
<1>6. Request(e)
  BY <1>5, Requests, RequestKept
<1>7. \A c : Request([Expr("int") EXCEPT !.inner = TRUE, !.of = IF c THEN {"ternary"} ELSE @ \ {"ternary"}])
  BY <1>5, <1>6, RequestKept
<1>8. PlainSeq(<<[Sub(t) EXCEPT !.cond = TRUE], With("then", x.label_then),
                   [Expr("int") EXCEPT !.inner = TRUE, !.of = IF a THEN {"ternary"} ELSE @ \ {"ternary"}],
                   With("else", x),
                   [Expr("int") EXCEPT !.inner = TRUE, !.of = IF b THEN {"ternary"} ELSE @ \ {"ternary"}],
                   With("ternary", x)>>)
  BY <1>7, PlainItem, Plain6, Requests, RequestKept, PlainRequest
<1> QED
  BY <1>1, <1>4, <1>8, QuietBy DEF BeginTernary, Begin, Do, Then

\* No expression touches the places of the stack.
LEMMA ExpressionQuiet ==
    ASSUME Shape(info), TodoInv(todo, info.slots), \A a \in info.arrays : a.dimensions \in Nat, Expression
    PROVE  Quiet
<1>0. Alike(info, info)
  BY AlikeSame
<1>1. CASE emit_identifier_expression
  <2>1. Alike(info, info')
    BY <1>1, <1>0, PlaceKept, LoadKept, AnswerKept DEF emit_identifier_expression
  <2> QED
    BY <1>1, <2>1, DoneQuiet DEF emit_identifier_expression, Begin, Do, Declare, Statement
<1>2. CASE ArrayIdentifier
  <2>1. PICK a : info' = Answer(to_code_slice([info EXCEPT !.kind = "ACONST"], a, a.dimensions - 1, 0), "AREG")
    BY <1>2 DEF ArrayIdentifier
  <2>2. Alike(info, info')
    BY <1>2, <2>1, <1>0, SliceKept, AnswerKept, SetKept DEF ArrayIdentifier
  <2> QED
    BY <1>2, <2>1, <2>2, DoneQuiet DEF ArrayIdentifier, Begin, Do, Declare, Statement
<1>3. CASE BeginCast
  <2>1. Alike(info, info')
    BY <1>3, <1>0 DEF BeginCast
  <2>2. /\ todo # <<>>
        /\ todo' = (<<NonLiteral("int"), Item("cast")>>) \o Tail(todo)
    BY <1>3 DEF BeginCast, Begin, Do, Then, Done, Declare, Statement
  <2>3. PlainSeq(<<NonLiteral("int"), Item("cast")>>)
    BY Plain2, Requests, RequestKept, PlainRequest, PlainItem, PlainStmt
  <2> QED
    BY <2>1, <2>2, <2>3, QuietBy
<1>4. CASE emit_cast_expression
  <2>1. Alike(info, info')
    BY <1>4, <1>0, AnsweredOfKept, NextKept, SetKept DEF emit_cast_expression
  <2> QED
    BY <1>4, <2>1, DoneQuiet DEF emit_cast_expression, Begin, Do, Declare, Statement
<1>5. CASE emit_one_dimension_subscript
  <2>1. Alike(info, info')
    BY <1>5, <1>0, SliceKept DEF emit_one_dimension_subscript
  <2> QED
    BY <1>5, <2>1, DoneQuiet DEF emit_one_dimension_subscript, Begin, Do, Declare, Statement
<1>6. CASE emit_subscript_expression
  <2>1. Alike(info, info')
    BY <1>6, <1>0, LoadKept, AnswerKept DEF emit_subscript_expression
  <2> QED
    BY <1>6, <2>1, DoneQuiet DEF emit_subscript_expression, Begin, Do, Declare, Statement
<1>7. CASE RowAddress
  <2>1. Alike(info, info')
    BY <1>7, <1>0, SliceKept, SetKept, AnswerKept DEF RowAddress
  <2> QED
    BY <1>7, <2>1, DoneQuiet DEF RowAddress, Begin, Do, Declare, Statement
<1>8. CASE BeginIndex
  <2>1. Alike(info, info')
    BY <1>8, <1>0, PlaceKept DEF BeginIndex
  <2> QED
    BY <1>8, <2>1, DoneQuiet DEF BeginIndex, Begin, Do, Declare, Statement
<1>9. CASE StringSubscript
  <2>1. Alike(info, info')
    BY <1>9, <1>0 DEF StringSubscript
  <2>2. /\ todo # <<>>
        /\ todo' = (<<NonLiteral("int")>>) \o Tail(todo)
    BY <1>9 DEF StringSubscript, Begin, Do, Then, Done, Declare, Statement
  <2>3. PlainSeq(<<NonLiteral("int")>>)
    BY Plain1, Requests, RequestKept, PlainRequest, PlainItem, PlainStmt
  <2> QED
    BY <2>1, <2>2, <2>3, QuietBy
<1>10. CASE PassArgument
  <2>1. Alike(info, info')
    BY <1>10, <1>0, PlaceKept DEF PassArgument
  <2> QED
    BY <1>10, <2>1, DoneQuiet DEF PassArgument, Begin, Do, Declare, Statement
<1>11. ASSUME NEW arrow \in BOOLEAN, emit_member_expression(arrow) PROVE Quiet
  <2>1. Alike(info, info')
    BY <1>11, <1>0, MemberOfRecordKept, LoadKept DEF emit_member_expression
  <2> QED
    BY <1>11, <2>1, DoneQuiet DEF emit_member_expression, Begin, Do, Declare, Statement
<1>12. ASSUME NEW base \in {"subscript", "member", "call"}, BeginMemberOf(base) PROVE Quiet
  <2>1. Alike(info, info')
    BY <1>12, <1>0, PlaceKept DEF BeginMemberOf
  <2>2. /\ todo # <<>>
        /\ todo' = (<<SubOf("int", {base}), With("member", info.location)>>) \o Tail(todo) \/ todo' = (<<SubOf("int", {"call"}), With("extract", info.location)>>) \o Tail(todo)
    BY <1>12 DEF BeginMemberOf, Begin, Do, Then, Done, Declare, Statement
  <2>3. PlainSeq(<<SubOf("int", {base}), With("member", info.location)>>)
    BY Plain2, Requests, RequestKept, PlainRequest, PlainItem, PlainStmt
  <2>4. PlainSeq(<<SubOf("int", {"call"}), With("extract", info.location)>>)
    BY Plain2, Requests, RequestKept, PlainRequest, PlainItem, PlainStmt
  <2> QED
    BY <2>1, <2>2, <2>3, <2>4, QuietBy
<1>13. CASE MemberOf
  <2>1. Alike(info, info')
    BY <1>13, <1>0, MemberOfRecordKept, PlaceKept DEF MemberOf
  <2> QED
    BY <1>13, <2>1, DoneQuiet DEF MemberOf, Begin, Do, Declare, Statement
<1>14. CASE ExtractMember
  <2>1. Alike(info, info')
    BY <1>14, <1>0, NextKept, PlaceKept, SetKept DEF ExtractMember
  <2> QED
    BY <1>14, <2>1, DoneQuiet DEF ExtractMember, Begin, Do, Declare, Statement
<1>15. CASE emit_inc_dec_expression
  <2>1. Alike(info, info')
    BY <1>15, <1>0, LoadKept, AnswerKept, OperationConstKept, StoreRegKept DEF emit_inc_dec_expression
  <2> QED
    BY <1>15, <2>1, DoneQuiet DEF emit_inc_dec_expression, Begin, Do, Declare, Statement
<1>16. CASE BeginMinus
  <2>1. Alike(info, info')
    BY <1>16, <1>0, PlaceKept DEF BeginMinus
  <2>2. /\ todo # <<>>
        /\ todo' = (<<NonLiteral("int"), Item("minus")>>) \o Tail(todo)
    BY <1>16 DEF BeginMinus, Begin, Do, Then, Done, Declare, Statement
  <2>3. PlainSeq(<<NonLiteral("int"), Item("minus")>>)
    BY Plain2, Requests, RequestKept, PlainRequest, PlainItem, PlainStmt
  <2> QED
    BY <2>1, <2>2, <2>3, QuietBy
<1>17. CASE EndMinus
  <2>1. Alike(info, info')
    BY <1>17, <1>0, AnswerKept, ConstOperationKept, AnsweredOfKept DEF EndMinus
  <2> QED
    BY <1>17, <2>1, DoneQuiet DEF EndMinus, Begin, Do, Declare, Statement
<1>18. CASE EndNegation
  <2>1. Alike(info, info')
    BY <1>18, <1>0, AnswerKept, OperationConstKept, CheckedKept DEF EndNegation
  <2> QED
    BY <1>18, <2>1, DoneQuiet DEF EndNegation, Begin, Do, Declare, Statement
<1>19. CASE AddressOfVariable
  <2>1. Alike(info, info')
    BY <1>19, <1>0, SetKept DEF AddressOfVariable
  <2> QED
    BY <1>19, <2>1, DoneQuiet DEF AddressOfVariable, Begin, Do, Declare, Statement
<1>20. CASE AddressOfElement
  <2>1. Alike(info, info')
    BY <1>20, <1>0, PlaceKept, SetKept DEF AddressOfElement
  <2>2. /\ todo # <<>>
        /\ todo' = (<<Lvalue("int")>>) \o Tail(todo)
    BY <1>20 DEF AddressOfElement, Begin, Do, Then, Done, Declare, Statement
  <2>3. PlainSeq(<<Lvalue("int")>>)
    BY Plain1, Requests, RequestKept, PlainRequest, PlainItem, PlainStmt
  <2> QED
    BY <2>1, <2>2, <2>3, QuietBy
<1>21. CASE emit_indirection
  <2>1. Alike(info, info')
    BY <1>21, <1>0, PlaceKept, AnswerKept, LoadKept DEF emit_indirection
  <2> QED
    BY <1>21, <2>1, DoneQuiet DEF emit_indirection, Begin, Do, Declare, Statement
<1>22. CASE BeginAbs
  <2>1. Alike(info, info')
    BY <1>22, <1>0, PlaceKept DEF BeginAbs
  <2>2. /\ todo # <<>>
        /\ todo' = (<<NonLiteral(T), With("abs", T)>>) \o Tail(todo)
    BY <1>22 DEF BeginAbs, Begin, Do, Then, Done, Declare, Statement
  <2>3. PlainSeq(<<NonLiteral(T), With("abs", T)>>)
    BY Plain2, Requests, RequestKept, PlainRequest, PlainItem, PlainStmt
  <2> QED
    BY <2>1, <2>2, <2>3, QuietBy
<1>23. CASE EndAbs
  <2>1. Alike(info, info')
    BY <1>23, <1>0, AbsOfKept, SetKept, AnswerKept, NextKept, AnsweredOfKept DEF EndAbs
  <2> QED
    BY <1>23, <2>1, DoneQuiet DEF EndAbs, Begin, Do, Declare, Statement
<1>24. CASE Target
  <2>1. Alike(info, info')
    BY <1>24, <1>0, PlaceKept DEF Target
  <2> QED
    BY <1>24, <2>1, DoneQuiet DEF Target, Begin, Do, Declare, Statement
<1>25. CASE AssignList
  <2>1. Alike(info, info')
    BY <1>25, <1>0, PlaceKept DEF AssignList
  <2>2. /\ todo # <<>>
        /\ todo' = (<<Lvalue("int"), Item("list")>>) \o Tail(todo)
    BY <1>25 DEF AssignList, Begin, Do, Then, Done, Declare, Statement
  <2>3. PlainSeq(<<Lvalue("int"), Item("list")>>)
    BY Plain2, Requests, RequestKept, PlainRequest, PlainItem, PlainStmt
  <2> QED
    BY <2>1, <2>2, <2>3, QuietBy
<1>26. CASE emit_initializer_expression
  <2>1. Alike(info, info')
    BY <1>26, <1>0, InitializerOfKept, PlaceKept, SetKept DEF emit_initializer_expression
  <2> QED
    BY <1>26, <2>1, DoneQuiet DEF emit_initializer_expression, Begin, Do, Declare, Statement
<1>27. CASE Comma
  <2>1. Alike(info, info')
    BY <1>27, <1>0 DEF Comma
  <2>2. /\ todo # <<>>
        /\ todo' = (<<Sub("int"), Sub("int")>>) \o Tail(todo)
    BY <1>27 DEF Comma, Begin, Do, Then, Done, Declare, Statement
  <2>3. PlainSeq(<<Sub("int"), Sub("int")>>)
    BY Plain2, Requests, RequestKept, PlainRequest, PlainItem, PlainStmt
  <2> QED
    BY <2>1, <2>2, <2>3, QuietBy
<1>28. CASE BeginBranch
  <2>1. Alike(info, info')
    BY <1>28, <1>0, PlaceKept, LabelOfKept, CheckedKept DEF BeginBranch
  <2> QED
    BY <1>28, <2>1, DoneQuiet DEF BeginBranch, Begin, Do, Declare, Statement
<1>29. CASE BeginElse
  <2>1. Alike(info, info')
    BY <1>29, <1>0, PlaceKept, LabelOfKept, BranchingKept DEF BeginElse
  <2> QED
    BY <1>29, <2>1, DoneQuiet DEF BeginElse, Begin, Do, Declare, Statement
<1>30. CASE EndLogical
  <2>1. Alike(info, info')
    BY <1>30, <1>0, CheckedKept, PlaceKept, LabelOfKept, NextKept, AnswerKept, SetKept DEF EndLogical
  <2> QED
    BY <1>30, <2>1, DoneQuiet DEF EndLogical, Begin, Do, Declare, Statement
<1>31. CASE emit_call_expression
  <2>1. Alike(info, info')
    BY <1>31, <1>0, ReadingKept, SetKept, NextKept, AnswerKept DEF emit_call_expression
  <2> QED
    BY <1>31, <2>1, DoneQuiet DEF emit_call_expression, Begin, Do, Declare, Statement
<1>32. CASE emit_literal_expression
  BY <1>32, LiteralQuiet
<1>33. CASE emit_upb
  BY <1>33, UpbQuiet
<1>34. CASE emit_integral_expression
  BY <1>34, IntegralQuiet
<1>35. CASE emit_assignment_expression
  BY <1>35, AssignmentQuiet
<1>36. CASE emit_ternary_expression
  BY <1>36, TernaryQuiet
<1>37. CASE BeginSubscript \/ BeginRow
  BY <1>37, SubscriptQuiet
<1>38. CASE BeginCall
  BY <1>38, CallQuiet
<1>39. ASSUME NEW prefix \in BOOLEAN, NEW is_complex \in BOOLEAN, BeginIncrement(prefix, is_complex) PROVE Quiet
  BY <1>39, IncrementQuiet
<1>40. CASE BeginNegation
  BY <1>40, NegationQuiet
<1>41. CASE BeginIntegral
  BY <1>41, BeginIntegralQuiet
<1>42. CASE RightOperand
  BY <1>42, RightQuiet
<1>43. ASSUME NEW compound \in BOOLEAN, NEW is_complex \in BOOLEAN, BeginAssignment(compound, is_complex) PROVE Quiet
  BY <1>43, BeginAssignmentQuiet
<1>44. ASSUME NEW or \in BOOLEAN, BeginLogical(or) PROVE Quiet
  BY <1>44, BeginLogicalQuiet
<1>45. CASE LeftLogical
  BY <1>45, LeftLogicalQuiet
<1>46. CASE BeginTernary
  BY <1>46, BeginTernaryQuiet
<1> QED
  BY <1>1, <1>2, <1>3, <1>4, <1>5, <1>6, <1>7, <1>8, <1>9, <1>10, <1>11, <1>12, <1>13, <1>14, <1>15, <1>16, <1>17, <1>18, <1>19, <1>20, <1>21, <1>22, <1>23, <1>24, <1>25, <1>26, <1>27, <1>28, <1>29, <1>30, <1>31, <1>32, <1>33, <1>34, <1>35, <1>36, <1>37, <1>38, <1>39, <1>40, <1>41, <1>42, <1>43, <1>44, <1>45, <1>46 DEF Expression

LEMMA TwoFieldsKept ==
    ASSUME NEW b, NEW i, Alike(b, i), NEW v, NEW w
    PROVE  Alike(b, [i EXCEPT !.label_true = v, !.label_false = w])
  BY DEF Alike, Shape

LEMMA ExpressionStatementQuiet == ASSUME Shape(info), ExpressionStatement PROVE Quiet
<1>1. Alike(info, info')
  BY AlikeSame DEF ExpressionStatement
<1>2. PICK t : Then(<<[Expr(t) EXCEPT !.of = @ \cap Effects]>>)
  BY DEF ExpressionStatement
<1>3. PlainSeq(<<[Expr(t) EXCEPT !.of = @ \cap Effects]>>)
  BY Plain1, Requests, RequestKept, PlainRequest
<1> QED
  BY <1>1, <1>2, <1>3, QuietBy DEF ExpressionStatement, Do, Then

LEMMA BeginIfQuiet == ASSUME Shape(info), NEW has_else, BeginIf(has_else) PROVE Quiet
<1>0. Alike(info, info)
  BY AlikeSame
<1>1. Alike(info, info')
  BY <1>0, TakeKept, ConditionalOfKept, PlaceKept DEF BeginIf
<1>2. PICK t, l, x : Then(<<Cond(t), With("branch", l), Stmt, With("else_part", x)>>
                      \o (IF has_else THEN <<Stmt>> ELSE <<>>) \o <<With("endif", x)>>)
  BY DEF BeginIf
<1>3. PICK a : a = <<Cond(t), With("branch", l), Stmt, With("else_part", x)>>
  OBVIOUS
<1>4. PICK b : b = IF has_else THEN <<Stmt>> ELSE <<>>
  OBVIOUS
<1>5. PICK c : c = <<With("endif", x)>>
  OBVIOUS
<1>6. PlainSeq(a) /\ PlainSeq(b) /\ PlainSeq(c)
  BY <1>3, <1>4, <1>5, PlainItem, PlainStmt, Plain0, Plain1, Plain4, Requests, PlainRequest
<1>7. PlainSeq(a \o b \o c)
  BY <1>6, PlainConcat
<1> QED
  BY <1>1, <1>2, <1>3, <1>4, <1>5, <1>7, QuietBy DEF BeginIf, Statement, Do, Then

LEMMA BeginWhileQuiet == ASSUME Shape(info), BeginWhile PROVE Quiet
<1>0. Alike(info, info)
  BY AlikeSame
<1>1. Alike(info, info')
  BY <1>0, TakeKept, LoopOfKept, LabelledOfKept, PlaceKept DEF BeginWhile
<1>2. PICK t, l, x : Then(<<Cond(t), With("branch", l), Stmt, With("endloop", x)>>)
  BY DEF BeginWhile
<1>3. PlainSeq(<<Cond(t), With("branch", l), Stmt, With("endloop", x)>>)
  BY PlainItem, PlainStmt, Plain4, Requests, PlainRequest
<1> QED
  BY <1>1, <1>2, <1>3, QuietBy DEF BeginWhile, Statement, Do, Then

LEMMA BeginDoQuiet == ASSUME Shape(info), BeginDo PROVE Quiet
<1>0. Alike(info, info)
  BY AlikeSame
<1>1. Alike(info, info')
  BY <1>0, TakeKept, LoopOfKept, LabelledOfKept DEF BeginDo
<1>2. PICK x : Then(<<Stmt, With("do_condition", x)>>)
  BY DEF BeginDo
<1>3. PlainSeq(<<Stmt, With("do_condition", x)>>)
  BY PlainItem, PlainStmt, Plain2
<1> QED
  BY <1>1, <1>2, <1>3, QuietBy DEF BeginDo, Statement, Do, Then

LEMMA DoConditionQuiet == ASSUME Shape(info), DoCondition PROVE Quiet
<1>0. Alike(info, info)
  BY AlikeSame
<1>1. Alike(info, info')
  BY <1>0, PlaceKept DEF DoCondition
<1>2. PICK t : Then(<<Cond(t), With("enddo", X)>>)
  BY DEF DoCondition
<1>3. PlainSeq(<<Cond(t), With("enddo", X)>>)
  BY PlainItem, Plain2, Requests, PlainRequest
<1> QED
  BY <1>1, <1>2, <1>3, QuietBy DEF DoCondition, Do, Then

LEMMA BeginForQuiet ==
    ASSUME Shape(info), NEW has_inition, NEW has_condition, NEW has_increment,
           BeginFor(has_inition, has_condition, has_increment)
    PROVE  Quiet
<1>0. Alike(info, info)
  BY AlikeSame
<1>1. Alike(info, info')
  BY <1>0, TakeKept, LoopOfKept DEF BeginFor
<1>2. PICK t, x : Then((IF has_inition THEN <<[Expr("int") EXCEPT !.of = @ \cap Effects]>> ELSE <<>>)
                      \o (IF has_condition THEN <<With("for_condition", x), Cond(t)>> ELSE <<>>)
                      \o <<With("for_increment", x)>>
                      \o (IF has_increment THEN <<[Expr("int") EXCEPT !.of = @ \cap Effects]>> ELSE <<>>)
                      \o <<With("for_body", x), Stmt, With("endloop", x)>>)
  BY DEF BeginFor
<1>3. PICK a : a = IF has_inition THEN <<[Expr("int") EXCEPT !.of = @ \cap Effects]>> ELSE <<>>
  OBVIOUS
<1>4. PICK b : b = IF has_condition THEN <<With("for_condition", x), Cond(t)>> ELSE <<>>
  OBVIOUS
<1>5. PICK c : c = <<With("for_increment", x)>>
  OBVIOUS
<1>6. PICK d : d = IF has_increment THEN <<[Expr("int") EXCEPT !.of = @ \cap Effects]>> ELSE <<>>
  OBVIOUS
<1>7. PICK e : e = <<With("for_body", x), Stmt, With("endloop", x)>>
  OBVIOUS
<1>8. PlainSeq(<<[Expr("int") EXCEPT !.of = @ \cap Effects]>>)
  BY Plain1, Requests, RequestKept, PlainRequest
<1>9. PlainSeq(a) /\ PlainSeq(b) /\ PlainSeq(c) /\ PlainSeq(d) /\ PlainSeq(e)
  BY <1>3, <1>4, <1>5, <1>6, <1>7, <1>8, PlainItem, PlainStmt, Plain0, Plain1, Plain2, Plain3, Requests, PlainRequest
<1>10. PlainSeq(a \o b \o c \o d \o e)
  BY <1>9, PlainConcat
<1> QED
  BY <1>1, <1>2, <1>3, <1>4, <1>5, <1>6, <1>7, <1>10, QuietBy DEF BeginFor, Statement, Do, Then

LEMMA BeginSwitchQuiet == ASSUME Shape(info), BeginSwitch PROVE Quiet
<1>0. Alike(info, info)
  BY AlikeSame
<1>1. Alike(info, info')
  BY <1>0, SetKept DEF BeginSwitch
<1>2. PICK body \in Bodies : Then(<<[Expr("int") EXCEPT !.of = Registers], With("cases", body)>>)
  BY DEF BeginSwitch
<1>3. PlainSeq(<<[Expr("int") EXCEPT !.of = Registers], With("cases", body)>>)
  <2>1. Plain(With("cases", body))
    BY DEF Plain, With
  <2> QED
    BY <2>1, Plain2, Requests, RequestKept, PlainRequest
<1> QED
  BY <1>1, <1>2, <1>3, QuietBy DEF BeginSwitch, Statement, Do, Then

LEMMA DeclareInitializedQuiet == ASSUME Shape(info), DeclareInitialized PROVE Quiet
<1>0. Alike(info, info)
  BY AlikeSame
<1>1. Alike(info, info')
  BY <1>0, PlaceKept DEF DeclareInitialized
<1>2. PICK from, x : Then(<<Value(from, FALSE), With("init", x)>>)
  BY DEF DeclareInitialized
<1>3. PlainSeq(<<Value(from, FALSE), With("init", x)>>)
  BY PlainItem, Plain2, Requests, PlainRequest
<1> QED
  BY <1>1, <1>2, <1>3, QuietBy DEF DeclareInitialized, Declare, Do, Then

LEMMA PlainElements == ASSUME NEW a PROVE PlainSeq(ElementsOf(a))
<1>1. PICK e : e = With("slot", [a |-> a, cur |-> 0])
  OBVIOUS
<1>2. PICK r : r = <<With("slot", [a |-> a, cur |-> 1]), e, e, Item("endrow")>>
  OBVIOUS
<1>3. Plain(e)
  BY <1>1, PlainItem
<1>4. PlainSeq(r) /\ PlainSeq(<<e, e>>)
  BY <1>2, <1>3, PlainItem, Plain4, Plain2
<1>5. ElementsOf(a) = IF a.dimensions = 1 THEN <<e, e>> ELSE r \o r
  BY <1>1, <1>2 DEF ElementsOf
<1> QED
  BY <1>4, <1>5, PlainConcat

LEMMA ArrayDimensions ==
    ASSUME NEW n, NEW b, NEW p, NEW a, a = Array(n, b, p) PROVE a.dimensions = n
  BY DEF Array

LEMMA GlobalDimensions ==
    ASSUME NEW k \in {"scalar", "list", "table"}, NEW a \in GlobalArray(k) PROVE a.dimensions \in Nat
<1>1. PICK one : one = Array(1, <<>>, FALSE)
  OBVIOUS
<1>2. PICK two : two = Array(2, <<>>, FALSE)
  OBVIOUS
<1>3. one.dimensions = 1
  BY <1>1, ArrayDimensions
<1>a. two.dimensions = 2
  BY <1>2 DEF Array
<1>4. GlobalArray(k) \subseteq {one, two}
  BY <1>1, <1>2 DEF GlobalArray
<1> QED
  BY <1>3, <1>a, <1>4

LEMMA DeclareArrayQuiet == ASSUME Shape(info), NEW dimensions \in 1..2, DeclareArray(dimensions) PROVE Quiet
<1>0. Alike(info, info)
  BY AlikeSame
<1>1. PICK a : a = Array(dimensions, <<>>, FALSE)
  OBVIOUS
<1>2. a.dimensions \in Nat
  <2>1. a.dimensions = dimensions
    BY <1>1, ArrayDimensions
  <2> QED
    BY <2>1
<1>3. Alike(info, [info EXCEPT !.arrays = @ \cup {a}])
  BY <1>0, <1>2 DEF Alike, Shape
<1>4. PICK i : i = at(info, "LFREE")
  OBVIOUS
<1>5. Alike(info, i)
  BY <1>0, <1>4, PlaceKept
<1>6. Alike(info, [i EXCEPT !.kind = "ACONST", !.arrays = @ \cup {a}])
  BY <1>5, <1>2 DEF Alike, Shape
<1>7. \/ info' = [i EXCEPT !.kind = "ACONST", !.arrays = @ \cup {a}] /\ Done
      \/ info' = [info EXCEPT !.arrays = @ \cup {a}] /\ Then(ElementsOf(a))
  BY <1>1, <1>4 DEF DeclareArray
<1>8. todo # <<>>
  BY DEF DeclareArray, Declare, Do
<1>9. CASE info' = [i EXCEPT !.kind = "ACONST", !.arrays = @ \cup {a}] /\ Done
  BY <1>6, <1>8, <1>9, DoneQuiet
<1>10. CASE info' = [info EXCEPT !.arrays = @ \cup {a}] /\ Then(ElementsOf(a))
  BY <1>3, <1>8, <1>10, PlainElements, QuietBy DEF Then
<1> QED
  BY <1>7, <1>9, <1>10

LEMMA DeclareStringQuiet == ASSUME Shape(info), DeclareString PROVE Quiet
<1>0. Alike(info, info)
  BY AlikeSame
<1>1. PICK a : a = Array(1, <<>>, FALSE)
  OBVIOUS
<1>2. PICK i : i = [info EXCEPT !.arrays = @ \cup {a}]
  OBVIOUS
<1>3. Alike(info, i)
  <2>1. a.dimensions = 1
    BY <1>1, ArrayDimensions
  <2> QED
    BY <1>0, <1>2, <2>1 DEF Alike, Shape
<1>4. PICK j : j = to_code_store_const_integer(to_code_slice([i EXCEPT !.kind = "ACONST"], a, 0, 0), {i.register_num})
  OBVIOUS
<1>5. Alike(info, j)
  BY <1>3, <1>4, SetKept, SliceKept, StoreConstKept
<1>6. info' = to_code_store_const_integer(to_code_slice([j EXCEPT !.kind = "ACONST"], a, 0, 0), {j.register_num})
  BY <1>1, <1>2, <1>4 DEF DeclareString
<1>7. Alike(info, info')
  BY <1>5, <1>6, SetKept, SliceKept, StoreConstKept
<1> QED
  BY <1>7, DoneQuiet DEF DeclareString, Declare, Do

LEMMA DeclareGlobalQuiet == ASSUME Shape(info), TodoInv(todo, info.slots), DeclareGlobal PROVE Quiet
<1>1. todo # <<>> /\ Head(todo).do = "global"
  BY DEF DeclareGlobal, Do
<1>2. PICK S : todo \in Seq(S)
  BY DEF TodoInv
<1>3. 1 \in DOMAIN todo /\ todo[1] = Head(todo)
  BY <1>1, <1>2
<1>4. X \in {"scalar", "list", "table"}
  BY <1>1, <1>3 DEF TodoInv, Placed, X
<1>5. info' = [info EXCEPT !.arrays = @ \cup GlobalArray(X)]
  BY DEF DeclareGlobal
<1>6. \A a \in GlobalArray(X) : a.dimensions \in Nat
  BY <1>4, GlobalDimensions
<1>7. Alike(info, info')
  BY <1>5, <1>6 DEF Alike, Shape
<1> QED
  BY <1>1, <1>7, DoneQuiet DEF DeclareGlobal

LEMMA BeginDynamicArrayQuiet == ASSUME Shape(info), NEW dimensions \in 1..2, BeginDynamicArray(dimensions) PROVE Quiet
<1>0. Alike(info, info)
  BY AlikeSame
<1>1. Alike(info, info')
  BY <1>0, PlaceKept DEF BeginDynamicArray
<1>2. PICK b : b = <<[Expr("int") EXCEPT !.of = Registers], Item("bound")>>
  OBVIOUS
<1>3. PICK c : c = <<With("dynamic", dimensions)>>
  OBVIOUS
<1>4. PICK d : d = IF dimensions = 1 THEN b ELSE b \o b
  OBVIOUS
<1>5. PlainSeq(b) /\ PlainSeq(c)
  <2>1. Plain(With("dynamic", dimensions))
    BY DEF Plain, With
  <2> QED
    BY <1>2, <1>3, <2>1, PlainItem, Plain1, Plain2, Requests, RequestKept, PlainRequest
<1>6. PlainSeq(d \o c)
  BY <1>4, <1>5, PlainConcat
<1>7. todo # <<>> /\ todo' = (d \o c) \o Tail(todo)
  BY <1>2, <1>3, <1>4 DEF BeginDynamicArray, Declare, Do, Then
<1> QED
  BY <1>1, <1>6, <1>7, QuietBy

LEMMA InitializeGlobalQuiet == ASSUME Shape(info), InitializeGlobal PROVE Quiet
<1>1. Alike(info, info')
  BY AlikeSame DEF InitializeGlobal
<1>2. PICK s : s = IF X = "list" THEN ElementsOf(Array(1, <<>>, FALSE)) ELSE <<>>
  OBVIOUS
<1>3. PlainSeq(s)
  BY <1>2, PlainElements, Plain0
<1> QED
  BY <1>1, <1>2, <1>3, QuietBy DEF InitializeGlobal, Do, Then

\* Statements other than blocks, returns and the head of a switch.
LEMMA StatementQuiet ==
    ASSUME Shape(info), TodoInv(todo, info.slots), \A a \in info.arrays : a.dimensions \in Nat, StatementStep
    PROVE  Quiet \/ emit_compound_statement \/ Substatement \/ EndBlock \/ BeginReturn \/ emit_switch_statement
<1>0. Alike(info, info)
  BY AlikeSame
<1>1. CASE emit_declaration_statement
  <2>1. Alike(info, info')
    BY <1>1, <1>0 DEF emit_declaration_statement
  <2>2. /\ todo # <<>>
        /\ todo' = (<<Item("declare")>>) \o Tail(todo)
    BY <1>1 DEF emit_declaration_statement, Begin, Do, Then, Done, Declare, Statement
  <2>3. PlainSeq(<<Item("declare")>>)
    BY Plain1, Requests, RequestKept, PlainRequest, PlainItem, PlainStmt
  <2> QED
    BY <2>1, <2>2, <2>3, QuietBy
<1>2. CASE ExpressionStatement
  BY <1>2, ExpressionStatementQuiet
<1>3. ASSUME NEW has_else \in BOOLEAN, BeginIf(has_else) PROVE Quiet
  BY <1>3, BeginIfQuiet
<1>4. CASE BranchOn
  <2>1. Alike(info, info')
    BY <1>4, <1>0, CheckedKept, LabelOfKept DEF BranchOn
  <2> QED
    BY <1>4, <2>1, DoneQuiet DEF BranchOn, Begin, Do, Declare, Statement
<1>5. CASE ElsePart
  <2>1. Alike(info, info')
    BY <1>5, <1>0, BranchingKept, LabelOfKept DEF ElsePart
  <2> QED
    BY <1>5, <2>1, DoneQuiet DEF ElsePart, Begin, Do, Declare, Statement
<1>6. CASE emit_if_statement
  <2>1. Alike(info, info')
    BY <1>6, <1>0, LabelledOfKept, TwoFieldsKept DEF emit_if_statement
  <2> QED
    BY <1>6, <2>1, DoneQuiet DEF emit_if_statement, Begin, Do, Declare, Statement
<1>7. CASE BeginWhile
  BY <1>7, BeginWhileQuiet
<1>8. CASE emit_while_statement
  <2>1. Alike(info, info')
    BY <1>8, <1>0, BranchingKept, LabelOfKept, RestoreOfKept DEF emit_while_statement
  <2> QED
    BY <1>8, <2>1, DoneQuiet DEF emit_while_statement, Begin, Do, Declare, Statement
<1>9. CASE BeginDo
  BY <1>9, BeginDoQuiet
<1>10. CASE DoCondition
  BY <1>10, DoConditionQuiet
<1>11. CASE emit_do_statement
  <2>1. Alike(info, info')
    BY <1>11, <1>0, CheckedKept, LabelOfKept, RestoreOfKept DEF emit_do_statement
  <2> QED
    BY <1>11, <2>1, DoneQuiet DEF emit_do_statement, Begin, Do, Declare, Statement
<1>12. ASSUME NEW has_inition \in BOOLEAN, NEW has_condition \in BOOLEAN, NEW has_increment \in BOOLEAN, BeginFor(has_inition, has_condition, has_increment) PROVE Quiet
  BY <1>12, BeginForQuiet
<1>13. CASE ForCondition
  <2>1. Alike(info, info')
    BY <1>13, <1>0, LabelledOfKept, PlaceKept DEF ForCondition
  <2> QED
    BY <1>13, <2>1, DoneQuiet DEF ForCondition, Begin, Do, Declare, Statement
<1>14. CASE ForIncrement
  <2>1. Alike(info, info')
    BY <1>14, <1>0, CheckedKept, BranchingKept, LabelOfKept DEF ForIncrement
  <2> QED
    BY <1>14, <2>1, DoneQuiet DEF ForIncrement, Begin, Do, Declare, Statement
<1>15. CASE emit_for_statement
  <2>1. Alike(info, info')
    BY <1>15, <1>0, BranchingKept, LabelOfKept DEF emit_for_statement
  <2> QED
    BY <1>15, <2>1, DoneQuiet DEF emit_for_statement, Begin, Do, Declare, Statement
<1>16. CASE ContinueStatement
  <2>1. Alike(info, info')
    BY <1>16, <1>0, BranchingKept DEF ContinueStatement
  <2> QED
    BY <1>16, <2>1, DoneQuiet DEF ContinueStatement, Begin, Do, Declare, Statement
<1>17. CASE BreakStatement
  <2>1. Alike(info, info')
    BY <1>17, <1>0, BranchingKept DEF BreakStatement
  <2> QED
    BY <1>17, <2>1, DoneQuiet DEF BreakStatement, Begin, Do, Declare, Statement
<1>18. CASE emit_return_statement
  <2>1. Alike(info, info')
    BY <1>18, <1>0, ReadingKept, ReturnOfKept DEF emit_return_statement
  <2> QED
    BY <1>18, <2>1, DoneQuiet DEF emit_return_statement, Begin, Do, Declare, Statement
<1>19. CASE BeginSwitch
  BY <1>19, BeginSwitchQuiet
<1>20. CASE emit_case_statement
  <2>1. Alike(info, info')
    BY <1>20, <1>0, LabelledOfKept, SetKept DEF emit_case_statement
  <2>2. /\ todo # <<>>
        /\ todo' = (<<Stmt>>) \o Tail(todo)
    BY <1>20 DEF emit_case_statement, Begin, Do, Then, Done, Declare, Statement
  <2>3. PlainSeq(<<Stmt>>)
    BY Plain1, Requests, RequestKept, PlainRequest, PlainItem, PlainStmt
  <2> QED
    BY <2>1, <2>2, <2>3, QuietBy
<1>21. CASE LastCase
  <2>1. Alike(info, info')
    BY <1>21, <1>0, BranchingKept DEF LastCase
  <2> QED
    BY <1>21, <2>1, DoneQuiet DEF LastCase, Begin, Do, Declare, Statement
<1>22. CASE BreakSwitch
  <2>1. Alike(info, info')
    BY <1>22, <1>0, BranchingKept DEF BreakSwitch
  <2> QED
    BY <1>22, <2>1, DoneQuiet DEF BreakSwitch, Begin, Do, Declare, Statement
<1>23. CASE EndSwitch
  <2>1. Alike(info, info')
    BY <1>23, <1>0, LabelOfKept DEF EndSwitch
  <2> QED
    BY <1>23, <2>1, DoneQuiet DEF EndSwitch, Begin, Do, Declare, Statement
<1> QED
  BY <1>1, <1>2, <1>3, <1>4, <1>5, <1>6, <1>7, <1>8, <1>9, <1>10, <1>11, <1>12, <1>13, <1>14, <1>15, <1>16, <1>17, <1>18, <1>19, <1>20, <1>21, <1>22, <1>23 DEF StatementStep

\* Declarations other than of dynamic arrays, and the ends of the program.
LEMMA DeclarationQuiet ==
    ASSUME Shape(info), TodoInv(todo, info.slots), \A a \in info.arrays : a.dimensions \in Nat, Declaration
    PROVE  Quiet \/ emit_function_definition \/ EndFunction \/ EndDynamicArray
<1>0. Alike(info, info)
  BY AlikeSame
<1>1. CASE emit_one_dimension_initialization
  <2>1. Alike(info, info')
    BY <1>1, <1>0, SliceKept, SetKept, PlaceKept DEF emit_one_dimension_initialization
  <2>2. /\ todo # <<>>
        /\ todo' = (<<>>) \o Tail(todo) \/ todo' = (<<Expr("int"), Item("store")>>) \o Tail(todo) \/ todo' = (<<Item("list"), Item("store")>>) \o Tail(todo)
    BY <1>1 DEF emit_one_dimension_initialization, Begin, Do, Then, Done, Declare, Statement
  <2>3. PlainSeq(<<>>)
    BY Plain0
  <2>4. PlainSeq(<<Expr("int"), Item("store")>>)
    BY Plain2, Requests, RequestKept, PlainRequest, PlainItem, PlainStmt
  <2>5. PlainSeq(<<Item("list"), Item("store")>>)
    BY Plain2, Requests, RequestKept, PlainRequest, PlainItem, PlainStmt
  <2> QED
    BY <2>1, <2>2, <2>3, <2>4, <2>5, QuietBy
<1>2. CASE EndRow
  <2>1. Alike(info, info')
    BY <1>2, <1>0 DEF EndRow
  <2> QED
    BY <1>2, <2>1, DoneQuiet DEF EndRow, Begin, Do, Declare, Statement
<1>3. CASE StoreElement
  <2>1. Alike(info, info')
    BY <1>3, <1>0, StoreRegKept, StoreConstKept DEF StoreElement
  <2> QED
    BY <1>3, <2>1, DoneQuiet DEF StoreElement, Begin, Do, Declare, Statement
<1>4. CASE MemberSlot
  <2>1. Alike(info, info')
    BY <1>4, <1>0, NextKept DEF MemberSlot
  <2> QED
    BY <1>4, <2>1, DoneQuiet DEF MemberSlot, Begin, Do, Declare, Statement
<1>5. CASE DeclareScalar
  <2>1. Alike(info, info')
    BY <1>5, <1>0 DEF DeclareScalar
  <2> QED
    BY <1>5, <2>1, DoneQuiet DEF DeclareScalar, Begin, Do, Declare, Statement
<1>6. CASE DeclareInitialized
  BY <1>6, DeclareInitializedQuiet
<1>7. CASE StoreInitial
  <2>1. Alike(info, info')
    BY <1>7, <1>0, CharToIntKept, SetKept, StoreRegKept DEF StoreInitial
  <2> QED
    BY <1>7, <2>1, DoneQuiet DEF StoreInitial, Begin, Do, Declare, Statement
<1>8. CASE emit_initialization
  <2>1. Alike(info, info')
    BY <1>8, <1>0, PlaceKept DEF emit_initialization
  <2>2. /\ todo # <<>>
        /\ todo' = (<<Item("field"), Expr("int"), Item("store"), Item("field"), Expr("int"), Item("store")>>) \o Tail(todo) \/ todo' = (<<[Expr("int") EXCEPT !.of = {"call"}], With("init", FALSE)>>) \o Tail(todo)
    BY <1>8 DEF emit_initialization, Begin, Do, Then, Done, Declare, Statement
  <2>3. PlainSeq(<<Item("field"), Expr("int"), Item("store"), Item("field"), Expr("int"), Item("store")>>)
    BY Plain6, Requests, RequestKept, PlainRequest, PlainItem, PlainStmt
  <2>4. PlainSeq(<<[Expr("int") EXCEPT !.of = {"call"}], With("init", FALSE)>>)
    BY Plain2, Requests, RequestKept, PlainRequest, PlainItem, PlainStmt
  <2> QED
    BY <2>1, <2>2, <2>3, <2>4, QuietBy
<1>9. ASSUME NEW dimensions \in 1..2, DeclareArray(dimensions) PROVE Quiet
  BY <1>9, DeclareArrayQuiet
<1>10. ASSUME NEW dimensions \in 1..2, BeginDynamicArray(dimensions) PROVE Quiet
  BY <1>10, BeginDynamicArrayQuiet
<1>11. CASE DeclareString
  BY <1>11, DeclareStringQuiet
<1>12. CASE Bound
  <2>1. Alike(info, info')
    BY <1>12, <1>0, PlaceKept DEF Bound
  <2> QED
    BY <1>12, <2>1, DoneQuiet DEF Bound, Begin, Do, Declare, Statement
<1>13. CASE DeclareGlobal
  BY <1>13, DeclareGlobalQuiet
<1>14. CASE InitializeGlobal
  BY <1>14, InitializeGlobalQuiet
<1>15. CASE emit_translation_unit
  <2>1. Alike(info, info')
    BY <1>15, <1>0, SetKept DEF emit_translation_unit
  <2> QED
    BY <1>15, <2>1, DoneQuiet DEF emit_translation_unit, Begin, Do, Declare, Statement
<1> QED
  BY <1>1, <1>2, <1>3, <1>4, <1>5, <1>6, <1>7, <1>8, <1>9, <1>10, <1>11, <1>12, <1>13, <1>14, <1>15 DEF Declaration

-----------------------------------------------------------------------------
(* Steps that save and restore the stack *)

LEMMA LoadStackAlike ==
    ASSUME NEW i, Shape(i), NEW index \in i.slots PROVE Alike(i, to_code_stack_load(i, index))
<1>1. PICK j : j = [i EXCEPT !.was_stack_functions = TRUE, !.helpers = @ \cup {"stack"}]
  OBVIOUS
<1>2. Alike(i, j)
  BY <1>1 DEF Alike, Shape
<1>3. to_code_stack_load(i, index) = Advance(Define(j, {}))
  BY <1>1 DEF to_code_stack_load, Fault
<1> QED
  BY <1>2, <1>3, NextKept

\* The encoder after the stack is saved at a new place
LEMMA SaveStackInv ==
    ASSUME NEW i, EncoderInv(i), NEW index, index \notin i.slots, NEW s, s = to_code_stack_save(i, index)
    PROVE  /\ Shape(s) /\ s.slots = i.slots \cup {index} /\ s.was_dynamic = i.was_dynamic
           /\ s.block_num = i.block_num /\ "slot" \notin s.faults
           /\ \A a \in s.arrays : a.dimensions \in Nat
<1>1. PICK j : j = [i EXCEPT !.was_stack_functions = TRUE, !.slots = @ \cup {index}, !.helpers = @ \cup {"stack"}]
  OBVIOUS
<1>2. /\ Shape(j) /\ j.slots = i.slots \cup {index} /\ j.was_dynamic = i.was_dynamic
      /\ j.block_num = i.block_num /\ j.faults = i.faults /\ j.arrays = i.arrays
  BY <1>1 DEF EncoderInv, Shape
<1>3. s = Advance(Define(j, {}))
  BY <1>1 DEF to_code_stack_save, Fault
<1>4. Alike(j, s)
  BY <1>2, <1>3, NextAlike
<1> QED
  BY <1>2, <1>4 DEF Alike, EncoderInv

LEMMA BlockPlaced ==
    ASSUME NEW num \in Nat, NEW body \in BOOLEAN, NEW slots, body \/ num \in slots, NEW b, b = Block(num, body)
    PROVE  Placed(b, slots) /\ b.do # "function"
  BY DEF Block, With, Placed

LEMMA EndBlockQuiet == ASSUME SlotsInv, EndBlock PROVE Quiet
<1>1. todo # <<>> /\ Head(todo).do = "block"
  BY DEF EndBlock, Do
<1>2. Placed(Head(todo), info.slots)
  BY <1>1, HeadPlaced DEF SlotsInv
<1>3. Shape(info)
  BY DEF SlotsInv, EncoderInv
<1>4. Alike(info, info')
  <2>1. CASE X.empty \/ X.is_function_body
    BY <2>1, <1>3, AlikeSame DEF EndBlock
  <2>2. CASE ~(X.empty \/ X.is_function_body)
    <3>1. X.num \in info.slots
      BY <2>2, <1>1, <1>2 DEF Placed, X
    <3>2. info' = to_code_stack_load(info, X.num)
      BY <2>2 DEF EndBlock
    <3> QED
      BY <3>1, <3>2, <1>3, LoadStackAlike
  <2> QED
    BY <2>1, <2>2
<1> QED
  BY <1>1, <1>4, DoneQuiet DEF EndBlock

LEMMA BeginReturnQuiet == ASSUME SlotsInv, BeginReturn PROVE Quiet
<1>1. Shape(info) /\ (info.was_dynamic => -1 \in info.slots)
  BY DEF SlotsInv, EncoderInv
<1>2. PICK i : i = IF info.was_dynamic THEN to_code_stack_load(info, -1) ELSE info
  OBVIOUS
<1>3. Alike(info, i)
  BY <1>1, <1>2, LoadStackAlike, AlikeSame
<1>4. todo # <<>>
  BY DEF BeginReturn, Statement, Do
<1>5. \/ info' = i /\ Done
      \/ info' = Return(i) /\ Done
      \/ info' = at(i, "LREG") /\ Then(<<Expr("int"), Item("return")>>)
  BY <1>2 DEF BeginReturn
<1>6. PlainSeq(<<Expr("int"), Item("return")>>)
  BY Plain2, PlainItem, Requests, PlainRequest
<1>7. CASE info' = i /\ Done
  BY <1>3, <1>4, <1>7, DoneQuiet
<1>8. CASE info' = Return(i) /\ Done
  BY <1>3, <1>4, <1>8, ReturnOfKept, DoneQuiet
<1>9. CASE info' = at(i, "LREG") /\ Then(<<Expr("int"), Item("return")>>)
  BY <1>3, <1>4, <1>6, <1>9, PlaceKept, QuietBy DEF Then
<1> QED
  BY <1>5, <1>7, <1>8, <1>9

LEMMA EndFunctionQuiet == ASSUME SlotsInv, EndFunction PROVE Quiet
<1>1. Shape(info) /\ (info.was_dynamic => -1 \in info.slots)
  BY DEF SlotsInv, EncoderInv
<1>2. PICK i : i = IF info.is_void /\ ~info.is_main /\ info.was_dynamic THEN to_code_stack_load(info, -1) ELSE info
  OBVIOUS
<1>3. Alike(info, i)
  BY <1>1, <1>2, LoadStackAlike, AlikeSame
<1>4. info' = [Return(i) EXCEPT !.is_main = FALSE]
  BY <1>2 DEF EndFunction
<1>5. Alike(info, info')
  BY <1>3, <1>4, ReturnOfKept, SetKept
<1> QED
  BY <1>5, DoneQuiet DEF EndFunction, Do

LEMMA CompoundKeeps == ASSUME SlotsInv, emit_compound_statement PROVE SlotsInv'
<1>1. PICK num : num = info.block_num
  OBVIOUS
<1>2. PICK i : i = [info EXCEPT !.block_num = @ + 1]
  OBVIOUS
<1>3. num \in Nat /\ num \notin info.slots
  BY <1>1 DEF SlotsInv, EncoderInv
<1>4. EncoderInv(i) /\ i.slots = info.slots /\ i.block_num = num + 1
  <2>1. /\ DOMAIN i = DOMAIN info /\ i.slots = info.slots /\ i.block_num = num + 1 /\ i.was_dynamic = info.was_dynamic
        /\ i.faults = info.faults /\ i.arrays = info.arrays
    BY <1>1, <1>2 DEF SlotsInv, EncoderInv, Shape
  <2> QED
    BY <2>1, <1>1, <1>3 DEF SlotsInv, EncoderInv, Shape
<1>5. info' = to_code_stack_save(i, num)
  BY <1>1, <1>2 DEF emit_compound_statement
<1>6. /\ Shape(info') /\ info'.slots = info.slots \cup {num} /\ info'.was_dynamic = i.was_dynamic
      /\ info'.block_num = num + 1 /\ "slot" \notin info'.faults
      /\ \A a \in info'.arrays : a.dimensions \in Nat
  BY <1>3, <1>4, <1>5, SaveStackInv
<1>7. EncoderInv(info')
  BY <1>3, <1>4, <1>6 DEF EncoderInv
<1>8. PICK b : b = Block(num, FALSE)
  OBVIOUS
<1>9. Placed(b, info'.slots) /\ b.do # "function"
  BY <1>3, <1>6, <1>8, BlockPlaced
<1>10. TodoInv(<<b>> \o Tail(todo), info'.slots)
  BY <1>6, <1>9, TwoReplaced DEF SlotsInv, emit_compound_statement, Statement, Do
<1> QED
  BY <1>1, <1>7, <1>8, <1>10 DEF SlotsInv, emit_compound_statement, Then

LEMMA SubstatementKeeps == ASSUME SlotsInv, Substatement PROVE SlotsInv'
<1>1. todo # <<>> /\ Head(todo).do = "block" /\ info' = info
  BY DEF Substatement, Do
<1>2. Placed(Head(todo), info.slots)
  BY <1>1, HeadPlaced DEF SlotsInv
<1>3. PICK x : x = [X EXCEPT !.empty = FALSE]
  OBVIOUS
<1>4. PICK b : b = With("block", x)
  OBVIOUS
<1>5. X \in [num: Nat, is_function_body: BOOLEAN, empty: BOOLEAN] /\ (~X.is_function_body => X.num \in info.slots)
  BY <1>1, <1>2 DEF Placed, X
<1>6. /\ x \in [num: Nat, is_function_body: BOOLEAN, empty: BOOLEAN]
      /\ x.num = X.num /\ x.is_function_body = X.is_function_body
  BY <1>3, <1>5
<1>7. b.do = "block" /\ b.x = x
  BY <1>4 DEF With
<1>8. Placed(b, info.slots) /\ b.do # "function"
  BY <1>5, <1>6, <1>7 DEF Placed
<1>9. Placed(Stmt, info.slots) /\ Stmt.do # "function"
  BY PlainStmt DEF Plain, Placed
<1>10. TodoInv(<<Stmt, b>> \o Tail(todo), info.slots)
  BY <1>1, <1>8, <1>9, TwoReplaced DEF SlotsInv
<1> QED
  BY <1>1, <1>3, <1>4, <1>10 DEF SlotsInv, Substatement, Then

LEMMA SwitchKeeps == ASSUME SlotsInv, emit_switch_statement PROVE SlotsInv'
<1>1. Alike(info, info)
  BY AlikeSame DEF SlotsInv, EncoderInv
<1>2. PICK labels, kind, end : info' = [Leave(Answered(info), labels) EXCEPT !.kind = kind, !.label_break = end, !.block_num = @ + 1]
  BY DEF emit_switch_statement
<1>3. PICK i : i = Leave(Answered(info), labels)
  OBVIOUS
<1>4. Alike(info, i)
  BY <1>1, <1>3, AnsweredOfKept, LeavingKept
<1>5. EncoderInv(i)
  BY <1>4, AlikeInv DEF SlotsInv
<1>6. info' = [i EXCEPT !.kind = kind, !.label_break = end, !.block_num = @ + 1]
  BY <1>2, <1>3
<1>7. /\ DOMAIN info' = DOMAIN i /\ info'.slots = i.slots /\ info'.block_num = i.block_num + 1 /\ info'.was_dynamic = i.was_dynamic
      /\ info'.faults = i.faults /\ info'.arrays = i.arrays
  BY <1>5, <1>6 DEF EncoderInv, Shape
<1>8. EncoderInv(info')
  BY <1>5, <1>7 DEF EncoderInv, Shape
<1>9. PICK a : a = [k \in DOMAIN X |-> Item(IF X[k] = "break" THEN "break" ELSE "case")]
  OBVIOUS
<1>10. PICK b : b = IF X[Len(X)] = "break" THEN <<>> ELSE <<Item("lastcase")>>
  OBVIOUS
<1>11. PICK c : c = <<Item("endswitch")>>
  OBVIOUS
<1>12. todo # <<>> /\ todo' = (a \o b \o c) \o Tail(todo)
  BY <1>9, <1>10, <1>11 DEF emit_switch_statement, Do, Then
<1>13. PlainSeq(b) /\ PlainSeq(c)
  BY <1>10, <1>11, Plain0, Plain1, PlainItem
<1>14. PlainSeq(a)
  <2>1. X \in Seq({"case", "default", "break"})
    <3>1. Head(todo).do = "cases"
      BY DEF emit_switch_statement, Do
    <3>2. X \in Bodies
      BY <3>1, <1>12, HeadPlaced DEF SlotsInv, Placed, X
    <3> QED
      BY <3>2, LlvmAssumption
  <2>2. DOMAIN X = 1..Len(X) /\ Len(X) \in Nat
    BY <2>1
  <2>3. a = [k \in 1..Len(X) |-> a[k]]
    BY <1>9, <2>2
  <2>4. ASSUME NEW k \in 1..Len(X) PROVE Plain(a[k])
    BY <1>9, <2>2, PlainItem
  <2> QED
    BY <2>2, <2>3, <2>4, PlainFunction
<1>15. PlainSeq(a \o b \o c)
  BY <1>13, <1>14, PlainConcat
<1>16. TodoInv(todo', info.slots)
  BY <1>12, <1>15, PlainReplaced DEF SlotsInv
<1>17. info'.slots = info.slots
  BY <1>4, <1>7 DEF Alike
<1> QED
  BY <1>8, <1>16, <1>17 DEF SlotsInv

LEMMA DynamicKeeps == ASSUME SlotsInv, EndDynamicArray PROVE SlotsInv'
<1>1. todo # <<>> /\ Head(todo).do = "dynamic" /\ Done
  BY DEF EndDynamicArray, Do
<1>2. X \in 1..2
  BY <1>1, HeadPlaced DEF SlotsInv, Placed, X
<1>3. PICK a : a = Array(X, IF X = 1 THEN <<vals[1]>> ELSE <<vals[2], vals[1]>>, FALSE)
  OBVIOUS
<1>4. a.dimensions \in Nat
  <2>1. a.dimensions = X
    BY <1>3, ArrayDimensions, ZenonT(40)
  <2> QED
    BY <1>2, <2>1
<1>5. PICK i : i = IF info.was_dynamic THEN info ELSE to_code_stack_save(info, -1)
  OBVIOUS
<1>6. /\ Shape(i) /\ i.slots = info.slots \cup {-1} /\ i.block_num = info.block_num /\ "slot" \notin i.faults
      /\ \A b \in i.arrays : b.dimensions \in Nat
  <2>1. CASE info.was_dynamic
    BY <2>1, <1>5 DEF SlotsInv, EncoderInv
  <2>2. CASE ~info.was_dynamic
    <3>1. -1 \notin info.slots
      BY <2>2 DEF SlotsInv, EncoderInv
    <3>2. i = to_code_stack_save(info, -1)
      BY <2>2, <1>5
    <3> QED
      BY <3>1, <3>2, SaveStackInv DEF SlotsInv
  <2> QED
    BY <2>1, <2>2
<1>7. PICK j : j = to_code_alloc_array_dynamic(i, a)
  OBVIOUS
<1>8. Alike(i, j)
  BY <1>6, <1>7, OperationsAlike
<1>9. info' = [j EXCEPT !.was_dynamic = TRUE, !.arrays = @ \cup {a}]
  BY <1>3, <1>5, <1>7 DEF EndDynamicArray
<1>10. /\ Shape(info') /\ info'.slots = info.slots \cup {-1} /\ info'.block_num = info.block_num
       /\ info'.was_dynamic = TRUE /\ "slot" \notin info'.faults
       /\ \A b \in info'.arrays : b.dimensions \in Nat
  BY <1>4, <1>6, <1>8, <1>9 DEF Alike, Shape
<1>11. EncoderInv(info')
  BY <1>10 DEF SlotsInv, EncoderInv
<1>12. TodoInv(<<>> \o Tail(todo), info'.slots)
  BY <1>1, <1>10, Plain0, PlainReplaced DEF SlotsInv
<1> QED
  BY <1>1, <1>11, <1>12 DEF SlotsInv, Done, Then

LEMMA FunctionKeeps == ASSUME SlotsInv, emit_function_definition PROVE SlotsInv'
<1>1. todo # <<>> /\ Head(todo).do = "function"
  BY DEF emit_function_definition, Do
<1>2. PICK f : f = Functions[X]
  OBVIOUS
<1>3. PICK parameters : parameters =
         {Array(1, <<>>, TRUE) : k \in {k \in DOMAIN Functions[X].params : Functions[X].params[k] = "array"}}
  OBVIOUS
<1>4. PICK globals : globals = UNION {GlobalArray(Globals[k]) : k \in DOMAIN Globals}
  OBVIOUS
<1>a. PICK arrays : arrays = globals \cup parameters
  OBVIOUS
<1>5. ASSUME NEW a \in arrays PROVE a.dimensions \in Nat
  <2>1. CASE a \in parameters
    <3>1. a = Array(1, <<>>, TRUE)
      BY <2>1, <1>3
    <3>2. a.dimensions = 1
      BY <3>1, ArrayDimensions
    <3> QED
      BY <3>2
  <2>2. CASE a \notin parameters
    <3>1. PICK k \in DOMAIN Globals : a \in GlobalArray(Globals[k])
      BY <2>2, <1>4, <1>a
    <3>2. Globals[k] \in {"scalar", "list", "table"}
      BY LlvmAssumption
    <3> QED
      BY <3>1, <3>2, GlobalDimensions
  <2> QED
    BY <2>1, <2>2
<1>6. PICK num : num = info.block_num
  OBVIOUS
<1>7. PICK i : i = EnterFunction(info, f)
  OBVIOUS
<1>8. /\ Shape(i) /\ i.slots = {} /\ i.was_dynamic = FALSE /\ i.block_num = num /\ i.faults = info.faults
  BY <1>6, <1>7 DEF EnterFunction, SlotsInv, EncoderInv, Shape
<1>9. info' = [i EXCEPT !.arrays = arrays, !.block_num = @ + 1, !.limit = nodes + f.nodes]
  BY <1>2, <1>3, <1>4, <1>a, <1>7 DEF emit_function_definition
<1>10. /\ Shape(info') /\ info'.slots = {} /\ info'.was_dynamic = FALSE /\ info'.block_num = num + 1
       /\ info'.faults = info.faults /\ info'.arrays = arrays
  BY <1>8, <1>9 DEF Shape
<1>11. num \in Nat
  BY <1>6 DEF SlotsInv, EncoderInv
<1>12. EncoderInv(info')
  BY <1>5, <1>10, <1>11 DEF SlotsInv, EncoderInv
<1>13. PICK b : b = Block(num, TRUE)
  OBVIOUS
<1>14. PICK a : a = IF f.main THEN global_initialization ELSE <<>>
  OBVIOUS
<1>15. PICK c : c = <<b, Item("endfunction")>>
  OBVIOUS
<1>16. todo' = (a \o c) \o Tail(todo)
  BY <1>2, <1>6, <1>13, <1>14, <1>15 DEF emit_function_definition, Then
<1>17. PlainSeq(a)
  <2>1. DOMAIN Globals = 1..Len(Globals) /\ Len(Globals) \in Nat
    BY LlvmAssumption
  <2>2. PICK g : g = global_initialization
    OBVIOUS
  <2>3. g = [k \in 1..Len(Globals) |-> g[k]]
    BY <2>1, <2>2 DEF global_initialization
  <2>4. ASSUME NEW k \in 1..Len(Globals) PROVE Plain(g[k])
    BY <2>1, <2>2, PlainItem DEF global_initialization
  <2>5. PlainSeq(g)
    BY <2>1, <2>3, <2>4, PlainFunction
  <2> QED
    BY <1>14, <2>2, <2>5, Plain0
<1>18. Placed(b, {}) /\ b.do # "function"
  BY <1>11, <1>13, BlockPlaced
<1>19. Placed(Item("endfunction"), {}) /\ Item("endfunction").do # "function"
  BY PlainItem DEF Plain, Placed
<1>20. PICK d : d = Item("endfunction")
  OBVIOUS
<1>21. c \in Seq({b, d}) /\ \A k \in DOMAIN c : c[k] = b \/ c[k] = d
  BY <1>15, <1>20
<1>22. PICK R : a \in Seq(R)
  BY <1>17 DEF PlainSeq
<1>23. PICK u : u = a \o c
  OBVIOUS
<1>24. u \in Seq(R \cup {b, d})
  BY <1>21, <1>22, <1>23, SeqUnion
<1>25. ASSUME NEW k \in DOMAIN u PROVE Placed(u[k], {}) /\ u[k].do # "function"
  <2>1. /\ \A n \in 1..Len(a) : u[n] = a[n]
        /\ \A n \in 1..Len(c) : u[Len(a) + n] = c[n]
        /\ k \in 1..Len(a) \/ k - Len(a) \in 1..Len(c)
        /\ Len(a) \in Nat /\ k \in Int
    BY <1>21, <1>22, <1>23, <1>24, SeqUnion
  <2>2. CASE k \in 1..Len(a)
    <3>1. u[k] = a[k] /\ k \in DOMAIN a
      BY <2>1, <2>2, <1>22
    <3> QED
      BY <3>1, <1>17 DEF PlainSeq, Plain, Placed
  <2>3. CASE k - Len(a) \in 1..Len(c)
    <3>1. u[Len(a) + (k - Len(a))] = c[k - Len(a)] /\ Len(a) + (k - Len(a)) = k /\ k - Len(a) \in DOMAIN c
      BY <2>1, <2>3, <1>21, SMTT(30)
    <3>2. u[k] = b \/ u[k] = d
      BY <3>1, <1>21
    <3> QED
      BY <3>2, <1>18, <1>19, <1>20
  <2> QED
    BY <2>1, <2>2, <2>3
<1>26. TodoInv(u \o Tail(todo), {})
  BY <1>1, <1>24, <1>25, TodoReplaced DEF SlotsInv
<1> QED
  BY <1>10, <1>12, <1>16, <1>23, <1>26 DEF SlotsInv

-----------------------------------------------------------------------------
(* Every step *)

LEMMA InitSlots == ASSUME Init PROVE SlotsInv
<1>1. EncoderInv(info)
  BY DEF Init, EncoderInv, Shape
<1>2. PICK g : g = [k \in DOMAIN Globals |-> With("global", Globals[k])]
  OBVIOUS
<1>3. PICK f : f = [k \in DOMAIN Functions |-> With("function", k)]
  OBVIOUS
<1>4. PICK e : e = <<Item("finish")>>
  OBVIOUS
<1>5. todo = g \o f \o e
  BY <1>2, <1>3, <1>4 DEF Init
<1>6. Len(Globals) \in Nat /\ DOMAIN Globals = 1..Len(Globals) /\ Len(Functions) \in Nat /\ DOMAIN Functions = 1..Len(Functions)
  BY LlvmAssumption
<1>7. PICK G : g \in Seq(G)
  <2>1. PICK G : G = {g[k] : k \in 1..Len(Globals)}
    OBVIOUS
  <2>2. g \in [1..Len(Globals) -> G]
    BY <1>2, <1>6, <2>1
  <2>3. g \in Seq(G)
    BY <2>2, <1>6
  <2> QED
    BY <2>3
<1>8. PICK F : f \in Seq(F)
  <2>1. PICK F : F = {f[k] : k \in 1..Len(Functions)}
    OBVIOUS
  <2>2. f \in [1..Len(Functions) -> F]
    BY <1>3, <1>6, <2>1
  <2>3. f \in Seq(F)
    BY <2>2, <1>6
  <2> QED
    BY <2>3
<1>9. PICK d : d = Item("finish")
  OBVIOUS
<1>10. e \in Seq({d}) /\ \A k \in DOMAIN e : e[k] = d
  BY <1>4, <1>9
<1>11. PICK gf : gf = g \o f
  OBVIOUS
<1>12. gf \in Seq(G \cup F)
  BY <1>7, <1>8, <1>11, SeqUnion
<1>13. todo \in Seq((G \cup F) \cup {d})
  BY <1>5, <1>10, <1>11, <1>12, SeqUnion
<1>14. ASSUME NEW k \in DOMAIN todo
       PROVE  todo[k] = d \/ (\E n \in DOMAIN f : todo[k] = f[n]) \/ \E n \in DOMAIN g : todo[k] = g[n]
  <2>1. todo[k] = d \/ \E n \in DOMAIN gf : todo[k] = gf[n]
    BY <1>5, <1>10, <1>11, <1>12, PartOfConcat
  <2>2. ASSUME NEW n \in DOMAIN gf PROVE (\E m \in DOMAIN g : gf[n] = g[m]) \/ \E m \in DOMAIN f : gf[n] = f[m]
    BY <1>7, <1>8, <1>11, PartOfConcat
  <2> QED
    BY <2>1, <2>2
<1>15. d.do = "finish"
  BY <1>9 DEF Item
<1>16. ASSUME NEW n \in DOMAIN f PROVE f[n].do = "function"
  BY <1>3 DEF With
<1>17. ASSUME NEW n \in DOMAIN g PROVE g[n].do = "global" /\ g[n].x \in {"scalar", "list", "table"}
  BY <1>2, LlvmAssumption DEF With
<1>18. ASSUME NEW k \in DOMAIN todo PROVE Placed(todo[k], info.slots) /\ todo[k].do # "block"
  BY <1>14, <1>15, <1>16, <1>17 DEF Placed
<1>19. TodoInv(todo, info.slots)
  BY <1>13, <1>18 DEF TodoInv
<1> QED
  BY <1>1, <1>19 DEF SlotsInv

LEMMA StepKeeps == ASSUME SlotsInv, [Next]_vars PROVE SlotsInv'
<1>1. Shape(info) /\ TodoInv(todo, info.slots) /\ \A a \in info.arrays : a.dimensions \in Nat
  BY DEF SlotsInv, EncoderInv
<1>2. CASE Expression
  BY <1>1, <1>2, ExpressionQuiet, QuietKeeps
<1>3. CASE Declaration
  <2>1. \/ Quiet \/ emit_function_definition \/ EndFunction \/ EndDynamicArray
    BY <1>1, <1>3, DeclarationQuiet
  <2> QED
    BY <2>1, QuietKeeps, FunctionKeeps, EndFunctionQuiet, DynamicKeeps
<1>4. CASE StatementStep
  <2>1. \/ Quiet \/ emit_compound_statement \/ Substatement \/ EndBlock \/ BeginReturn \/ emit_switch_statement
    BY <1>1, <1>4, StatementQuiet
  <2> QED
    BY <2>1, QuietKeeps, CompoundKeeps, SubstatementKeeps, EndBlockQuiet, BeginReturnQuiet, SwitchKeeps
<1>5. CASE UNCHANGED vars
  BY <1>5 DEF SlotsInv, vars
<1> QED
  BY <1>2, <1>3, <1>4, <1>5 DEF Next, Stopped

\* The state of the stack is restored only from a place where this function has saved it, and
\* no place is used twice: blocks save it under the number of the block (info->block_num is
\* never taken back), and dynamic arrays under -1, once in a function (info->was_dynamic).
THEOREM StackAlwaysRestored == Spec => []StackRestored
<1>1. Init => SlotsInv
  BY InitSlots
<1>2. SlotsInv /\ [Next]_vars => SlotsInv'
  BY StepKeeps
<1>3. SlotsInv => StackRestored
  BY DEF SlotsInv, EncoderInv, StackRestored
<1> QED
  BY <1>1, <1>2, <1>3, PTL DEF Spec
=============================================================================
