--------------------------- MODULE CodegenChains ---------------------------
(***************************************************************************)
(* Proofs about Codegen, for every program: any number and nesting of      *)
(* statements, any case values and any sizes of variables.                 *)
(*                                                                         *)
(* Every jump is either settled, its operand being the address of a mark   *)
(* of its label, or owed by a statement that is still open.  What an open  *)
(* statement owes can be found: the operands of its breaks and continues   *)
(* are the chain that starts at the head in force when it was innermost,   *)
(* which is the encoder's variable or the value the next statement inside  *)
(* it has saved, and the operand of its last case test is that head.       *)
(***************************************************************************)
EXTENDS Codegen, SequenceTheorems, FiniteSetTheorems, WellFoundedInduction, TLAPS

Branches == {"b", "be0", "bne0"}
Breakable == Loops \cup {"switch"}

Ops == Branches \cup {"none", "func_beg", "value", "duplicate", "li", "eq", "return"}
Whats == {"else", "end", "top", "continue", "label"}
Kinds == Breakable \cup {"compound", "if", "case", "default"}

CellType == [kind : {"code", "arg"}, op : Ops, arg : Int]
LabelType == [id : Nat, what : Whats, n : Nat]
JumpType == [cell : Nat, label : LabelType]
MarkType == [label : LabelType, addr : Nat]
FrameType == [kind : Kinds, id : Nat, addr : Nat, flag : BOOLEAN, labels : Nat,
              old_cond : Nat, old_case : Nat, old_break : Nat, old_displ : Nat]

\* Type correctness; todo tells what the innermost statement is.
TypeInv ==
    /\ memory \in Seq(CellType) /\ Len(memory) >= 7
    /\ addr_cond \in Nat /\ addr_case \in Nat /\ addr_break \in Nat
    /\ displ \in Nat /\ max_local_displ \in Nat
    /\ frames \in Seq(FrameType)
    /\ opened \in Nat
    /\ jumps \subseteq JumpType /\ marks \subseteq MarkType
    /\ todo \in {"stmt", "next", "cond", "break", "end"}

-----------------------------------------------------------------------------
(* The code *)

Get(mem, c) == mem[c + 1].arg

\* The address of an instruction, or of the one emitted next.
Landing(mem, t) == t \in 7..Len(mem) /\ (t < Len(mem) => mem[t + 1].kind = "code")

\* Every jump has an operand of its own, and its label is of a statement begun.
Placed(mem, J, top) ==
    /\ \A j \in J : /\ j.cell \in 7..Len(mem) - 1
                    /\ mem[j.cell + 1].kind = "arg"
                    /\ j.label.id <= top
    /\ \A i, j \in J : i.cell = j.cell => i = j

\* Every mark is where an instruction begins.
Marked(mem, M, top) == \A m \in M : Landing(mem, m.addr) /\ m.label.id <= top

\* A branch instruction has an operand, that of a jump or one which is right already.
Coded(mem, J) ==
    \A a \in 1..Len(mem) : mem[a].op \in Branches =>
        /\ a \in 8..Len(mem) - 1
        /\ (\E j \in J : j.cell = a) \/ Landing(mem, Get(mem, a))

\* In a finished function the landings are inside it.
Finished(mem, st) ==
    st = "end" => \A a \in 1..Len(mem) - 1 : mem[a].op \in Branches =>
                      Get(mem, a) \in 7..Len(mem) - 1 /\ mem[Get(mem, a) + 1].kind = "code"

-----------------------------------------------------------------------------
(* Chains *)

Operands(J, label) == {j.cell : j \in {i \in J : i.label = label}}

\* The operands S up to head lead from head downwards, each to the one before it, and
\* the last to base.
Chain(mem, S, head, base) ==
    /\ head \in S \cup {base}
    /\ \A c \in S : c > base
    /\ \A c \in S : c <= head => /\ Get(mem, c) \in S \cup {base}
                                 /\ Get(mem, c) < c
                                 /\ \A d \in S : d < c => d <= Get(mem, c)

Whole(S, head) == \A c \in S : c <= head

\* No statement of these kinds is between the frames k and n.
Clear(F, kinds, k, n) == \A i \in k + 1..n - 1 : F[i].kind \notin kinds

Settled(mem, M, j) == \E m \in M : m.label = j.label /\ Get(mem, j.cell) = m.addr

EndOf(f) == Label(f.id, "end", 0)
ContinueOf(f) == Label(f.id, "continue", 0)
BaseOf(f) == IF f.kind = "while" THEN f.addr ELSE 0

\* Only a loop walks its continues, to a place already marked, only a loop or switch its
\* breaks; a loop has then no continues left to walk.
Phase(F, M, mem, head, st) ==
    /\ st = "cond" => /\ Len(F) > 0 /\ F[Len(F)].kind \in Loops
                      /\ F[Len(F)].kind # "while" => Mark(ContinueOf(F[Len(F)]), Len(mem)) \in M
    /\ st = "break" => /\ Len(F) > 0 /\ F[Len(F)].kind \in Breakable
                       /\ F[Len(F)].kind = "while" => head = F[Len(F)].addr
                       /\ F[Len(F)].kind \in {"do", "for"} => head = 0
    /\ st = "end" => Len(F) = 0

\* The breaks of every open loop and switch.
BreakChains(F, J, mem, head, st) ==
    /\ \A k \in 1..Len(F) : F[k].kind \in Breakable /\ Clear(F, Breakable, k, Len(F) + 1) =>
          /\ Chain(mem, Operands(J, EndOf(F[k])), head, 0)
          /\ \A c \in Operands(J, EndOf(F[k])) : c > head =>
                k = Len(F) /\ st = "break" /\ Get(mem, c) = Len(mem)
    /\ \A k, n \in 1..Len(F) :
          k < n /\ {F[k].kind, F[n].kind} \subseteq Breakable /\ Clear(F, Breakable, k, n) =>
          /\ Chain(mem, Operands(J, EndOf(F[k])), F[n].old_break, 0)
          /\ Whole(Operands(J, EndOf(F[k])), F[n].old_break)
    /\ Clear(F, Breakable, 0, Len(F) + 1) => head = 0
    /\ \A n \in 1..Len(F) : F[n].kind \in Breakable /\ Clear(F, Breakable, 0, n) => F[n].old_break = 0

\* The continues of every open loop.
ContinueChains(F, J, M, mem, head, st) ==
    /\ \A k \in 1..Len(F) : F[k].kind \in Loops /\ Clear(F, Loops, k, Len(F) + 1) =>
          /\ Chain(mem, Operands(J, ContinueOf(F[k])), head, BaseOf(F[k]))
          /\ \A c \in Operands(J, ContinueOf(F[k])) : c > head =>
                k = Len(F) /\ st \in {"cond", "break"} /\ Settled(mem, M, Jump(c, ContinueOf(F[k])))
    /\ \A k, n \in 1..Len(F) :
          k < n /\ {F[k].kind, F[n].kind} \subseteq Loops /\ Clear(F, Loops, k, n) =>
          /\ Chain(mem, Operands(J, ContinueOf(F[k])), F[n].old_cond, BaseOf(F[k]))
          /\ Whole(Operands(J, ContinueOf(F[k])), F[n].old_cond)
    /\ Clear(F, Loops, 0, Len(F) + 1) => head = 0
    /\ \A n \in 1..Len(F) : F[n].kind \in Loops /\ Clear(F, Loops, 0, n) => F[n].old_cond = 0

\* The case test of every open switch that waits for the next label.
CaseTests(F, J, head) ==
    /\ \A k \in 1..Len(F) : F[k].kind = "switch" /\ Clear(F, {"switch"}, k, Len(F) + 1) =>
          Operands(J, NextLabel(F[k])) = {head} \ {0}
    /\ \A k, n \in 1..Len(F) :
          k < n /\ F[k].kind = "switch" /\ F[n].kind = "switch" /\ Clear(F, {"switch"}, k, n) =>
          Operands(J, NextLabel(F[k])) = {F[n].old_case} \ {0}
    /\ Clear(F, {"switch"}, 0, Len(F) + 1) => head = 0
    /\ \A n \in 1..Len(F) : F[n].kind = "switch" /\ Clear(F, {"switch"}, 0, n) => F[n].old_case = 0

-----------------------------------------------------------------------------
(* Statements *)

\* The branch around the first or the second substatement of an if.
Waiting(f, J, M) ==
    \/ Jump(f.addr, Label(f.id, "else", 0)) \in J /\ \A m \in M : m.label # Label(f.id, "else", 0)
    \/ ~f.flag /\ Jump(f.addr, Label(f.id, "end", 0)) \in J

\* What the frames remember.
Remembered(F, J, M, top) ==
    /\ \A k \in 1..Len(F) : F[k].id \in 1..top
    /\ \A k, n \in 1..Len(F) : k < n => F[k].id < F[n].id
    /\ \A k \in 1..Len(F) : F[k].kind \in Loops => Mark(Label(F[k].id, "top", 0), F[k].addr) \in M
    /\ \A k \in 1..Len(F) : F[k].kind = "while" => Mark(ContinueOf(F[k]), F[k].addr) \in M
    /\ \A k \in 1..Len(F) : F[k].kind = "if" => Waiting(F[k], J, M)
    /\ \A k \in 1..Len(F) : \A j \in J :
          j.label.id = F[k].id /\ j.label.what = "label" => j.label.n <= F[k].labels + 1

\* Statement k of F owes jump j its target.
Owes(F, k, j, st) ==
    \/ F[k].kind = "if" /\ j.cell = F[k].addr
    \/ F[k].kind \in Breakable /\ j.label = EndOf(F[k])
    \/ F[k].kind \in Loops /\ j.label = ContinueOf(F[k])
    \/ F[k].kind = "switch" /\ j.label = NextLabel(F[k]) /\ ~(k = Len(F) /\ st = "break")

Answered(F, M, mem, st, j) == Settled(mem, M, j) \/ \E k \in 1..Len(F) : Owes(F, k, j, st)

\* No jump is forgotten.
Accounted(F, J, M, mem, st) == \A j \in J : Answered(F, M, mem, st, j)

\* All of the above.
Sound(F, J, M, mem, top, cond, case, break, st) ==
    /\ Phase(F, M, mem, cond, st)
    /\ Placed(mem, J, top) /\ Marked(mem, M, top) /\ Coded(mem, J) /\ Finished(mem, st)
    /\ BreakChains(F, J, mem, break, st)
    /\ ContinueChains(F, J, M, mem, cond, st)
    /\ CaseTests(F, J, case)
    /\ Remembered(F, J, M, top)
    /\ Accounted(F, J, M, mem, st)

JumpsInv ==
    /\ TypeInv
    /\ Sound(frames, jumps, marks, memory, opened, addr_cond, addr_case, addr_break, todo)

-----------------------------------------------------------------------------
(* Lemmas about labels, jumps and marks. *)

\* Labels are the same when their parts are.
LEMMA LabelParts ==
    ASSUME NEW i, NEW v, NEW m, NEW j, NEW w, NEW n
    PROVE  /\ Label(i, v, m) = Label(j, w, n) <=> i = j /\ v = w /\ m = n
           /\ Label(i, v, m).id = i /\ Label(i, v, m).what = v /\ Label(i, v, m).n = m
BY DEF Label

\* The parts of a jump and of a mark.
LEMMA JumpParts ==
    ASSUME NEW c, NEW l
    PROVE  /\ Jump(c, l).cell = c /\ Jump(c, l).label = l
           /\ Mark(l, c).addr = c /\ Mark(l, c).label = l
BY DEF Jump, Mark

\* What the encoder records has the right types.
LEMMA HistoryTypes ==
    ASSUME NEW i \in Nat, NEW w \in Whats, NEW n \in Nat, NEW c \in Nat
    PROVE  /\ Label(i, w, n) \in LabelType
           /\ Jump(c, Label(i, w, n)) \in JumpType
           /\ Mark(Label(i, w, n), c) \in MarkType
BY DEF Label, Jump, Mark, LabelType, JumpType, MarkType

\* A label of a statement.
LEMMA LabelTyped ==
    ASSUME NEW i \in Nat, NEW w \in Whats, NEW n \in Nat
    PROVE  \E l \in LabelType : l = Label(i, w, n) /\ l.id = i /\ l.what = w /\ l.n = n
<1>1. Label(i, w, n) \in LabelType
  BY HistoryTypes, 0 \in Nat
<1> QED BY <1>1, LabelParts

\* The operands of a label are the cells of its jumps.
LEMMA OperandsMember ==
    ASSUME NEW J, J \subseteq JumpType, NEW l, NEW c
    PROVE  c \in Operands(J, l) <=> Jump(c, l) \in J
<1>1. ASSUME c \in Operands(J, l) PROVE Jump(c, l) \in J
  <2>1. PICK j \in J : j.label = l /\ j.cell = c
    BY <1>1 DEF Operands
  <2>2. j = Jump(c, l)
    BY <2>1 DEF JumpType, Jump
  <2> QED BY <2>1, <2>2
<1>2. ASSUME Jump(c, l) \in J PROVE c \in Operands(J, l)
  <2>1. Jump(c, l).label = l /\ Jump(c, l).cell = c
    BY JumpParts
  <2> QED BY <1>2, <2>1 DEF Operands
<1> QED BY <1>1, <1>2

\* A new jump gives its own label an operand, and no other.
LEMMA OperandsGrow ==
    ASSUME NEW J, NEW c, NEW l, NEW k
    PROVE  Operands(J \cup {Jump(c, l)}, k) = Operands(J, k) \cup (IF k = l THEN {c} ELSE {})
BY JumpParts DEF Operands

\* The operands of a label are addresses of cells in the code.
LEMMA OperandsPlace ==
    ASSUME NEW J, J \subseteq JumpType, NEW l, NEW mem \in Seq(CellType), NEW top, Placed(mem, J, top)
    PROVE  /\ Operands(J, l) \subseteq Nat
           /\ \A c \in Operands(J, l) : c \in 7..Len(mem) - 1
BY DEF Operands, Placed, JumpType

\* Jumps with different labels have different operands.
LEMMA OperandsApart ==
    ASSUME NEW J, J \subseteq JumpType, NEW l, NEW mem, NEW top, Placed(mem, J, top), NEW j \in J, j.label # l
    PROVE  j.cell \notin Operands(J, l)
BY DEF Operands, Placed

\* A label of a statement not yet begun has no jumps.
LEMMA OperandsFresh ==
    ASSUME NEW J, J \subseteq JumpType, NEW mem, NEW top \in Nat, Placed(mem, J, top), NEW w, NEW n
    PROVE  Operands(J, Label(top + 1, w, n)) = {}
<1> SUFFICES ASSUME NEW j \in J, j.label = Label(top + 1, w, n) PROVE FALSE
  BY DEF Operands
<1>1. j.label.id = top + 1 /\ j.label.id <= top
  BY LabelParts DEF Placed
<1> QED BY <1>1

-----------------------------------------------------------------------------
(* Lemmas about chains. *)

\* A chain depends only on its own operands.
LEMMA ChainKept ==
    ASSUME NEW S, NEW mem, NEW mem2, NEW head, NEW base, Chain(mem, S, head, base),
           \A c \in S : Get(mem2, c) = Get(mem, c)
    PROVE  Chain(mem2, S, head, base)
BY DEF Chain

\* No operands, no chain.
LEMMA ChainEmpty ==
    ASSUME NEW mem, NEW base
    PROVE  Chain(mem, {}, base, base)
BY DEF Chain

\* A break or continue goes in front of its chain.
LEMMA ChainGrown ==
    ASSUME NEW S, S \subseteq Nat, NEW mem, NEW mem2, NEW head \in Nat, NEW base \in Nat, NEW c \in Nat,
           Chain(mem, S, head, base), Whole(S, head), base < c,
           \A d \in S : Get(mem2, d) = Get(mem, d) /\ d < c,
           Get(mem2, c) = head
    PROVE  Chain(mem2, S \cup {c}, c, base) /\ Whole(S \cup {c}, c)
<1> DEFINE T == S \cup {c}
<1>1. head < c
  BY DEF Chain
<1>2. \A d \in T : d > base
  BY DEF Chain
<1>3. ASSUME NEW d \in T, d <= c
      PROVE  /\ Get(mem2, d) \in T \cup {base} /\ Get(mem2, d) < d
             /\ \A e \in T : e < d => e <= Get(mem2, d)
  <2>1. CASE d = c
    BY <1>1, <2>1 DEF Chain, Whole
  <2>2. CASE d \in S
    <3>1. d <= head /\ Get(mem2, d) = Get(mem, d) /\ d < c
      BY <2>2 DEF Whole
    <3>2. Get(mem, d) \in S \cup {base} /\ Get(mem, d) < d /\ \A e \in S : e < d => e <= Get(mem, d)
      BY <2>2, <3>1 DEF Chain
    <3> QED BY <2>2, <3>1, <3>2
  <2> QED BY <2>1, <2>2
<1>4. \A d \in T : d <= c
  OBVIOUS
<1> QED BY <1>2, <1>3, <1>4 DEF Chain, Whole

\* The head of a chain is overwritten and the one before it is the new head.
LEMMA ChainPatched ==
    ASSUME NEW S, S \subseteq Nat, NEW mem, NEW mem2, NEW head \in Nat, NEW base \in Nat,
           Chain(mem, S, head, base), head # base,
           \A d \in S : d # head => Get(mem2, d) = Get(mem, d)
    PROVE  /\ head \in S /\ Get(mem, head) \in S \cup {base} /\ Get(mem, head) < head
           /\ Chain(mem2, S, Get(mem, head), base)
           /\ \A d \in S : d > Get(mem, head) => d >= head
<1>1. head \in S
  BY DEF Chain
<1>2. /\ Get(mem, head) \in S \cup {base} /\ Get(mem, head) < head
      /\ \A d \in S : d < head => d <= Get(mem, head)
  BY <1>1 DEF Chain
<1>3. PICK p \in Nat : p = Get(mem, head)
  BY <1>2
<1>4. ASSUME NEW c \in S, c <= p
      PROVE  /\ Get(mem2, c) \in S \cup {base} /\ Get(mem2, c) < c
             /\ \A d \in S : d < c => d <= Get(mem2, c)
  <2>1. c # head /\ c <= head
    BY <1>2, <1>3, <1>4
  <2> QED BY <2>1 DEF Chain
<1>5. Chain(mem2, S, p, base)
  BY <1>2, <1>3, <1>4 DEF Chain
<1>6. \A d \in S : d > p => d >= head
  BY <1>2, <1>3
<1> QED BY <1>1, <1>2, <1>3, <1>5, <1>6

-----------------------------------------------------------------------------
(* Lemmas about the code. *)

\* mem2 is mem with some operands of P overwritten and instructions added at the end.
Emitted(mem, mem2, P) ==
    /\ mem2 \in Seq(CellType) /\ Len(mem) <= Len(mem2)
    /\ \A a \in 1..Len(mem) : a - 1 \notin P => mem2[a] = mem[a]
    /\ \A a \in 1..Len(mem) : a - 1 \in P => mem2[a].kind = "arg" /\ mem2[a].op = "none"
    /\ Len(mem) < Len(mem2) => mem2[Len(mem) + 1].kind = "code"

\* The cells that may be overwritten: operands of jumps, and the header of the function.
Patchable(J, P) == \A p \in P : p \in {5, 6} \/ \E j \in J : j.cell = p

\* Nothing changes.
LEMMA EmittedNothing ==
    ASSUME NEW mem \in Seq(CellType)
    PROVE  Emitted(mem, mem, {})
BY DEF Emitted

\* Instructions are added.
LEMMA EmittedCode ==
    ASSUME NEW mem \in Seq(CellType), NEW code \in Seq(CellType), Len(code) > 0, code[1].kind = "code"
    PROVE  /\ Emitted(mem, mem \o code, {})
           /\ Len(mem \o code) = Len(mem) + Len(code)
           /\ \A i \in 1..Len(code) : (mem \o code)[Len(mem) + i] = code[i]
<1>1. /\ mem \o code \in Seq(CellType) /\ Len(mem \o code) = Len(mem) + Len(code)
      /\ \A a \in 1..Len(mem) : (mem \o code)[a] = mem[a]
      /\ \A i \in 1..Len(code) : (mem \o code)[Len(mem) + i] = code[i]
  OBVIOUS
<1>2. Len(mem) \in Nat /\ Len(code) \in Nat
  OBVIOUS
<1> QED BY <1>1, <1>2 DEF Emitted

\* One operand is overwritten.
LEMMA EmittedPatch ==
    ASSUME NEW mem \in Seq(CellType), NEW c \in 0..Len(mem) - 1, NEW n \in Int
    PROVE  /\ Emitted(mem, mem_set(mem, c, n), {c})
           /\ Len(mem_set(mem, c, n)) = Len(mem)
           /\ Get(mem_set(mem, c, n), c) = n
<1> DEFINE mem2 == mem_set(mem, c, n)
<1>1. Arg(n) \in CellType /\ Arg(n).kind = "arg" /\ Arg(n).op = "none" /\ Arg(n).arg = n
  BY DEF Arg, CellType, Ops
<1>2. c + 1 \in 1..Len(mem)
  OBVIOUS
<1>3. mem2 \in Seq(CellType) /\ Len(mem2) = Len(mem)
  BY <1>1, <1>2, ExceptSeq DEF mem_set
<1>4. mem2[c + 1] = Arg(n) /\ \A a \in 1..Len(mem) : a # c + 1 => mem2[a] = mem[a]
  BY <1>2 DEF mem_set
<1>5. \A a \in 1..Len(mem) : a - 1 \in {c} <=> a = c + 1
  OBVIOUS
<1> HIDE DEF mem2
<1>6. Emitted(mem, mem2, {c})
  BY <1>1, <1>3, <1>4, <1>5 DEF Emitted
<1>7. Get(mem2, c) = n
  BY <1>1, <1>4 DEF Get
<1> QED BY <1>3, <1>6, <1>7 DEF mem2

\* One operand is overwritten and instructions are added.
LEMMA EmittedBoth ==
    ASSUME NEW mem \in Seq(CellType), NEW mem2, NEW mem3, NEW P, NEW Q,
           Emitted(mem, mem2, P), Len(mem2) = Len(mem), Emitted(mem2, mem3, Q)
    PROVE  Emitted(mem, mem3, P \cup Q)
<1>1. Len(mem) \in Nat /\ Len(mem2) \in Nat /\ Len(mem3) \in Nat
  BY DEF Emitted
<1>2. ASSUME NEW a \in 1..Len(mem), a - 1 \notin P \cup Q PROVE mem3[a] = mem[a]
  BY <1>2 DEF Emitted
<1>3. ASSUME NEW a \in 1..Len(mem), a - 1 \in P \cup Q PROVE mem3[a].kind = "arg" /\ mem3[a].op = "none"
  <2>1. CASE a - 1 \in Q
    BY <2>1 DEF Emitted
  <2>2. CASE a - 1 \notin Q
    BY <1>3, <2>2 DEF Emitted
  <2> QED BY <2>1, <2>2
<1> QED BY <1>1, <1>2, <1>3 DEF Emitted

\* An operand that is not overwritten keeps its value.
LEMMA GetKept ==
    ASSUME NEW mem \in Seq(CellType), NEW mem2, NEW P, Emitted(mem, mem2, P),
           NEW c \in 0..Len(mem) - 1, c \notin P
    PROVE  Get(mem2, c) = Get(mem, c)
<1>1. c + 1 \in 1..Len(mem) /\ (c + 1) - 1 = c
  OBVIOUS
<1> QED BY <1>1 DEF Emitted, Get

\* Where an instruction begins, one begins afterwards.
LEMMA LandingKept ==
    ASSUME NEW mem \in Seq(CellType), NEW mem2, NEW P, Emitted(mem, mem2, P),
           NEW J, NEW top, Placed(mem, J, top), Patchable(J, P),
           NEW t, Landing(mem, t)
    PROVE  Landing(mem2, t)
<1>1. t \in Nat /\ t >= 7 /\ t <= Len(mem) /\ Len(mem) \in Nat
  BY DEF Landing
<1>2. Len(mem2) \in Nat /\ Len(mem) <= Len(mem2)
  BY DEF Emitted
<1>3. CASE t < Len(mem)
  <2>1. mem[t + 1].kind = "code" /\ t + 1 \in 1..Len(mem) /\ (t + 1) - 1 = t
    BY <1>1, <1>3 DEF Landing
  <2>2. t \notin P
    <3> SUFFICES ASSUME t \in P PROVE FALSE
      OBVIOUS
    <3>1. PICK j \in J : j.cell = t
      BY <1>1 DEF Patchable
    <3>2. mem[t + 1].kind = "arg"
      BY <3>1 DEF Placed
    <3> QED BY <2>1, <3>2
  <2>3. mem2[t + 1] = mem[t + 1]
    BY <2>1, <2>2 DEF Emitted
  <2> QED BY <1>1, <1>2, <1>3, <2>1, <2>3 DEF Landing
<1>4. CASE t = Len(mem)
  BY <1>1, <1>2, <1>4 DEF Landing, Emitted
<1> QED BY <1>1, <1>3, <1>4

\* The marks stay marks.
LEMMA MarkedKept ==
    ASSUME NEW mem \in Seq(CellType), NEW mem2, NEW P, Emitted(mem, mem2, P),
           NEW J, NEW top \in Nat, NEW top2 \in Nat, Placed(mem, J, top), Patchable(J, P), top <= top2,
           NEW M, M \subseteq MarkType, Marked(mem, M, top), NEW N,
           \A m \in N : Landing(mem2, m.addr) /\ m.label.id <= top2
    PROVE  Marked(mem2, M \cup N, top2)
<1> SUFFICES ASSUME NEW m \in M PROVE Landing(mem2, m.addr) /\ m.label.id <= top2
  BY DEF Marked
<1>1. Landing(mem, m.addr) /\ m.label.id <= top /\ m.label.id \in Nat
  BY DEF Marked, MarkType, LabelType
<1> QED BY <1>1, LandingKept

\* The jumps keep their operands.
LEMMA PlacedKept ==
    ASSUME NEW mem \in Seq(CellType), NEW mem2, NEW P, Emitted(mem, mem2, P),
           NEW J, J \subseteq JumpType, NEW top \in Nat, NEW top2 \in Nat, Placed(mem, J, top), top <= top2
    PROVE  Placed(mem2, J, top2)
<1>1. Len(mem) \in Nat /\ Len(mem2) \in Nat /\ Len(mem) <= Len(mem2)
  BY DEF Emitted
<1> SUFFICES ASSUME NEW j \in J
             PROVE  /\ j.cell \in 7..Len(mem2) - 1
                    /\ mem2[j.cell + 1].kind = "arg"
                    /\ j.label.id <= top2
  BY DEF Placed
<1>2. j.cell \in 7..Len(mem) - 1 /\ mem[j.cell + 1].kind = "arg" /\ j.label.id <= top /\ j.label.id \in Nat
  BY DEF Placed, JumpType, LabelType
<1>3. j.cell + 1 \in 1..Len(mem)
  BY <1>1, <1>2
<1>4. mem2[j.cell + 1].kind = "arg"
  BY <1>2, <1>3 DEF Emitted
<1> QED BY <1>1, <1>2, <1>4

\* A new jump has its operand in the new code.
LEMMA PlacedMore ==
    ASSUME NEW mem \in Seq(CellType), NEW mem2, NEW P, Emitted(mem, mem2, P),
           NEW J, J \subseteq JumpType, NEW top \in Nat, NEW top2 \in Nat, Placed(mem, J, top), top <= top2,
           NEW c \in Len(mem)..Len(mem2) - 1, Len(mem) >= 7, mem2[c + 1].kind = "arg",
           NEW l, l.id <= top2
    PROVE  Placed(mem2, J \cup {Jump(c, l)}, top2)
<1>1. Placed(mem2, J, top2)
  BY PlacedKept
<1>2. Jump(c, l).cell = c /\ Jump(c, l).label = l
  BY JumpParts
<1>3. Len(mem) \in Nat /\ Len(mem2) \in Nat /\ c \in 7..Len(mem2) - 1
  BY DEF Emitted
<1>4. ASSUME NEW j \in J PROVE j.cell # c
  <2>1. j.cell \in 7..Len(mem) - 1
    BY DEF Placed
  <2> QED BY <1>3, <2>1
<1> QED BY <1>1, <1>2, <1>3, <1>4 DEF Placed

\* The branches of the code after mem have operands, those at C or good ones.
NewCode(mem, mem2, C) ==
    \A a \in Len(mem) + 1..Len(mem2) : mem2[a].op \in Branches =>
        a \in 8..Len(mem2) - 1 /\ (a \in C \/ Landing(mem2, Get(mem2, a)))

\* Branches keep their operands; the branches of new code are as Coded says.
LEMMA CodedKept ==
    ASSUME NEW mem \in Seq(CellType), NEW mem2, NEW P, Emitted(mem, mem2, P),
           NEW J, NEW top, Placed(mem, J, top), Patchable(J, P), Coded(mem, J),
           NEW J2, J \subseteq J2, NEW C, NewCode(mem, mem2, C), \A c \in C : \E j \in J2 : j.cell = c
    PROVE  Coded(mem2, J2)
<1>1. Len(mem) \in Nat /\ Len(mem2) \in Nat /\ Len(mem) <= Len(mem2)
  BY DEF Emitted
<1> SUFFICES ASSUME NEW a \in 1..Len(mem), mem2[a].op \in Branches
             PROVE  /\ a \in 8..Len(mem2) - 1
                    /\ (\E j \in J2 : j.cell = a) \/ Landing(mem2, Get(mem2, a))
  BY <1>1 DEF Coded, NewCode
<1>2. a - 1 \notin P
  BY DEF Emitted, Branches
<1>3. mem2[a] = mem[a]
  BY <1>2 DEF Emitted
<1>4. /\ a \in 8..Len(mem) - 1
      /\ (\E j \in J : j.cell = a) \/ Landing(mem, Get(mem, a))
  BY <1>3 DEF Coded
<1>5. CASE \E j \in J : j.cell = a
  BY <1>1, <1>4, <1>5
<1>6. CASE ~ \E j \in J : j.cell = a
  <2>1. Landing(mem, Get(mem, a))
    BY <1>4, <1>6
  <2>2. a \notin P
    BY <1>4, <1>6 DEF Patchable
  <2>3. Get(mem2, a) = Get(mem, a)
    BY <1>1, <1>4, <2>2, GetKept
  <2>4. Landing(mem2, Get(mem, a))
    BY <2>1, LandingKept
  <2> QED BY <1>1, <1>4, <2>3, <2>4
<1> QED BY <1>5, <1>6

\* A settled jump stays settled.
LEMMA SettledKept ==
    ASSUME NEW mem \in Seq(CellType), NEW mem2, NEW P, Emitted(mem, mem2, P),
           NEW M, NEW M2, M \subseteq M2, NEW j, Settled(mem, M, j),
           j.cell \in 0..Len(mem) - 1, j.cell \notin P
    PROVE  Settled(mem2, M2, j)
<1>1. Get(mem2, j.cell) = Get(mem, j.cell)
  BY GetKept
<1> QED BY <1>1 DEF Settled

-----------------------------------------------------------------------------
(* Lemmas about the stack of statements. *)

\* F and F2 have the same frames of these kinds, with the same heads saved.
SameFrames(F, F2, kinds) ==
    /\ \A k \in 1..Len(F2) : F2[k].kind \in kinds =>
          /\ k <= Len(F) /\ F2[k].kind = F[k].kind /\ F2[k].id = F[k].id /\ F2[k].addr = F[k].addr
          /\ F2[k].old_cond = F[k].old_cond /\ F2[k].old_case = F[k].old_case
          /\ F2[k].old_break = F[k].old_break
    /\ \A k \in 1..Len(F) : F[k].kind \in kinds => k <= Len(F2) /\ F2[k].kind = F[k].kind

\* Fewer kinds.
LEMMA SameNarrow ==
    ASSUME NEW F, NEW F2, NEW kinds, SameFrames(F, F2, Breakable), kinds \subseteq Breakable
    PROVE  SameFrames(F, F2, kinds)
BY DEF SameFrames

\* The same stack.
LEMMA SameStack ==
    ASSUME NEW F \in Seq(FrameType)
    PROVE  SameFrames(F, F, Breakable)
BY DEF SameFrames

\* A statement that is no loop or switch is pushed or popped.
LEMMA SamePushed ==
    ASSUME NEW F \in Seq(FrameType), NEW f \in FrameType, f.kind \notin Breakable
    PROVE  SameFrames(F, Append(F, f), Breakable) /\ SameFrames(Append(F, f), F, Breakable)
<1> DEFINE F2 == Append(F, f)
<1>1. Len(F) \in Nat /\ Len(F2) = Len(F) + 1 /\ F2[Len(F) + 1] = f
  OBVIOUS
<1>2. \A k \in 1..Len(F) : F2[k] = F[k]
  OBVIOUS
<1>3. \A k \in 1..Len(F2) : F2[k].kind \in Breakable => k \in 1..Len(F)
  BY <1>1
<1> HIDE DEF F2
<1>4. SameFrames(F, F2, Breakable) /\ SameFrames(F2, F, Breakable)
  BY <1>1, <1>2, <1>3 DEF SameFrames
<1> QED BY <1>4 DEF F2

\* Without its last frame a stack has the frames before.
LEMMA PopFrames ==
    ASSUME NEW F \in Seq(FrameType), Len(F) > 0
    PROVE  /\ SubSeq(F, 1, Len(F) - 1) \in Seq(FrameType)
           /\ Len(SubSeq(F, 1, Len(F) - 1)) = Len(F) - 1
           /\ \A k \in 1..Len(F) - 1 : SubSeq(F, 1, Len(F) - 1)[k] = F[k]
<1> DEFINE n == Len(F) - 1
<1>1. n \in Int /\ 1 \in Int /\ \A i \in 1..n : F[i] \in FrameType
  OBVIOUS
<1>2. n \in Nat
  OBVIOUS
<1>3. /\ SubSeq(F, 1, n) \in Seq(FrameType)
      /\ Len(SubSeq(F, 1, n)) = IF 1 <= n THEN n - 1 + 1 ELSE 0
      /\ \A i \in 1..n - 1 + 1 : SubSeq(F, 1, n)[i] = F[1 + i - 1]
  BY <1>1, SubSeqProperties
<1> HIDE DEF n
<1>4. Len(SubSeq(F, 1, n)) = n /\ \A i \in 1..n : SubSeq(F, 1, n)[i] = F[i]
  BY <1>2, <1>3
<1> QED BY <1>3, <1>4 DEF n

\* A statement that is no loop or switch is popped.
LEMMA SamePopped ==
    ASSUME NEW F \in Seq(FrameType), Len(F) > 0, F[Len(F)].kind \notin Breakable
    PROVE  SameFrames(F, SubSeq(F, 1, Len(F) - 1), Breakable)
<1> DEFINE F2 == SubSeq(F, 1, Len(F) - 1)
<1>1. Len(F) \in Nat /\ Len(F2) = Len(F) - 1 /\ \A k \in 1..Len(F) - 1 : F2[k] = F[k]
  BY PopFrames
<1>2. \A k \in 1..Len(F) : F[k].kind \in Breakable => k \in 1..Len(F) - 1
  BY <1>1
<1> HIDE DEF F2
<1>3. SameFrames(F, F2, Breakable)
  BY <1>1, <1>2 DEF SameFrames
<1> QED BY <1>3 DEF F2

\* What is between two frames stays between them.
LEMMA ClearKept ==
    ASSUME NEW F \in Seq(FrameType), NEW F2 \in Seq(FrameType), NEW kinds, SameFrames(F, F2, kinds), NEW k \in Nat
    PROVE  /\ Clear(F2, kinds, k, Len(F2) + 1) => Clear(F, kinds, k, Len(F) + 1)
           /\ \A n \in 1..Len(F2) : F2[n].kind \in kinds /\ Clear(F2, kinds, k, n) => Clear(F, kinds, k, n)
<1>1. Len(F) \in Nat /\ Len(F2) \in Nat
  OBVIOUS
<1>2. ASSUME Clear(F2, kinds, k, Len(F2) + 1), NEW i \in k + 1..(Len(F) + 1) - 1, F[i].kind \in kinds PROVE FALSE
  <2>1. i \in 1..Len(F)
    BY <1>1
  <2>2. i <= Len(F2) /\ F2[i].kind \in kinds
    BY <1>2, <2>1 DEF SameFrames
  <2>3. i \in k + 1..(Len(F2) + 1) - 1
    BY <1>1, <2>1, <2>2
  <2> QED BY <1>2, <2>2, <2>3 DEF Clear
<1>3. ASSUME NEW n \in 1..Len(F2), F2[n].kind \in kinds, Clear(F2, kinds, k, n),
             NEW i \in k + 1..n - 1, F[i].kind \in kinds
      PROVE  FALSE
  <2>1. n <= Len(F)
    BY <1>3 DEF SameFrames
  <2>2. i \in 1..Len(F)
    BY <1>1, <2>1
  <2>3. F2[i].kind \in kinds
    BY <1>3, <2>2 DEF SameFrames
  <2> QED BY <1>3, <2>3 DEF Clear
<1>4. Clear(F2, kinds, k, Len(F2) + 1) => Clear(F, kinds, k, Len(F) + 1)
  BY <1>2 DEF Clear
<1>5. \A n \in 1..Len(F2) : F2[n].kind \in kinds /\ Clear(F2, kinds, k, n) => Clear(F, kinds, k, n)
  BY <1>3 DEF Clear
<1> QED BY <1>4, <1>5

\* The jumps of this label are the same, with the same operands.
Untouched(J, J2, mem, mem2, l) ==
    /\ Operands(J2, l) = Operands(J, l)
    /\ \A c \in Operands(J, l) : Get(mem2, c) = Get(mem, c)

\* A step that neither adds to nor patches the breaks of the open statements keeps
\* their chains.
LEMMA BreakChainsKept ==
    ASSUME NEW F \in Seq(FrameType), NEW F2 \in Seq(FrameType), NEW J, NEW J2,
           NEW mem, NEW mem2, NEW head, NEW st, NEW st2,
           BreakChains(F, J, mem, head, st),
           SameFrames(F, F2, Breakable),
           \A k \in 1..Len(F) : F[k].kind \in Breakable => Untouched(J, J2, mem, mem2, EndOf(F[k])),
           st = "break" => st2 = "break" /\ Len(mem2) = Len(mem) /\ Len(F2) = Len(F)
    PROVE  BreakChains(F2, J2, mem2, head, st2)
<1>1. Len(F) \in Nat /\ Len(F2) \in Nat
  OBVIOUS
<1>2. ASSUME NEW k \in 1..Len(F2), F2[k].kind \in Breakable
      PROVE  /\ k \in 1..Len(F) /\ F[k].kind \in Breakable /\ F2[k].old_break = F[k].old_break
             /\ EndOf(F2[k]) = EndOf(F[k]) /\ Operands(J2, EndOf(F2[k])) = Operands(J, EndOf(F[k]))
             /\ \A c \in Operands(J, EndOf(F[k])) : Get(mem2, c) = Get(mem, c)
  <2>1. k \in 1..Len(F) /\ F[k].kind \in Breakable /\ F2[k].old_break = F[k].old_break /\ F2[k].id = F[k].id
    BY <1>1, <1>2 DEF SameFrames
  <2>2. EndOf(F2[k]) = EndOf(F[k])
    BY <2>1 DEF EndOf
  <2>3. Untouched(J, J2, mem, mem2, EndOf(F[k]))
    BY <2>1
  <2> QED BY <2>1, <2>2, <2>3 DEF Untouched
<1>3. ASSUME NEW k \in 1..Len(F2), F2[k].kind \in Breakable, Clear(F2, Breakable, k, Len(F2) + 1)
      PROVE  /\ Chain(mem2, Operands(J2, EndOf(F2[k])), head, 0)
             /\ \A c \in Operands(J2, EndOf(F2[k])) : c > head =>
                   k = Len(F2) /\ st2 = "break" /\ Get(mem2, c) = Len(mem2)
  <2>1. k \in 1..Len(F) /\ F[k].kind \in Breakable /\ Clear(F, Breakable, k, Len(F) + 1)
    BY <1>2, <1>3, ClearKept
  <2>2. /\ Chain(mem, Operands(J, EndOf(F[k])), head, 0)
        /\ \A c \in Operands(J, EndOf(F[k])) : c > head => k = Len(F) /\ st = "break" /\ Get(mem, c) = Len(mem)
    BY <2>1 DEF BreakChains
  <2>3. Chain(mem2, Operands(J, EndOf(F[k])), head, 0)
    BY <1>2, <1>3, <2>2, ChainKept
  <2> QED BY <1>2, <1>3, <2>2, <2>3
<1>4. ASSUME NEW k \in 1..Len(F2), NEW n \in 1..Len(F2), k < n, {F2[k].kind, F2[n].kind} \subseteq Breakable,
             Clear(F2, Breakable, k, n)
      PROVE  /\ Chain(mem2, Operands(J2, EndOf(F2[k])), F2[n].old_break, 0)
             /\ Whole(Operands(J2, EndOf(F2[k])), F2[n].old_break)
  <2>1. /\ k \in 1..Len(F) /\ n \in 1..Len(F) /\ {F[k].kind, F[n].kind} \subseteq Breakable
        /\ F2[n].old_break = F[n].old_break
    BY <1>2, <1>4
  <2>2. Clear(F, Breakable, k, n)
    BY <1>4, ClearKept
  <2>3. Chain(mem, Operands(J, EndOf(F[k])), F[n].old_break, 0) /\ Whole(Operands(J, EndOf(F[k])), F[n].old_break)
    BY <1>4, <2>1, <2>2 DEF BreakChains
  <2>4. Chain(mem2, Operands(J, EndOf(F[k])), F[n].old_break, 0)
    BY <1>2, <1>4, <2>3, ChainKept
  <2> QED BY <1>2, <1>4, <2>1, <2>3, <2>4
<1>5. Clear(F2, Breakable, 0, Len(F2) + 1) => head = 0
  BY ClearKept DEF BreakChains
<1>6. ASSUME NEW n \in 1..Len(F2), F2[n].kind \in Breakable, Clear(F2, Breakable, 0, n) PROVE F2[n].old_break = 0
  <2>1. n \in 1..Len(F) /\ F[n].kind \in Breakable /\ F2[n].old_break = F[n].old_break
    BY <1>2, <1>6
  <2>2. Clear(F, Breakable, 0, n)
    BY <1>6, ClearKept
  <2> QED BY <2>1, <2>2 DEF BreakChains
<1> QED BY <1>3, <1>4, <1>5, <1>6 DEF BreakChains

\* A step that neither adds to nor patches the continues of the open loops keeps their
\* chains.
LEMMA ContinueChainsKept ==
    ASSUME NEW F \in Seq(FrameType), NEW F2 \in Seq(FrameType), NEW J, NEW J2, NEW M, NEW M2,
           NEW mem, NEW mem2, NEW head, NEW st, NEW st2,
           ContinueChains(F, J, M, mem, head, st),
           SameFrames(F, F2, Loops), M \subseteq M2,
           \A k \in 1..Len(F) : F[k].kind \in Loops => Untouched(J, J2, mem, mem2, ContinueOf(F[k])),
           st \in {"cond", "break"} => \/ Len(F2) = Len(F) /\ st2 \in {"cond", "break"}
                                       \/ F[Len(F)].kind \notin Loops
    PROVE  ContinueChains(F2, J2, M2, mem2, head, st2)
<1>1. Len(F) \in Nat /\ Len(F2) \in Nat
  OBVIOUS
<1>2. ASSUME NEW k \in 1..Len(F2), F2[k].kind \in Loops
      PROVE  /\ k \in 1..Len(F) /\ F[k].kind \in Loops /\ F2[k].old_cond = F[k].old_cond
             /\ ContinueOf(F2[k]) = ContinueOf(F[k]) /\ BaseOf(F2[k]) = BaseOf(F[k])
             /\ Operands(J2, ContinueOf(F2[k])) = Operands(J, ContinueOf(F[k]))
             /\ \A c \in Operands(J, ContinueOf(F[k])) : Get(mem2, c) = Get(mem, c)
  <2>1. /\ k \in 1..Len(F) /\ F[k].kind \in Loops /\ F2[k].old_cond = F[k].old_cond /\ F2[k].id = F[k].id
        /\ F2[k].addr = F[k].addr /\ F2[k].kind = F[k].kind
    BY <1>1, <1>2 DEF SameFrames
  <2>2. ContinueOf(F2[k]) = ContinueOf(F[k]) /\ BaseOf(F2[k]) = BaseOf(F[k])
    BY <2>1 DEF ContinueOf, BaseOf
  <2>3. Untouched(J, J2, mem, mem2, ContinueOf(F[k]))
    BY <2>1
  <2> QED BY <2>1, <2>2, <2>3 DEF Untouched
<1>3. ASSUME NEW k \in 1..Len(F2), F2[k].kind \in Loops, Clear(F2, Loops, k, Len(F2) + 1)
      PROVE  /\ Chain(mem2, Operands(J2, ContinueOf(F2[k])), head, BaseOf(F2[k]))
             /\ \A c \in Operands(J2, ContinueOf(F2[k])) : c > head =>
                   k = Len(F2) /\ st2 \in {"cond", "break"} /\ Settled(mem2, M2, Jump(c, ContinueOf(F2[k])))
  <2>1. k \in 1..Len(F) /\ F[k].kind \in Loops /\ Clear(F, Loops, k, Len(F) + 1)
    BY <1>2, <1>3, ClearKept
  <2>2. /\ Chain(mem, Operands(J, ContinueOf(F[k])), head, BaseOf(F[k]))
        /\ \A c \in Operands(J, ContinueOf(F[k])) : c > head =>
              k = Len(F) /\ st \in {"cond", "break"} /\ Settled(mem, M, Jump(c, ContinueOf(F[k])))
    BY <2>1 DEF ContinueChains
  <2>3. Chain(mem2, Operands(J, ContinueOf(F[k])), head, BaseOf(F[k]))
    BY <1>2, <1>3, <2>2, ChainKept
  <2>4. ASSUME NEW c \in Operands(J, ContinueOf(F[k])), c > head
        PROVE  k = Len(F2) /\ st2 \in {"cond", "break"} /\ Settled(mem2, M2, Jump(c, ContinueOf(F[k])))
    <3>1. k = Len(F) /\ st \in {"cond", "break"} /\ Settled(mem, M, Jump(c, ContinueOf(F[k])))
      BY <2>2, <2>4
    <3>2. k = Len(F2) /\ st2 \in {"cond", "break"}
      BY <2>1, <3>1
    <3>3. Get(mem2, c) = Get(mem, c) /\ Jump(c, ContinueOf(F[k])).cell = c
      BY <1>2, <1>3, <2>4, JumpParts
    <3>4. Settled(mem2, M2, Jump(c, ContinueOf(F[k])))
      BY <3>1, <3>3 DEF Settled
    <3> QED BY <3>2, <3>4
  <2> QED BY <1>2, <1>3, <2>3, <2>4
<1>4. ASSUME NEW k \in 1..Len(F2), NEW n \in 1..Len(F2), k < n, {F2[k].kind, F2[n].kind} \subseteq Loops,
             Clear(F2, Loops, k, n)
      PROVE  /\ Chain(mem2, Operands(J2, ContinueOf(F2[k])), F2[n].old_cond, BaseOf(F2[k]))
             /\ Whole(Operands(J2, ContinueOf(F2[k])), F2[n].old_cond)
  <2>1. /\ k \in 1..Len(F) /\ n \in 1..Len(F) /\ {F[k].kind, F[n].kind} \subseteq Loops
        /\ F2[n].old_cond = F[n].old_cond
    BY <1>2, <1>4
  <2>2. Clear(F, Loops, k, n)
    BY <1>4, ClearKept
  <2>3. /\ Chain(mem, Operands(J, ContinueOf(F[k])), F[n].old_cond, BaseOf(F[k]))
        /\ Whole(Operands(J, ContinueOf(F[k])), F[n].old_cond)
    BY <1>4, <2>1, <2>2 DEF ContinueChains
  <2>4. Chain(mem2, Operands(J, ContinueOf(F[k])), F[n].old_cond, BaseOf(F[k]))
    BY <1>2, <1>4, <2>3, ChainKept
  <2> QED BY <1>2, <1>4, <2>1, <2>3, <2>4
<1>5. Clear(F2, Loops, 0, Len(F2) + 1) => head = 0
  BY ClearKept DEF ContinueChains
<1>6. ASSUME NEW n \in 1..Len(F2), F2[n].kind \in Loops, Clear(F2, Loops, 0, n) PROVE F2[n].old_cond = 0
  <2>1. n \in 1..Len(F) /\ F[n].kind \in Loops /\ F2[n].old_cond = F[n].old_cond
    BY <1>2, <1>6
  <2>2. Clear(F, Loops, 0, n)
    BY <1>6, ClearKept
  <2> QED BY <2>1, <2>2 DEF ContinueChains
<1> QED BY <1>3, <1>4, <1>5, <1>6 DEF ContinueChains

\* A step that adds no label and no case test keeps the tests that wait.
LEMMA CaseTestsKept ==
    ASSUME NEW F \in Seq(FrameType), NEW F2 \in Seq(FrameType), NEW J, NEW J2, NEW head,
           CaseTests(F, J, head), SameFrames(F, F2, {"switch"}),
           \A k \in 1..Len(F) : F[k].kind = "switch" =>
               NextLabel(F2[k]) = NextLabel(F[k]) /\ Operands(J2, NextLabel(F[k])) = Operands(J, NextLabel(F[k]))
    PROVE  CaseTests(F2, J2, head)
<1>1. Len(F) \in Nat /\ Len(F2) \in Nat
  OBVIOUS
<1>2. ASSUME NEW k \in 1..Len(F2), F2[k].kind = "switch"
      PROVE  /\ k \in 1..Len(F) /\ F[k].kind = "switch" /\ F2[k].old_case = F[k].old_case
             /\ Operands(J2, NextLabel(F2[k])) = Operands(J, NextLabel(F[k]))
  <2>1. k \in 1..Len(F) /\ F[k].kind = "switch" /\ F2[k].old_case = F[k].old_case
    BY <1>1, <1>2 DEF SameFrames
  <2> QED BY <2>1
<1>3. ASSUME NEW k \in 1..Len(F2), F2[k].kind = "switch", Clear(F2, {"switch"}, k, Len(F2) + 1)
      PROVE  Operands(J2, NextLabel(F2[k])) = {head} \ {0}
  <2>1. Clear(F, {"switch"}, k, Len(F) + 1)
    BY <1>3, ClearKept
  <2> QED BY <1>2, <1>3, <2>1 DEF CaseTests
<1>4. ASSUME NEW k \in 1..Len(F2), NEW n \in 1..Len(F2), k < n, F2[k].kind = "switch", F2[n].kind = "switch",
             Clear(F2, {"switch"}, k, n)
      PROVE  Operands(J2, NextLabel(F2[k])) = {F2[n].old_case} \ {0}
  <2>1. Clear(F, {"switch"}, k, n)
    BY <1>4, ClearKept
  <2> QED BY <1>2, <1>4, <2>1, ZenonT(40) DEF CaseTests
<1>5. Clear(F2, {"switch"}, 0, Len(F2) + 1) => head = 0
  BY ClearKept DEF CaseTests
<1>6. ASSUME NEW n \in 1..Len(F2), F2[n].kind = "switch", Clear(F2, {"switch"}, 0, n) PROVE F2[n].old_case = 0
  <2>1. Clear(F, {"switch"}, 0, n)
    BY <1>6, ClearKept
  <2> QED BY <1>2, <1>6, <2>1 DEF CaseTests
<1> QED BY <1>3, <1>4, <1>5, <1>6 DEF CaseTests

\* An if that is not touched waits on.
LEMMA WaitingKept ==
    ASSUME NEW f, NEW J, NEW J2, NEW M, NEW M2, Waiting(f, J, M), J \subseteq J2,
           \A m \in M2 : m \in M \/ m.label # Label(f.id, "else", 0)
    PROVE  Waiting(f, J2, M2)
BY DEF Waiting

\* The frames of the statements that stay open remember what they did.
LEMMA RememberedKept ==
    ASSUME NEW F \in Seq(FrameType), NEW F2 \in Seq(FrameType), NEW J, NEW J2, NEW M, NEW M2,
           NEW top \in Nat, NEW top2 \in Nat, Remembered(F, J, M, top), top <= top2,
           M \subseteq M2, J2 \subseteq JumpType, Len(F2) <= Len(F),
           \A k \in 1..Len(F2) : F2[k].kind = F[k].kind /\ F2[k].id = F[k].id /\ F2[k].labels >= F[k].labels,
           \A k \in 1..Len(F2) : F2[k].kind \in Loops => F2[k].addr = F[k].addr,
           \A k \in 1..Len(F2) : F2[k].kind = "if" => Waiting(F2[k], J2, M2),
           \A j \in J2 : j \in J \/ \A k \in 1..Len(F2) :
              j.label.id = F2[k].id /\ j.label.what = "label" => j.label.n <= F2[k].labels + 1
    PROVE  Remembered(F2, J2, M2, top2)
<1>1. Len(F) \in Nat /\ Len(F2) \in Nat /\ \A k \in 1..Len(F2) : k \in 1..Len(F)
  OBVIOUS
<1>2. \A k \in 1..Len(F2) : F[k] \in FrameType /\ F2[k] \in FrameType
  BY <1>1
<1>3. \A k \in 1..Len(F2) : F2[k].id \in 1..top2
  <2> SUFFICES ASSUME NEW k \in 1..Len(F2) PROVE F[k].id \in 1..top2
    OBVIOUS
  <2>1. F[k].id \in 1..top
    BY <1>1 DEF Remembered
  <2> QED BY <2>1
<1>4. \A k, n \in 1..Len(F2) : k < n => F2[k].id < F2[n].id
  BY <1>1 DEF Remembered
<1>5. \A k \in 1..Len(F2) : F2[k].kind \in Loops => Mark(Label(F2[k].id, "top", 0), F2[k].addr) \in M2
  BY <1>1 DEF Remembered
<1>6. \A k \in 1..Len(F2) : F2[k].kind = "while" => Mark(ContinueOf(F2[k]), F2[k].addr) \in M2
  BY <1>1 DEF Remembered, ContinueOf, Loops
<1>7. ASSUME NEW k \in 1..Len(F2), NEW j \in J2, j.label.id = F2[k].id, j.label.what = "label"
      PROVE  j.label.n <= F2[k].labels + 1
  <2>1. CASE j \in J
    <3>1. j.label.n <= F[k].labels + 1
      BY <1>1, <1>7, <2>1 DEF Remembered
    <3>2. j.label.n \in Nat /\ F[k].labels \in Nat /\ F2[k].labels \in Nat
      BY <1>2 DEF FrameType, JumpType, LabelType
    <3> QED BY <3>1, <3>2, SMTT(30)
  <2>2. CASE j \notin J
    BY <1>7, <2>2
  <2> QED BY <2>1, <2>2
<1> QED BY <1>3, <1>4, <1>5, <1>6, <1>7 DEF Remembered

\* The same when the frames are those that were there.
LEMMA RememberedSame ==
    ASSUME NEW F \in Seq(FrameType), NEW F2 \in Seq(FrameType), NEW J, NEW J2, NEW M, NEW M2,
           NEW top \in Nat, NEW top2 \in Nat, Remembered(F, J, M, top), top <= top2,
           J \subseteq J2, M \subseteq M2, J2 \subseteq JumpType, Len(F2) <= Len(F),
           \A k \in 1..Len(F2) : F2[k] = F[k],
           \A m \in M2 : m \in M \/ \A k \in 1..Len(F2) : F2[k].kind = "if" => m.label # Label(F2[k].id, "else", 0),
           \A j \in J2 : j \in J \/ j.label.what # "label"
    PROVE  Remembered(F2, J2, M2, top2)
<1>1. Len(F) \in Nat /\ Len(F2) \in Nat /\ \A k \in 1..Len(F2) : k \in 1..Len(F) /\ F2[k] \in FrameType
  OBVIOUS
<1>2. \A k \in 1..Len(F2) : F2[k].labels \in Nat
  BY <1>1 DEF FrameType
<1>3. \A k \in 1..Len(F2) : F2[k].labels >= F[k].labels
  BY <1>2
<1>4. ASSUME NEW k \in 1..Len(F2), F2[k].kind = "if" PROVE Waiting(F2[k], J2, M2)
  <2>1. Waiting(F2[k], J, M)
    BY <1>1, <1>4 DEF Remembered
  <2>2. \A m \in M2 : m \in M \/ m.label # Label(F2[k].id, "else", 0)
    BY <1>4
  <2> QED BY <2>1, <2>2, WaitingKept
<1> QED BY <1>1, <1>3, <1>4, RememberedKept

\* Different statements have different numbers.
LEMMA FramesApart ==
    ASSUME NEW F \in Seq(FrameType), NEW J, NEW M, NEW top \in Nat, Remembered(F, J, M, top),
           NEW k \in 1..Len(F), NEW n \in 1..Len(F), k # n
    PROVE  F[k].id # F[n].id
<1>1. Len(F) \in Nat /\ F[k].id \in Nat /\ F[n].id \in Nat
  BY DEF Remembered
<1>2. CASE k < n
  BY <1>1, <1>2 DEF Remembered
<1>3. CASE n < k
  BY <1>1, <1>3 DEF Remembered
<1> QED BY <1>1, <1>2, <1>3

\* A new statement has a new number.
LEMMA RememberedPush ==
    ASSUME NEW F \in Seq(FrameType), NEW f \in FrameType, NEW J, NEW M, NEW top \in Nat,
           Remembered(F, J, M, top), f.id = top + 1,
           f.kind \in Loops => Mark(Label(f.id, "top", 0), f.addr) \in M,
           f.kind = "while" => Mark(ContinueOf(f), f.addr) \in M,
           f.kind = "if" => Waiting(f, J, M),
           \A j \in J : j.label.id = f.id => j.label.what # "label"
    PROVE  Remembered(Append(F, f), J, M, top + 1)
<1> DEFINE F2 == Append(F, f)
<1>1. Len(F) \in Nat /\ F2 \in Seq(FrameType) /\ Len(F2) = Len(F) + 1 /\ F2[Len(F) + 1] = f
  OBVIOUS
<1>2. \A k \in 1..Len(F) : F2[k] = F[k]
  OBVIOUS
<1> HIDE DEF F2
<1>3. \A k \in 1..Len(F2) : k \in 1..Len(F) \/ k = Len(F) + 1
  BY <1>1
<1>4. \A k \in 1..Len(F) : F[k].id \in 1..top
  BY DEF Remembered
<1>5. \A k \in 1..Len(F2) : F2[k].id \in 1..top + 1
  BY <1>1, <1>2, <1>3, <1>4
<1>6. ASSUME NEW k \in 1..Len(F2), NEW n \in 1..Len(F2), k < n PROVE F2[k].id < F2[n].id
  <2>1. k \in 1..Len(F)
    BY <1>1, <1>6
  <2>2. CASE n = Len(F) + 1
    BY <1>1, <1>2, <1>4, <2>1, <2>2
  <2>3. CASE n \in 1..Len(F)
    BY <1>2, <1>6, <2>1, <2>3 DEF Remembered
  <2> QED BY <1>3, <2>2, <2>3
<1>7. \A k \in 1..Len(F2) : F2[k].kind \in Loops => Mark(Label(F2[k].id, "top", 0), F2[k].addr) \in M
  BY <1>1, <1>2, <1>3 DEF Remembered
<1>8. \A k \in 1..Len(F2) : F2[k].kind = "while" => Mark(ContinueOf(F2[k]), F2[k].addr) \in M
  BY <1>1, <1>2, <1>3 DEF Remembered
<1>9. \A k \in 1..Len(F2) : F2[k].kind = "if" => Waiting(F2[k], J, M)
  BY <1>1, <1>2, <1>3 DEF Remembered
<1>10. \A k \in 1..Len(F2) : \A j \in J :
          j.label.id = F2[k].id /\ j.label.what = "label" => j.label.n <= F2[k].labels + 1
  BY <1>1, <1>2, <1>3 DEF Remembered
<1>11. Remembered(F2, J, M, top + 1)
  BY <1>5, <1>6, <1>7, <1>8, <1>9, <1>10 DEF Remembered
<1> QED BY <1>11 DEF F2

\* A statement that stays open owes what it owed.
LEMMA OwesKept ==
    ASSUME NEW F, NEW F2, NEW k, NEW j, NEW st, NEW st2, Owes(F, k, j, st),
           F2[k].kind = F[k].kind, F2[k].id = F[k].id,
           F2[k].kind = "if" => F2[k].addr = F[k].addr,
           F2[k].kind = "switch" => F2[k].labels = F[k].labels,
           F2[k].kind = "switch" /\ k = Len(F2) => st2 # "break" \/ (k = Len(F) /\ st = "break")
    PROVE  Owes(F2, k, j, st2)
BY DEF Owes, EndOf, ContinueOf, NextLabel

\* Jumps are settled, still owed, or new.
LEMMA AccountedKept ==
    ASSUME NEW F, NEW F2, NEW J, NEW J2, NEW M, NEW M2, NEW mem \in Seq(CellType), NEW mem2, NEW P,
           NEW st, NEW st2, NEW top, Emitted(mem, mem2, P), Placed(mem, J, top), M \subseteq M2,
           Accounted(F, J, M, mem, st),
           \A j \in J : j.cell \in P => Answered(F2, M2, mem2, st2, j),
           \A j \in J : \A k \in 1..Len(F) : Owes(F, k, j, st) => Answered(F2, M2, mem2, st2, j),
           \A j \in J2 : j \in J \/ Answered(F2, M2, mem2, st2, j)
    PROVE  Accounted(F2, J2, M2, mem2, st2)
<1> SUFFICES ASSUME NEW j \in J
             PROVE  Answered(F2, M2, mem2, st2, j)
  BY DEF Accounted
<1>1. CASE j.cell \in P
  BY <1>1
<1>2. CASE j.cell \notin P /\ Settled(mem, M, j)
  <2>1. j.cell \in 0..Len(mem) - 1
    BY DEF Placed
  <2>2. Settled(mem2, M2, j)
    BY <1>2, <2>1, SettledKept
  <2> QED BY <2>2 DEF Answered
<1>3. CASE ~Settled(mem, M, j)
  BY <1>3 DEF Accounted, Answered
<1> QED BY <1>1, <1>2, <1>3

\* The jumps of a label are untouched by a step that patches none of them and adds none.
LEMMA UntouchedBy ==
    ASSUME NEW J, J \subseteq JumpType, NEW J2, J \subseteq J2, NEW mem \in Seq(CellType), NEW mem2, NEW P, NEW top,
           Emitted(mem, mem2, P), Placed(mem, J, top), NEW l,
           \A j \in J : j.cell \in P => j.label # l,
           \A j \in J2 : j \in J \/ j.label # l
    PROVE  Untouched(J, J2, mem, mem2, l)
<1>1. ASSUME NEW c \in Operands(J, l) PROVE Get(mem2, c) = Get(mem, c)
  <2>1. PICK j \in J : j.cell = c /\ j.label = l
    BY DEF Operands
  <2>2. c \in 0..Len(mem) - 1 /\ c \notin P
    BY <2>1 DEF Placed
  <2> QED BY <2>2, GetKept
<1>2. Operands(J2, l) = Operands(J, l)
  BY DEF Operands
<1> QED BY <1>1, <1>2 DEF Untouched

\* A label that is not the end of an open loop or switch nor the continuation of a loop.
Aside(F, l) == \A k \in 1..Len(F) : F[k].kind \in Breakable => l # EndOf(F[k]) /\ l # ContinueOf(F[k])

\* The labels of a statement that is no loop or switch, and the other labels of a loop or
\* switch, are aside.
LEMMA AsideLabels ==
    ASSUME NEW F \in Seq(FrameType), NEW J, NEW M, NEW top \in Nat, Remembered(F, J, M, top), NEW n
    PROVE  /\ \A i, w : w \notin {"end", "continue"} => Aside(F, Label(i, w, n))
           /\ \A d \in 1..Len(F) : \A w : F[d].kind \notin Breakable => Aside(F, Label(F[d].id, w, n))
<1>1. ASSUME NEW i, NEW w, w \notin {"end", "continue"} PROVE Aside(F, Label(i, w, n))
  BY <1>1, LabelParts DEF Aside, EndOf, ContinueOf
<1>2. ASSUME NEW d \in 1..Len(F), NEW w, F[d].kind \notin Breakable PROVE Aside(F, Label(F[d].id, w, n))
  <2> SUFFICES ASSUME NEW k \in 1..Len(F), F[k].kind \in Breakable
               PROVE  Label(F[d].id, w, n) # EndOf(F[k]) /\ Label(F[d].id, w, n) # ContinueOf(F[k])
    BY DEF Aside
  <2>1. F[k].id # F[d].id
    BY <1>2, FramesApart
  <2> QED BY <2>1, LabelParts DEF EndOf, ContinueOf
<1> QED BY <1>1, <1>2

\* New jumps and patched operands are of other labels.
AsideOnly(F, J, J2, P) ==
    /\ J \subseteq J2
    /\ \A j \in J : j.cell \in P => Aside(F, j.label)
    /\ \A j \in J2 : j \in J \/ Aside(F, j.label)

\* A step that neither opens nor closes a loop or switch, and makes and settles only
\* other jumps, leaves the chained ones untouched.
LEMMA UntouchedAside ==
    ASSUME NEW F \in Seq(FrameType), NEW J, J \subseteq JumpType, NEW J2,
           NEW mem \in Seq(CellType), NEW mem2, NEW P, NEW top,
           Emitted(mem, mem2, P), Placed(mem, J, top), AsideOnly(F, J, J2, P),
           NEW k \in 1..Len(F), F[k].kind \in Breakable
    PROVE  Untouched(J, J2, mem, mem2, EndOf(F[k])) /\ Untouched(J, J2, mem, mem2, ContinueOf(F[k]))
<1>1. /\ J \subseteq J2
      /\ \A j \in J : j.cell \in P => j.label # EndOf(F[k]) /\ j.label # ContinueOf(F[k])
      /\ \A j \in J2 : j \in J \/ (j.label # EndOf(F[k]) /\ j.label # ContinueOf(F[k]))
  BY DEF Aside, AsideOnly
<1>2. Untouched(J, J2, mem, mem2, EndOf(F[k]))
  BY <1>1, UntouchedBy
<1>3. Untouched(J, J2, mem, mem2, ContinueOf(F[k]))
  BY <1>1, UntouchedBy
<1> QED BY <1>2, <1>3

\* Such a step keeps the chains of breaks.
LEMMA BreaksAside ==
    ASSUME NEW F \in Seq(FrameType), NEW F2 \in Seq(FrameType), NEW J, J \subseteq JumpType, NEW J2,
           NEW mem \in Seq(CellType), NEW mem2, NEW P, NEW top, NEW break, NEW st, NEW st2,
           Emitted(mem, mem2, P), Placed(mem, J, top), SameFrames(F, F2, Breakable), AsideOnly(F, J, J2, P),
           BreakChains(F, J, mem, break, st), st # "break"
    PROVE  BreakChains(F2, J2, mem2, break, st2)
<1>1. \A k \in 1..Len(F) : F[k].kind \in Breakable => Untouched(J, J2, mem, mem2, EndOf(F[k]))
  BY UntouchedAside
<1> QED BY <1>1, BreakChainsKept

\* Such a step keeps the chains of continues.
LEMMA ContinuesAside ==
    ASSUME NEW F \in Seq(FrameType), NEW F2 \in Seq(FrameType), NEW J, J \subseteq JumpType, NEW J2,
           NEW M, NEW M2, M \subseteq M2, NEW mem \in Seq(CellType), NEW mem2, NEW P, NEW top,
           NEW cond, NEW st, NEW st2,
           Emitted(mem, mem2, P), Placed(mem, J, top), SameFrames(F, F2, Breakable), AsideOnly(F, J, J2, P),
           ContinueChains(F, J, M, mem, cond, st),
           st # "break", st = "cond" => st2 = "break" /\ Len(F2) = Len(F)
    PROVE  ContinueChains(F2, J2, M2, mem2, cond, st2)
<1>1. SameFrames(F, F2, Loops) /\ \A k \in 1..Len(F) : F[k].kind \in Loops => F[k].kind \in Breakable
  BY SameNarrow DEF Breakable
<1>2. \A k \in 1..Len(F) : F[k].kind \in Loops => Untouched(J, J2, mem, mem2, ContinueOf(F[k]))
  BY <1>1, UntouchedAside
<1> QED BY <1>1, <1>2, ContinueChainsKept

\* The same for the case tests.
LEMMA TestsKept ==
    ASSUME NEW F \in Seq(FrameType), NEW F2 \in Seq(FrameType), NEW J, NEW J2, J \subseteq J2, NEW case,
           SameFrames(F, F2, Breakable), CaseTests(F, J, case),
           \A k \in 1..Len(F) : F[k].kind = "switch" => F2[k].labels = F[k].labels,
           \A j \in J2 : j \in J \/ j.label.what # "label"
    PROVE  CaseTests(F2, J2, case)
<1>1. SameFrames(F, F2, {"switch"})
  BY SameNarrow DEF Breakable
<1>2. ASSUME NEW k \in 1..Len(F), F[k].kind = "switch"
      PROVE  NextLabel(F2[k]) = NextLabel(F[k]) /\ Operands(J2, NextLabel(F[k])) = Operands(J, NextLabel(F[k]))
  <2>1. k \in 1..Len(F2) /\ F2[k].kind = "switch"
    BY <1>1, <1>2 DEF SameFrames
  <2>2. F2[k].id = F[k].id /\ F2[k].labels = F[k].labels
    BY <1>1, <1>2, <2>1 DEF SameFrames
  <2>3. NextLabel(F2[k]) = NextLabel(F[k]) /\ NextLabel(F[k]).what = "label"
    BY <2>2, LabelParts DEF NextLabel
  <2>4. \A j \in J2 : j.label = NextLabel(F[k]) => j \in J
    BY <2>3
  <2>5. Operands(J2, NextLabel(F[k])) = Operands(J, NextLabel(F[k]))
    BY <2>4 DEF Operands
  <2> QED BY <2>3, <2>5
<1> QED BY <1>1, <1>2, CaseTestsKept

\* A stack with one more frame.
LEMMA AppendFrames ==
    ASSUME NEW F \in Seq(FrameType), NEW f \in FrameType
    PROVE  /\ Append(F, f) \in Seq(FrameType) /\ Len(Append(F, f)) = Len(F) + 1 /\ Len(F) \in Nat
           /\ Append(F, f)[Len(F) + 1] = f /\ \A k \in 1..Len(F) : Append(F, f)[k] = F[k]
OBVIOUS

\* When a statement is pushed the others owe what they owed.
LEMMA AccountedPush ==
    ASSUME NEW F \in Seq(FrameType), NEW f \in FrameType, NEW J, NEW J2, NEW M, NEW M2, M \subseteq M2,
           NEW mem \in Seq(CellType), NEW mem2, NEW P, NEW st, NEW st2, NEW top,
           Emitted(mem, mem2, P), Placed(mem, J, top), Accounted(F, J, M, mem, st),
           \A j \in J : j.cell \in P => Settled(mem2, M2, j),
           \A j \in J2 : j \in J \/ Answered(Append(F, f), M2, mem2, st2, j)
    PROVE  Accounted(Append(F, f), J2, M2, mem2, st2)
<1>1. PICK F2 \in Seq(FrameType) : /\ F2 = Append(F, f) /\ Len(F2) = Len(F) + 1 /\ Len(F) \in Nat
                                   /\ \A k \in 1..Len(F) : F2[k] = F[k]
  BY AppendFrames
<1>2. ASSUME NEW j \in J, NEW k \in 1..Len(F), Owes(F, k, j, st) PROVE Answered(F2, M2, mem2, st2, j)
  <2>1. F2[k] = F[k] /\ k \in 1..Len(F2) /\ k # Len(F2)
    BY <1>1
  <2>2. Owes(F2, k, j, st2)
    BY <1>2, <2>1, OwesKept
  <2> QED BY <2>1, <2>2 DEF Answered
<1>3. \A j \in J : j.cell \in P => Answered(F2, M2, mem2, st2, j)
  BY DEF Answered
<1>4. \A j \in J2 : j \in J \/ Answered(F2, M2, mem2, st2, j)
  BY <1>1
<1>5. Accounted(F2, J2, M2, mem2, st2)
  BY <1>2, <1>3, <1>4, AccountedKept
<1> QED BY <1>1, <1>5

\* When a statement is popped the others owe what they owed.
LEMMA AccountedPop ==
    ASSUME NEW F \in Seq(FrameType), Len(F) > 0, NEW J, NEW M, NEW M2, M \subseteq M2,
           NEW mem \in Seq(CellType), NEW mem2, NEW P, NEW st, NEW top,
           Emitted(mem, mem2, P), Placed(mem, J, top), Accounted(F, J, M, mem, st),
           \A j \in J : j.cell \in P => Settled(mem2, M2, j),
           \A j \in J : Owes(F, Len(F), j, st) => Settled(mem2, M2, j)
    PROVE  Accounted(SubSeq(F, 1, Len(F) - 1), J, M2, mem2, "next")
<1>0. /\ SubSeq(F, 1, Len(F) - 1) \in Seq(FrameType) /\ Len(SubSeq(F, 1, Len(F) - 1)) = Len(F) - 1
      /\ \A k \in 1..Len(F) - 1 : SubSeq(F, 1, Len(F) - 1)[k] = F[k]
  BY PopFrames
<1>1. PICK F2 : F2 = SubSeq(F, 1, Len(F) - 1)
  OBVIOUS
<1>e. F2 \in Seq(FrameType) /\ Len(F2) = Len(F) - 1 /\ Len(F) \in Nat /\ \A k \in 1..Len(F) - 1 : F2[k] = F[k]
  BY <1>0, <1>1
<1>2. ASSUME NEW j \in J, NEW k \in 1..Len(F), Owes(F, k, j, st) PROVE Answered(F2, M2, mem2, "next", j)
  <2>1. CASE k = Len(F)
    BY <1>2, <2>1 DEF Answered
  <2>2. CASE k # Len(F)
    <3>1. F2[k] = F[k] /\ k \in 1..Len(F2)
      BY <1>e, <2>2
    <3>2. Owes(F2, k, j, "next")
      BY <1>2, <3>1, OwesKept
    <3> QED BY <3>1, <3>2 DEF Answered
  <2> QED BY <2>1, <2>2
<1>3. \A j \in J : j.cell \in P => Answered(F2, M2, mem2, "next", j)
  BY DEF Answered
<1>4. Accounted(F2, J, M2, mem2, "next")
  BY <1>e, <1>2, <1>3, AccountedKept
<1> QED BY <1>1, <1>4

-----------------------------------------------------------------------------
(* Steps that make no jump. *)

\* A block is opened, or a block or labelled statement closed, or neither.
QuietFrames(F, F2, top, top2) ==
    \/ F2 = F
    \/ \E f \in FrameType : f.kind = "compound" /\ f.id = top + 1 /\ top2 = top + 1 /\ F2 = Append(F, f)
    \/ Len(F) > 0 /\ F[Len(F)].kind \in {"compound", "case", "default"} /\ F2 = SubSeq(F, 1, Len(F) - 1)

\* A step that emits an expression or return, or opens or closes a block or a labelled
\* statement.
LEMMA QuietStep ==
    ASSUME NEW F \in Seq(FrameType), NEW F2 \in Seq(FrameType), NEW J, J \subseteq JumpType,
           NEW M, M \subseteq MarkType, NEW mem \in Seq(CellType), NEW mem2,
           NEW top \in Nat, NEW top2 \in Nat, NEW cond, NEW case, NEW break,
           NEW st \in {"stmt", "next"}, NEW st2 \in {"stmt", "next"},
           Sound(F, J, M, mem, top, cond, case, break, st),
           Emitted(mem, mem2, {}), top <= top2,
           NewCode(mem, mem2, {}), QuietFrames(F, F2, top, top2)
    PROVE  Sound(F2, J, M, mem2, top2, cond, case, break, st2)
<1>a. Phase(F, M, mem, cond, st) /\ Placed(mem, J, top) /\ Marked(mem, M, top) /\ Coded(mem, J)
  BY DEF Sound
<1>b. BreakChains(F, J, mem, break, st) /\ ContinueChains(F, J, M, mem, cond, st) /\ CaseTests(F, J, case)
  BY DEF Sound
<1>c. Remembered(F, J, M, top) /\ Accounted(F, J, M, mem, st)
  BY DEF Sound
<1>d. PICK P : P = {} /\ Emitted(mem, mem2, P) /\ \A x : x \notin P
  OBVIOUS
<1>1. Len(F) \in Nat /\ Len(F2) \in Nat
  OBVIOUS
<1>2. Phase(F2, M, mem2, cond, st2) /\ Finished(mem2, st2)
  BY DEF Phase, Finished
<1>3. Placed(mem2, J, top2)
  BY <1>a, PlacedKept
<1>4. Patchable(J, {})
  BY DEF Patchable
<1>5. Marked(mem2, M, top2)
  <2>1. Marked(mem2, M \cup {}, top2)
    BY <1>a, <1>4, MarkedKept
  <2> QED BY <2>1
<1>6. Coded(mem2, J)
  BY <1>a, <1>4, CodedKept
<1>7. SameFrames(F, F2, Breakable)
  BY SameStack, SamePushed, SamePopped DEF QuietFrames, Breakable, Loops
<1>8. ASSUME NEW l PROVE Untouched(J, J, mem, mem2, l)
  <2>1. Placed(mem, J, top) /\ \A j \in J : j.cell \in P => j.label # l
    BY <1>a, <1>d
  <2> QED BY <1>d, <2>1, UntouchedBy
<1>9. BreakChains(F2, J, mem2, break, st2)
  BY <1>b, <1>7, <1>8, BreakChainsKept
<1>10. SameFrames(F, F2, Loops) /\ SameFrames(F, F2, {"switch"})
  BY <1>7, SameNarrow DEF Breakable
<1>11. ContinueChains(F2, J, M, mem2, cond, st2)
  BY <1>b, <1>8, <1>10, ContinueChainsKept
<1>12. \A k \in 1..Len(F) : (k \in 1..Len(F2) /\ F2[k] = F[k]) \/ F[k].kind \in {"compound", "case", "default"}
  <2>1. CASE F2 = F
    BY <2>1
  <2>2. CASE \E f \in FrameType : F2 = Append(F, f)
    BY <1>1, <2>2
  <2>3. CASE Len(F) > 0 /\ F[Len(F)].kind \in {"compound", "case", "default"} /\ F2 = SubSeq(F, 1, Len(F) - 1)
    BY <1>1, <2>3, PopFrames
  <2> QED BY <2>1, <2>2, <2>3 DEF QuietFrames
<1>13. CaseTests(F2, J, case)
  BY <1>b, <1>10, <1>12, CaseTestsKept
<1>14. Remembered(F2, J, M, top2)
  <2>1. CASE F2 = F
    BY <1>c, <1>1, <2>1, RememberedSame
  <2>2. CASE \E f \in FrameType : f.kind = "compound" /\ f.id = top + 1 /\ top2 = top + 1 /\ F2 = Append(F, f)
    <3>1. PICK f \in FrameType : f.kind = "compound" /\ f.id = top + 1 /\ top2 = top + 1 /\ F2 = Append(F, f)
      BY <2>2
    <3>2. \A j \in J : j.label.id # f.id
      <4> SUFFICES ASSUME NEW j \in J, j.label.id = f.id PROVE FALSE
        OBVIOUS
      <4>1. j.label.id <= top
        BY <1>a DEF Placed
      <4> QED BY <3>1, <4>1
    <3> QED BY <1>c, <3>1, <3>2, RememberedPush DEF Loops
  <2>3. CASE Len(F) > 0 /\ F2 = SubSeq(F, 1, Len(F) - 1)
    <3>1. Len(F2) <= Len(F) /\ \A k \in 1..Len(F2) : F2[k] = F[k]
      BY <1>1, <2>3, PopFrames
    <3> QED BY <1>c, <3>1, RememberedSame
  <2> QED BY <2>1, <2>2, <2>3 DEF QuietFrames
<1>15. ASSUME NEW j \in J, NEW k \in 1..Len(F), Owes(F, k, j, st) PROVE Answered(F2, M, mem2, st2, j)
  <2>1. F[k].kind \notin {"compound", "case", "default"}
    BY <1>15 DEF Owes, Breakable, Loops
  <2>2. k \in 1..Len(F2) /\ F2[k] = F[k]
    BY <1>12, <2>1
  <2>3. Owes(F2, k, j, st2)
    BY <1>15, <2>2, OwesKept
  <2> QED BY <2>2, <2>3 DEF Answered
<1>16. Accounted(F2, J, M, mem2, st2)
  BY <1>a, <1>c, <1>d, <1>15, AccountedKept
<1> QED BY <1>2, <1>3, <1>5, <1>6, <1>9, <1>11, <1>13, <1>14, <1>16 DEF Sound

-----------------------------------------------------------------------------
(* Lemmas about the code that is emitted. *)

\* A piece of code for address n: it begins with an instruction, and the operand of a
\* branch is one of C or leads to an instruction of it or to its end.
GoodCode(code, n, C) ==
    /\ code \in Seq(CellType) /\ Len(code) > 0 /\ code[1].kind = "code"
    /\ \A i \in 1..Len(code) : code[i].op \in Branches =>
          /\ i < Len(code)
          /\ n + i \in C \/ /\ code[i + 1].arg \in n..n + Len(code)
                            /\ code[i + 1].arg < n + Len(code) => code[code[i + 1].arg - n + 1].kind = "code"

\* One piece of code after another.
LEMMA ConcatCells ==
    ASSUME NEW s \in Seq(CellType), NEW t \in Seq(CellType)
    PROVE  /\ s \o t \in Seq(CellType) /\ Len(s \o t) = Len(s) + Len(t)
           /\ \A i \in 1..Len(s) : (s \o t)[i] = s[i]
           /\ \A i \in 1..Len(t) : (s \o t)[Len(s) + i] = t[i]
OBVIOUS

\* Cells are cells.
LEMMA CellTypes ==
    /\ \A op \in Ops : Code(op) \in CellType /\ Code(op).kind = "code" /\ Code(op).op = op
    /\ \A n \in Int : Arg(n) \in CellType /\ Arg(n).kind = "arg" /\ Arg(n).op = "none" /\ Arg(n).arg = n
BY DEF Code, Arg, CellType, Ops

\* Code emitted at the end of the code is good there.
LEMMA GoodCodeEmitted ==
    ASSUME NEW mem \in Seq(CellType), Len(mem) >= 7, NEW code, NEW C, GoodCode(code, Len(mem), C)
    PROVE  /\ Emitted(mem, mem \o code, {})
           /\ Len(mem \o code) = Len(mem) + Len(code)
           /\ \A i \in 1..Len(code) : (mem \o code)[Len(mem) + i] = code[i]
           /\ NewCode(mem, mem \o code, C)
<1> DEFINE mem2 == mem \o code
<1>1. Emitted(mem, mem2, {}) /\ Len(mem2) = Len(mem) + Len(code) /\ \A i \in 1..Len(code) : mem2[Len(mem) + i] = code[i]
  BY EmittedCode DEF GoodCode
<1>2. Len(mem) \in Nat /\ Len(code) \in Nat
  BY DEF GoodCode
<1> HIDE DEF mem2
<1>3. ASSUME NEW a \in Len(mem) + 1..Len(mem2), mem2[a].op \in Branches
      PROVE  a \in 8..Len(mem2) - 1 /\ (a \in C \/ Landing(mem2, Get(mem2, a)))
  <2>1. PICK i \in 1..Len(code) : a = Len(mem) + i
    <3>1. a - Len(mem) \in 1..Len(code) /\ a = Len(mem) + (a - Len(mem))
      BY <1>1, <1>2
    <3> QED BY <3>1
  <2>2. code[i].op \in Branches
    BY <1>1, <1>3, <2>1
  <2>3. i < Len(code) /\ (Len(mem) + i \in C \/
              /\ code[i + 1].arg \in Len(mem)..Len(mem) + Len(code)
              /\ code[i + 1].arg < Len(mem) + Len(code) => code[code[i + 1].arg - Len(mem) + 1].kind = "code")
    BY <2>2 DEF GoodCode
  <2>4. a \in 8..Len(mem2) - 1
    BY <1>1, <1>2, <2>1, <2>3
  <2>5. CASE a \notin C
    <3>1. PICK t \in Nat : t = code[i + 1].arg
      BY <1>2, <2>1, <2>3, <2>5
    <3>2. i + 1 \in 1..Len(code) /\ a + 1 = Len(mem) + (i + 1)
      BY <1>2, <2>1, <2>3
    <3>3. Get(mem2, a) = t
      BY <1>1, <3>1, <3>2 DEF Get
    <3>4. t \in 7..Len(mem2)
      BY <1>1, <1>2, <2>1, <2>3, <2>5, <3>1
    <3>5. ASSUME t < Len(mem2) PROVE mem2[t + 1].kind = "code"
      <4>1. t - Len(mem) + 1 \in 1..Len(code) /\ t + 1 = Len(mem) + (t - Len(mem) + 1)
        BY <1>1, <1>2, <2>1, <2>3, <2>5, <3>1, <3>5, SMTT(30)
      <4>2. code[t - Len(mem) + 1].kind = "code"
        BY <1>1, <2>1, <2>3, <2>5, <3>1, <3>5
      <4>3. mem2[Len(mem) + (t - Len(mem) + 1)] = code[t - Len(mem) + 1]
        BY <1>1, <4>1
      <4> QED BY <4>1, <4>2, <4>3
    <3> QED BY <2>4, <3>3, <3>4, <3>5 DEF Landing
  <2> QED BY <2>4, <2>5
<1>4. NewCode(mem, mem2, C)
  BY <1>3 DEF NewCode
<1> QED BY <1>1, <1>4 DEF mem2

\* An expression is good code.
LEMMA ExpressionGood ==
    ASSUME NEW shape \in ExpressionShapes, NEW n \in Nat
    PROVE  GoodCode(Expression(shape, n), n, {})
<1>1. CASE shape = "value"
  <2>1. Expression(shape, n) = <<Code("value")>>
    BY <1>1 DEF Expression
  <2>2. Code("value") \in CellType /\ Code("value").kind = "code" /\ Code("value").op = "value"
    BY CellTypes DEF Ops
  <2> QED BY <2>1, <2>2 DEF GoodCode, Branches
<1>2. CASE shape = "ternary"
  <2> DEFINE code == <<Code("value"), Code("be0"), Arg(n + 6), Code("value"), Code("b"), Arg(n + 7), Code("value")>>
  <2>1. Expression(shape, n) = code
    BY <1>2 DEF Expression
  <2>2. /\ Code("value") \in CellType /\ Code("value").kind = "code" /\ Code("value").op = "value"
        /\ Code("be0") \in CellType /\ Code("be0").kind = "code" /\ Code("be0").op = "be0"
        /\ Code("b") \in CellType /\ Code("b").kind = "code" /\ Code("b").op = "b"
        /\ Arg(n + 6) \in CellType /\ Arg(n + 6).op = "none" /\ Arg(n + 6).arg = n + 6
        /\ Arg(n + 7) \in CellType /\ Arg(n + 7).op = "none" /\ Arg(n + 7).arg = n + 7
    BY CellTypes DEF Ops, Branches
  <2>3. code \in Seq(CellType) /\ Len(code) = 7
    BY <2>2
  <2>4. /\ code[1] = Code("value") /\ code[2] = Code("be0") /\ code[3] = Arg(n + 6) /\ code[4] = Code("value")
        /\ code[5] = Code("b") /\ code[6] = Arg(n + 7) /\ code[7] = Code("value")
    OBVIOUS
  <2> HIDE DEF code
  <2>5. ASSUME NEW i \in 1..7, code[i].op \in Branches PROVE i = 2 \/ i = 5
    <3>1. i \in {1, 2, 3, 4, 5, 6, 7}
      OBVIOUS
    <3> QED BY <2>2, <2>4, <2>5, <3>1 DEF Branches
  <2>6. code[2 + 1].arg = n + 6 /\ code[5 + 1].arg = n + 7 /\ code[(n + 6) - n + 1].kind = "code"
    <3>1. (n + 6) - n + 1 = 7
      OBVIOUS
    <3> QED BY <2>2, <2>4, <3>1
  <2>7. GoodCode(code, n, {})
    BY <2>2, <2>3, <2>4, <2>5, <2>6 DEF GoodCode
  <2> QED BY <2>1, <2>7
<1> QED BY <1>1, <1>2 DEF ExpressionShapes

\* A branch after good code is good code; its operand is the last cell.
LEMMA BranchGood ==
    ASSUME NEW code, NEW n \in Nat, GoodCode(code, n, {}), NEW op \in Branches, NEW x \in Int
    PROVE  /\ GoodCode(code \o <<Code(op), Arg(x)>>, n, {n + Len(code) + 1})
           /\ Len(code \o <<Code(op), Arg(x)>>) = Len(code) + 2
           /\ (code \o <<Code(op), Arg(x)>>)[Len(code) + 2] = Arg(x)
<1> DEFINE branch == <<Code(op), Arg(x)>>
           all == code \o branch
<1>1. /\ Code(op) \in CellType /\ Code(op).kind = "code" /\ Code(op).op = op
      /\ Arg(x) \in CellType /\ Arg(x).op = "none"
  BY CellTypes DEF Ops
<1>2. branch \in Seq(CellType) /\ Len(branch) = 2 /\ branch[1] = Code(op) /\ branch[2] = Arg(x)
  BY <1>1
<1> HIDE DEF branch
<1>3. code \in Seq(CellType) /\ Len(code) \in Nat /\ Len(code) > 0 /\ code[1].kind = "code"
  BY DEF GoodCode
<1>4. /\ all \in Seq(CellType) /\ Len(all) = Len(code) + 2
      /\ \A i \in 1..Len(code) : all[i] = code[i]
      /\ all[Len(code) + 1] = Code(op) /\ all[Len(code) + 2] = Arg(x)
  <2>1. /\ all \in Seq(CellType) /\ Len(all) = Len(code) + Len(branch)
        /\ \A i \in 1..Len(code) : all[i] = code[i]
        /\ \A i \in 1..Len(branch) : all[Len(code) + i] = branch[i]
    BY <1>2, <1>3, ConcatCells
  <2> HIDE DEF all
  <2> QED BY <1>2, <1>3, <2>1
<1> HIDE DEF all
<1>5. ASSUME NEW i \in 1..Len(all), all[i].op \in Branches
      PROVE  /\ i < Len(all)
             /\ n + i \in {n + Len(code) + 1} \/
                   /\ all[i + 1].arg \in n..n + Len(all)
                   /\ all[i + 1].arg < n + Len(all) => all[all[i + 1].arg - n + 1].kind = "code"
  <2>1. CASE i \in 1..Len(code)
    <3>1. /\ i < Len(code) /\ code[i + 1].arg \in n..n + Len(code)
          /\ code[i + 1].arg < n + Len(code) => code[code[i + 1].arg - n + 1].kind = "code"
      BY <1>4, <1>5, <2>1 DEF GoodCode
    <3>2. all[i + 1] = code[i + 1]
      <4>1. i + 1 \in 1..Len(code)
        BY <1>3, <2>1, <3>1
      <4> QED BY <1>4, <4>1
    <3>3. PICK t \in Nat : t = all[i + 1].arg /\ t \in n..n + Len(code)
      BY <1>3, <3>1, <3>2
    <3>4. all[t - n + 1].kind = "code"
      <4>1. CASE t < n + Len(code)
        <5>1. t - n + 1 \in 1..Len(code)
          BY <1>3, <3>3, <4>1
        <5>2. code[t - n + 1].kind = "code"
          BY <3>1, <3>2, <3>3, <4>1
        <5> QED BY <1>4, <5>1, <5>2
      <4>2. CASE t = n + Len(code)
        <5>1. t - n + 1 = Len(code) + 1
          BY <1>3, <4>2
        <5> QED BY <1>1, <1>4, <5>1
      <4> QED BY <1>3, <3>3, <4>1, <4>2, SMTT(30)
    <3>5. t \in n..n + Len(all) /\ i < Len(all)
      BY <1>3, <1>4, <2>1, <3>3
    <3> QED BY <3>3, <3>4, <3>5
  <2>2. CASE i = Len(code) + 1
    BY <1>3, <1>4, <2>2
  <2>3. CASE i = Len(code) + 2
    BY <1>1, <1>4, <1>5, <2>3 DEF Branches
  <2> QED BY <1>3, <1>4, <2>1, <2>2, <2>3
<1>6. GoodCode(all, n, {n + Len(code) + 1})
  <2>1. all[1].kind = "code"
    BY <1>3, <1>4
  <2> QED BY <1>3, <1>4, <1>5, <2>1 DEF GoodCode
<1> QED BY <1>4, <1>6 DEF all, branch

\* A branch by itself is good code.
LEMMA JumpGood ==
    ASSUME NEW n \in Nat, NEW x \in Int
    PROVE  /\ GoodCode(<<Code("b"), Arg(x)>>, n, {n + 1})
           /\ Len(<<Code("b"), Arg(x)>>) = 2 /\ <<Code("b"), Arg(x)>>[2] = Arg(x)
<1>1. /\ Code("b") \in CellType /\ Code("b").kind = "code" /\ Code("b").op = "b"
      /\ Arg(x) \in CellType /\ Arg(x).op = "none"
  BY CellTypes DEF Ops, Branches
<1>2. PICK code : code = <<Code("b"), Arg(x)>>
  OBVIOUS
<1>3. code \in Seq(CellType) /\ Len(code) = 2 /\ code[1] = Code("b") /\ code[2] = Arg(x)
  BY <1>1, <1>2
<1>4. \A i \in 1..2 : code[i].op \in Branches => i = 1
  BY <1>1, <1>3 DEF Branches
<1>5. GoodCode(code, n, {n + 1})
  BY <1>1, <1>3, <1>4 DEF GoodCode
<1> QED BY <1>2, <1>3, <1>5

\* A return, and the value of an increment, are good code.
LEMMA SingleGood ==
    ASSUME NEW n \in Nat, NEW op \in {"return", "value"}
    PROVE  GoodCode(<<Code(op)>>, n, {})
<1>1. Code(op) \in CellType /\ Code(op).kind = "code" /\ Code(op).op = op
  BY CellTypes DEF Ops
<1> QED BY <1>1 DEF GoodCode, Branches

\* The test of a case is good code.
LEMMA CaseGood ==
    ASSUME NEW n \in Nat, NEW x \in Int
    PROVE  LET code == <<Code("duplicate"), Code("li"), Arg(x), Code("eq"), Code("be0"), Arg(0)>>
           IN  GoodCode(code, n, {n + 5}) /\ Len(code) = 6 /\ code[6] = Arg(0)
<1> DEFINE code == <<Code("duplicate"), Code("li"), Arg(x), Code("eq"), Code("be0"), Arg(0)>>
<1>1. /\ Code("duplicate") \in CellType /\ Code("duplicate").kind = "code" /\ Code("duplicate").op = "duplicate"
      /\ Code("li") \in CellType /\ Code("li").op = "li"
      /\ Code("eq") \in CellType /\ Code("eq").op = "eq"
      /\ Code("be0") \in CellType /\ Code("be0").op = "be0"
      /\ Arg(x) \in CellType /\ Arg(x).op = "none"
      /\ Arg(0) \in CellType /\ Arg(0).op = "none"
  BY CellTypes DEF Ops, Branches
<1>2. code \in Seq(CellType) /\ Len(code) = 6
  BY <1>1
<1>3. /\ code[1] = Code("duplicate") /\ code[2] = Code("li") /\ code[3] = Arg(x)
      /\ code[4] = Code("eq") /\ code[5] = Code("be0") /\ code[6] = Arg(0)
  OBVIOUS
<1> HIDE DEF code
<1>4. ASSUME NEW i \in 1..6, code[i].op \in Branches PROVE i = 5
  <2>1. i \in {1, 2, 3, 4, 5, 6}
    OBVIOUS
  <2> QED BY <1>1, <1>3, <1>4, <2>1 DEF Branches
<1>5. GoodCode(code, n, {n + 5})
  BY <1>1, <1>2, <1>3, <1>4 DEF GoodCode
<1> QED BY <1>2, <1>3, <1>5 DEF code

=============================================================================
