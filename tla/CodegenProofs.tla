--------------------------- MODULE CodegenProofs ---------------------------
(***************************************************************************)
(* Proofs about Codegen, for every program: any number and nesting of      *)
(* statements, any case values and any sizes of variables.  Every step     *)
(* keeps the invariant JumpsInv of CodegenChains; so every jump of a       *)
(* function lands where the program text says.  On top of it, LocalsInv:   *)
(* the variables of open statements share no word of the frame.            *)
(***************************************************************************)
EXTENDS CodegenChains

-----------------------------------------------------------------------------
(* The steps: the beginning, and the steps that make no jump *)

\* The header of the function has no jumps.
LEMMA InitJumpsInv == Init => JumpsInv
<1> SUFFICES ASSUME Init PROVE JumpsInv
  OBVIOUS
<1>1. /\ Code("none") \in CellType /\ Code("none").op = "none"
      /\ Code("func_beg") \in CellType /\ Code("func_beg").op = "func_beg"
      /\ Arg(0) \in CellType /\ Arg(0).op = "none"
  BY CellTypes DEF Ops
<1>2. PICK s : s = [n \in 1..4 |-> Code("none")]
  OBVIOUS
<1>3. s \in Seq(CellType) /\ Len(s) = 4 /\ \A a \in 1..4 : s[a] = Code("none")
  BY <1>1, <1>2, IsASeq
<1>4. PICK t : t = <<Code("func_beg"), Arg(0), Arg(0)>>
  OBVIOUS
<1>5. t \in Seq(CellType) /\ Len(t) = 3 /\ t[1] = Code("func_beg") /\ t[2] = Arg(0) /\ t[3] = Arg(0)
  BY <1>1, <1>4
<1>6. memory = s \o t
  BY <1>2, <1>4 DEF Init
<1>a. /\ s \o t \in Seq(CellType) /\ Len(s \o t) = Len(s) + Len(t)
      /\ \A i \in 1..Len(s) : (s \o t)[i] = s[i]
      /\ \A i \in 1..Len(t) : (s \o t)[Len(s) + i] = t[i]
  BY <1>3, <1>5, ConcatCells
<1>7. memory \in Seq(CellType) /\ Len(memory) = 7
  BY <1>3, <1>5, <1>6, <1>a
<1>8. ASSUME NEW a \in 1..7 PROVE memory[a].op \notin Branches
  <2>1. CASE a \in 1..4
    BY <1>1, <1>3, <1>5, <1>6, <1>a, <2>1 DEF Branches
  <2>2. CASE a \in 5..7
    <3>1. a - 4 \in 1..3 /\ a = 4 + (a - 4)
      BY <2>2
    <3>2. memory[4 + (a - 4)] = t[a - 4]
      BY <1>3, <1>5, <1>6, <1>a, <3>1
    <3>3. a - 4 \in {1, 2, 3}
      BY <3>1
    <3> QED BY <1>1, <1>5, <3>1, <3>2, <3>3 DEF Branches
  <2> QED BY <2>1, <2>2
<1>9. frames = <<>> /\ frames \in Seq(FrameType) /\ Len(frames) = 0 /\ jumps = {} /\ marks = {} /\ todo = "stmt"
  BY DEF Init
<1>10. addr_cond = 0 /\ addr_case = 0 /\ addr_break = 0 /\ opened = 0 /\ displ = 3 /\ max_local_displ = 3
  BY DEF Init
<1>11. TypeInv
  BY <1>7, <1>9, <1>10 DEF TypeInv
<1>12. Phase(frames, marks, memory, addr_cond, todo) /\ Finished(memory, todo)
  BY <1>9 DEF Phase, Finished
<1>13. Placed(memory, jumps, opened) /\ Marked(memory, marks, opened)
  BY <1>9 DEF Placed, Marked
<1>14. Coded(memory, jumps)
  BY <1>7, <1>8 DEF Coded
<1>15. BreakChains(frames, jumps, memory, addr_break, todo)
  BY <1>9, <1>10 DEF BreakChains
<1>16. ContinueChains(frames, jumps, marks, memory, addr_cond, todo)
  BY <1>9, <1>10 DEF ContinueChains
<1>17. CaseTests(frames, jumps, addr_case)
  BY <1>9, <1>10 DEF CaseTests
<1>18. Remembered(frames, jumps, marks, opened) /\ Accounted(frames, jumps, marks, memory, todo)
  BY <1>9 DEF Remembered, Accounted
<1> QED BY <1>11, <1>12, <1>13, <1>14, <1>15, <1>16, <1>17, <1>18 DEF JumpsInv, Sound

\* f is the frame of a new statement.
IsFrame(f, kind, addr, flag) ==
    /\ f \in FrameType
    /\ f.kind = kind /\ f.id = opened' /\ f.addr = addr /\ f.flag = flag /\ f.labels = 0
    /\ f.old_cond = addr_cond /\ f.old_case = addr_case /\ f.old_break = addr_break /\ f.old_displ = displ

\* The frame of a new statement has its type.
LEMMA FrameTyped ==
    ASSUME TypeInv, opened' \in Nat, NEW kind \in Kinds, NEW addr \in Nat, NEW flag \in BOOLEAN
    PROVE  IsFrame(Frame(kind, addr, flag), kind, addr, flag)
<1>1. Frame(kind, addr, flag) \in FrameType
  BY DEF Frame, FrameType, TypeInv
<1> QED BY <1>1 DEF Frame, IsFrame

\* A statement is pushed.
LEMMA PushFrame ==
    ASSUME TypeInv, opened' \in Nat, NEW kind \in Kinds, NEW addr \in Nat, NEW flag \in BOOLEAN,
           NEW F \in Seq(FrameType), frames' = Append(F, Frame(kind, addr, flag))
    PROVE  \E f \in FrameType : IsFrame(f, kind, addr, flag) /\ frames' = Append(F, f) /\ frames' \in Seq(FrameType)
<1>1. PICK f : f = Frame(kind, addr, flag)
  OBVIOUS
<1>2. IsFrame(f, kind, addr, flag)
  BY <1>1, FrameTyped
<1>3. f \in FrameType
  BY <1>2 DEF IsFrame
<1>4. frames' = Append(F, f)
  BY <1>1
<1>5. Append(F, f) \in Seq(FrameType)
  BY <1>3
<1> QED BY <1>2, <1>3, <1>4, <1>5

\* Simple statements without a jump.
LEMMA SimpleQuiet ==
    ASSUME JumpsInv,
           \/ \E shape \in Expressions : emit_expression_statement(shape)
           \/ \E size \in Sizes : emit_declaration_statement(size)
           \/ emit_return_statement
    PROVE  JumpsInv'
<1>1. /\ todo = "stmt" /\ todo' = "next" /\ opened' = opened + 1 /\ frames' = frames
      /\ jumps' = jumps /\ marks' = marks
      /\ addr_cond' = addr_cond /\ addr_case' = addr_case /\ addr_break' = addr_break
  BY DEF emit_expression_statement, emit_declaration_statement, emit_return_statement, Simple, Begin, heads, history
<1>2. displ' \in Nat /\ max_local_displ' \in Nat
  <2>1. CASE \E size \in Sizes : emit_declaration_statement(size)
    <3>1. PICK size \in Nat : displ' = displ + size /\
              max_local_displ' = IF displ' > max_local_displ THEN displ' ELSE max_local_displ
      BY <2>1, CodegenAssumption DEF emit_declaration_statement
    <3> QED BY <3>1 DEF JumpsInv, TypeInv
  <2>2. CASE (\E shape \in Expressions : emit_expression_statement(shape)) \/ emit_return_statement
    BY <2>2 DEF JumpsInv, TypeInv, emit_expression_statement, emit_return_statement
  <2> QED BY <2>1, <2>2
<1>3. memory \in Seq(CellType) /\ Len(memory) >= 7 /\ Len(memory) \in Nat
  BY DEF JumpsInv, TypeInv
<1>4. Emitted(memory, memory', {}) /\ NewCode(memory, memory', {})
  <2>1. CASE memory' = memory
    BY <1>3, <2>1, EmittedNothing DEF NewCode
  <2>2. CASE \E code : GoodCode(code, Len(memory), {}) /\ memory' = memory \o code
    BY <1>3, <2>2, GoodCodeEmitted
  <2>3. CASE \E shape \in Expressions : emit_expression_statement(shape)
    <3>1. PICK shape \in Expressions : memory' = memory \o Expression(shape, Len(memory))
      BY <2>3 DEF emit_expression_statement, mem_size
    <3>2. GoodCode(Expression(shape, Len(memory)), Len(memory), {})
      BY <1>3, CodegenAssumption, ExpressionGood
    <3> QED BY <2>2, <3>1, <3>2
  <2>4. CASE emit_return_statement
    <3>1. memory' = memory \o <<Code("return")>>
      BY <2>4 DEF emit_return_statement
    <3>2. GoodCode(<<Code("return")>>, Len(memory), {})
      BY <1>3, SingleGood
    <3> QED BY <2>2, <3>1, <3>2
  <2>5. CASE \E size \in Sizes : emit_declaration_statement(size)
    BY <2>1, <2>5 DEF emit_declaration_statement
  <2> QED BY <2>3, <2>4, <2>5
<1>5. frames \in Seq(FrameType) /\ jumps \subseteq JumpType /\ marks \subseteq MarkType /\ opened \in Nat /\ opened' \in Nat
  BY <1>1 DEF JumpsInv, TypeInv
<1>6. Sound(frames, jumps, marks, memory, opened, addr_cond, addr_case, addr_break, todo)
  BY DEF JumpsInv
<1>7. Sound(frames, jumps, marks, memory', opened', addr_cond, addr_case, addr_break, todo')
  <2>1. opened <= opened' /\ todo \in {"stmt", "next"} /\ todo' \in {"stmt", "next"}
    BY <1>1, <1>5
  <2>2. QuietFrames(frames, frames, opened, opened')
    BY DEF QuietFrames
  <2> QED BY <1>3, <1>4, <1>5, <1>6, <2>1, <2>2, QuietStep
<1>8. TypeInv'
  <2>1. memory' \in Seq(CellType) /\ Len(memory') >= 7
    BY <1>3, <1>4 DEF Emitted
  <2> QED BY <1>1, <1>2, <1>5, <2>1 DEF JumpsInv, TypeInv
<1> QED BY <1>1, <1>7, <1>8 DEF JumpsInv

\* Blocks and the end of a labelled statement.
LEMMA BlockQuiet ==
    ASSUME JumpsInv, BeginCompound \/ NextInCompound \/ EndCompound \/ EndLabelled \/ NextInBody
    PROVE  JumpsInv'
<1>1. /\ todo \in {"stmt", "next"} /\ todo' \in {"stmt", "next"}
      /\ memory' = memory /\ jumps' = jumps /\ marks' = marks
      /\ addr_cond' = addr_cond /\ addr_case' = addr_case /\ addr_break' = addr_break
      /\ max_local_displ' = max_local_displ
  BY DEF BeginCompound, NextInCompound, EndCompound, EndLabelled, NextInBody, Begin, Resume, Pop, heads, history
<1>2. frames \in Seq(FrameType) /\ jumps \subseteq JumpType /\ marks \subseteq MarkType /\ opened \in Nat
      /\ memory \in Seq(CellType) /\ displ \in Nat /\ Len(memory) \in Nat /\ Len(frames) \in Nat
  BY DEF JumpsInv, TypeInv
<1>3. opened' \in Nat /\ opened <= opened'
  <2>1. opened' = opened \/ opened' = opened + 1
    BY DEF BeginCompound, NextInCompound, EndCompound, EndLabelled, NextInBody, Begin, Resume
  <2> QED BY <1>2, <2>1
<1>4. /\ frames' \in Seq(FrameType) /\ displ' \in Nat
      /\ QuietFrames(frames, frames', opened, opened')
  <2>1. CASE BeginCompound
    <3>1. opened' = opened + 1 /\ frames' = Append(frames, Frame("compound", 0, FALSE)) /\ displ' = displ
      BY <2>1 DEF BeginCompound, Begin
    <3>2. TypeInv
      BY DEF JumpsInv
    <3>3. "compound" \in Kinds /\ 0 \in Nat
      BY DEF Kinds
    <3>4. PICK f \in FrameType : IsFrame(f, "compound", 0, FALSE) /\ frames' = Append(frames, f) /\ frames' \in Seq(FrameType)
      BY <1>2, <1>3, <3>1, <3>2, <3>3, PushFrame, Zenon
    <3>5. QuietFrames(frames, frames', opened, opened')
      BY <3>1, <3>4 DEF QuietFrames, IsFrame
    <3> QED BY <1>2, <3>1, <3>4, <3>5
  <2>2. CASE NextInCompound \/ NextInBody
    BY <1>2, <2>2 DEF NextInCompound, NextInBody, QuietFrames
  <2>3. CASE EndCompound
    <3>1. Len(frames) > 0 /\ frames[Len(frames)].kind = "compound" /\ frames' = SubSeq(frames, 1, Len(frames) - 1)
      BY <2>3 DEF EndCompound, Resume, Pop, Depth, Top
    <3>2. frames[Len(frames)] \in FrameType
      BY <1>2, <3>1
    <3>3. displ' = frames[Len(frames)].old_displ
      BY <2>3 DEF EndCompound, Free, Top, Depth
    <3>4. displ' \in Nat
      BY <3>2, <3>3 DEF FrameType
    <3> QED BY <1>2, <3>1, <3>4, PopFrames DEF QuietFrames
  <2>4. CASE EndLabelled
    <3>1. /\ Len(frames) > 0 /\ frames[Len(frames)].kind \in {"case", "default"}
          /\ frames' = SubSeq(frames, 1, Len(frames) - 1) /\ displ' = displ
      BY <2>4 DEF EndLabelled, Resume, Pop, Depth, Top
    <3> QED BY <1>2, <3>1, PopFrames DEF QuietFrames
  <2> QED BY <2>1, <2>2, <2>3, <2>4
<1>5. Sound(frames, jumps, marks, memory, opened, addr_cond, addr_case, addr_break, todo)
  BY DEF JumpsInv
<1>6. Emitted(memory, memory, {}) /\ NewCode(memory, memory, {})
  BY <1>2, EmittedNothing DEF NewCode
<1>7. Sound(frames', jumps, marks, memory, opened', addr_cond, addr_case, addr_break, todo')
  BY <1>1, <1>2, <1>3, <1>4, <1>5, <1>6, QuietStep, ZenonT(40)
<1>8. TypeInv'
  BY <1>1, <1>2, <1>3, <1>4 DEF JumpsInv, TypeInv
<1> QED BY <1>1, <1>7, <1>8 DEF JumpsInv

-----------------------------------------------------------------------------
(* The steps: if *)

\* A condition is good code.
LEMMA ConditionGood ==
    ASSUME NEW shape \in ExpressionShapes, NEW op \in Branches, NEW x \in Int, memory \in Seq(CellType)
    PROVE  \E n \in Nat : /\ GoodCode(Condition(shape, op, x), Len(memory), {Len(memory) + n - 1})
                          /\ n > 1 /\ Len(Condition(shape, op, x)) = n /\ Condition(shape, op, x)[n] = Arg(x)
<1>1. PICK N \in Nat : N = Len(memory)
  OBVIOUS
<1>2. PICK code : code = Expression(shape, N) /\ GoodCode(code, N, {})
  BY <1>1, ExpressionGood
<1>3. PICK n \in Nat : n = Len(code) + 2 /\ n > 1 /\ N + n - 1 = N + Len(code) + 1
  BY <1>2 DEF GoodCode
<1>4. Condition(shape, op, x) = code \o <<Code(op), Arg(x)>>
  BY <1>1, <1>2 DEF Condition, mem_size
<1>5. /\ GoodCode(code \o <<Code(op), Arg(x)>>, N, {N + n - 1})
      /\ Len(code \o <<Code(op), Arg(x)>>) = n
      /\ (code \o <<Code(op), Arg(x)>>)[n] = Arg(x)
  BY <1>2, <1>3, BranchGood
<1> QED BY <1>1, <1>3, <1>4, <1>5

\* What a condition leaves in the code.
LEMMA ConditionEmitted ==
    ASSUME NEW shape \in ExpressionShapes, NEW op \in Branches, NEW x \in Int,
           memory \in Seq(CellType), Len(memory) >= 7, memory' = memory \o Condition(shape, op, x)
    PROVE  \E c \in Nat : /\ c = Len(memory') - 1 /\ c > Len(memory)
                          /\ Emitted(memory, memory', {}) /\ NewCode(memory, memory', {c})
                          /\ memory'[c + 1] = Arg(x)
<1>1. PICK n \in Nat : /\ GoodCode(Condition(shape, op, x), Len(memory), {Len(memory) + n - 1})
                       /\ n > 1 /\ Len(Condition(shape, op, x)) = n /\ Condition(shape, op, x)[n] = Arg(x)
  BY ConditionGood
<1>2. PICK code : code = Condition(shape, op, x)
  OBVIOUS
<1>3. PICK N \in Nat : N = Len(memory)
  OBVIOUS
<1>4. N + n - 1 \in Nat /\ (N + n - 1) + 1 = N + n /\ N + n - 1 > N
  BY <1>1
<1>5. PICK c \in Nat : c = N + n - 1 /\ c + 1 = N + n /\ c > N
  BY <1>4
<1>6. GoodCode(code, N, {c}) /\ Len(code) = n /\ code[n] = Arg(x) /\ memory' = memory \o code
  BY <1>1, <1>2, <1>3, <1>5
<1>7. /\ Emitted(memory, memory \o code, {}) /\ NewCode(memory, memory \o code, {c})
      /\ Len(memory \o code) = N + Len(code) /\ \A i \in 1..Len(code) : (memory \o code)[N + i] = code[i]
  BY <1>3, <1>6, GoodCodeEmitted
<1>8. Len(memory') = N + n /\ memory'[N + n] = Arg(x)
  BY <1>1, <1>6, <1>7
<1>9. c = Len(memory') - 1 /\ memory'[c + 1] = Arg(x)
  BY <1>5, <1>8
<1> QED BY <1>3, <1>5, <1>6, <1>7, <1>9

\* The branch of an if waits for its else.
LEMMA BeginIfStep ==
    ASSUME JumpsInv, NEW shape \in Expressions, NEW has_else \in BOOLEAN, BeginIf(shape, has_else)
    PROVE  JumpsInv'
<1>a. /\ memory \in Seq(CellType) /\ Len(memory) >= 7 /\ Len(memory) \in Nat
      /\ frames \in Seq(FrameType) /\ Len(frames) \in Nat /\ opened \in Nat
      /\ jumps \subseteq JumpType /\ marks \subseteq MarkType
      /\ addr_cond \in Nat /\ addr_case \in Nat /\ addr_break \in Nat
  BY DEF JumpsInv, TypeInv
<1>b. /\ Phase(frames, marks, memory, addr_cond, todo) /\ Placed(memory, jumps, opened) /\ Marked(memory, marks, opened)
      /\ Coded(memory, jumps)
  BY DEF JumpsInv, Sound
<1>c. /\ BreakChains(frames, jumps, memory, addr_break, todo)
      /\ ContinueChains(frames, jumps, marks, memory, addr_cond, todo)
      /\ CaseTests(frames, jumps, addr_case)
  BY DEF JumpsInv, Sound
<1>d. Remembered(frames, jumps, marks, opened) /\ Accounted(frames, jumps, marks, memory, todo)
  BY DEF JumpsInv, Sound
<1>1. /\ todo = "stmt" /\ todo' = "stmt" /\ opened' = opened + 1 /\ opened' \in Nat /\ marks' = marks
      /\ addr_cond' = addr_cond /\ addr_case' = addr_case /\ addr_break' = addr_break
      /\ displ' = displ /\ max_local_displ' = max_local_displ
  BY <1>a DEF BeginIf, Begin, Push, heads
<1>2. memory' = memory \o Condition(shape, "be0", 0)
  BY DEF BeginIf
<1>3. PICK c \in Nat : /\ c = Len(memory') - 1 /\ c > Len(memory)
                       /\ Emitted(memory, memory', {}) /\ NewCode(memory, memory', {c})
                       /\ memory'[c + 1] = Arg(0)
  <2>1. "be0" \in Branches /\ 0 \in Int
    BY DEF Branches
  <2>2. memory \in Seq(CellType) /\ Len(memory) >= 7 /\ shape \in ExpressionShapes
    BY <1>a, CodegenAssumption
  <2> QED BY <1>2, <2>1, <2>2, ConditionEmitted, Zenon
<1>4. PICK f \in FrameType : IsFrame(f, "if", c, has_else) /\ frames' = Append(frames, f) /\ frames' \in Seq(FrameType)
  <2>1. TypeInv /\ "if" \in Kinds /\ frames' = Append(frames, Frame("if", c, has_else))
    BY <1>3 DEF JumpsInv, Kinds, BeginIf, Push
  <2>2. frames \in Seq(FrameType) /\ opened' \in Nat
    BY <1>a, <1>1
  <2> QED BY <2>1, <2>2, PushFrame, Zenon
<1>5. PICK l \in LabelType : l = Label(opened + 1, "else", 0) /\ l.id = opened + 1 /\ l.what = "else"
  BY <1>a, HistoryTypes, LabelParts DEF Whats
<1>6. jumps' = jumps \cup {Jump(c, l)} /\ Jump(c, l) \in JumpType /\ Jump(c, l).label = l /\ Jump(c, l).cell = c
  BY <1>1, <1>3, <1>5, JumpParts DEF BeginIf, Jump, JumpType
<1>7. Placed(memory', jumps', opened')
  <2>1. c \in Len(memory)..Len(memory') - 1 /\ memory'[c + 1].kind = "arg" /\ l.id <= opened' /\ opened <= opened'
    BY <1>a, <1>1, <1>3, <1>5, CellTypes
  <2> QED BY <1>a, <1>b, <1>1, <1>3, <1>6, <2>1, PlacedMore
<1>8. Patchable(jumps, {}) /\ opened <= opened'
  BY <1>a, <1>1 DEF Patchable
<1>9. Marked(memory', marks', opened')
  <2>1. Marked(memory', marks \cup {}, opened')
    BY <1>a, <1>b, <1>1, <1>3, <1>8, MarkedKept
  <2> QED BY <1>1, <2>1
<1>10. Coded(memory', jumps')
  <2>1. \A x \in {c} : \E j \in jumps' : j.cell = x
    BY <1>6
  <2> QED BY <1>a, <1>b, <1>3, <1>6, <1>8, <2>1, CodedKept
<1>11. PICK P : P = {} /\ Emitted(memory, memory', P) /\ \A x : x \notin P
  BY <1>3
<1>12. SameFrames(frames, frames', Breakable)
  BY <1>a, <1>4, SamePushed DEF IsFrame, Breakable, Loops
<1>13. \A j \in jumps' : j \in jumps \/ j = Jump(c, l)
  BY <1>6
<1>14. Aside(frames, l)
  BY <1>5, LabelParts DEF Aside, EndOf, ContinueOf
<1>15. BreakChains(frames', jumps', memory', addr_break, todo') /\ ContinueChains(frames', jumps', marks, memory', addr_cond, todo')
  <2>1. AsideOnly(frames, jumps, jumps', P)
    BY <1>6, <1>11, <1>14 DEF AsideOnly
  <2>2. BreakChains(frames', jumps', memory', addr_break, todo')
    BY <1>a, <1>b, <1>c, <1>1, <1>4, <1>11, <1>12, <2>1, BreaksAside
  <2>3. ContinueChains(frames', jumps', marks, memory', addr_cond, todo')
    BY <1>a, <1>b, <1>c, <1>1, <1>4, <1>11, <1>12, <2>1, ContinuesAside
  <2> QED BY <2>2, <2>3
<1>16. /\ Len(frames') = Len(frames) + 1 /\ frames'[Len(frames) + 1] = f
       /\ \A k \in 1..Len(frames) : frames'[k] = frames[k]
  BY <1>a, <1>4, AppendFrames
<1>17. CaseTests(frames', jumps', addr_case)
  <2>1. jumps \subseteq jumps' /\ \A j \in jumps' : j \in jumps \/ j.label.what # "label"
    BY <1>5, <1>6
  <2>2. \A k \in 1..Len(frames) : frames[k].kind = "switch" => frames'[k].labels = frames[k].labels
    BY <1>16
  <2> QED BY <1>a, <1>c, <1>4, <1>12, <2>1, <2>2, TestsKept
<1>18. Remembered(frames', jumps', marks, opened')
  <2>1. Remembered(frames, jumps', marks, opened)
    <3>1. jumps \subseteq jumps' /\ jumps' \subseteq JumpType /\ opened <= opened
      BY <1>a, <1>6
    <3>2. \A j \in jumps' : j \in jumps \/ j.label.what # "label"
      BY <1>5, <1>6
    <3> QED BY <1>a, <1>d, <3>1, <3>2, RememberedSame
  <2>2. f.kind = "if" /\ f.id = opened + 1 /\ f.addr = c
    BY <1>1, <1>4 DEF IsFrame
  <2>3. Waiting(f, jumps', marks)
    <3>1. ASSUME NEW m \in marks, m.label = l PROVE FALSE
      <4>1. m.label.id <= opened
        BY <1>b DEF Marked
      <4> QED BY <1>a, <1>5, <3>1, <4>1
    <3> QED BY <1>5, <1>6, <2>2, <3>1 DEF Waiting
  <2>4. \A j \in jumps' : j.label.id = f.id => j.label.what # "label"
    <3> SUFFICES ASSUME NEW j \in jumps, j.label.id = f.id PROVE FALSE
      BY <1>5, <1>6
    <3>1. j.label.id <= opened
      BY <1>b DEF Placed
    <3> QED BY <1>a, <2>2, <3>1
  <2> QED BY <1>a, <1>1, <1>4, <2>1, <2>2, <2>3, <2>4, RememberedPush DEF Loops
<1>19. Accounted(frames', jumps', marks, memory', todo')
  <2>1. Owes(frames', Len(frames) + 1, Jump(c, l), todo')
    BY <1>4, <1>6, <1>16 DEF Owes, IsFrame
  <2>2. Answered(frames', marks, memory', todo', Jump(c, l))
    BY <1>a, <1>16, <2>1 DEF Answered
  <2> QED BY <1>a, <1>b, <1>d, <1>4, <1>11, <1>13, <2>2, AccountedPush
<1>20. Phase(frames', marks, memory', addr_cond, todo') /\ Finished(memory', todo')
  BY <1>1 DEF Phase, Finished
<1>21. TypeInv'
  <2>1. memory' \in Seq(CellType) /\ Len(memory') >= 7
    BY <1>a, <1>3 DEF Emitted
  <2> QED BY <1>a, <1>1, <1>4, <1>6, <2>1 DEF JumpsInv, TypeInv
<1> QED BY <1>1, <1>7, <1>9, <1>10, <1>15, <1>17, <1>18, <1>19, <1>20, <1>21 DEF JumpsInv, Sound

\* mem2 is mem with n at address a and code added, whose branches are good or at C.
PatchedBy(mem, mem2, a, n, code, C) ==
    /\ Emitted(mem, mem2, {a}) /\ NewCode(mem, mem2, C)
    /\ Len(mem2) = Len(mem) + Len(code)
    /\ \A i \in 1..Len(code) : mem2[Len(mem) + i] = code[i]
    /\ Get(mem2, a) = n

\* An operand is overwritten and code is added.
LEMMA PatchEmitted ==
    ASSUME NEW mem \in Seq(CellType), Len(mem) >= 7, NEW a \in 0..Len(mem) - 1, NEW n \in Int,
           NEW code, NEW C, GoodCode(code, Len(mem), C), NEW mem3, mem3 = mem_set(mem, a, n) \o code
    PROVE  PatchedBy(mem, mem3, a, n, code, C)
<1>1. PICK mem2 : mem2 = mem_set(mem, a, n)
  OBVIOUS
<1>2. Emitted(mem, mem2, {a}) /\ Len(mem2) = Len(mem) /\ Get(mem2, a) = n
  BY <1>1, EmittedPatch
<1>3. mem2 \in Seq(CellType)
  BY <1>2 DEF Emitted
<1>4. mem3 = mem2 \o code
  BY <1>1
<1>5. GoodCode(code, Len(mem2), C) /\ Len(mem2) >= 7
  BY <1>2
<1>6. /\ Emitted(mem2, mem3, {}) /\ NewCode(mem2, mem3, C) /\ Len(mem3) = Len(mem2) + Len(code)
      /\ \A i \in 1..Len(code) : mem3[Len(mem2) + i] = code[i]
  BY <1>3, <1>4, <1>5, GoodCodeEmitted
<1>7. Emitted(mem, mem3, {a} \cup {}) /\ {a} \cup {} = {a}
  BY <1>2, <1>6, EmittedBoth
<1>8. NewCode(mem, mem3, C)
  BY <1>2, <1>6 DEF NewCode
<1>9. PICK P : P = {} /\ Emitted(mem2, mem3, P) /\ a \notin P
  BY <1>6
<1>10. Get(mem3, a) = n
  BY <1>2, <1>3, <1>9, GetKept
<1> QED BY <1>2, <1>6, <1>7, <1>8, <1>10 DEF PatchedBy

\* The else of an if begins: its branch is settled, and the jump over the else waits for
\* the end.
LEMMA BeginElseStep ==
    ASSUME JumpsInv, BeginElse
    PROVE  JumpsInv'
<1>a. /\ memory \in Seq(CellType) /\ Len(memory) >= 7 /\ Len(memory) \in Nat
      /\ frames \in Seq(FrameType) /\ Len(frames) \in Nat /\ opened \in Nat
      /\ jumps \subseteq JumpType /\ marks \subseteq MarkType
      /\ addr_cond \in Nat /\ addr_case \in Nat /\ addr_break \in Nat
  BY DEF JumpsInv, TypeInv
<1>b. /\ Phase(frames, marks, memory, addr_cond, todo) /\ Placed(memory, jumps, opened) /\ Marked(memory, marks, opened)
      /\ Coded(memory, jumps)
  BY DEF JumpsInv, Sound
<1>c. /\ BreakChains(frames, jumps, memory, addr_break, todo)
      /\ ContinueChains(frames, jumps, marks, memory, addr_cond, todo)
      /\ CaseTests(frames, jumps, addr_case)
  BY DEF JumpsInv, Sound
<1>d. Remembered(frames, jumps, marks, opened) /\ Accounted(frames, jumps, marks, memory, todo)
  BY DEF JumpsInv, Sound
<1>1. /\ todo = "next" /\ todo' = "stmt" /\ opened' = opened
      /\ addr_cond' = addr_cond /\ addr_case' = addr_case /\ addr_break' = addr_break
      /\ displ' = displ /\ max_local_displ' = max_local_displ
  BY DEF BeginElse, Resume, heads
<1>2. PICK d \in Nat : d = Len(frames) /\ d > 0 /\ d \in 1..Len(frames)
  <2>1. Len(frames) > 0
    BY DEF BeginElse, Resume, Depth
  <2>2. Len(frames) \in 1..Len(frames)
    BY <1>a, <2>1
  <2> QED BY <1>a, <2>1, <2>2
<1>3. PICK f \in FrameType : f = frames[d] /\ f.kind = "if" /\ f.flag
  BY <1>a, <1>2 DEF BeginElse, Resume, Top, Depth
<1>4. PICK N \in Nat : N = Len(memory)
  BY <1>a
<1>e. f.id \in Nat /\ f.addr \in Nat /\ "else" \in Whats /\ "end" \in Whats
  BY <1>3 DEF FrameType, Whats
<1>5. PICK l \in LabelType : l = Label(f.id, "else", 0) /\ l.id = f.id /\ l.what = "else"
  BY <1>e, LabelTyped
<1>6. PICK e \in LabelType : e = Label(f.id, "end", 0) /\ e.id = f.id /\ e.what = "end"
  BY <1>e, LabelTyped
<1>7. Jump(f.addr, l) \in jumps
  BY <1>d, <1>2, <1>3, <1>5 DEF Remembered, Waiting
<1>8. f.addr \in 7..N - 1 /\ f.addr \in 0..N - 1 /\ \A j \in jumps : j.cell = f.addr => j = Jump(f.addr, l)
  BY <1>b, <1>4, <1>7, JumpParts DEF Placed
<1>9. PICK c \in Nat : c = N + 1
  OBVIOUS
<1>10. memory' = mem_set(memory, f.addr, N + 2) \o <<Code("b"), Arg(0)>>
  BY <1>2, <1>3, <1>4 DEF BeginElse, Top, Depth, mem_size
<1>11. /\ Emitted(memory, memory', {f.addr}) /\ NewCode(memory, memory', {c}) /\ Len(memory') = N + 2
       /\ Get(memory', f.addr) = N + 2 /\ memory'[c + 1].kind = "arg"
  <2>1. PICK code : code = <<Code("b"), Arg(0)>>
    OBVIOUS
  <2>2. GoodCode(code, Len(memory), {c}) /\ Len(code) = 2 /\ code[2] = Arg(0)
    BY <1>4, <1>9, <2>1, JumpGood
  <2>3. PICK a \in 0..Len(memory) - 1, t \in Int : a = f.addr /\ t = N + 2
    BY <1>4, <1>8
  <2>4. memory' = mem_set(memory, a, t) \o code
    BY <1>10, <2>1, <2>3
  <2>5. /\ Emitted(memory, memory', {a}) /\ NewCode(memory, memory', {c})
        /\ Len(memory') = Len(memory) + Len(code)
        /\ \A i \in 1..Len(code) : memory'[Len(memory) + i] = code[i]
        /\ Get(memory', a) = t
    <3>1. PatchedBy(memory, memory', a, t, code, {c})
      BY <1>a, <2>2, <2>4, PatchEmitted
    <3> QED BY <3>1 DEF PatchedBy
  <2>6. c + 1 = N + 2 /\ 2 \in 1..Len(code) /\ Arg(0).kind = "arg"
    BY <1>9, <2>2, CellTypes
  <2> QED BY <1>4, <2>2, <2>3, <2>5, <2>6
<1>12. PICK F2 \in Seq(FrameType) : /\ F2 = frames' /\ Len(F2) = d
                                    /\ \A k \in 1..d : k # d => F2[k] = frames[k]
                                    /\ F2[d].kind = "if" /\ F2[d].id = f.id /\ F2[d].addr = c
                                    /\ ~F2[d].flag /\ F2[d].labels = f.labels
  <2>1. frames' = [frames EXCEPT ![d].addr = c, ![d].flag = FALSE]
    BY <1>2, <1>4, <1>9 DEF BeginElse, Depth, mem_size
  <2>2. PICK g : g = [f EXCEPT !.addr = c, !.flag = FALSE]
    OBVIOUS
  <2>3. g \in FrameType /\ g.kind = "if" /\ g.id = f.id /\ g.addr = c /\ ~g.flag /\ g.labels = f.labels
    BY <1>3, <1>9, <2>2 DEF FrameType
  <2>4. frames' = [frames EXCEPT ![d] = g]
    BY <1>a, <1>2, <1>3, <2>1, <2>2
  <2>5. frames' \in Seq(FrameType) /\ Len(frames') = d /\ frames'[d] = g /\ \A k \in 1..d : k # d => frames'[k] = frames[k]
    BY <1>a, <1>2, <2>3, <2>4, ExceptSeq
  <2> QED BY <2>3, <2>5
<1>13. jumps' = jumps \cup {Jump(c, e)} /\ Jump(c, e) \in JumpType /\ Jump(c, e).label = e /\ Jump(c, e).cell = c
  BY <1>2, <1>3, <1>4, <1>6, <1>9, JumpParts DEF BeginElse, Jump, JumpType, Top, Depth, mem_size
<1>14. marks' = marks \cup {Mark(l, N + 2)} /\ Mark(l, N + 2) \in MarkType
       /\ Mark(l, N + 2).label = l /\ Mark(l, N + 2).addr = N + 2
  BY <1>2, <1>3, <1>4, <1>5, JumpParts DEF BeginElse, Mark, MarkType, Top, Depth, mem_size
<1>15. f.id <= opened
  BY <1>a, <1>d, <1>2, <1>3 DEF Remembered
<1>16. Placed(memory', jumps', opened)
  <2>1. c \in Len(memory)..Len(memory') - 1 /\ e.id <= opened /\ opened <= opened
    BY <1>a, <1>4, <1>6, <1>9, <1>11, <1>15
  <2> QED BY <1>a, <1>b, <1>11, <1>13, <2>1, PlacedMore
<1>17. PICK P : P = {f.addr} /\ Emitted(memory, memory', P) /\ \A x : x \in P <=> x = f.addr
  BY <1>11
<1>18. Patchable(jumps, P)
  BY <1>7, <1>17, JumpParts DEF Patchable
<1>19. Marked(memory', marks', opened)
  <2>1. Landing(memory', N + 2)
    BY <1>a, <1>4, <1>11 DEF Landing
  <2>2. \A m \in {Mark(l, N + 2)} : Landing(memory', m.addr) /\ m.label.id <= opened
    BY <1>5, <1>14, <1>15, <2>1
  <2>3. opened <= opened
    BY <1>a
  <2>4. Marked(memory', marks \cup {Mark(l, N + 2)}, opened)
    BY <1>a, <1>b, <1>17, <1>18, <2>2, <2>3, MarkedKept
  <2> QED BY <1>14, <2>4
<1>20. Coded(memory', jumps')
  <2>1. \A x \in {c} : \E j \in jumps' : j.cell = x
    BY <1>13
  <2>2. jumps \subseteq jumps'
    BY <1>13
  <2> QED BY <1>a, <1>b, <1>11, <1>17, <1>18, <2>1, <2>2, CodedKept
<1>21. SameFrames(frames, F2, Breakable)
  BY <1>2, <1>3, <1>12 DEF SameFrames, Breakable, Loops
<1>22. f.kind \notin Breakable
  BY <1>3 DEF Breakable, Loops
<1>23. Aside(frames, l) /\ Aside(frames, e)
  BY <1>a, <1>d, <1>2, <1>3, <1>5, <1>6, <1>22, AsideLabels
<1>24. AsideOnly(frames, jumps, jumps', P)
  BY <1>8, <1>13, <1>17, <1>23, JumpParts DEF AsideOnly
<1>25. BreakChains(F2, jumps', memory', addr_break, todo')
  BY <1>a, <1>b, <1>c, <1>1, <1>17, <1>21, <1>24, BreaksAside
<1>26. ContinueChains(F2, jumps', marks', memory', addr_cond, todo')
  <2>1. marks \subseteq marks'
    BY <1>14
  <2> QED BY <1>a, <1>b, <1>c, <1>1, <1>17, <1>21, <1>24, <2>1, ContinuesAside
<1>27. CaseTests(F2, jumps', addr_case)
  <2>1. jumps \subseteq jumps' /\ \A j \in jumps' : j \in jumps \/ j.label.what # "label"
    BY <1>6, <1>13
  <2>2. \A k \in 1..Len(frames) : frames[k].kind = "switch" => F2[k].labels = frames[k].labels
    BY <1>2, <1>3, <1>12
  <2> QED BY <1>a, <1>c, <1>21, <2>1, <2>2, TestsKept
<1>28. Remembered(F2, jumps', marks', opened)
  <2>1. \A k \in 1..d : frames[k].labels \in Nat
    <3>1. \A k \in 1..d : frames[k] \in FrameType
      BY <1>a, <1>2
    <3> QED BY <3>1 DEF FrameType
  <2>2. \A k \in 1..d : F2[k].kind = frames[k].kind /\ F2[k].id = frames[k].id /\ F2[k].labels >= frames[k].labels
    BY <1>3, <1>12, <2>1
  <2>3. \A k \in 1..d : F2[k].kind \in Loops => F2[k].addr = frames[k].addr
    BY <1>12 DEF Loops
  <2>4. ASSUME NEW k \in 1..d, F2[k].kind = "if" PROVE Waiting(F2[k], jumps', marks')
    <3>1. CASE k = d
      BY <1>6, <1>12, <1>13, <3>1 DEF Waiting
    <3>2. CASE k # d
      <4>1. Waiting(frames[k], jumps, marks) /\ F2[k] = frames[k]
        BY <1>d, <1>2, <1>12, <2>4, <3>2 DEF Remembered
      <4>2. frames[k].id # f.id
        BY <1>a, <1>d, <1>2, <1>3, <3>2, FramesApart
      <4>3. \A m \in marks' : m \in marks \/ m.label # Label(frames[k].id, "else", 0)
        BY <1>5, <1>14, <4>2, LabelParts
      <4>4. jumps \subseteq jumps'
        BY <1>13
      <4> QED BY <4>1, <4>3, <4>4, WaitingKept
    <3> QED BY <3>1, <3>2
  <2>5. \A j \in jumps' : j \in jumps \/ j.label.what # "label"
    BY <1>6, <1>13
  <2>6. marks \subseteq marks' /\ jumps' \subseteq JumpType /\ opened <= opened /\ Len(F2) <= Len(frames)
    BY <1>a, <1>2, <1>12, <1>13, <1>14
  <2>7. /\ \A k \in 1..Len(F2) : F2[k].kind = frames[k].kind /\ F2[k].id = frames[k].id /\ F2[k].labels >= frames[k].labels
        /\ \A k \in 1..Len(F2) : F2[k].kind \in Loops => F2[k].addr = frames[k].addr
        /\ \A k \in 1..Len(F2) : F2[k].kind = "if" => Waiting(F2[k], jumps', marks')
    BY <1>12, <2>2, <2>3, <2>4
  <2> QED BY <1>a, <1>d, <2>5, <2>6, <2>7, RememberedKept, SMTT(30)
<1>29. Accounted(F2, jumps', marks', memory', todo')
  <2>1. Settled(memory', marks', Jump(f.addr, l))
    BY <1>11, <1>14, JumpParts DEF Settled
  <2>2. \A j \in jumps : j.cell \in P => Answered(F2, marks', memory', todo', j)
    BY <1>8, <1>17, <2>1 DEF Answered
  <2>3. ASSUME NEW j \in jumps, NEW k \in 1..Len(frames), Owes(frames, k, j, todo)
        PROVE  Answered(F2, marks', memory', todo', j)
    <3>1. CASE k = d
      <4>1. j.cell = f.addr
        BY <1>3, <2>3, <3>1 DEF Owes, Breakable, Loops
      <4> QED BY <1>17, <2>2, <4>1
    <3>2. CASE k # d
      <4>1. F2[k] = frames[k] /\ k \in 1..Len(F2)
        BY <1>2, <1>12, <3>2
      <4>2. Owes(F2, k, j, todo')
        BY <1>1, <2>3, <4>1, OwesKept
      <4> QED BY <4>1, <4>2 DEF Answered
    <3> QED BY <3>1, <3>2
  <2>4. Owes(F2, d, Jump(c, e), todo')
    BY <1>12, <1>13 DEF Owes
  <2>5. Answered(F2, marks', memory', todo', Jump(c, e))
    BY <1>2, <1>12, <2>4 DEF Answered
  <2>6. \A j \in jumps' : j \in jumps \/ Answered(F2, marks', memory', todo', j)
    BY <1>13, <2>5
  <2>7. marks \subseteq marks'
    BY <1>14
  <2> QED BY <1>a, <1>b, <1>d, <1>17, <2>2, <2>3, <2>6, <2>7, AccountedKept
<1>30. Phase(F2, marks', memory', addr_cond, todo') /\ Finished(memory', todo')
  BY <1>1 DEF Phase, Finished
<1>31. TypeInv'
  <2>1. memory' \in Seq(CellType) /\ Len(memory') >= 7
    BY <1>a, <1>4, <1>11 DEF Emitted
  <2>2. jumps' \subseteq JumpType /\ marks' \subseteq MarkType
    BY <1>a, <1>13, <1>14
  <2> QED BY <1>a, <1>1, <1>12, <2>1, <2>2 DEF JumpsInv, TypeInv
<1> QED BY <1>1, <1>12, <1>16, <1>19, <1>20, <1>25, <1>26, <1>27, <1>28, <1>29, <1>30, <1>31 DEF JumpsInv, Sound

\* The end of an if settles the branch that waits.
LEMMA EndIfStep ==
    ASSUME JumpsInv, EndIf
    PROVE  JumpsInv'
<1>a. /\ memory \in Seq(CellType) /\ Len(memory) >= 7 /\ Len(memory) \in Nat
      /\ frames \in Seq(FrameType) /\ Len(frames) \in Nat /\ opened \in Nat
      /\ jumps \subseteq JumpType /\ marks \subseteq MarkType
      /\ addr_cond \in Nat /\ addr_case \in Nat /\ addr_break \in Nat
  BY DEF JumpsInv, TypeInv
<1>b. /\ Phase(frames, marks, memory, addr_cond, todo) /\ Placed(memory, jumps, opened) /\ Marked(memory, marks, opened)
      /\ Coded(memory, jumps)
  BY DEF JumpsInv, Sound
<1>c. /\ BreakChains(frames, jumps, memory, addr_break, todo)
      /\ ContinueChains(frames, jumps, marks, memory, addr_cond, todo)
      /\ CaseTests(frames, jumps, addr_case)
  BY DEF JumpsInv, Sound
<1>d. Remembered(frames, jumps, marks, opened) /\ Accounted(frames, jumps, marks, memory, todo)
  BY DEF JumpsInv, Sound
<1>1. /\ todo = "next" /\ todo' = "next" /\ opened' = opened /\ jumps' = jumps
      /\ addr_cond' = addr_cond /\ addr_case' = addr_case /\ addr_break' = addr_break
      /\ displ' = displ /\ max_local_displ' = max_local_displ
  BY DEF EndIf, Resume, Pop, heads
<1>2. PICK d \in Nat : d = Len(frames) /\ d > 0 /\ d \in 1..Len(frames)
  <2>1. Len(frames) > 0
    BY DEF EndIf, Resume, Depth
  <2>2. Len(frames) \in 1..Len(frames)
    BY <1>a, <2>1
  <2> QED BY <1>a, <2>1, <2>2
<1>3. PICK f \in FrameType : f = frames[d] /\ f.kind = "if" /\ ~f.flag
  BY <1>a, <1>2 DEF EndIf, Resume, Top, Depth
<1>4. PICK N \in Nat : N = Len(memory)
  BY <1>a
<1>e. f.id \in Nat /\ f.addr \in Nat /\ "else" \in Whats /\ "end" \in Whats
  BY <1>3 DEF FrameType, Whats
<1>5. PICK l \in LabelType : l = Label(f.id, "else", 0) /\ l.id = f.id /\ l.what = "else"
  BY <1>e, LabelTyped
<1>6. PICK e \in LabelType : e = Label(f.id, "end", 0) /\ e.id = f.id /\ e.what = "end"
  BY <1>e, LabelTyped
<1>7. PICK w \in {l, e} : Jump(f.addr, w) \in jumps /\ (w = l => \A m \in marks : m.label # l)
  BY <1>d, <1>2, <1>3, <1>5, <1>6 DEF Remembered, Waiting
<1>8. f.addr \in 7..N - 1 /\ f.addr \in 0..N - 1 /\ \A j \in jumps : j.cell = f.addr => j = Jump(f.addr, w)
  BY <1>b, <1>4, <1>7, JumpParts DEF Placed
<1>9. PICK New : /\ New \subseteq {Mark(l, N), Mark(e, N)} /\ Mark(w, N) \in New /\ marks' = marks \cup New
  <2>1. PICK W : W = IF \E m \in marks : m.label = l THEN {"end"} ELSE {"else", "end"}
    OBVIOUS
  <2>2. marks' = marks \cup {Mark(Label(f.id, what, 0), N) : what \in W}
    BY <1>2, <1>3, <1>4, <1>5, <2>1 DEF EndIf, Top, Depth, mem_size
  <2>3. "end" \in W /\ W \subseteq {"else", "end"} /\ (w = l => "else" \in W)
    BY <1>7, <2>1
  <2>4. PICK New : New = {Mark(Label(f.id, what, 0), N) : what \in W}
    OBVIOUS
  <2>5. New \subseteq {Mark(l, N), Mark(e, N)}
    BY <1>5, <1>6, <2>3, <2>4
  <2>6. Mark(w, N) \in New
    BY <1>5, <1>6, <1>7, <2>3, <2>4
  <2> QED BY <2>2, <2>4, <2>5, <2>6
<1>10. \A m \in New : m \in MarkType /\ m.label \in {l, e} /\ m.addr = N
  BY <1>9, JumpParts DEF Mark, MarkType
<1>11. memory' = mem_set(memory, f.addr, N)
  BY <1>2, <1>3, <1>4 DEF EndIf, Top, Depth, mem_size
<1>12. Emitted(memory, memory', {f.addr}) /\ Len(memory') = N /\ Get(memory', f.addr) = N
  <2>0. f.addr \in 0..Len(memory) - 1 /\ N \in Int
    BY <1>4, <1>8
  <2>1. PICK a \in 0..Len(memory) - 1, t \in Int : a = f.addr /\ t = N
    BY <2>0
  <2>2. Emitted(memory, mem_set(memory, a, t), {a}) /\ Len(mem_set(memory, a, t)) = Len(memory) /\ Get(mem_set(memory, a, t), a) = t
    BY <1>a, EmittedPatch
  <2> QED BY <1>4, <1>11, <2>1, <2>2
<1>13. PICK P : P = {f.addr} /\ Emitted(memory, memory', P) /\ \A x : x \in P <=> x = f.addr
  BY <1>12
<1>14. Patchable(jumps, P)
  BY <1>7, <1>13, JumpParts DEF Patchable
<1>15. opened <= opened /\ f.id <= opened
  BY <1>a, <1>d, <1>2, <1>3 DEF Remembered
<1>16. Placed(memory', jumps, opened)
  BY <1>a, <1>b, <1>13, <1>15, PlacedKept
<1>17. Marked(memory', marks', opened)
  <2>1. Landing(memory', N)
    BY <1>a, <1>4, <1>12 DEF Landing
  <2>2. \A m \in New : Landing(memory', m.addr) /\ m.label.id <= opened
    BY <1>5, <1>6, <1>10, <1>15, <2>1
  <2>3. Marked(memory', marks \cup New, opened)
    BY <1>a, <1>b, <1>13, <1>14, <1>15, <2>2, MarkedKept
  <2> QED BY <1>9, <2>3
<1>18. Coded(memory', jumps)
  <2>1. NewCode(memory, memory', {}) /\ jumps \subseteq jumps
    BY <1>4, <1>12 DEF NewCode
  <2> QED BY <1>a, <1>b, <1>13, <1>14, <2>1, CodedKept
<1>19. PICK F2 : F2 = SubSeq(frames, 1, Len(frames) - 1)
  OBVIOUS
<1>20. frames' = F2 /\ F2 \in Seq(FrameType) /\ Len(F2) = d - 1 /\ \A k \in 1..d - 1 : F2[k] = frames[k]
  BY <1>a, <1>2, <1>19, PopFrames DEF EndIf, Pop, Depth
<1>21. f.kind \notin Breakable
  BY <1>3 DEF Breakable, Loops
<1>22. SameFrames(frames, F2, Breakable)
  BY <1>a, <1>2, <1>3, <1>19, <1>21, SamePopped
<1>23. Aside(frames, l) /\ Aside(frames, e)
  BY <1>a, <1>d, <1>2, <1>3, <1>5, <1>6, <1>21, AsideLabels
<1>24. AsideOnly(frames, jumps, jumps, P)
  BY <1>7, <1>8, <1>13, <1>23, JumpParts DEF AsideOnly
<1>25. BreakChains(F2, jumps, memory', addr_break, todo')
  BY <1>a, <1>b, <1>c, <1>1, <1>13, <1>20, <1>22, <1>24, BreaksAside
<1>26. marks \subseteq marks'
  BY <1>9
<1>27. ContinueChains(F2, jumps, marks', memory', addr_cond, todo')
  BY <1>a, <1>b, <1>c, <1>1, <1>13, <1>20, <1>22, <1>24, <1>26, ContinuesAside
<1>28. CaseTests(F2, jumps, addr_case)
  <2>1. \A k \in 1..Len(frames) : frames[k].kind = "switch" => F2[k].labels = frames[k].labels
    BY <1>2, <1>3, <1>20
  <2> QED BY <1>a, <1>c, <1>20, <1>22, <2>1, TestsKept
<1>29. Remembered(F2, jumps, marks', opened)
  <2>1. ASSUME NEW m \in marks', NEW k \in 1..Len(F2)
        PROVE  m \in marks \/ m.label # Label(F2[k].id, "else", 0)
    <3>1. F2[k].id # f.id
      BY <1>a, <1>d, <1>2, <1>3, <1>20, FramesApart
    <3> QED BY <1>5, <1>6, <1>9, <1>10, <3>1, LabelParts
  <2>2. Len(F2) <= Len(frames) /\ \A k \in 1..Len(F2) : F2[k] = frames[k]
    BY <1>2, <1>20
  <2> QED BY <1>a, <1>d, <1>15, <1>20, <1>26, <2>1, <2>2, RememberedSame
<1>30. Accounted(F2, jumps, marks', memory', todo')
  <2>1. Settled(memory', marks', Jump(f.addr, w))
    BY <1>9, <1>12, JumpParts DEF Settled
  <2>2. \A j \in jumps : j.cell \in P => Settled(memory', marks', j)
    BY <1>8, <1>13, <2>1
  <2>3. ASSUME NEW j \in jumps, Owes(frames, Len(frames), j, todo) PROVE Settled(memory', marks', j)
    <3>1. j.cell = f.addr
      BY <1>2, <1>3, <2>3 DEF Owes, Breakable, Loops
    <3> QED BY <1>13, <2>2, <3>1
  <2>4. Accounted(F2, jumps, marks', memory', "next")
    BY <1>a, <1>b, <1>d, <1>2, <1>13, <1>19, <1>26, <2>2, <2>3, AccountedPop
  <2> QED BY <1>1, <2>4
<1>31. Phase(F2, marks', memory', addr_cond, todo') /\ Finished(memory', todo')
  BY <1>1 DEF Phase, Finished
<1>32. TypeInv'
  <2>1. memory' \in Seq(CellType) /\ Len(memory') >= 7
    BY <1>a, <1>4, <1>12 DEF Emitted
  <2>2. marks' \subseteq MarkType
    BY <1>a, <1>9, <1>10
  <2> QED BY <1>a, <1>1, <1>20, <2>1, <2>2 DEF JumpsInv, TypeInv
<1> QED BY <1>1, <1>16, <1>17, <1>18, <1>20, <1>25, <1>27, <1>28, <1>29, <1>30, <1>31, <1>32 DEF JumpsInv, Sound

-----------------------------------------------------------------------------
(* The steps: break and continue *)

\* Every non-empty set of positions has a last one, and Max finds it.
LEMMA MaxProperty ==
    ASSUME NEW n \in Nat, NEW S, S \subseteq 1..n, S # {}
    PROVE  Max(S) \in S /\ \A y \in S : Max(S) >= y
<1> DEFINE less == {ss \in Nat \X Nat : ss[1] < ss[2]}
<1>1. less = OpToRel(<, Nat)
  BY Zenon DEF OpToRel
<1>2. IsWellFoundedOn(less, Nat)
  BY <1>1, NatLessThanWellFounded
<1> HIDE DEF less
<1>3. PICK T : T = {n - y : y \in S}
  OBVIOUS
<1>4. T \subseteq Nat /\ T # {}
  <2>1. \A y \in S : y \in 1..n
    OBVIOUS
  <2>2. \A y \in S : n - y \in Nat
    BY <2>1
  <2>3. PICK y : y \in S
    OBVIOUS
  <2>4. n - y \in T
    BY <1>3, <2>3
  <2> QED BY <1>3, <2>2, <2>4
<1>5. PICK t \in T : \A u \in T : ~ (<<u, t>> \in less)
  BY <1>2, <1>4, WFMin
<1>6. PICK x \in S : t = n - x
  BY <1>3
<1>7. ASSUME NEW y \in S PROVE x >= y
  <2>1. n - y \in T /\ n - y \in Nat /\ t \in Nat
    BY <1>3, <1>4
  <2>2. <<n - y, t>> \in Nat \X Nat
    BY <2>1
  <2>3. ~ (n - y < t)
    BY <1>5, <2>1, <2>2 DEF less
  <2> QED BY <1>6, <2>3
<1> QED BY <1>7 DEF Max

\* The innermost statement of some kinds has no other of them inside it.
LEMMA InnermostFrame ==
    ASSUME NEW F \in Seq(FrameType), NEW kinds, NEW S, S = {k \in 1..Len(F) : F[k].kind \in kinds}, S # {}
    PROVE  \E k \in 1..Len(F) : k = Max(S) /\ F[k].kind \in kinds /\ Clear(F, kinds, k, Len(F) + 1)
<1>1. Len(F) \in Nat /\ S \subseteq 1..Len(F)
  OBVIOUS
<1>2. Max(S) \in S /\ \A y \in S : Max(S) >= y
  BY <1>1, MaxProperty
<1>3. PICK k \in 1..Len(F) : k = Max(S) /\ F[k].kind \in kinds
  BY <1>2
<1>4. ASSUME NEW i \in k + 1..Len(F) + 1 - 1 PROVE F[i].kind \notin kinds
  <2>1. i \in 1..Len(F) /\ ~ (k >= i)
    BY <1>1, <1>4
  <2> QED BY <1>2, <1>3, <2>1
<1>5. Clear(F, kinds, k, Len(F) + 1)
  BY <1>4 DEF Clear
<1> QED BY <1>3, <1>5

\* There is one innermost statement.
LEMMA InnermostOnly ==
    ASSUME NEW F \in Seq(FrameType), NEW kinds, NEW k \in 1..Len(F), F[k].kind \in kinds,
           Clear(F, kinds, k, Len(F) + 1)
    PROVE  /\ \A n \in 1..Len(F) : F[n].kind \in kinds /\ Clear(F, kinds, n, Len(F) + 1) => n = k
           /\ \A n \in 1..Len(F) : F[n].kind \in kinds => n <= k
           /\ ~ Clear(F, kinds, 0, Len(F) + 1)
<1>1. Len(F) \in Nat
  OBVIOUS
<1>2. ASSUME NEW n \in 1..Len(F), F[n].kind \in kinds PROVE n <= k
  BY <1>1, <1>2 DEF Clear
<1>3. ASSUME NEW n \in 1..Len(F), F[n].kind \in kinds, Clear(F, kinds, n, Len(F) + 1) PROVE n = k
  <2>1. n <= k
    BY <1>2, <1>3
  <2>2. k <= n
    BY <1>1, <1>3 DEF Clear
  <2> QED BY <2>1, <2>2
<1>4. ~ Clear(F, kinds, 0, Len(F) + 1)
  BY <1>1 DEF Clear
<1> QED BY <1>2, <1>3, <1>4

\* A break goes in front of the breaks of the innermost loop or switch.
LEMMA BreakLinked ==
    ASSUME NEW F \in Seq(FrameType), NEW J, J \subseteq JumpType, NEW M, NEW top \in Nat, Remembered(F, J, M, top),
           NEW mem \in Seq(CellType), NEW mem2, NEW P, P = {}, Emitted(mem, mem2, P), Placed(mem, J, top),
           NEW head \in Nat, NEW c \in Nat, c = Len(mem) + 1, Get(mem2, c) = head,
           NEW k \in 1..Len(F), F[k].kind \in Breakable, Clear(F, Breakable, k, Len(F) + 1),
           NEW st, st # "break", NEW st2, BreakChains(F, J, mem, head, st)
    PROVE  BreakChains(F, J \cup {Jump(c, EndOf(F[k]))}, mem2, c, st2)
<1> DEFINE J2 == J \cup {Jump(c, EndOf(F[k]))}
<1>1. Len(F) \in Nat /\ Len(mem) \in Nat
  OBVIOUS
<1>2. /\ \A n \in 1..Len(F) : F[n].kind \in Breakable /\ Clear(F, Breakable, n, Len(F) + 1) => n = k
      /\ \A n \in 1..Len(F) : F[n].kind \in Breakable => n <= k
      /\ ~ Clear(F, Breakable, 0, Len(F) + 1)
  BY InnermostOnly
<1>3. PICK S : S = Operands(J, EndOf(F[k]))
  OBVIOUS
<1>4. S \subseteq Nat /\ \A d \in S : d \in 7..Len(mem) - 1
  BY <1>3, OperandsPlace
<1>5. Operands(J2, EndOf(F[k])) = S \cup {c}
  BY <1>3, OperandsGrow, SMTT(30)
<1>6. Chain(mem, S, head, 0) /\ Whole(S, head)
  <2>1. Chain(mem, S, head, 0) /\ \A d \in S : ~ (d > head)
    BY <1>3 DEF BreakChains
  <2>2. \A d \in S : d <= head
    BY <1>4, <2>1
  <2> QED BY <2>1, <2>2 DEF Whole
<1>7. ASSUME NEW d \in S PROVE Get(mem2, d) = Get(mem, d) /\ d < c
  <2>1. d \in 0..Len(mem) - 1 /\ d \notin P
    BY <1>1, <1>4
  <2>2. Get(mem2, d) = Get(mem, d)
    BY <2>1, GetKept
  <2> QED BY <1>1, <1>4, <2>2
<1>a. 0 \in Nat /\ 0 < c
  BY <1>1
<1>8. Chain(mem2, S \cup {c}, c, 0) /\ Whole(S \cup {c}, c)
  BY <1>4, <1>6, <1>7, <1>a, ChainGrown
<1>9. ASSUME NEW i \in 1..Len(F), F[i].kind \in Breakable, i # k PROVE Untouched(J, J2, mem, mem2, EndOf(F[i]))
  <2>1. F[i].id # F[k].id
    BY <1>9, FramesApart
  <2>2. EndOf(F[k]) # EndOf(F[i])
    BY <2>1, LabelParts DEF EndOf
  <2>3. J \subseteq J2 /\ \A j \in J2 : j \in J \/ j.label # EndOf(F[i])
    BY <2>2, JumpParts
  <2>4. \A j \in J : j.cell \in P => j.label # EndOf(F[i])
    OBVIOUS
  <2> HIDE DEF J2
  <2> QED BY <2>3, <2>4, UntouchedBy
<1> HIDE DEF J2
<1>10. ASSUME NEW i \in 1..Len(F), F[i].kind \in Breakable, Clear(F, Breakable, i, Len(F) + 1)
       PROVE  /\ Chain(mem2, Operands(J2, EndOf(F[i])), c, 0)
              /\ \A d \in Operands(J2, EndOf(F[i])) : d > c => i = Len(F) /\ st2 = "break" /\ Get(mem2, d) = Len(mem2)
  <2>1. i = k
    BY <1>2, <1>10
  <2>2. \A d \in S \cup {c} : ~ (d > c)
    BY <1>1, <1>4
  <2> QED BY <1>5, <1>8, <2>1, <2>2
<1>11. ASSUME NEW i \in 1..Len(F), NEW n \in 1..Len(F), i < n, {F[i].kind, F[n].kind} \subseteq Breakable,
              Clear(F, Breakable, i, n)
       PROVE  /\ Chain(mem2, Operands(J2, EndOf(F[i])), F[n].old_break, 0)
              /\ Whole(Operands(J2, EndOf(F[i])), F[n].old_break)
  <2>1. n <= k
    BY <1>2, <1>11
  <2>2. i # k
    BY <1>11, <2>1
  <2>3. Untouched(J, J2, mem, mem2, EndOf(F[i]))
    BY <1>9, <1>11, <2>2
  <2>4. Chain(mem, Operands(J, EndOf(F[i])), F[n].old_break, 0) /\ Whole(Operands(J, EndOf(F[i])), F[n].old_break)
    BY <1>11 DEF BreakChains
  <2>5. Chain(mem2, Operands(J, EndOf(F[i])), F[n].old_break, 0)
    BY <2>3, <2>4, ChainKept DEF Untouched
  <2> QED BY <2>3, <2>4, <2>5 DEF Untouched
<1>12. \A n \in 1..Len(F) : F[n].kind \in Breakable /\ Clear(F, Breakable, 0, n) => F[n].old_break = 0
  BY DEF BreakChains
<1>13. BreakChains(F, J2, mem2, c, st2)
  BY <1>2, <1>10, <1>11, <1>12 DEF BreakChains
<1> QED BY <1>13 DEF J2

\* A continue goes in front of the continues of the innermost loop.
LEMMA ContinueLinked ==
    ASSUME NEW F \in Seq(FrameType), NEW J, J \subseteq JumpType, NEW M, NEW top \in Nat, Remembered(F, J, M, top),
           NEW mem \in Seq(CellType), NEW mem2, NEW P, P = {}, Emitted(mem, mem2, P), Placed(mem, J, top),
           Marked(mem, M, top), NEW head \in Nat, NEW c \in Nat, c = Len(mem) + 1, Get(mem2, c) = head,
           NEW k \in 1..Len(F), F[k].kind \in Loops, Clear(F, Loops, k, Len(F) + 1),
           NEW st, st \notin {"cond", "break"}, NEW st2, ContinueChains(F, J, M, mem, head, st)
    PROVE  ContinueChains(F, J \cup {Jump(c, ContinueOf(F[k]))}, M, mem2, c, st2)
<1> DEFINE J2 == J \cup {Jump(c, ContinueOf(F[k]))}
<1>1. Len(F) \in Nat /\ Len(mem) \in Nat
  OBVIOUS
<1>2. /\ \A n \in 1..Len(F) : F[n].kind \in Loops /\ Clear(F, Loops, n, Len(F) + 1) => n = k
      /\ \A n \in 1..Len(F) : F[n].kind \in Loops => n <= k
      /\ ~ Clear(F, Loops, 0, Len(F) + 1)
  BY InnermostOnly
<1>3. PICK S : S = Operands(J, ContinueOf(F[k]))
  OBVIOUS
<1>4. S \subseteq Nat /\ \A d \in S : d \in 7..Len(mem) - 1
  BY <1>3, OperandsPlace
<1>5. Operands(J2, ContinueOf(F[k])) = S \cup {c}
  <2>1. PICK l : l = ContinueOf(F[k])
    OBVIOUS
  <2>2. Operands(J \cup {Jump(c, l)}, l) = Operands(J, l) \cup {c}
    BY JumpParts, SMTT(30) DEF Operands
  <2> QED BY <1>3, <2>1, <2>2
<1>6. Chain(mem, S, head, BaseOf(F[k])) /\ Whole(S, head)
  <2>1. Chain(mem, S, head, BaseOf(F[k])) /\ \A d \in S : ~ (d > head)
    BY <1>3 DEF ContinueChains
  <2>2. \A d \in S : d <= head
    BY <1>4, <2>1
  <2> QED BY <2>1, <2>2 DEF Whole
<1>7. ASSUME NEW d \in S PROVE Get(mem2, d) = Get(mem, d) /\ d < c
  <2>1. d \in 0..Len(mem) - 1 /\ d \notin P
    BY <1>1, <1>4
  <2>2. Get(mem2, d) = Get(mem, d)
    BY <2>1, GetKept
  <2> QED BY <1>1, <1>4, <2>2
<1>a. BaseOf(F[k]) \in Nat /\ BaseOf(F[k]) < c
  <2>1. CASE F[k].kind = "while"
    <3>1. Mark(ContinueOf(F[k]), F[k].addr) \in M
      BY <2>1 DEF Remembered
    <3>2. F[k].addr \in 7..Len(mem)
      BY <3>1, JumpParts DEF Marked, Landing
    <3> QED BY <1>1, <2>1, <3>2 DEF BaseOf
  <2>2. CASE F[k].kind # "while"
    BY <1>1, <2>2 DEF BaseOf
  <2> QED BY <2>1, <2>2
<1>8. Chain(mem2, S \cup {c}, c, BaseOf(F[k])) /\ Whole(S \cup {c}, c)
  BY <1>1, <1>4, <1>6, <1>7, <1>a, ChainGrown
<1>9. ASSUME NEW i \in 1..Len(F), F[i].kind \in Loops, i # k PROVE Untouched(J, J2, mem, mem2, ContinueOf(F[i]))
  <2>1. F[i].id # F[k].id
    BY <1>9, FramesApart
  <2>2. ContinueOf(F[k]) # ContinueOf(F[i])
    BY <2>1, LabelParts DEF ContinueOf
  <2>3. J \subseteq J2 /\ \A j \in J2 : j \in J \/ j.label # ContinueOf(F[i])
    BY <2>2, JumpParts
  <2>4. \A j \in J : j.cell \in P => j.label # ContinueOf(F[i])
    OBVIOUS
  <2> HIDE DEF J2
  <2> QED BY <2>3, <2>4, UntouchedBy
<1> HIDE DEF J2
<1>10. ASSUME NEW i \in 1..Len(F), F[i].kind \in Loops, Clear(F, Loops, i, Len(F) + 1)
       PROVE  /\ Chain(mem2, Operands(J2, ContinueOf(F[i])), c, BaseOf(F[i]))
              /\ \A d \in Operands(J2, ContinueOf(F[i])) : d > c =>
                    i = Len(F) /\ st2 \in {"cond", "break"} /\ Settled(mem2, M, Jump(d, ContinueOf(F[i])))
  <2>1. i = k
    BY <1>2, <1>10
  <2>2. \A d \in S \cup {c} : ~ (d > c)
    BY <1>1, <1>4
  <2> QED BY <1>5, <1>8, <2>1, <2>2
<1>11. ASSUME NEW i \in 1..Len(F), NEW n \in 1..Len(F), i < n, {F[i].kind, F[n].kind} \subseteq Loops,
              Clear(F, Loops, i, n)
       PROVE  /\ Chain(mem2, Operands(J2, ContinueOf(F[i])), F[n].old_cond, BaseOf(F[i]))
              /\ Whole(Operands(J2, ContinueOf(F[i])), F[n].old_cond)
  <2>1. n <= k
    BY <1>2, <1>11
  <2>2. i # k
    BY <1>11, <2>1
  <2>3. Untouched(J, J2, mem, mem2, ContinueOf(F[i]))
    BY <1>9, <1>11, <2>2
  <2>4. /\ Chain(mem, Operands(J, ContinueOf(F[i])), F[n].old_cond, BaseOf(F[i]))
        /\ Whole(Operands(J, ContinueOf(F[i])), F[n].old_cond)
    BY <1>11 DEF ContinueChains
  <2>5. Chain(mem2, Operands(J, ContinueOf(F[i])), F[n].old_cond, BaseOf(F[i]))
    BY <2>3, <2>4, ChainKept DEF Untouched
  <2> QED BY <2>3, <2>4, <2>5 DEF Untouched
<1>12. \A n \in 1..Len(F) : F[n].kind \in Loops /\ Clear(F, Loops, 0, n) => F[n].old_cond = 0
  BY DEF ContinueChains
<1>13. ContinueChains(F, J2, M, mem2, c, st2)
  BY <1>2, <1>10, <1>11, <1>12 DEF ContinueChains
<1> QED BY <1>13 DEF J2

\* mem2 is mem with a jump at its end, whose operand is x.
JumpAdded(mem, mem2, c, x) ==
    /\ Emitted(mem, mem2, {}) /\ NewCode(mem, mem2, {c})
    /\ Len(mem2) = Len(mem) + 2 /\ c = Len(mem) + 1
    /\ Get(mem2, c) = x /\ mem2[c + 1].kind = "arg"

\* A jump is emitted.
LEMMA JumpEmitted ==
    ASSUME NEW mem \in Seq(CellType), Len(mem) >= 7, NEW x \in Int, NEW mem2, mem2 = mem \o <<Code("b"), Arg(x)>>
    PROVE  \E c \in Nat : JumpAdded(mem, mem2, c, x)
<1>1. PICK code : code = <<Code("b"), Arg(x)>>
  OBVIOUS
<1>2. PICK N \in Nat : N = Len(mem)
  OBVIOUS
<1>3. PICK c \in Nat : c = N + 1
  OBVIOUS
<1>4. GoodCode(code, Len(mem), {c}) /\ Len(code) = 2 /\ code[2] = Arg(x)
  BY <1>1, <1>2, <1>3, JumpGood
<1>5. /\ Emitted(mem, mem \o code, {}) /\ NewCode(mem, mem \o code, {c})
      /\ Len(mem \o code) = Len(mem) + Len(code) /\ \A i \in 1..Len(code) : (mem \o code)[Len(mem) + i] = code[i]
  BY <1>4, GoodCodeEmitted
<1>6. mem2 = mem \o code
  BY <1>1
<1>7. /\ Emitted(mem, mem2, {}) /\ NewCode(mem, mem2, {c}) /\ Len(mem2) = Len(mem) + 2
      /\ mem2[c + 1] = Arg(x)
  <2>1. c + 1 = Len(mem) + 2 /\ 2 \in 1..Len(code)
    BY <1>2, <1>3, <1>4
  <2> QED BY <1>4, <1>5, <1>6, <2>1
<1>8. Get(mem2, c) = x /\ mem2[c + 1].kind = "arg"
  BY <1>7, CellTypes, ZenonT(40) DEF Get
<1> QED BY <1>2, <1>3, <1>7, <1>8 DEF JumpAdded

\* The invariant, the chains apart.
Unchained(F, J, M, mem, top, case, st) ==
    /\ J \subseteq JumpType /\ Placed(mem, J, top) /\ Marked(mem, M, top) /\ Coded(mem, J)
    /\ CaseTests(F, J, case) /\ Remembered(F, J, M, top) /\ Accounted(F, J, M, mem, st)

\* A break or continue of statement k keeps the invariant, the chains apart.
LEMMA LeaveKept ==
    ASSUME NEW F \in Seq(FrameType), NEW J, J \subseteq JumpType, NEW M, M \subseteq MarkType,
           NEW mem \in Seq(CellType), Len(mem) >= 7, NEW mem2, NEW top \in Nat, NEW case,
           Placed(mem, J, top), Marked(mem, M, top), Coded(mem, J), CaseTests(F, J, case),
           Remembered(F, J, M, top), Accounted(F, J, M, mem, "stmt"),
           NEW c \in Nat, NEW x \in Int, JumpAdded(mem, mem2, c, x),
           NEW k \in 1..Len(F), NEW l \in LabelType, l \in {EndOf(F[k]), ContinueOf(F[k])},
           Owes(F, k, Jump(c, l), "next"), NEW J2, J2 = J \cup {Jump(c, l)}, NEW top2 \in Nat, top2 = top + 1
    PROVE  Unchained(F, J2, M, mem2, top2, case, "next")
<1>2. Len(mem) \in Nat /\ Len(F) \in Nat /\ top <= top2
  OBVIOUS
<1>6. /\ Emitted(mem, mem2, {}) /\ NewCode(mem, mem2, {c}) /\ Len(mem2) = Len(mem) + 2
      /\ c = Len(mem) + 1 /\ mem2[c + 1].kind = "arg"
  BY DEF JumpAdded
<1>8. Jump(c, l).cell = c /\ Jump(c, l).label = l /\ Jump(c, l) \in JumpType
  BY JumpParts DEF Jump, JumpType
<1>9. F[k].id <= top /\ l.id = F[k].id /\ l.what # "label"
  BY <1>2, LabelParts DEF Remembered, EndOf, ContinueOf
<1>10. J2 \subseteq JumpType /\ J \subseteq J2 /\ M \subseteq M /\ \A j \in J2 : j \in J \/ j = Jump(c, l)
  BY <1>8
<1>11. PICK P : P = {} /\ Emitted(mem, mem2, P) /\ \A y : y \notin P
  BY <1>6
<1>12. Placed(mem2, J2, top2)
  <2>1. F[k].id \in Nat
    <3>1. F[k] \in FrameType
      OBVIOUS
    <3> QED BY <3>1 DEF FrameType
  <2>2. c \in Len(mem)..Len(mem2) - 1 /\ l.id <= top2
    BY <1>2, <1>6, <1>9, <2>1
  <2> QED BY <1>2, <1>6, <1>11, <2>2, PlacedMore
<1>13. Patchable(J, P)
  BY <1>11 DEF Patchable
<1>14. Marked(mem2, M, top2)
  <2>1. Marked(mem2, M \cup {}, top2)
    BY <1>2, <1>11, <1>13, MarkedKept
  <2> QED BY <2>1
<1>15. Coded(mem2, J2)
  <2>1. \A y \in {c} : \E j \in J2 : j.cell = y
    BY <1>8
  <2> QED BY <1>6, <1>10, <1>11, <1>13, <2>1, CodedKept
<1>16. \A j \in J2 : j \in J \/ j.label.what # "label"
  BY <1>8, <1>9, <1>10
<1>17. CaseTests(F, J2, case)
  BY <1>10, <1>16, SameStack, TestsKept
<1>18. Remembered(F, J2, M, top2)
  <2>1. Len(F) <= Len(F) /\ \A n \in 1..Len(F) : F[n] = F[n]
    BY <1>2
  <2>2. \A m \in M : m \in M \/ \A n \in 1..Len(F) : F[n].kind = "if" => m.label # Label(F[n].id, "else", 0)
    OBVIOUS
  <2> QED BY <1>2, <1>10, <1>16, <2>1, <2>2, RememberedSame
<1>19. Accounted(F, J2, M, mem2, "next")
  <2>1. ASSUME NEW j \in J, NEW n \in 1..Len(F), Owes(F, n, j, "stmt") PROVE Answered(F, M, mem2, "next", j)
    <3>1. Owes(F, n, j, "next")
      BY <2>1 DEF Owes
    <3> QED BY <3>1 DEF Answered
  <2>2. Answered(F, M, mem2, "next", Jump(c, l))
    BY DEF Answered
  <2>3. M \subseteq M /\ \A j \in J : j.cell \in P => Answered(F, M, mem2, "next", j)
    BY <1>11
  <2>4. \A j \in J2 : j \in J \/ Answered(F, M, mem2, "next", j)
    BY <1>10, <2>2
  <2> QED BY <1>11, <2>1, <2>3, <2>4, AccountedKept
<1> QED BY <1>10, <1>12, <1>14, <1>15, <1>17, <1>18, <1>19 DEF Unchained

\* A break.
LEMMA BreakStep ==
    ASSUME JumpsInv, emit_break_statement
    PROVE  JumpsInv'
<1>a. /\ memory \in Seq(CellType) /\ Len(memory) >= 7 /\ Len(memory) \in Nat
      /\ frames \in Seq(FrameType) /\ Len(frames) \in Nat /\ opened \in Nat
      /\ jumps \subseteq JumpType /\ marks \subseteq MarkType
      /\ addr_cond \in Nat /\ addr_case \in Nat /\ addr_break \in Nat
  BY DEF JumpsInv, TypeInv
<1>b. /\ Phase(frames, marks, memory, addr_cond, todo) /\ Placed(memory, jumps, opened) /\ Marked(memory, marks, opened)
      /\ Coded(memory, jumps)
  BY DEF JumpsInv, Sound
<1>c. /\ BreakChains(frames, jumps, memory, addr_break, todo)
      /\ ContinueChains(frames, jumps, marks, memory, addr_cond, todo)
      /\ CaseTests(frames, jumps, addr_case)
  BY DEF JumpsInv, Sound
<1>d. Remembered(frames, jumps, marks, opened) /\ Accounted(frames, jumps, marks, memory, todo)
  BY DEF JumpsInv, Sound
<1>1. /\ todo = "stmt" /\ todo' = "next" /\ opened' = opened + 1 /\ opened' \in Nat /\ frames' = frames
      /\ addr_cond' = addr_cond /\ addr_case' = addr_case /\ marks' = marks
      /\ displ' = displ /\ max_local_displ' = max_local_displ
  BY <1>a DEF emit_break_statement, Simple, Begin
<1>2. addr_break \in Int /\ memory' = memory \o <<Code("b"), Arg(addr_break)>>
  BY <1>a DEF emit_break_statement
<1>3. PICK c \in Nat : JumpAdded(memory, memory', c, addr_break)
  BY <1>a, <1>2, JumpEmitted
<1>4. PICK S : S = {i \in 1..Len(frames) : frames[i].kind \in Breakable}
  OBVIOUS
<1>5. S = Enclosing(Breakable) /\ S # {}
  <2>1. S = Enclosing(Breakable)
    BY <1>4 DEF Enclosing, Depth
  <2>2. Enclosing(Loops) # {} \/ Enclosing({"switch"}) # {}
    BY DEF emit_break_statement, InLoop, InSwitch
  <2>3. Enclosing(Loops) \subseteq S /\ Enclosing({"switch"}) \subseteq S
    BY <1>4 DEF Enclosing, Depth, Breakable
  <2> QED BY <2>1, <2>2, <2>3
<1>6. PICK k \in 1..Len(frames) : k = Max(S) /\ frames[k].kind \in Breakable /\ Clear(frames, Breakable, k, Len(frames) + 1)
  BY <1>a, <1>4, <1>5, InnermostFrame
<1>7. frames[k] \in FrameType /\ frames[k].id \in Nat
  <2>1. frames[k] \in FrameType
    BY <1>a
  <2> QED BY <2>1 DEF FrameType
<1>8. PICK l \in LabelType : l = EndOf(frames[k]) /\ l = Label(frames[k].id, "end", 0)
  BY <1>7, LabelTyped DEF EndOf, Whats
<1>9. c = Len(memory) + 1 /\ Get(memory', c) = addr_break /\ Emitted(memory, memory', {})
  BY <1>3 DEF JumpAdded
<1>10. jumps' = jumps \cup {Jump(c, l)} /\ addr_break' = c
  <2>1. Innermost(Loops \cup {"switch"}) = frames[k]
    BY <1>5, <1>6 DEF Innermost, Breakable
  <2> QED BY <1>8, <1>9, <2>1 DEF emit_break_statement, mem_size
<1>11. Owes(frames, k, Jump(c, l), "next")
  BY <1>6, <1>8, JumpParts DEF Owes
<1>12. /\ jumps' \subseteq JumpType /\ Placed(memory', jumps', opened') /\ Marked(memory', marks, opened')
       /\ Coded(memory', jumps') /\ CaseTests(frames, jumps', addr_case)
       /\ Remembered(frames, jumps', marks, opened') /\ Accounted(frames, jumps', marks, memory', "next")
  <2>1. l \in {EndOf(frames[k]), ContinueOf(frames[k])} /\ Accounted(frames, jumps, marks, memory, "stmt")
    BY <1>d, <1>1, <1>8
  <2>2. Unchained(frames, jumps', marks, memory', opened', addr_case, "next")
    BY <1>a, <1>b, <1>c, <1>d, <1>1, <1>2, <1>3, <1>10, <1>11, <2>1, LeaveKept
  <2> QED BY <2>2 DEF Unchained
<1>13. PICK P : P = {} /\ Emitted(memory, memory', P) /\ \A x : x \notin P
  BY <1>9
<1>14. BreakChains(frames, jumps', memory', c, "next")
  <2>1. todo # "break"
    BY <1>1
  <2>2. BreakChains(frames, jumps \cup {Jump(c, EndOf(frames[k]))}, memory', c, "next")
    BY <1>a, <1>b, <1>c, <1>d, <1>6, <1>9, <1>13, <2>1, BreakLinked
  <2> QED BY <1>8, <1>10, <2>2
<1>15. ContinueChains(frames, jumps', marks, memory', addr_cond, "next")
  <2>1. ASSUME NEW i \in 1..Len(frames) PROVE Untouched(jumps, jumps', memory, memory', ContinueOf(frames[i]))
    <3>1. l # ContinueOf(frames[i])
      BY <1>8, LabelParts DEF ContinueOf
    <3>2. jumps \subseteq jumps' /\ \A j \in jumps' : j \in jumps \/ j.label # ContinueOf(frames[i])
      BY <1>10, <3>1, JumpParts
    <3>3. \A j \in jumps : j.cell \in P => j.label # ContinueOf(frames[i])
      BY <1>13
    <3> QED BY <1>a, <1>b, <1>13, <3>2, <3>3, UntouchedBy
  <2>2. SameFrames(frames, frames, Loops) /\ marks \subseteq marks
    BY <1>a, SameStack, SameNarrow DEF Breakable
  <2> QED BY <1>a, <1>c, <1>1, <2>1, <2>2, ContinueChainsKept
<1>16. Phase(frames, marks, memory', addr_cond, todo') /\ Finished(memory', todo')
  BY <1>1 DEF Phase, Finished
<1>17. TypeInv'
  <2>1. memory' \in Seq(CellType) /\ Len(memory') >= 7
    BY <1>a, <1>9 DEF Emitted
  <2> QED BY <1>a, <1>1, <1>10, <1>12, <2>1 DEF JumpsInv, TypeInv
<1> QED BY <1>1, <1>10, <1>12, <1>14, <1>15, <1>16, <1>17 DEF JumpsInv, Sound

\* A continue.
LEMMA ContinueStep ==
    ASSUME JumpsInv, emit_continue_statement
    PROVE  JumpsInv'
<1>a. /\ memory \in Seq(CellType) /\ Len(memory) >= 7 /\ Len(memory) \in Nat
      /\ frames \in Seq(FrameType) /\ Len(frames) \in Nat /\ opened \in Nat
      /\ jumps \subseteq JumpType /\ marks \subseteq MarkType
      /\ addr_cond \in Nat /\ addr_case \in Nat /\ addr_break \in Nat
  BY DEF JumpsInv, TypeInv
<1>b. /\ Phase(frames, marks, memory, addr_cond, todo) /\ Placed(memory, jumps, opened) /\ Marked(memory, marks, opened)
      /\ Coded(memory, jumps)
  BY DEF JumpsInv, Sound
<1>c. /\ BreakChains(frames, jumps, memory, addr_break, todo)
      /\ ContinueChains(frames, jumps, marks, memory, addr_cond, todo)
      /\ CaseTests(frames, jumps, addr_case)
  BY DEF JumpsInv, Sound
<1>d. Remembered(frames, jumps, marks, opened) /\ Accounted(frames, jumps, marks, memory, todo)
  BY DEF JumpsInv, Sound
<1>1. /\ todo = "stmt" /\ todo' = "next" /\ opened' = opened + 1 /\ opened' \in Nat /\ frames' = frames
      /\ addr_break' = addr_break /\ addr_case' = addr_case /\ marks' = marks
      /\ displ' = displ /\ max_local_displ' = max_local_displ
  BY <1>a DEF emit_continue_statement, Simple, Begin
<1>2. addr_cond \in Int /\ memory' = memory \o <<Code("b"), Arg(addr_cond)>>
  BY <1>a DEF emit_continue_statement
<1>3. PICK c \in Nat : JumpAdded(memory, memory', c, addr_cond)
  BY <1>a, <1>2, JumpEmitted
<1>4. PICK S : S = {i \in 1..Len(frames) : frames[i].kind \in Loops}
  OBVIOUS
<1>5. S = Enclosing(Loops) /\ S # {}
  BY <1>4 DEF Enclosing, Depth, emit_continue_statement, InLoop
<1>6. PICK k \in 1..Len(frames) : k = Max(S) /\ frames[k].kind \in Loops /\ Clear(frames, Loops, k, Len(frames) + 1)
  BY <1>a, <1>4, <1>5, InnermostFrame
<1>7. frames[k] \in FrameType /\ frames[k].id \in Nat
  <2>1. frames[k] \in FrameType
    BY <1>a
  <2> QED BY <2>1 DEF FrameType
<1>8. PICK l \in LabelType : l = ContinueOf(frames[k]) /\ l = Label(frames[k].id, "continue", 0)
  BY <1>7, LabelTyped DEF ContinueOf, Whats
<1>9. c = Len(memory) + 1 /\ Get(memory', c) = addr_cond /\ Emitted(memory, memory', {})
  BY <1>3 DEF JumpAdded
<1>10. jumps' = jumps \cup {Jump(c, l)} /\ addr_cond' = c
  <2>1. Innermost(Loops) = frames[k]
    BY <1>5, <1>6 DEF Innermost
  <2> QED BY <1>8, <1>9, <2>1 DEF emit_continue_statement, mem_size
<1>11. Owes(frames, k, Jump(c, l), "next")
  BY <1>6, <1>8, JumpParts DEF Owes
<1>12. /\ jumps' \subseteq JumpType /\ Placed(memory', jumps', opened') /\ Marked(memory', marks, opened')
       /\ Coded(memory', jumps') /\ CaseTests(frames, jumps', addr_case)
       /\ Remembered(frames, jumps', marks, opened') /\ Accounted(frames, jumps', marks, memory', "next")
  <2>1. l \in {EndOf(frames[k]), ContinueOf(frames[k])} /\ Accounted(frames, jumps, marks, memory, "stmt")
    BY <1>d, <1>1, <1>8
  <2>2. Unchained(frames, jumps', marks, memory', opened', addr_case, "next")
    BY <1>a, <1>b, <1>c, <1>d, <1>1, <1>2, <1>3, <1>10, <1>11, <2>1, LeaveKept
  <2> QED BY <2>2 DEF Unchained
<1>13. PICK P : P = {} /\ Emitted(memory, memory', P) /\ \A x : x \notin P
  BY <1>9
<1>14. ContinueChains(frames, jumps', marks, memory', c, "next")
  <2>1. todo \notin {"cond", "break"}
    BY <1>1
  <2>2. ContinueChains(frames, jumps \cup {Jump(c, ContinueOf(frames[k]))}, marks, memory', c, "next")
    BY <1>a, <1>b, <1>c, <1>d, <1>6, <1>9, <1>13, <2>1, ContinueLinked
  <2> QED BY <1>8, <1>10, <2>2
<1>15. BreakChains(frames, jumps', memory', addr_break, "next")
  <2>1. ASSUME NEW i \in 1..Len(frames) PROVE Untouched(jumps, jumps', memory, memory', EndOf(frames[i]))
    <3>1. l # EndOf(frames[i])
      BY <1>8, LabelParts DEF EndOf
    <3>2. jumps \subseteq jumps' /\ \A j \in jumps' : j \in jumps \/ j.label # EndOf(frames[i])
      BY <1>10, <3>1, JumpParts
    <3>3. \A j \in jumps : j.cell \in P => j.label # EndOf(frames[i])
      BY <1>13
    <3> QED BY <1>a, <1>b, <1>13, <3>2, <3>3, UntouchedBy
  <2>2. SameFrames(frames, frames, Breakable)
    BY <1>a, SameStack
  <2> QED BY <1>a, <1>c, <1>1, <2>1, <2>2, BreakChainsKept
<1>16. Phase(frames, marks, memory', addr_cond', todo') /\ Finished(memory', todo')
  BY <1>1 DEF Phase, Finished
<1>17. TypeInv'
  <2>1. memory' \in Seq(CellType) /\ Len(memory') >= 7
    BY <1>a, <1>9 DEF Emitted
  <2> QED BY <1>a, <1>1, <1>10, <1>12, <2>1 DEF JumpsInv, TypeInv
<1> QED BY <1>1, <1>10, <1>12, <1>14, <1>15, <1>16, <1>17 DEF JumpsInv, Sound

-----------------------------------------------------------------------------
(* The steps: the beginning of a switch or loop *)

\* F2 is F with frame f on it.
Pushed(F, F2, f) ==
    /\ F2 = Append(F, f) /\ F2 \in Seq(FrameType) /\ Len(F2) = Len(F) + 1 /\ F2[Len(F) + 1] = f
    /\ \A k \in 1..Len(F) : F2[k] = F[k]

\* What is between two frames when another one of these kinds is pushed.
LEMMA ClearPushed ==
    ASSUME NEW F \in Seq(FrameType), NEW F2, NEW f, Pushed(F, F2, f), NEW kinds, f.kind \in kinds, NEW k \in Nat
    PROVE  /\ \A n \in 1..Len(F) + 1 : Clear(F2, kinds, k, n) => Clear(F, kinds, k, n)
           /\ k <= Len(F) => ~ Clear(F2, kinds, k, Len(F2) + 1)
<1>1. /\ Len(F) \in Nat /\ Len(F2) = Len(F) + 1 /\ F2[Len(F) + 1] = f
      /\ \A i \in 1..Len(F) : F2[i] = F[i]
  BY DEF Pushed
<1>2. ASSUME NEW n \in 1..Len(F) + 1, Clear(F2, kinds, k, n), NEW i \in k + 1..n - 1 PROVE F[i].kind \notin kinds
  <2>1. i \in 1..Len(F)
    BY <1>1
  <2>2. F2[i].kind \notin kinds
    BY <1>2 DEF Clear
  <2> QED BY <1>1, <2>1, <2>2
<1>3. ASSUME k <= Len(F), Clear(F2, kinds, k, Len(F2) + 1) PROVE FALSE
  <2>1. Len(F) + 1 \in k + 1..Len(F2) + 1 - 1
    BY <1>1, <1>3
  <2>2. F2[Len(F) + 1].kind \notin kinds
    BY <1>3, <2>1 DEF Clear
  <2> QED BY <1>1, <2>2
<1> QED BY <1>2, <1>3 DEF Clear

\* The breaks of the statements around a new loop or switch are what it has saved.
LEMMA BreaksPushed ==
    ASSUME NEW F \in Seq(FrameType), NEW f \in FrameType, NEW F2, Pushed(F, F2, f), f.kind \in Breakable,
           NEW J, J \subseteq JumpType, NEW J2, NEW mem \in Seq(CellType), NEW mem2, NEW top, Placed(mem, J, top),
           NEW break \in Nat, f.old_break = break, NEW break2, NEW st, NEW st2, st # "break",
           BreakChains(F, J, mem, break, st),
           \A k \in 1..Len(F) : F[k].kind \in Breakable => Untouched(J, J2, mem, mem2, EndOf(F[k])),
           Chain(mem2, Operands(J2, EndOf(f)), break2, 0), \A c \in Operands(J2, EndOf(f)) : ~ (c > break2)
    PROVE  BreakChains(F2, J2, mem2, break2, st2)
<1>1. /\ Len(F) \in Nat /\ Len(F2) \in Nat /\ Len(F2) = Len(F) + 1 /\ F2[Len(F) + 1] = f
      /\ \A k \in 1..Len(F) : F2[k] = F[k]
  BY DEF Pushed
<1>2. ASSUME NEW k \in 1..Len(F2), F2[k].kind \in Breakable, Clear(F2, Breakable, k, Len(F2) + 1)
      PROVE  /\ Chain(mem2, Operands(J2, EndOf(F2[k])), break2, 0)
             /\ \A c \in Operands(J2, EndOf(F2[k])) : c > break2 =>
                   k = Len(F2) /\ st2 = "break" /\ Get(mem2, c) = Len(mem2)
  <2>1. k \in Nat /\ ~ (k <= Len(F))
    BY <1>1, <1>2, ClearPushed, SMTT(30)
  <2>2. F2[k] = f
    BY <1>1, <2>1
  <2> QED BY <2>2
<1>3. ASSUME NEW k \in 1..Len(F2), NEW n \in 1..Len(F2), k < n, {F2[k].kind, F2[n].kind} \subseteq Breakable,
             Clear(F2, Breakable, k, n)
      PROVE  /\ Chain(mem2, Operands(J2, EndOf(F2[k])), F2[n].old_break, 0)
             /\ Whole(Operands(J2, EndOf(F2[k])), F2[n].old_break)
  <2>1. k \in 1..Len(F) /\ F2[k] = F[k] /\ F[k].kind \in Breakable /\ k \in Nat /\ n \in 1..Len(F) + 1
    BY <1>1, <1>3
  <2>2. Clear(F, Breakable, k, n)
    BY <1>3, <2>1, ClearPushed
  <2>3. PICK S : S = Operands(J, EndOf(F[k]))
    OBVIOUS
  <2>4. S \subseteq Nat
    BY <2>3, OperandsPlace
  <2>5. Chain(mem, S, F2[n].old_break, 0) /\ Whole(S, F2[n].old_break)
    <3>1. CASE n \in 1..Len(F)
      <4>1. F2[n] = F[n]
        BY <1>1, <3>1
      <4> QED BY <1>3, <2>1, <2>2, <2>3, <3>1, <4>1 DEF BreakChains
    <3>2. CASE n = Len(F) + 1
      <4>1. Chain(mem, S, break, 0) /\ \A c \in S : ~ (c > break)
        BY <2>1, <2>2, <2>3, <3>2 DEF BreakChains
      <4>2. F2[n].old_break = break
        BY <1>1, <3>2
      <4>3. \A c \in S : c <= break
        BY <2>4, <4>1
      <4>4. Whole(S, break)
        BY <4>3 DEF Whole
      <4> QED BY <4>1, <4>2, <4>4
    <3>3. n \in 1..Len(F) \/ n = Len(F) + 1
      BY <1>1, <2>1, SMTT(30)
    <3> QED BY <3>1, <3>2, <3>3
  <2>6. Untouched(J, J2, mem, mem2, EndOf(F[k]))
    BY <2>1
  <2>7. Chain(mem2, S, F2[n].old_break, 0)
    BY <2>3, <2>5, <2>6, ChainKept DEF Untouched
  <2> QED BY <2>1, <2>3, <2>5, <2>6, <2>7 DEF Untouched
<1>4. ~ Clear(F2, Breakable, 0, Len(F2) + 1)
  BY <1>1, ClearPushed
<1>5. ASSUME NEW n \in 1..Len(F2), F2[n].kind \in Breakable, Clear(F2, Breakable, 0, n) PROVE F2[n].old_break = 0
  <2>1. Clear(F, Breakable, 0, n)
    BY <1>1, <1>5, ClearPushed
  <2>2. CASE n \in 1..Len(F)
    BY <1>1, <1>5, <2>1, <2>2 DEF BreakChains
  <2>3. CASE n = Len(F) + 1
    BY <1>1, <2>1, <2>3 DEF BreakChains
  <2> QED BY <1>1, <2>2, <2>3
<1> QED BY <1>2, <1>3, <1>4, <1>5 DEF BreakChains

\* Loop f is pushed, which has no continues yet; those of the others are untouched.
LoopPushed(F, f, F2, J, J2, mem, mem2, cond, head) ==
    /\ F \in Seq(FrameType) /\ f \in FrameType /\ Pushed(F, F2, f) /\ f.kind \in Loops
    /\ f.old_cond = cond /\ cond \in Nat /\ head = BaseOf(f)
    /\ \A k \in 1..Len(F) : F[k].kind \in Loops => Untouched(J, J2, mem, mem2, ContinueOf(F[k]))
    /\ Operands(J2, ContinueOf(f)) = {} /\ \A l : Operands(J, l) \subseteq Nat

\* The continues of the loops around a new loop are what it has saved.
LEMMA ContinuesPushed ==
    ASSUME NEW F, NEW f, NEW F2, NEW J, NEW J2, NEW M, NEW M2, NEW mem, NEW mem2, NEW cond, NEW head, NEW st, NEW st2,
           LoopPushed(F, f, F2, J, J2, mem, mem2, cond, head),
           ContinueChains(F, J, M, mem, cond, st), st # "cond", st # "break"
    PROVE  ContinueChains(F2, J2, M2, mem2, head, st2)
<1>a. /\ F \in Seq(FrameType) /\ f \in FrameType /\ Pushed(F, F2, f) /\ f.kind \in Loops
      /\ f.old_cond = cond /\ cond \in Nat /\ head = BaseOf(f)
      /\ \A k \in 1..Len(F) : F[k].kind \in Loops => Untouched(J, J2, mem, mem2, ContinueOf(F[k]))
      /\ Operands(J2, ContinueOf(f)) = {} /\ \A l : Operands(J, l) \subseteq Nat
  BY DEF LoopPushed
<1>1. /\ Len(F) \in Nat /\ Len(F2) \in Nat /\ Len(F2) = Len(F) + 1 /\ F2[Len(F) + 1] = f
      /\ \A k \in 1..Len(F) : F2[k] = F[k]
  BY <1>a DEF Pushed
<1>2. ASSUME NEW k \in 1..Len(F2), F2[k].kind \in Loops, Clear(F2, Loops, k, Len(F2) + 1)
      PROVE  /\ Chain(mem2, Operands(J2, ContinueOf(F2[k])), head, BaseOf(F2[k]))
             /\ \A c \in Operands(J2, ContinueOf(F2[k])) : c > head =>
                   k = Len(F2) /\ st2 \in {"cond", "break"} /\ Settled(mem2, M2, Jump(c, ContinueOf(F2[k])))
  <2>0. k \in Nat
    BY <1>a, <1>1
  <2>1. ~ (k <= Len(F))
    BY <1>a, <1>2, <2>0, ClearPushed
  <2>2. F2[k] = f
    BY <1>a, <1>1, <2>0, <2>1
  <2> QED BY <1>a, <2>2, ChainEmpty
<1>3. ASSUME NEW k \in 1..Len(F2), NEW n \in 1..Len(F2), k < n, {F2[k].kind, F2[n].kind} \subseteq Loops,
             Clear(F2, Loops, k, n)
      PROVE  /\ Chain(mem2, Operands(J2, ContinueOf(F2[k])), F2[n].old_cond, BaseOf(F2[k]))
             /\ Whole(Operands(J2, ContinueOf(F2[k])), F2[n].old_cond)
  <2>1. k \in 1..Len(F) /\ F2[k] = F[k] /\ F[k].kind \in Loops /\ k \in Nat /\ n \in 1..Len(F) + 1
    BY <1>a, <1>1, <1>3
  <2>2. Clear(F, Loops, k, n)
    BY <1>a, <1>3, <2>1, ClearPushed
  <2>3. PICK S : S = Operands(J, ContinueOf(F[k]))
    OBVIOUS
  <2>4. S \subseteq Nat
    BY <1>a, <2>3
  <2>5. Chain(mem, S, F2[n].old_cond, BaseOf(F[k])) /\ Whole(S, F2[n].old_cond)
    <3>1. CASE n \in 1..Len(F)
      <4>1. F2[n] = F[n]
        BY <1>a, <1>1, <3>1
      <4> QED BY <1>a, <1>3, <2>1, <2>2, <2>3, <3>1, <4>1 DEF ContinueChains
    <3>2. CASE n = Len(F) + 1
      <4>1. Chain(mem, S, cond, BaseOf(F[k])) /\ \A c \in S : ~ (c > cond)
        BY <1>a, <2>1, <2>2, <2>3, <3>2 DEF ContinueChains
      <4>2. F2[n].old_cond = cond
        BY <1>a, <1>1, <3>2
      <4>3. \A c \in S : c <= cond
        BY <1>a, <2>4, <4>1
      <4>4. Whole(S, cond)
        BY <1>a, <4>3 DEF Whole
      <4> QED BY <1>a, <4>1, <4>2, <4>4
    <3>3. n \in 1..Len(F) \/ n = Len(F) + 1
      BY <1>a, <1>1, <2>1
    <3> QED BY <1>a, <3>1, <3>2, <3>3
  <2>6. Untouched(J, J2, mem, mem2, ContinueOf(F[k]))
    BY <1>a, <2>1
  <2>7. Chain(mem2, S, F2[n].old_cond, BaseOf(F[k]))
    BY <1>a, <2>3, <2>5, <2>6, ChainKept DEF Untouched
  <2> QED BY <1>a, <2>1, <2>3, <2>5, <2>6, <2>7 DEF Untouched
<1>4. ~ Clear(F2, Loops, 0, Len(F2) + 1)
  BY <1>a, <1>1, ClearPushed
<1>5. ASSUME NEW n \in 1..Len(F2), F2[n].kind \in Loops, Clear(F2, Loops, 0, n) PROVE F2[n].old_cond = 0
  <2>1. Clear(F, Loops, 0, n)
    BY <1>a, <1>1, <1>5, ClearPushed
  <2>2. CASE n \in 1..Len(F)
    BY <1>a, <1>1, <1>5, <2>1, <2>2 DEF ContinueChains
  <2>3. CASE n = Len(F) + 1
    BY <1>a, <1>1, <2>1, <2>3 DEF ContinueChains
  <2> QED BY <1>a, <1>1, <2>2, <2>3
<1> QED BY <1>a, <1>2, <1>3, <1>4, <1>5 DEF ContinueChains

\* The case test of the switch around a new switch is what it has saved.
LEMMA TestsPushed ==
    ASSUME NEW F \in Seq(FrameType), NEW f \in FrameType, NEW F2, Pushed(F, F2, f), f.kind = "switch",
           NEW J, NEW case, f.old_case = case, CaseTests(F, J, case), Operands(J, NextLabel(f)) = {}
    PROVE  CaseTests(F2, J, 0)
<1>1. /\ Len(F) \in Nat /\ Len(F2) \in Nat /\ Len(F2) = Len(F) + 1 /\ F2[Len(F) + 1] = f
      /\ \A k \in 1..Len(F) : F2[k] = F[k]
  BY DEF Pushed
<1>2. PICK kinds : kinds = {"switch"} /\ f.kind \in kinds
  OBVIOUS
<1>3. ASSUME NEW k \in 1..Len(F2), F2[k].kind = "switch", Clear(F2, kinds, k, Len(F2) + 1)
      PROVE  Operands(J, NextLabel(F2[k])) = {0} \ {0}
  <2>0. k \in Nat
    BY <1>1
  <2>1. ~ (k <= Len(F))
    BY <1>2, <1>3, <2>0, ClearPushed
  <2>2. F2[k] = f
    BY <1>1, <2>0, <2>1
  <2> QED BY <2>2
<1>4. ASSUME NEW k \in 1..Len(F2), NEW n \in 1..Len(F2), k < n, F2[k].kind = "switch", F2[n].kind = "switch",
             Clear(F2, kinds, k, n)
      PROVE  Operands(J, NextLabel(F2[k])) = {F2[n].old_case} \ {0}
  <2>1. k \in 1..Len(F) /\ F2[k] = F[k] /\ k \in Nat /\ n \in 1..Len(F) + 1
    BY <1>1, <1>4
  <2>2. Clear(F, kinds, k, n)
    BY <1>2, <1>4, <2>1, ClearPushed
  <2>3. CASE n \in 1..Len(F)
    <3>1. F2[n] = F[n]
      BY <1>1, <2>3
    <3> QED BY <1>2, <1>4, <2>1, <2>2, <2>3, <3>1 DEF CaseTests
  <2>4. CASE n = Len(F) + 1
    <3>1. Operands(J, NextLabel(F[k])) = {case} \ {0}
      BY <1>2, <1>4, <2>1, <2>2, <2>4 DEF CaseTests
    <3> QED BY <1>1, <2>1, <2>4, <3>1
  <2> QED BY <1>1, <2>1, <2>3, <2>4
<1>5. ~ Clear(F2, kinds, 0, Len(F2) + 1)
  <2>1. 0 \in Nat /\ 0 <= Len(F)
    BY <1>1
  <2> QED BY <1>2, <2>1, ClearPushed
<1>6. ASSUME NEW n \in 1..Len(F2), F2[n].kind = "switch", Clear(F2, kinds, 0, n) PROVE F2[n].old_case = 0
  <2>1. Clear(F, kinds, 0, n)
    BY <1>1, <1>2, <1>6, ClearPushed
  <2>2. CASE n \in 1..Len(F)
    BY <1>1, <1>2, <1>6, <2>1, <2>2 DEF CaseTests
  <2>3. CASE n = Len(F) + 1
    BY <1>1, <1>2, <2>1, <2>3 DEF CaseTests
  <2> QED BY <1>1, <2>2, <2>3
<1> QED BY <1>2, <1>3, <1>4, <1>5, <1>6 DEF CaseTests

\* J2 has besides J at most one jump, out of loop f, whose operand starts its chain.
Entered(f, J, J2, mem, mem2, break2, C) ==
    \/ J2 = J /\ break2 = 0 /\ C = {}
    \/ /\ J2 = J \cup {Jump(break2, EndOf(f))} /\ C = {break2}
       /\ break2 \in Len(mem)..Len(mem2) - 1 /\ mem2[break2 + 1] = Arg(0)

\* The marks of a new loop.
NewMarks(f, M, M2, addr) ==
    /\ M \subseteq M2
    /\ \A m \in M2 \ M : m \in MarkType /\ m.addr = addr /\ m.label.id = f.id /\ m.label.what # "else"

\* What a new loop or switch adds to the jumps.
Entrance(f, J, J2, mem2, top2, break2, C) ==
    /\ J \subseteq J2 /\ J2 \subseteq JumpType /\ Placed(mem2, J2, top2)
    /\ \A j \in J2 : j \in J \/ (j.label = EndOf(f) /\ j.label.id = f.id /\ j.label.what = "end")
    /\ \A c \in C : \E j \in J2 : j.cell = c
    /\ Chain(mem2, Operands(J2, EndOf(f)), break2, 0) /\ \A c \in Operands(J2, EndOf(f)) : ~ (c > break2)

\* The jump out of a new loop is all there is in its chain.
LEMMA EnteredJump ==
    ASSUME NEW f \in FrameType, NEW J, J \subseteq JumpType, NEW J2,
           NEW mem \in Seq(CellType), Len(mem) >= 7, NEW mem2, NEW C, NEW break2 \in Nat,
           NEW top \in Nat, NEW top2 \in Nat, top2 = top + 1, f.id = top2, Placed(mem, J, top),
           NEW P, P = {}, Emitted(mem, mem2, P), Entered(f, J, J2, mem, mem2, break2, C)
    PROVE  Entrance(f, J, J2, mem2, top2, break2, C)
<1>1. PICK l \in LabelType : l = EndOf(f) /\ l.id = f.id /\ l.what = "end"
  <2>1. f.id \in Nat /\ "end" \in Whats /\ 0 \in Nat
    BY DEF FrameType, Whats
  <2>2. \E l \in LabelType : l = Label(f.id, "end", 0) /\ l.id = f.id /\ l.what = "end"
    BY <2>1, LabelTyped
  <2> QED BY <2>2 DEF EndOf
<1>2. top <= top2 /\ l.id <= top2
  BY <1>1
<1>3. Operands(J, l) = {}
  BY <1>1, OperandsFresh DEF EndOf
<1>4. CASE J2 = J /\ break2 = 0 /\ C = {}
  <2>1. Placed(mem2, J2, top2)
    BY <1>2, <1>4, PlacedKept
  <2>2. Chain(mem2, {}, 0, 0)
    BY ChainEmpty
  <2> QED BY <1>1, <1>3, <1>4, <2>1, <2>2 DEF Entrance
<1>5. CASE /\ J2 = J \cup {Jump(break2, EndOf(f))} /\ C = {break2}
           /\ break2 \in Len(mem)..Len(mem2) - 1 /\ mem2[break2 + 1] = Arg(0)
  <2>1. mem2[break2 + 1].kind = "arg" /\ Get(mem2, break2) = 0 /\ break2 > 0
    BY <1>5, CellTypes DEF Get
  <2>2. J2 = J \cup {Jump(break2, l)} /\ Jump(break2, l) \in JumpType /\ Jump(break2, l).label = l /\ Jump(break2, l).cell = break2
    BY <1>1, <1>5, JumpParts DEF Jump, JumpType
  <2>3. Placed(mem2, J2, top2)
    BY <1>2, <1>5, <2>1, <2>2, PlacedMore
  <2>4. Operands(J2, l) = {break2}
    <3>1. \A j \in J : j.label # l
      BY <1>3 DEF Operands
    <3> QED BY <2>2, <3>1 DEF Operands
  <2>5. Chain(mem2, {break2}, break2, 0)
    BY <2>1 DEF Chain
  <2>6. \A j \in J2 : j \in J \/ (j.label = EndOf(f) /\ j.label.id = f.id /\ j.label.what = "end")
    BY <1>1, <2>2
  <2>7. \A c \in C : \E j \in J2 : j.cell = c
    BY <1>5, <2>2
  <2>8. /\ Chain(mem2, Operands(J2, EndOf(f)), break2, 0)
        /\ \A c \in Operands(J2, EndOf(f)) : ~ (c > break2)
    BY <1>1, <2>4, <2>5
  <2>9. J \subseteq J2 /\ J2 \subseteq JumpType
    BY <2>2
  <2> QED BY <2>3, <2>6, <2>7, <2>8, <2>9 DEF Entrance
<1> QED BY <1>4, <1>5 DEF Entered

\* The beginning of a loop or switch keeps the invariant.
LEMMA EnterInv ==
    ASSUME JumpsInv, todo = "stmt", todo' = "stmt", opened' = opened + 1,
           NEW f \in FrameType, f.kind \in Breakable, f.id = opened',
           f.old_cond = addr_cond, f.old_case = addr_case, f.old_break = addr_break, Pushed(frames, frames', f),
           NEW C, Emitted(memory, memory', {}), NewCode(memory, memory', C),
           addr_break' \in Nat, Entered(f, jumps, jumps', memory, memory', addr_break', C),
           NewMarks(f, marks, marks', Len(memory)),
           f.kind \in Loops => Mark(Label(f.id, "top", 0), f.addr) \in marks',
           f.kind = "while" => Mark(ContinueOf(f), f.addr) \in marks',
           f.kind \in Loops => addr_cond' = BaseOf(f) /\ addr_case' = addr_case,
           f.kind = "switch" => addr_cond' = addr_cond /\ addr_case' = 0 /\ jumps' = jumps,
           displ' \in Nat, max_local_displ' \in Nat
    PROVE  JumpsInv'
<1>a. /\ memory \in Seq(CellType) /\ Len(memory) >= 7 /\ Len(memory) \in Nat
      /\ frames \in Seq(FrameType) /\ Len(frames) \in Nat /\ opened \in Nat
      /\ jumps \subseteq JumpType /\ marks \subseteq MarkType
      /\ addr_cond \in Nat /\ addr_case \in Nat /\ addr_break \in Nat
  BY DEF JumpsInv, TypeInv
<1>b. /\ Phase(frames, marks, memory, addr_cond, todo) /\ Placed(memory, jumps, opened) /\ Marked(memory, marks, opened)
      /\ Coded(memory, jumps)
  BY DEF JumpsInv, Sound
<1>c. /\ BreakChains(frames, jumps, memory, addr_break, todo)
      /\ ContinueChains(frames, jumps, marks, memory, addr_cond, todo)
      /\ CaseTests(frames, jumps, addr_case)
  BY DEF JumpsInv, Sound
<1>d. Remembered(frames, jumps, marks, opened) /\ Accounted(frames, jumps, marks, memory, todo)
  BY DEF JumpsInv, Sound
<1>e. opened' \in Nat /\ frames' \in Seq(FrameType)
  BY <1>a DEF Pushed
<1>P. PICK P : P = {} /\ Emitted(memory, memory', P) /\ \A x : x \notin P
  OBVIOUS
<1>1. Len(frames) \in Nat /\ Len(memory) \in Nat /\ opened <= opened' /\ marks \subseteq marks'
  BY <1>a, <1>e DEF NewMarks
<1>2. /\ frames' = Append(frames, f) /\ Len(frames') = Len(frames) + 1 /\ frames'[Len(frames) + 1] = f
      /\ \A k \in 1..Len(frames) : frames'[k] = frames[k]
  BY DEF Pushed
<1>3. /\ jumps \subseteq jumps' /\ jumps' \subseteq JumpType /\ Placed(memory', jumps', opened')
      /\ \A j \in jumps' : j \in jumps \/ (j.label = EndOf(f) /\ j.label.id = f.id /\ j.label.what = "end")
      /\ \A c \in C : \E j \in jumps' : j.cell = c
      /\ Chain(memory', Operands(jumps', EndOf(f)), addr_break', 0) /\ \A c \in Operands(jumps', EndOf(f)) : ~ (c > addr_break')
  <2>1. Entrance(f, jumps, jumps', memory', opened', addr_break', C)
    BY <1>a, <1>e, <1>b, <1>P, EnteredJump
  <2> QED BY <1>a, <1>e, <2>1 DEF Entrance
<1>4. Patchable(jumps, P)
  BY <1>a, <1>e, <1>P DEF Patchable
<1>5. Marked(memory', marks', opened')
  <2>1. Landing(memory', Len(memory))
    BY <1>a, <1>e, <1>1, <1>P DEF Landing, Emitted
  <2>2. \A m \in marks' \ marks : Landing(memory', m.addr) /\ m.label.id <= opened'
    BY <1>e, <2>1 DEF NewMarks
  <2>3. Marked(memory', marks \cup (marks' \ marks), opened')
    BY <1>a, <1>e, <1>b, <1>P, <1>1, <1>4, <2>2, MarkedKept
  <2>4. marks \cup (marks' \ marks) = marks'
    BY <1>1
  <2> QED BY <2>3, <2>4
<1>6. Coded(memory', jumps')
  BY <1>a, <1>e, <1>b, <1>P, <1>3, <1>4, CodedKept
<1>7. ASSUME NEW l, l.id # f.id PROVE Untouched(jumps, jumps', memory, memory', l)
  <2>1. \A j \in jumps : j.cell \in P => j.label # l
    BY <1>a, <1>e, <1>P
  <2>2. \A j \in jumps' : j \in jumps \/ j.label # l
    BY <1>a, <1>e, <1>3, <1>7
  <2> QED BY <1>a, <1>e, <1>b, <1>P, <1>3, <2>1, <2>2, UntouchedBy
<1>8. ASSUME NEW k \in 1..Len(frames) PROVE EndOf(frames[k]).id # f.id /\ ContinueOf(frames[k]).id # f.id
  <2>1. frames[k].id \in 1..opened
    BY <1>a, <1>e, <1>d DEF Remembered
  <2> QED BY <1>a, <1>e, <2>1, LabelParts DEF EndOf, ContinueOf
<1>9. \A k \in 1..Len(frames) : Untouched(jumps, jumps', memory, memory', EndOf(frames[k])) /\ Untouched(jumps, jumps', memory, memory', ContinueOf(frames[k]))
  BY <1>a, <1>e, <1>7, <1>8
<1>10. BreakChains(frames', jumps', memory', addr_break', "stmt")
  <2>1. "stmt" # "break"
    BY <1>a, <1>e
  <2> QED BY <1>a, <1>e, <1>b, <1>c, <1>2, <1>3, <1>9, <2>1, BreaksPushed
<1>11. ContinueChains(frames', jumps', marks', memory', addr_cond', "stmt")
  <2>1. CASE f.kind \in Loops
    <3>1. Operands(jumps, ContinueOf(f)) = {}
      BY <1>a, <1>e, <1>b, OperandsFresh DEF ContinueOf
    <3>2. EndOf(f) # ContinueOf(f)
      BY <1>a, <1>e, LabelParts DEF EndOf, ContinueOf
    <3>3. Operands(jumps', ContinueOf(f)) = {}
      BY <1>a, <1>e, <1>3, <3>1, <3>2 DEF Operands
    <3>5. ContinueChains(frames', jumps', marks', memory', addr_cond', "stmt")
      <4>1. LoopPushed(frames, f, frames', jumps, jumps', memory, memory', addr_cond, addr_cond')
        <5>1. \A l : Operands(jumps, l) \subseteq Nat
          BY <1>a, <1>b, OperandsPlace
        <5>2. addr_cond' = BaseOf(f)
          BY <2>1
        <5>3. frames \in Seq(FrameType) /\ addr_cond \in Nat
          BY <1>a
        <5> QED BY <1>9, <2>1, <3>3, <5>1, <5>2, <5>3 DEF LoopPushed
      <4>2. ContinueChains(frames, jumps, marks, memory, addr_cond, todo) /\ todo # "cond" /\ todo # "break"
        BY <1>c
      <4> QED BY <4>1, <4>2, ContinuesPushed
    <3> QED BY <1>a, <1>e, <2>1, <3>5
  <2>2. CASE f.kind \notin Loops
    <3>1. SameFrames(frames, frames', Loops)
      BY <1>a, <1>e, <1>1, <1>2, <2>2 DEF SameFrames
    <3>2. addr_cond' = addr_cond
      BY <1>a, <1>e, <2>2 DEF Breakable
    <3>3. ContinueChains(frames', jumps', marks', memory', addr_cond, "stmt")
      BY <1>a, <1>e, <1>c, <1>1, <1>2, <1>9, <3>1, ContinueChainsKept
    <3> QED BY <1>a, <1>e, <3>2, <3>3
  <2> QED BY <1>a, <1>e, <2>1, <2>2
<1>12. CaseTests(frames', jumps', addr_case')
  <2>1. CASE f.kind = "switch"
    <3>1. Operands(jumps, NextLabel(f)) = {}
      BY <1>a, <1>e, <1>b, OperandsFresh DEF NextLabel
    <3>2. CaseTests(frames', jumps, 0)
      BY <1>a, <1>e, <1>c, <1>2, <2>1, <3>1, TestsPushed
    <3> QED BY <1>a, <1>e, <2>1, <3>2
  <2>2. CASE f.kind # "switch"
    <3>1. f.kind \in Loops /\ addr_case' = addr_case
      BY <1>a, <1>e, <2>2 DEF Breakable
    <3>2. SameFrames(frames, frames', {"switch"})
      BY <1>a, <1>e, <1>1, <1>2, <2>2 DEF SameFrames
    <3>3. ASSUME NEW k \in 1..Len(frames)
          PROVE  NextLabel(frames'[k]) = NextLabel(frames[k]) /\ Operands(jumps', NextLabel(frames[k])) = Operands(jumps, NextLabel(frames[k]))
      <4>1. frames'[k] = frames[k]
        BY <1>a, <1>e, <1>2
      <4>2. NextLabel(frames[k]).what = "label"
        BY <1>a, <1>e, LabelParts DEF NextLabel
      <4> QED BY <1>a, <1>e, <1>3, <4>1, <4>2 DEF Operands
    <3>4. CaseTests(frames', jumps', addr_case)
      BY <1>a, <1>e, <1>c, <1>2, <3>2, <3>3, CaseTestsKept
    <3> QED BY <1>a, <1>e, <3>1, <3>4
  <2> QED BY <1>a, <1>e, <2>1, <2>2
<1>13. Remembered(frames', jumps', marks', opened')
  <2>1. Remembered(frames, jumps', marks', opened)
    <3>1. \A j \in jumps' : j \in jumps \/ j.label.what # "label"
      BY <1>a, <1>e, <1>3
    <3>2. ASSUME NEW m \in marks', NEW k \in 1..Len(frames) PROVE m \in marks \/ m.label # Label(frames[k].id, "else", 0)
      BY <1>a, <1>e, LabelParts DEF NewMarks
    <3>3. opened <= opened /\ Len(frames) <= Len(frames) /\ \A n \in 1..Len(frames) : frames[n] = frames[n]
      BY <1>a, <1>e, <1>1
    <3>4. \A m \in marks' : m \in marks \/ \A k \in 1..Len(frames) :
                              frames[k].kind = "if" => m.label # Label(frames[k].id, "else", 0)
      BY <3>2
    <3>5. jumps \subseteq jumps' /\ jumps' \subseteq JumpType
      BY <1>3
    <3> QED BY <1>a, <1>d, <1>1, <3>1, <3>3, <3>4, <3>5, RememberedSame
  <2>2. f.kind # "if"
    BY <1>a, <1>e DEF Breakable, Loops
  <2>3. ASSUME NEW j \in jumps', j.label.id = f.id PROVE j.label.what # "label"
    <3>1. j \notin jumps
      BY <1>a, <1>e, <1>b, <2>3 DEF Placed, JumpType, LabelType
    <3> QED BY <1>a, <1>e, <1>3, <3>1
  <2>4. Remembered(Append(frames, f), jumps', marks', opened + 1)
    BY <1>a, <2>1, <2>2, <2>3, RememberedPush
  <2> QED BY <1>2, <2>4
<1>14. Accounted(frames', jumps', marks', memory', "stmt")
  <2>1. ASSUME NEW j \in jumps', j \notin jumps PROVE Answered(frames', marks', memory', "stmt", j)
    <3>1. frames'[Len(frames) + 1] = f /\ Len(frames) + 1 \in 1..Len(frames')
      BY <1>a, <1>e, <1>1, <1>2
    <3>2. Owes(frames', Len(frames) + 1, j, "stmt")
      BY <1>a, <1>e, <1>3, <2>1, <3>1 DEF Owes
    <3> QED BY <1>a, <1>e, <3>1, <3>2 DEF Answered
  <2>2. \A j \in jumps : j.cell \in P => Settled(memory', marks', j)
    BY <1>a, <1>e, <1>P
  <2>3. \A j \in jumps' : j \in jumps \/ Answered(Append(frames, f), marks', memory', "stmt", j)
    BY <1>2, <2>1
  <2>4. Accounted(Append(frames, f), jumps', marks', memory', "stmt")
    BY <1>a, <1>e, <1>b, <1>d, <1>P, <1>1, <2>2, <2>3, AccountedPush
  <2> QED BY <1>2, <2>4
<1>15. Phase(frames', marks', memory', addr_cond', "stmt") /\ Finished(memory', "stmt")
  BY <1>a, <1>e DEF Phase, Finished
<1>16. jumps' \subseteq JumpType /\ marks' \subseteq MarkType
  BY <1>a, <1>3 DEF NewMarks
<1>17. addr_cond' \in Nat /\ addr_case' \in Nat
  <2>1. BaseOf(f) \in Nat
    BY DEF BaseOf, FrameType
  <2> QED BY <1>a, <1>e, <2>1 DEF Breakable
<1>18. TypeInv'
  <2>1. memory' \in Seq(CellType) /\ Len(memory') >= 7
    BY <1>a DEF Emitted
  <2> QED BY <1>e, <1>16, <1>17, <2>1 DEF TypeInv
<1> QED BY <1>3, <1>5, <1>6, <1>10, <1>11, <1>12, <1>13, <1>14, <1>15, <1>18 DEF JumpsInv, Sound

\* A switch begins.
LEMMA BeginSwitchStep ==
    ASSUME JumpsInv, NEW shape \in Expressions, BeginSwitch(shape)
    PROVE  JumpsInv'
<1>a. /\ memory \in Seq(CellType) /\ Len(memory) >= 7 /\ Len(memory) \in Nat
      /\ frames \in Seq(FrameType) /\ Len(frames) \in Nat /\ opened \in Nat
      /\ jumps \subseteq JumpType /\ marks \subseteq MarkType
      /\ addr_cond \in Nat /\ addr_case \in Nat /\ addr_break \in Nat
  BY DEF JumpsInv, TypeInv
<1>b. /\ Phase(frames, marks, memory, addr_cond, todo) /\ Placed(memory, jumps, opened) /\ Marked(memory, marks, opened)
      /\ Coded(memory, jumps)
  BY DEF JumpsInv, Sound
<1>c. /\ BreakChains(frames, jumps, memory, addr_break, todo)
      /\ ContinueChains(frames, jumps, marks, memory, addr_cond, todo)
      /\ CaseTests(frames, jumps, addr_case)
  BY DEF JumpsInv, Sound
<1>d. Remembered(frames, jumps, marks, opened) /\ Accounted(frames, jumps, marks, memory, todo)
  BY DEF JumpsInv, Sound
<1>1. /\ todo = "stmt" /\ todo' = "stmt" /\ opened' = opened + 1 /\ opened' \in Nat
      /\ addr_cond' = addr_cond /\ addr_case' = 0 /\ addr_break' = 0 /\ jumps' = jumps /\ marks' = marks
      /\ displ' \in Nat /\ max_local_displ' \in Nat
  BY <1>a DEF BeginSwitch, Begin, Push, history, JumpsInv, TypeInv
<1>2. Emitted(memory, memory', {}) /\ NewCode(memory, memory', {})
  <2>1. memory' = memory \o Expression(shape, Len(memory))
    BY DEF BeginSwitch, mem_size
  <2>2. GoodCode(Expression(shape, Len(memory)), Len(memory), {})
    BY <1>a, CodegenAssumption, ExpressionGood
  <2> QED BY <1>a, <2>1, <2>2, GoodCodeEmitted
<1>3. PICK f \in FrameType : IsFrame(f, "switch", 0, FALSE) /\ frames' = Append(frames, f) /\ frames' \in Seq(FrameType)
  <2>1. TypeInv /\ "switch" \in Kinds /\ frames' = Append(frames, Frame("switch", 0, FALSE)) /\ 0 \in Nat
    BY DEF JumpsInv, Kinds, Breakable, BeginSwitch, Push
  <2>2. frames \in Seq(FrameType) /\ opened' \in Nat
    BY <1>a, <1>1
  <2> QED BY <2>1, <2>2, PushFrame, Zenon
<1>i. /\ Pushed(frames, frames', f) /\ f.id = opened' /\ f.kind = "switch" /\ f.kind \in Breakable
      /\ f.old_cond = addr_cond /\ f.old_case = addr_case /\ f.old_break = addr_break
  BY <1>a, <1>3, AppendFrames DEF Pushed, IsFrame, Breakable, Loops
<1>4. Entered(f, jumps, jumps', memory, memory', addr_break', {}) /\ NewMarks(f, marks, marks', Len(memory))
  BY <1>1 DEF Entered, NewMarks
<1>5. "switch" \notin Loops /\ "switch" # "while" /\ addr_break' \in Nat
  BY <1>1 DEF Loops
<1> QED BY <1>1, <1>2, <1>i, <1>4, <1>5, EnterInv

\* A do begins.
LEMMA BeginDoStep ==
    ASSUME JumpsInv, BeginDo
    PROVE  JumpsInv'
<1>a. /\ memory \in Seq(CellType) /\ Len(memory) >= 7 /\ Len(memory) \in Nat
      /\ frames \in Seq(FrameType) /\ Len(frames) \in Nat /\ opened \in Nat
      /\ jumps \subseteq JumpType /\ marks \subseteq MarkType
      /\ addr_cond \in Nat /\ addr_case \in Nat /\ addr_break \in Nat
  BY DEF JumpsInv, TypeInv
<1>b. /\ Phase(frames, marks, memory, addr_cond, todo) /\ Placed(memory, jumps, opened) /\ Marked(memory, marks, opened)
      /\ Coded(memory, jumps)
  BY DEF JumpsInv, Sound
<1>c. /\ BreakChains(frames, jumps, memory, addr_break, todo)
      /\ ContinueChains(frames, jumps, marks, memory, addr_cond, todo)
      /\ CaseTests(frames, jumps, addr_case)
  BY DEF JumpsInv, Sound
<1>d. Remembered(frames, jumps, marks, opened) /\ Accounted(frames, jumps, marks, memory, todo)
  BY DEF JumpsInv, Sound
<1>1. /\ todo = "stmt" /\ todo' = "stmt" /\ opened' = opened + 1 /\ opened' \in Nat
      /\ addr_cond' = 0 /\ addr_case' = addr_case /\ addr_break' = 0 /\ jumps' = jumps /\ memory' = memory
      /\ displ' \in Nat /\ max_local_displ' \in Nat
  BY <1>a DEF BeginDo, Begin, Push, JumpsInv, TypeInv
<1>2. Emitted(memory, memory', {}) /\ NewCode(memory, memory', {})
  BY <1>a, <1>1, EmittedNothing DEF NewCode
<1>3. PICK f \in FrameType : IsFrame(f, "do", Len(memory), FALSE) /\ frames' = Append(frames, f) /\ frames' \in Seq(FrameType)
  <2>1. TypeInv /\ "do" \in Kinds /\ frames' = Append(frames, Frame("do", Len(memory), FALSE))
    BY DEF JumpsInv, Kinds, Breakable, Loops, BeginDo, Push, mem_size
  <2>2. frames \in Seq(FrameType) /\ opened' \in Nat /\ Len(memory) \in Nat
    BY <1>a, <1>1
  <2> QED BY <2>1, <2>2, PushFrame, Zenon
<1>i. /\ Pushed(frames, frames', f) /\ f.id = opened' /\ f.kind = "do" /\ f.kind \in Breakable
      /\ f.old_cond = addr_cond /\ f.old_case = addr_case /\ f.old_break = addr_break
  BY <1>a, <1>3, AppendFrames DEF Pushed, IsFrame, Breakable, Loops
<1>4. f.id = opened' /\ f.addr = Len(memory) /\ f.kind = "do"
  BY <1>3 DEF IsFrame
<1>5. PICK l \in LabelType : l = Label(f.id, "top", 0) /\ l.id = f.id /\ l.what = "top"
  <2>1. f.id \in Nat /\ "top" \in Whats /\ 0 \in Nat
    BY <1>1, <1>4 DEF Whats
  <2> QED BY <2>1, LabelTyped
<1>6. PICK N : N = {Mark(l, Len(memory))} /\ marks' = marks \cup N
  BY <1>1, <1>4, <1>5 DEF BeginDo, mem_size
<1>7. NewMarks(f, marks, marks', Len(memory)) /\ Mark(Label(f.id, "top", 0), f.addr) \in marks'
  BY <1>a, <1>4, <1>5, <1>6, JumpParts DEF NewMarks, Mark, MarkType
<1>8. Entered(f, jumps, jumps', memory, memory', addr_break', {})
  BY <1>1 DEF Entered
<1>9. addr_cond' = BaseOf(f) /\ addr_break' \in Nat
  BY <1>a, <1>1, <1>4 DEF BaseOf, Breakable, Loops
<1>10. "do" # "while" /\ "do" # "switch"
  OBVIOUS
<1> QED BY <1>1, <1>2, <1>i, <1>6, <1>7, <1>8, <1>9, <1>10, EnterInv

\* A while begins.
LEMMA BeginWhileStep ==
    ASSUME JumpsInv, NEW shape \in Expressions, BeginWhile(shape)
    PROVE  JumpsInv'
<1>a. /\ memory \in Seq(CellType) /\ Len(memory) >= 7 /\ Len(memory) \in Nat
      /\ frames \in Seq(FrameType) /\ Len(frames) \in Nat /\ opened \in Nat
      /\ jumps \subseteq JumpType /\ marks \subseteq MarkType
      /\ addr_cond \in Nat /\ addr_case \in Nat /\ addr_break \in Nat
  BY DEF JumpsInv, TypeInv
<1>b. /\ Phase(frames, marks, memory, addr_cond, todo) /\ Placed(memory, jumps, opened) /\ Marked(memory, marks, opened)
      /\ Coded(memory, jumps)
  BY DEF JumpsInv, Sound
<1>c. /\ BreakChains(frames, jumps, memory, addr_break, todo)
      /\ ContinueChains(frames, jumps, marks, memory, addr_cond, todo)
      /\ CaseTests(frames, jumps, addr_case)
  BY DEF JumpsInv, Sound
<1>d. Remembered(frames, jumps, marks, opened) /\ Accounted(frames, jumps, marks, memory, todo)
  BY DEF JumpsInv, Sound
<1>1. /\ todo = "stmt" /\ todo' = "stmt" /\ opened' = opened + 1 /\ opened' \in Nat
      /\ addr_cond' = Len(memory) /\ addr_case' = addr_case
      /\ displ' \in Nat /\ max_local_displ' \in Nat
  BY <1>a DEF BeginWhile, Begin, Push, mem_size, JumpsInv, TypeInv
<1>2. PICK c \in Nat : /\ c = Len(memory') - 1 /\ c > Len(memory)
                       /\ Emitted(memory, memory', {}) /\ NewCode(memory, memory', {c})
                       /\ memory'[c + 1] = Arg(0)
  <2>1. "be0" \in Branches /\ 0 \in Int /\ memory' = memory \o Condition(shape, "be0", 0)
    BY DEF Branches, BeginWhile
  <2>2. memory \in Seq(CellType) /\ Len(memory) >= 7 /\ shape \in ExpressionShapes
    BY <1>a, CodegenAssumption
  <2> QED BY <2>1, <2>2, ConditionEmitted, Zenon
<1>3. PICK f \in FrameType : IsFrame(f, "while", Len(memory), FALSE) /\ frames' = Append(frames, f) /\ frames' \in Seq(FrameType)
  <2>1. TypeInv /\ "while" \in Kinds /\ frames' = Append(frames, Frame("while", Len(memory), FALSE))
    BY DEF JumpsInv, Kinds, Breakable, Loops, BeginWhile, Push, mem_size
  <2>2. frames \in Seq(FrameType) /\ opened' \in Nat /\ Len(memory) \in Nat
    BY <1>a, <1>1
  <2> QED BY <2>1, <2>2, PushFrame, Zenon
<1>i. /\ Pushed(frames, frames', f) /\ f.id = opened' /\ f.kind = "while" /\ f.kind \in Breakable
      /\ f.old_cond = addr_cond /\ f.old_case = addr_case /\ f.old_break = addr_break
  BY <1>a, <1>3, AppendFrames DEF Pushed, IsFrame, Breakable, Loops
<1>4. f.id = opened' /\ f.addr = Len(memory) /\ f.kind = "while"
  BY <1>3 DEF IsFrame
<1>e. f.id \in Nat /\ "top" \in Whats /\ "continue" \in Whats /\ 0 \in Nat
  BY <1>1, <1>4 DEF Whats
<1>5. PICK l \in LabelType : l = Label(f.id, "top", 0) /\ l.id = f.id /\ l.what = "top"
  BY <1>e, LabelTyped
<1>6. PICK m \in LabelType : m = Label(f.id, "continue", 0) /\ m.id = f.id /\ m.what = "continue"
  BY <1>e, LabelTyped
<1>7. PICK N : N = {Mark(l, Len(memory)), Mark(m, Len(memory))}
  OBVIOUS
<1>8. marks' = marks \cup N
  <2>1. marks' = marks \cup {Mark(Label(f.id, what, 0), Len(memory)) : what \in {"top", "continue"}}
    BY <1>4 DEF BeginWhile, mem_size
  <2> QED BY <1>5, <1>6, <1>7, <2>1
<1>9. NewMarks(f, marks, marks', Len(memory))
  BY <1>a, <1>4, <1>5, <1>6, <1>7, <1>8, JumpParts DEF NewMarks, Mark, MarkType
<1>10. Mark(Label(f.id, "top", 0), f.addr) \in marks' /\ Mark(ContinueOf(f), f.addr) \in marks'
  BY <1>4, <1>5, <1>6, <1>7, <1>8 DEF ContinueOf
<1>11. addr_break' = c /\ jumps' = jumps \cup {Jump(c, EndOf(f))}
  BY <1>2, <1>4 DEF BeginWhile, EndOf
<1>12. Entered(f, jumps, jumps', memory, memory', addr_break', {c})
  <2>1. c \in Len(memory)..Len(memory') - 1
    BY <1>a, <1>2
  <2> QED BY <1>2, <1>11, <2>1 DEF Entered
<1>13. addr_cond' = BaseOf(f) /\ addr_break' \in Nat
  BY <1>a, <1>1, <1>4, <1>11 DEF BaseOf, Breakable, Loops
<1>14. "while" # "switch"
  OBVIOUS
<1> QED BY <1>1, <1>2, <1>i, <1>8, <1>9, <1>10, <1>12, <1>13, <1>14, EnterInv

\* A for begins.
LEMMA BeginForStep ==
    ASSUME JumpsInv, NEW size \in Sizes \cup {0}, NEW has_condition \in BOOLEAN, NEW has_increment \in BOOLEAN,
           BeginFor(size, has_condition, has_increment)
    PROVE  JumpsInv'
<1>a. /\ memory \in Seq(CellType) /\ Len(memory) >= 7 /\ Len(memory) \in Nat
      /\ frames \in Seq(FrameType) /\ Len(frames) \in Nat /\ opened \in Nat
      /\ jumps \subseteq JumpType /\ marks \subseteq MarkType
      /\ addr_cond \in Nat /\ addr_case \in Nat /\ addr_break \in Nat
  BY DEF JumpsInv, TypeInv
<1>b. /\ Phase(frames, marks, memory, addr_cond, todo) /\ Placed(memory, jumps, opened) /\ Marked(memory, marks, opened)
      /\ Coded(memory, jumps)
  BY DEF JumpsInv, Sound
<1>c. /\ BreakChains(frames, jumps, memory, addr_break, todo)
      /\ ContinueChains(frames, jumps, marks, memory, addr_cond, todo)
      /\ CaseTests(frames, jumps, addr_case)
  BY DEF JumpsInv, Sound
<1>d. Remembered(frames, jumps, marks, opened) /\ Accounted(frames, jumps, marks, memory, todo)
  BY DEF JumpsInv, Sound
<1>1. /\ todo = "stmt" /\ todo' = "stmt" /\ opened' = opened + 1 /\ opened' \in Nat
      /\ addr_cond' = 0 /\ addr_case' = addr_case
  BY <1>a DEF BeginFor, Begin, Push
<1>2. displ' \in Nat /\ max_local_displ' \in Nat
  <2>1. size \in Nat
    BY CodegenAssumption
  <2>2. displ' = displ + size /\ max_local_displ' = IF displ' > max_local_displ THEN displ' ELSE max_local_displ
    BY DEF BeginFor
  <2>3. displ \in Nat /\ max_local_displ \in Nat
    BY DEF JumpsInv, TypeInv
  <2> QED BY <2>1, <2>2, <2>3
<1>3. PICK f \in FrameType : IsFrame(f, "for", Len(memory), has_increment) /\ frames' = Append(frames, f) /\ frames' \in Seq(FrameType)
  <2>1. TypeInv /\ "for" \in Kinds /\ frames' = Append(frames, Frame("for", Len(memory), has_increment))
    BY DEF JumpsInv, Kinds, Breakable, Loops, BeginFor, Push, mem_size
  <2>2. frames \in Seq(FrameType) /\ opened' \in Nat /\ Len(memory) \in Nat
    BY <1>a, <1>1
  <2> QED BY <2>1, <2>2, PushFrame, SMTT(30)
<1>i. /\ Pushed(frames, frames', f) /\ f.id = opened' /\ f.kind = "for" /\ f.kind \in Breakable
      /\ f.old_cond = addr_cond /\ f.old_case = addr_case /\ f.old_break = addr_break
  BY <1>a, <1>3, AppendFrames DEF Pushed, IsFrame, Breakable, Loops
<1>4. f.id = opened' /\ f.addr = Len(memory) /\ f.kind = "for"
  BY <1>3 DEF IsFrame
<1>5. PICK l \in LabelType : l = Label(f.id, "top", 0) /\ l.id = f.id /\ l.what = "top"
  <2>1. f.id \in Nat /\ "top" \in Whats /\ 0 \in Nat
    BY <1>1, <1>4 DEF Whats
  <2> QED BY <2>1, LabelTyped
<1>6. PICK N : N = {Mark(l, Len(memory))} /\ marks' = marks \cup N
  BY <1>1, <1>4, <1>5 DEF BeginFor, mem_size
<1>7. NewMarks(f, marks, marks', Len(memory)) /\ Mark(Label(f.id, "top", 0), f.addr) \in marks'
  BY <1>a, <1>4, <1>5, <1>6, JumpParts DEF NewMarks, Mark, MarkType
<1>8. \E C : /\ Emitted(memory, memory', {}) /\ NewCode(memory, memory', C) /\ addr_break' \in Nat
             /\ Entered(f, jumps, jumps', memory, memory', addr_break', C)
  <2>1. CASE has_condition
    <3>1. PICK c \in Nat : /\ c = Len(memory') - 1 /\ c > Len(memory)
                           /\ Emitted(memory, memory', {}) /\ NewCode(memory, memory', {c})
                           /\ memory'[c + 1] = Arg(0)
      <4>1. "be0" \in Branches /\ 0 \in Int /\ memory' = memory \o Condition("value", "be0", 0)
        BY <2>1 DEF Branches, BeginFor
      <4>2. memory \in Seq(CellType) /\ Len(memory) >= 7 /\ "value" \in ExpressionShapes
        BY <1>a DEF ExpressionShapes
      <4> QED BY <4>1, <4>2, ConditionEmitted, Zenon
    <3>2. addr_break' = c /\ jumps' = jumps \cup {Jump(c, EndOf(f))}
      BY <1>4, <2>1, <3>1 DEF BeginFor, EndOf
    <3>3. c \in Len(memory)..Len(memory') - 1
      BY <1>a, <3>1
    <3>4. Entered(f, jumps, jumps', memory, memory', addr_break', {c})
      BY <3>1, <3>2, <3>3 DEF Entered
    <3> QED BY <3>1, <3>2, <3>4
  <2>2. CASE ~ has_condition
    <3>1. memory' = memory /\ addr_break' = 0 /\ jumps' = jumps
      BY <2>2 DEF BeginFor
    <3>2. Entered(f, jumps, jumps', memory, memory', addr_break', {})
      BY <3>1 DEF Entered
    <3>3. Emitted(memory, memory', {}) /\ NewCode(memory, memory', {})
      BY <1>a, <3>1, EmittedNothing DEF NewCode
    <3> QED BY <3>1, <3>2, <3>3
  <2> QED BY <2>1, <2>2
<1>9. PICK C : /\ Emitted(memory, memory', {}) /\ NewCode(memory, memory', C) /\ addr_break' \in Nat
               /\ Entered(f, jumps, jumps', memory, memory', addr_break', C)
  BY <1>8
<1>10. addr_cond' = BaseOf(f) /\ Len(memory) \in Nat
  BY <1>a, <1>1, <1>4 DEF BaseOf, Breakable, Loops
<1>11. "for" # "while" /\ "for" # "switch"
  OBVIOUS
<1> QED BY <1>1, <1>2, <1>i, <1>6, <1>7, <1>9, <1>10, <1>11, EnterInv

-----------------------------------------------------------------------------
(* The steps: the end of a loop body, the chains and the jump back *)

\* A step that opens and closes no statement: it overwrites the operands P, emits code
\* whose branches have the operands C, and sets the marks N.
Stays(P, C, N) ==
    /\ frames' = frames /\ opened' = opened
    /\ Emitted(memory, memory', P) /\ Patchable(jumps, P)
    /\ NewCode(memory, memory', C) /\ \A c \in C : \E j \in jumps' : j.cell = c
    /\ jumps \subseteq jumps' /\ jumps' \subseteq JumpType /\ Placed(memory', jumps', opened)
    /\ \A j \in jumps' : j \in jumps \/ j.label.what # "label"
    /\ marks' = marks \cup N
    /\ \A m \in N : m \in MarkType /\ Landing(memory', m.addr) /\ m.label.id <= opened /\ m.label.what # "else"

\* What such a step keeps.
Stayed ==
    /\ memory' \in Seq(CellType) /\ Len(memory') >= 7 /\ frames' \in Seq(FrameType) /\ opened' \in Nat
    /\ jumps' \subseteq JumpType /\ marks' \subseteq MarkType
    /\ Placed(memory', jumps', opened') /\ Marked(memory', marks', opened') /\ Coded(memory', jumps')
    /\ Remembered(frames', jumps', marks', opened')

LEMMA StayKept ==
    ASSUME JumpsInv, NEW P, NEW C, NEW N, Stays(P, C, N)
    PROVE  Stayed
<1>a. /\ memory \in Seq(CellType) /\ Len(memory) >= 7 /\ Len(memory) \in Nat
      /\ frames \in Seq(FrameType) /\ Len(frames) \in Nat /\ opened \in Nat
      /\ jumps \subseteq JumpType /\ marks \subseteq MarkType
      /\ addr_cond \in Nat /\ addr_case \in Nat /\ addr_break \in Nat
  BY DEF JumpsInv, TypeInv
<1>b. /\ Phase(frames, marks, memory, addr_cond, todo) /\ Placed(memory, jumps, opened) /\ Marked(memory, marks, opened)
      /\ Coded(memory, jumps)
  BY DEF JumpsInv, Sound
<1>c. /\ BreakChains(frames, jumps, memory, addr_break, todo)
      /\ ContinueChains(frames, jumps, marks, memory, addr_cond, todo)
      /\ CaseTests(frames, jumps, addr_case)
  BY DEF JumpsInv, Sound
<1>d. Remembered(frames, jumps, marks, opened) /\ Accounted(frames, jumps, marks, memory, todo)
  BY DEF JumpsInv, Sound
<1>1. /\ Emitted(memory, memory', P) /\ Patchable(jumps, P) /\ NewCode(memory, memory', C)
      /\ jumps \subseteq jumps' /\ jumps' \subseteq JumpType /\ \A c \in C : \E j \in jumps' : j.cell = c
      /\ \A j \in jumps' : j \in jumps \/ j.label.what # "label"
  BY DEF Stays
<1>2. /\ frames' = frames /\ opened' = opened /\ marks' = marks \cup N /\ opened <= opened
      /\ Placed(memory', jumps', opened)
  BY <1>a DEF Stays
<1>3. \A m \in N : m \in MarkType /\ Landing(memory', m.addr) /\ m.label.id <= opened /\ m.label.what # "else"
  BY DEF Stays
<1>4. Marked(memory', marks \cup N, opened)
  BY <1>a, <1>b, <1>1, <1>2, <1>3, MarkedKept
<1>5. Coded(memory', jumps')
  BY <1>a, <1>b, <1>1, CodedKept
<1>6. marks \cup N \subseteq MarkType /\ marks \subseteq marks \cup N
  BY <1>a, <1>3
<1>7. Remembered(frames, jumps', marks \cup N, opened)
  <2>1. \A m \in marks \cup N : m \in marks \/ \A k \in 1..Len(frames) :
            frames[k].kind = "if" => m.label # Label(frames[k].id, "else", 0)
    BY <1>3, LabelParts
  <2>2. Len(frames) <= Len(frames) /\ \A k \in 1..Len(frames) : frames[k] = frames[k]
    BY <1>a
  <2> QED BY <1>a, <1>d, <1>1, <1>2, <1>6, <2>1, <2>2, RememberedSame
<1>8. memory' \in Seq(CellType) /\ Len(memory') >= 7
  BY <1>a, <1>1 DEF Emitted
<1> QED BY <1>a, <1>1, <1>2, <1>4, <1>5, <1>6, <1>7, <1>8 DEF Stayed

\* The body of a loop ends: its continues will be led here.
LEMMA EndLoopBodyStep ==
    ASSUME JumpsInv, EndLoopBody
    PROVE  JumpsInv'
<1>a. /\ memory \in Seq(CellType) /\ Len(memory) >= 7 /\ Len(memory) \in Nat
      /\ frames \in Seq(FrameType) /\ Len(frames) \in Nat /\ opened \in Nat
      /\ jumps \subseteq JumpType /\ marks \subseteq MarkType
      /\ addr_cond \in Nat /\ addr_case \in Nat /\ addr_break \in Nat
  BY DEF JumpsInv, TypeInv
<1>b. /\ Phase(frames, marks, memory, addr_cond, todo) /\ Placed(memory, jumps, opened) /\ Marked(memory, marks, opened)
      /\ Coded(memory, jumps)
  BY DEF JumpsInv, Sound
<1>c. /\ BreakChains(frames, jumps, memory, addr_break, todo)
      /\ ContinueChains(frames, jumps, marks, memory, addr_cond, todo)
      /\ CaseTests(frames, jumps, addr_case)
  BY DEF JumpsInv, Sound
<1>d. Remembered(frames, jumps, marks, opened) /\ Accounted(frames, jumps, marks, memory, todo)
  BY DEF JumpsInv, Sound
<1>1. /\ todo = "next" /\ todo' = "cond" /\ opened' = opened /\ jumps' = jumps /\ frames' = frames /\ memory' = memory
      /\ addr_cond' = addr_cond /\ addr_case' = addr_case /\ addr_break' = addr_break
      /\ displ' = displ /\ max_local_displ' = max_local_displ
  BY DEF EndLoopBody, Resume, heads
<1>2. PICK d \in 1..Len(frames) : d = Len(frames) /\ frames[d].kind \in Loops
  <2>1. Len(frames) > 0 /\ frames[Len(frames)].kind \in Loops
    BY DEF EndLoopBody, Resume, Depth, Top
  <2>2. Len(frames) \in 1..Len(frames)
    BY <1>a, <2>1
  <2> QED BY <2>1, <2>2
<1>3. PICK f \in FrameType : f = frames[d]
  BY <1>a
<1>4. PICK l \in LabelType : l = ContinueOf(f) /\ l.id = f.id /\ l.what = "continue"
  <2>1. f.id \in Nat /\ "continue" \in Whats /\ 0 \in Nat
    BY DEF FrameType, Whats
  <2> QED BY <2>1, LabelTyped DEF ContinueOf
<1>5. PICK N : N \subseteq {Mark(l, Len(memory))} /\ marks' = marks \cup N /\ (f.kind # "while" => Mark(l, Len(memory)) \in N)
  <2>1. marks' = IF f.kind = "while" THEN marks ELSE marks \cup {Mark(l, Len(memory))}
    BY <1>2, <1>3, <1>4 DEF EndLoopBody, Top, Depth, mem_size, ContinueOf
  <2>2. PICK N : N = IF f.kind = "while" THEN {} ELSE {Mark(l, Len(memory))}
    OBVIOUS
  <2>3. marks' = marks \cup N
    BY <2>1, <2>2
  <2> QED BY <2>2, <2>3
<1>6. PICK P : P = {} /\ Emitted(memory, memory', P) /\ NewCode(memory, memory', P) /\ \A x : x \notin P
  BY <1>a, <1>1, EmittedNothing DEF NewCode
<1>7. Stays(P, P, N)
  <2>1. Patchable(jumps, P) /\ \A c \in P : \E j \in jumps' : j.cell = c
    BY <1>6 DEF Patchable
  <2>2. f.id <= opened
    BY <1>d, <1>a, <1>3 DEF Remembered
  <2>3. Landing(memory', Len(memory))
    BY <1>a, <1>1 DEF Landing
  <2>4. \A m \in N : m \in MarkType /\ Landing(memory', m.addr) /\ m.label.id <= opened /\ m.label.what # "else"
    BY <1>a, <1>4, <1>5, <2>2, <2>3, JumpParts DEF Mark, MarkType
  <2>5. /\ jumps \subseteq jumps' /\ jumps' \subseteq JumpType /\ Placed(memory', jumps', opened)
        /\ \A j \in jumps' : j \in jumps \/ j.label.what # "label"
    BY <1>a, <1>b, <1>1
  <2> QED BY <1>1, <1>5, <1>6, <2>1, <2>4, <2>5 DEF Stays
<1>8. Stayed
  BY <1>7, StayKept
<1>9. SameFrames(frames, frames, Breakable) /\ AsideOnly(frames, jumps, jumps, P) /\ marks \subseteq marks'
  BY <1>a, <1>5, <1>6, SameStack DEF AsideOnly
<1>10. BreakChains(frames, jumps, memory', addr_break, "cond")
  <2>1. todo # "break"
    BY <1>1
  <2> QED BY <1>a, <1>b, <1>c, <1>6, <1>9, <2>1, BreaksAside
<1>11. ContinueChains(frames, jumps, marks', memory', addr_cond, "cond")
  <2>1. todo # "break" /\ (todo = "cond" => "cond" = "break" /\ Len(frames) = Len(frames))
    BY <1>1
  <2> QED BY <1>a, <1>b, <1>c, <1>6, <1>9, <2>1, ContinuesAside
<1>12. Accounted(frames, jumps, marks', memory', "cond")
  <2>1. ASSUME NEW j \in jumps, NEW k \in 1..Len(frames), Owes(frames, k, j, todo) PROVE Answered(frames, marks', memory', "cond", j)
    <3>1. Owes(frames, k, j, "cond")
      BY <2>1 DEF Owes
    <3> QED BY <3>1 DEF Answered
  <2>2. /\ \A j \in jumps : j.cell \in P => Answered(frames, marks', memory', "cond", j)
        /\ \A j \in jumps : j \in jumps \/ Answered(frames, marks', memory', "cond", j)
    BY <1>6
  <2> QED BY <1>a, <1>b, <1>d, <1>6, <1>9, <2>1, <2>2, AccountedKept
<1>13. Phase(frames, marks', memory', addr_cond, "cond") /\ Finished(memory', "cond")
  <2>1. frames[Len(frames)].kind # "while" => Mark(ContinueOf(frames[Len(frames)]), Len(memory)) \in marks'
    BY <1>2, <1>3, <1>4, <1>5
  <2> QED BY <1>1, <1>2, <2>1 DEF Phase, Finished
<1>14. TypeInv'
  BY <1>a, <1>1, <1>8 DEF JumpsInv, TypeInv, Stayed
<1> QED BY <1>1, <1>c, <1>8, <1>10, <1>11, <1>12, <1>13, <1>14 DEF JumpsInv, Sound, Stayed

\* mem2 is mem with operand c overwritten by n, an address where an instruction begins.
Patched(mem, mem2, c, n, P) ==
    /\ P = {c} /\ Emitted(mem, mem2, P) /\ NewCode(mem, mem2, {}) /\ Len(mem2) = Len(mem) /\ Get(mem2, c) = n

LEMMA PatchedCell ==
    ASSUME NEW mem \in Seq(CellType), NEW c \in 0..Len(mem) - 1, NEW n \in Int, NEW mem2, mem2 = mem_set(mem, c, n)
    PROVE  \E P : Patched(mem, mem2, c, n, P)
<1>1. Emitted(mem, mem2, {c}) /\ Len(mem2) = Len(mem) /\ Get(mem2, c) = n
  BY EmittedPatch
<1>2. NewCode(mem, mem2, {})
  BY <1>1 DEF NewCode
<1>3. Patched(mem, mem2, c, n, {c})
  BY <1>1, <1>2 DEF Patched
<1> QED BY <1>3

\* A jump is patched, and nothing else.
LEMMA PatchStays ==
    ASSUME JumpsInv, NEW j \in jumps, NEW n, NEW P, Patched(memory, memory', j.cell, n, P),
           frames' = frames, opened' = opened, jumps' = jumps, marks' = marks
    PROVE  Stayed
<1>a. /\ memory \in Seq(CellType) /\ Len(memory) >= 7 /\ Len(memory) \in Nat
      /\ frames \in Seq(FrameType) /\ Len(frames) \in Nat /\ opened \in Nat
      /\ jumps \subseteq JumpType /\ marks \subseteq MarkType
      /\ addr_cond \in Nat /\ addr_case \in Nat /\ addr_break \in Nat
  BY DEF JumpsInv, TypeInv
<1>b. /\ Phase(frames, marks, memory, addr_cond, todo) /\ Placed(memory, jumps, opened) /\ Marked(memory, marks, opened)
      /\ Coded(memory, jumps)
  BY DEF JumpsInv, Sound
<1>c. /\ BreakChains(frames, jumps, memory, addr_break, todo)
      /\ ContinueChains(frames, jumps, marks, memory, addr_cond, todo)
      /\ CaseTests(frames, jumps, addr_case)
  BY DEF JumpsInv, Sound
<1>d. Remembered(frames, jumps, marks, opened) /\ Accounted(frames, jumps, marks, memory, todo)
  BY DEF JumpsInv, Sound
<1>1. Emitted(memory, memory', P) /\ NewCode(memory, memory', {}) /\ Patchable(jumps, P)
  BY DEF Patched, Patchable
<1>2. PICK N : N = {} /\ marks' = marks \cup N
  <2>1. marks' = marks \cup {}
    BY <1>a
  <2> QED BY <2>1
<1>3. Placed(memory', jumps, opened) /\ opened <= opened
  BY <1>a, <1>b, <1>1, PlacedKept
<1>4. Stays(P, {}, N)
  BY <1>a, <1>1, <1>2, <1>3 DEF Stays
<1> QED BY <1>4, StayKept
\* The newest operand of the innermost loop's continues is patched: its chain is one
\* shorter, and those of the others are untouched.
LEMMA ContinuesPatched ==
    ASSUME NEW F \in Seq(FrameType), NEW J, J \subseteq JumpType, NEW M, NEW top \in Nat, Remembered(F, J, M, top),
           NEW mem \in Seq(CellType), NEW mem2, NEW P, NEW head \in Nat, NEW n, Patched(mem, mem2, head, n, P),
           Placed(mem, J, top), Len(F) > 0, F[Len(F)].kind \in Loops, head # BaseOf(F[Len(F)]),
           Mark(ContinueOf(F[Len(F)]), n) \in M, ContinueChains(F, J, M, mem, head, "cond")
    PROVE  ContinueChains(F, J, M, mem2, Get(mem, head), "cond")
<1> DEFINE k == Len(F)
           S == Operands(J, ContinueOf(F[k]))
<1>1. k \in Nat /\ k \in 1..Len(F) /\ F[k].kind \in Loops /\ Clear(F, Loops, k, Len(F) + 1) /\ F[k] \in FrameType
  BY DEF Clear
<1>2. /\ \A i \in 1..Len(F) : F[i].kind \in Loops /\ Clear(F, Loops, i, Len(F) + 1) => i = k
      /\ ~ Clear(F, Loops, 0, Len(F) + 1)
  BY <1>1, InnermostOnly
<1>3. Emitted(mem, mem2, P) /\ (\A x : x \in P <=> x = head) /\ Get(mem2, head) = n
  BY DEF Patched
<1>4. S \subseteq Nat /\ \A c \in S : c \in 7..Len(mem) - 1
  BY OperandsPlace
<1>5. BaseOf(F[k]) \in Nat
  BY <1>1 DEF BaseOf, FrameType
<1>6. /\ Chain(mem, S, head, BaseOf(F[k]))
      /\ \A c \in S : c > head => Settled(mem, M, Jump(c, ContinueOf(F[k])))
  BY <1>1 DEF ContinueChains
<1>7. \A c \in S : c # head => Get(mem2, c) = Get(mem, c)
  <2> SUFFICES ASSUME NEW c \in S, c # head PROVE Get(mem2, c) = Get(mem, c)
    OBVIOUS
  <2>1. c \in 0..Len(mem) - 1 /\ c \notin P
    BY <1>3, <1>4
  <2> QED BY <1>3, <2>1, GetKept
<1>8. /\ head \in S /\ Get(mem, head) \in S \cup {BaseOf(F[k])} /\ Get(mem, head) < head
      /\ Chain(mem2, S, Get(mem, head), BaseOf(F[k]))
      /\ \A c \in S : c > Get(mem, head) => c >= head
  <2> HIDE DEF S, k
  <2> QED BY <1>4, <1>5, <1>6, <1>7, ChainPatched, ZenonT(40) DEF k
<1>9. ASSUME NEW c \in S, c > Get(mem, head) PROVE Settled(mem2, M, Jump(c, ContinueOf(F[k])))
  <2>1. CASE c = head
    BY <1>3, <2>1, JumpParts DEF Settled
  <2>2. CASE c # head
    <3>1. c > head /\ c \in 0..Len(mem) - 1 /\ c \notin P
      BY <1>3, <1>4, <1>8, <1>9, <2>2
    <3>2. Settled(mem, M, Jump(c, ContinueOf(F[k]))) /\ M \subseteq M
      BY <1>6, <3>1
    <3>3. Jump(c, ContinueOf(F[k])).cell \in 0..Len(mem) - 1 /\ Jump(c, ContinueOf(F[k])).cell \notin P
      BY <3>1, JumpParts
    <3> QED BY <1>3, <3>2, <3>3, SettledKept
  <2> QED BY <2>1, <2>2
<1>10. ASSUME NEW i \in 1..Len(F), i # k PROVE Untouched(J, J, mem, mem2, ContinueOf(F[i]))
  <2>1. F[i].id # F[k].id
    BY <1>1, <1>10, FramesApart
  <2>2. ContinueOf(F[k]) # ContinueOf(F[i])
    BY <2>1, LabelParts DEF ContinueOf
  <2>3. \A j \in J : j.cell \in P => j.label = ContinueOf(F[k])
    <3>1. Jump(head, ContinueOf(F[k])) \in J
      BY <1>8, OperandsMember
    <3> QED BY <1>3, <3>1, JumpParts DEF Placed
  <2>4. /\ J \subseteq J /\ \A j \in J : j \in J \/ j.label # ContinueOf(F[i])
        /\ \A j \in J : j.cell \in P => j.label # ContinueOf(F[i])
    BY <2>2, <2>3
  <2> QED BY <1>3, <2>4, UntouchedBy
<1> HIDE DEF S
<1>11. ASSUME NEW i \in 1..Len(F), F[i].kind \in Loops, Clear(F, Loops, i, Len(F) + 1)
       PROVE  /\ Chain(mem2, Operands(J, ContinueOf(F[i])), Get(mem, head), BaseOf(F[i]))
              /\ \A c \in Operands(J, ContinueOf(F[i])) : c > Get(mem, head) =>
                    i = Len(F) /\ "cond" \in {"cond", "break"} /\ Settled(mem2, M, Jump(c, ContinueOf(F[i])))
  <2>1. i = k
    BY <1>2, <1>11
  <2> QED BY <1>8, <1>9, <2>1 DEF S
<1>12. ASSUME NEW i \in 1..Len(F), NEW m \in 1..Len(F), i < m, {F[i].kind, F[m].kind} \subseteq Loops, Clear(F, Loops, i, m)
       PROVE  /\ Chain(mem2, Operands(J, ContinueOf(F[i])), F[m].old_cond, BaseOf(F[i]))
              /\ Whole(Operands(J, ContinueOf(F[i])), F[m].old_cond)
  <2>1. i # k
    BY <1>12
  <2>2. Untouched(J, J, mem, mem2, ContinueOf(F[i]))
    BY <1>10, <2>1
  <2>3. /\ Chain(mem, Operands(J, ContinueOf(F[i])), F[m].old_cond, BaseOf(F[i]))
        /\ Whole(Operands(J, ContinueOf(F[i])), F[m].old_cond)
    BY <1>12 DEF ContinueChains
  <2>4. Chain(mem2, Operands(J, ContinueOf(F[i])), F[m].old_cond, BaseOf(F[i]))
    BY <2>2, <2>3, ChainKept DEF Untouched
  <2> QED BY <2>3, <2>4
<1>13. \A m \in 1..Len(F) : F[m].kind \in Loops /\ Clear(F, Loops, 0, m) => F[m].old_cond = 0
  BY DEF ContinueChains
<1> QED BY <1>2, <1>11, <1>12, <1>13 DEF ContinueChains

\* The newest operand of the breaks of the innermost statement is patched.
LEMMA BreaksPatched ==
    ASSUME NEW F \in Seq(FrameType), NEW J, J \subseteq JumpType, NEW M, NEW top \in Nat, Remembered(F, J, M, top),
           NEW mem \in Seq(CellType), NEW mem2, NEW P, NEW head \in Nat, Patched(mem, mem2, head, Len(mem), P),
           Placed(mem, J, top), Len(F) > 0, F[Len(F)].kind \in Breakable, head # 0,
           BreakChains(F, J, mem, head, "break")
    PROVE  BreakChains(F, J, mem2, Get(mem, head), "break")
<1> DEFINE k == Len(F)
           S == Operands(J, EndOf(F[k]))
<1>1. k \in Nat /\ k \in 1..Len(F) /\ F[k].kind \in Breakable /\ Clear(F, Breakable, k, Len(F) + 1)
  BY DEF Clear
<1>2. /\ \A i \in 1..Len(F) : F[i].kind \in Breakable /\ Clear(F, Breakable, i, Len(F) + 1) => i = k
      /\ ~ Clear(F, Breakable, 0, Len(F) + 1)
  BY <1>1, InnermostOnly
<1>3. Emitted(mem, mem2, P) /\ (\A x : x \in P <=> x = head) /\ Get(mem2, head) = Len(mem) /\ Len(mem2) = Len(mem)
  BY DEF Patched
<1>4. S \subseteq Nat /\ \A c \in S : c \in 7..Len(mem) - 1
  BY OperandsPlace
<1>6. Chain(mem, S, head, 0) /\ \A c \in S : c > head => Get(mem, c) = Len(mem)
  BY <1>1 DEF BreakChains
<1>7. \A c \in S : c # head => Get(mem2, c) = Get(mem, c)
  <2> SUFFICES ASSUME NEW c \in S, c # head PROVE Get(mem2, c) = Get(mem, c)
    OBVIOUS
  <2>1. c \in 0..Len(mem) - 1 /\ c \notin P
    BY <1>3, <1>4
  <2> QED BY <1>3, <2>1, GetKept
<1>8. /\ head \in S /\ Get(mem, head) \in S \cup {0} /\ Get(mem, head) < head
      /\ Chain(mem2, S, Get(mem, head), 0)
      /\ \A c \in S : c > Get(mem, head) => c >= head
  <2>1. 0 \in Nat
    OBVIOUS
  <2> HIDE DEF S, k
  <2> QED BY <1>4, <1>6, <1>7, <2>1, ChainPatched, ZenonT(40)
<1>9. ASSUME NEW c \in S, c > Get(mem, head) PROVE Get(mem2, c) = Len(mem2)
  <2>1. CASE c = head
    BY <1>3, <2>1
  <2>2. CASE c # head
    <3>1. c > head
      BY <1>4, <1>8, <1>9, <2>2
    <3> QED BY <1>3, <1>6, <1>7, <2>2, <3>1
  <2> QED BY <2>1, <2>2
<1>10. ASSUME NEW i \in 1..Len(F), i # k PROVE Untouched(J, J, mem, mem2, EndOf(F[i]))
  <2>1. F[i].id # F[k].id
    BY <1>1, <1>10, FramesApart
  <2>2. EndOf(F[k]) # EndOf(F[i])
    BY <2>1, LabelParts DEF EndOf
  <2>3. \A j \in J : j.cell \in P => j.label = EndOf(F[k])
    <3>1. Jump(head, EndOf(F[k])) \in J
      BY <1>8, OperandsMember
    <3> QED BY <1>3, <3>1, JumpParts DEF Placed
  <2>4. /\ J \subseteq J /\ \A j \in J : j \in J \/ j.label # EndOf(F[i])
        /\ \A j \in J : j.cell \in P => j.label # EndOf(F[i])
    BY <2>2, <2>3
  <2> QED BY <1>3, <2>4, UntouchedBy
<1> HIDE DEF S
<1>11. ASSUME NEW i \in 1..Len(F), F[i].kind \in Breakable, Clear(F, Breakable, i, Len(F) + 1)
       PROVE  /\ Chain(mem2, Operands(J, EndOf(F[i])), Get(mem, head), 0)
              /\ \A c \in Operands(J, EndOf(F[i])) : c > Get(mem, head) =>
                    i = Len(F) /\ "break" = "break" /\ Get(mem2, c) = Len(mem2)
  <2>1. i = k
    BY <1>2, <1>11
  <2> QED BY <1>8, <1>9, <2>1 DEF S
<1>12. ASSUME NEW i \in 1..Len(F), NEW m \in 1..Len(F), i < m, {F[i].kind, F[m].kind} \subseteq Breakable,
              Clear(F, Breakable, i, m)
       PROVE  /\ Chain(mem2, Operands(J, EndOf(F[i])), F[m].old_break, 0)
              /\ Whole(Operands(J, EndOf(F[i])), F[m].old_break)
  <2>1. i # k
    BY <1>12
  <2>2. Untouched(J, J, mem, mem2, EndOf(F[i]))
    BY <1>10, <2>1
  <2>3. /\ Chain(mem, Operands(J, EndOf(F[i])), F[m].old_break, 0)
        /\ Whole(Operands(J, EndOf(F[i])), F[m].old_break)
    BY <1>12 DEF BreakChains
  <2>4. Chain(mem2, Operands(J, EndOf(F[i])), F[m].old_break, 0)
    BY <2>2, <2>3, ChainKept DEF Untouched
  <2> QED BY <2>3, <2>4
<1>13. \A m \in 1..Len(F) : F[m].kind \in Breakable /\ Clear(F, Breakable, 0, m) => F[m].old_break = 0
  BY DEF BreakChains
<1> QED BY <1>2, <1>11, <1>12, <1>13 DEF BreakChains
\* A continue is led to the condition or increment of its loop.
LEMMA PatchCondStep ==
    ASSUME JumpsInv, PatchCond
    PROVE  JumpsInv'
<1>a. /\ memory \in Seq(CellType) /\ Len(memory) >= 7 /\ Len(memory) \in Nat
      /\ frames \in Seq(FrameType) /\ Len(frames) \in Nat /\ opened \in Nat
      /\ jumps \subseteq JumpType /\ marks \subseteq MarkType
      /\ addr_cond \in Nat /\ addr_case \in Nat /\ addr_break \in Nat
  BY DEF JumpsInv, TypeInv
<1>b. /\ Phase(frames, marks, memory, addr_cond, todo) /\ Placed(memory, jumps, opened) /\ Marked(memory, marks, opened)
      /\ Coded(memory, jumps)
  BY DEF JumpsInv, Sound
<1>c. /\ BreakChains(frames, jumps, memory, addr_break, todo)
      /\ ContinueChains(frames, jumps, marks, memory, addr_cond, todo)
      /\ CaseTests(frames, jumps, addr_case)
  BY DEF JumpsInv, Sound
<1>d. Remembered(frames, jumps, marks, opened) /\ Accounted(frames, jumps, marks, memory, todo)
  BY DEF JumpsInv, Sound
<1>1. /\ todo = "cond" /\ todo' = "cond" /\ opened' = opened /\ jumps' = jumps /\ frames' = frames /\ marks' = marks
      /\ addr_case' = addr_case /\ addr_break' = addr_break /\ displ' = displ /\ max_local_displ' = max_local_displ
      /\ addr_cond' = Get(memory, addr_cond)
  BY DEF PatchCond, history, mem_get, Get
<1>2. PICK d \in 1..Len(frames) : d = Len(frames) /\ d > 0 /\ frames[d].kind \in Loops /\ Clear(frames, Loops, d, Len(frames) + 1)
  <2>1. Len(frames) > 0 /\ frames[Len(frames)].kind \in Loops
    BY <1>b, <1>1 DEF Phase
  <2>2. Len(frames) \in 1..Len(frames) /\ Clear(frames, Loops, Len(frames), Len(frames) + 1)
    BY <1>a, <2>1 DEF Clear
  <2> QED BY <2>1, <2>2
<1>3. PICK f \in FrameType : f = frames[d]
  BY <1>a
<1>4. addr_cond # BaseOf(f)
  BY <1>2, <1>3 DEF PatchCond, LastCond, Top, Depth, BaseOf
<1>5. PICK n \in Nat : n = (IF f.kind = "while" THEN f.addr ELSE Len(memory)) /\ memory' = mem_set(memory, addr_cond, n)
  <2>1. memory' = mem_set(memory, addr_cond, IF f.kind = "while" THEN f.addr ELSE Len(memory))
    BY <1>2, <1>3 DEF PatchCond, CondTarget, Top, Depth, mem_size
  <2>2. (IF f.kind = "while" THEN f.addr ELSE Len(memory)) \in Nat
    BY <1>a DEF FrameType
  <2> QED BY <2>1, <2>2
<1>6. Mark(ContinueOf(f), n) \in marks
  <2>1. CASE f.kind = "while"
    BY <1>d, <1>2, <1>3, <1>5, <2>1 DEF Remembered
  <2>2. CASE f.kind # "while"
    BY <1>b, <1>1, <1>2, <1>3, <1>5, <2>2 DEF Phase
  <2> QED BY <2>1, <2>2
<1>7. PICK S : S = Operands(jumps, ContinueOf(f)) /\ S \subseteq Nat /\ \A c \in S : c \in 7..Len(memory) - 1 /\ Jump(c, ContinueOf(f)) \in jumps
  BY <1>a, <1>b, OperandsPlace, OperandsMember
<1>8. Chain(memory, S, addr_cond, BaseOf(f))
  BY <1>c, <1>2, <1>3, <1>7 DEF ContinueChains
<1>9. addr_cond \in S
  BY <1>4, <1>8 DEF Chain
<1>10. PICK j \in jumps : j.cell = addr_cond /\ j.label = ContinueOf(f)
  BY <1>7, <1>9, JumpParts
<1>11. PICK P : Patched(memory, memory', addr_cond, n, P)
  <2>1. addr_cond \in 0..Len(memory) - 1 /\ n \in Int
    BY <1>a, <1>7, <1>9
  <2> QED BY <1>a, <1>5, <2>1, PatchedCell
<1>12. Stayed
  BY <1>1, <1>10, <1>11, PatchStays
<1>13. Emitted(memory, memory', P) /\ (\A x : x \in P <=> x = addr_cond)
  BY <1>11 DEF Patched
<1>14. addr_cond' \in Nat
  <2>1. Get(memory, addr_cond) \in S \cup {BaseOf(f)}
    <3>1. addr_cond <= addr_cond
      BY <1>a
    <3> QED BY <1>8, <1>9, <3>1 DEF Chain
  <2>2. BaseOf(f) \in Nat
    BY DEF BaseOf, FrameType
  <2> QED BY <1>1, <1>7, <2>1, <2>2
<1>15. ContinueChains(frames, jumps, marks, memory', Get(memory, addr_cond), "cond")
  <2>1. ContinueChains(frames, jumps, marks, memory, addr_cond, "cond") /\ Len(frames) > 0 /\ frames[Len(frames)].kind \in Loops
    BY <1>c, <1>1, <1>2
  <2>2. addr_cond # BaseOf(frames[Len(frames)]) /\ Mark(ContinueOf(frames[Len(frames)]), n) \in marks
    BY <1>2, <1>3, <1>4, <1>6
  <2> QED BY <1>a, <1>b, <1>d, <1>11, <2>1, <2>2, ContinuesPatched
<1>16. \A x \in jumps : x.cell \in P => x = j
  BY <1>b, <1>10, <1>13 DEF Placed
<1>17. BreakChains(frames, jumps, memory', addr_break, "cond")
  <2>1. ASSUME NEW k \in 1..Len(frames) PROVE Untouched(jumps, jumps, memory, memory', EndOf(frames[k]))
    <3>1. \A x \in jumps : x.cell \in P => x.label # EndOf(frames[k])
      BY <1>10, <1>16, LabelParts DEF EndOf, ContinueOf
    <3>2. jumps \subseteq jumps /\ \A x \in jumps : x \in jumps \/ x.label # EndOf(frames[k])
      OBVIOUS
    <3> QED BY <1>a, <1>b, <1>13, <3>1, <3>2, UntouchedBy
  <2>2. SameFrames(frames, frames, Breakable)
    BY <1>a, SameStack
  <2> QED BY <1>a, <1>c, <1>1, <2>1, <2>2, BreakChainsKept
<1>18. Accounted(frames, jumps, marks, memory', "cond")
  <2>1. ASSUME NEW x \in jumps, NEW k \in 1..Len(frames), Owes(frames, k, x, todo) PROVE Answered(frames, marks, memory', "cond", x)
    BY <1>1, <2>1 DEF Answered
  <2>2. Answered(frames, marks, memory', "cond", j)
    <3>1. Owes(frames, d, j, "cond")
      BY <1>2, <1>3, <1>10 DEF Owes
    <3> QED BY <3>1 DEF Answered
  <2>3. /\ \A x \in jumps : x.cell \in P => Answered(frames, marks, memory', "cond", x)
        /\ \A x \in jumps : x \in jumps \/ Answered(frames, marks, memory', "cond", x)
        /\ marks \subseteq marks
    BY <1>16, <2>2
  <2> QED BY <1>a, <1>b, <1>d, <1>13, <2>1, <2>3, AccountedKept
<1>19. Phase(frames, marks, memory', addr_cond', "cond") /\ Finished(memory', "cond")
  <2>1. Len(memory') = Len(memory)
    BY <1>11 DEF Patched
  <2> QED BY <1>b, <1>1, <2>1 DEF Phase, Finished
<1>20. TypeInv'
  BY <1>a, <1>1, <1>12, <1>14 DEF JumpsInv, TypeInv, Stayed
<1> QED BY <1>1, <1>c, <1>12, <1>15, <1>17, <1>18, <1>19, <1>20 DEF JumpsInv, Sound, Stayed

\* A break is led to the end of its loop or switch.
LEMMA PatchBreakStep ==
    ASSUME JumpsInv, PatchBreak
    PROVE  JumpsInv'
<1>a. /\ memory \in Seq(CellType) /\ Len(memory) >= 7 /\ Len(memory) \in Nat
      /\ frames \in Seq(FrameType) /\ Len(frames) \in Nat /\ opened \in Nat
      /\ jumps \subseteq JumpType /\ marks \subseteq MarkType
      /\ addr_cond \in Nat /\ addr_case \in Nat /\ addr_break \in Nat
  BY DEF JumpsInv, TypeInv
<1>b. /\ Phase(frames, marks, memory, addr_cond, todo) /\ Placed(memory, jumps, opened) /\ Marked(memory, marks, opened)
      /\ Coded(memory, jumps)
  BY DEF JumpsInv, Sound
<1>c. /\ BreakChains(frames, jumps, memory, addr_break, todo)
      /\ ContinueChains(frames, jumps, marks, memory, addr_cond, todo)
      /\ CaseTests(frames, jumps, addr_case)
  BY DEF JumpsInv, Sound
<1>d. Remembered(frames, jumps, marks, opened) /\ Accounted(frames, jumps, marks, memory, todo)
  BY DEF JumpsInv, Sound
<1>1. /\ todo = "break" /\ todo' = "break" /\ opened' = opened /\ jumps' = jumps /\ frames' = frames /\ marks' = marks
      /\ addr_case' = addr_case /\ addr_cond' = addr_cond /\ displ' = displ /\ max_local_displ' = max_local_displ
      /\ addr_break' = Get(memory, addr_break) /\ addr_break # 0
  BY DEF PatchBreak, history, mem_get, Get
<1>2. PICK d \in 1..Len(frames) : d = Len(frames) /\ d > 0 /\ frames[d].kind \in Breakable /\ Clear(frames, Breakable, d, Len(frames) + 1)
  <2>1. Len(frames) > 0 /\ frames[Len(frames)].kind \in Breakable
    BY <1>b, <1>1 DEF Phase
  <2>2. Len(frames) \in 1..Len(frames) /\ Clear(frames, Breakable, Len(frames), Len(frames) + 1)
    BY <1>a, <2>1 DEF Clear
  <2> QED BY <2>1, <2>2
<1>3. PICK f \in FrameType : f = frames[d]
  BY <1>a
<1>5. memory' = mem_set(memory, addr_break, Len(memory))
  BY DEF PatchBreak, mem_size
<1>7. PICK S : S = Operands(jumps, EndOf(f)) /\ S \subseteq Nat /\ \A c \in S : c \in 7..Len(memory) - 1 /\ Jump(c, EndOf(f)) \in jumps
  BY <1>a, <1>b, OperandsPlace, OperandsMember
<1>8. Chain(memory, S, addr_break, 0)
  BY <1>c, <1>2, <1>3, <1>7 DEF BreakChains
<1>9. addr_break \in S
  BY <1>1, <1>8 DEF Chain
<1>10. PICK j \in jumps : j.cell = addr_break /\ j.label = EndOf(f)
  BY <1>7, <1>9, JumpParts
<1>11. PICK P : Patched(memory, memory', addr_break, Len(memory), P)
  <2>1. addr_break \in 0..Len(memory) - 1 /\ Len(memory) \in Int
    BY <1>a, <1>7, <1>9
  <2> QED BY <1>a, <1>5, <2>1, PatchedCell
<1>12. Stayed
  BY <1>1, <1>10, <1>11, PatchStays
<1>13. Emitted(memory, memory', P) /\ (\A x : x \in P <=> x = addr_break) /\ Len(memory') = Len(memory)
  BY <1>11 DEF Patched
<1>14. addr_break' \in Nat
  <2>1. Get(memory, addr_break) \in S \cup {0}
    <3>1. addr_break <= addr_break
      BY <1>a
    <3> QED BY <1>8, <1>9, <3>1 DEF Chain
  <2> QED BY <1>1, <1>7, <2>1
<1>15. BreakChains(frames, jumps, memory', Get(memory, addr_break), "break")
  <2>1. BreakChains(frames, jumps, memory, addr_break, "break") /\ Len(frames) > 0 /\ frames[Len(frames)].kind \in Breakable
    BY <1>c, <1>1, <1>2
  <2> QED BY <1>a, <1>b, <1>d, <1>1, <1>11, <2>1, BreaksPatched
<1>16. \A x \in jumps : x.cell \in P => x = j
  BY <1>b, <1>10, <1>13 DEF Placed
<1>17. ContinueChains(frames, jumps, marks, memory', addr_cond, "break")
  <2>1. ASSUME NEW k \in 1..Len(frames) PROVE Untouched(jumps, jumps, memory, memory', ContinueOf(frames[k]))
    <3>1. \A x \in jumps : x.cell \in P => x.label # ContinueOf(frames[k])
      BY <1>10, <1>16, LabelParts DEF EndOf, ContinueOf
    <3>2. jumps \subseteq jumps /\ \A x \in jumps : x \in jumps \/ x.label # ContinueOf(frames[k])
      OBVIOUS
    <3> QED BY <1>a, <1>b, <1>13, <3>1, <3>2, UntouchedBy
  <2>2. SameFrames(frames, frames, Loops) /\ marks \subseteq marks
    BY <1>a, SameStack, SameNarrow DEF Breakable
  <2>3. "break" \in {"cond", "break"} /\ Len(frames) = Len(frames)
    OBVIOUS
  <2> QED BY <1>a, <1>c, <1>1, <2>1, <2>2, <2>3, ContinueChainsKept
<1>18. Accounted(frames, jumps, marks, memory', "break")
  <2>1. ASSUME NEW x \in jumps, NEW k \in 1..Len(frames), Owes(frames, k, x, todo) PROVE Answered(frames, marks, memory', "break", x)
    BY <1>1, <2>1 DEF Answered
  <2>2. Answered(frames, marks, memory', "break", j)
    <3>1. Owes(frames, d, j, "break")
      BY <1>2, <1>3, <1>10 DEF Owes
    <3> QED BY <3>1 DEF Answered
  <2>3. /\ \A x \in jumps : x.cell \in P => Answered(frames, marks, memory', "break", x)
        /\ \A x \in jumps : x \in jumps \/ Answered(frames, marks, memory', "break", x)
        /\ marks \subseteq marks
    BY <1>16, <2>2
  <2> QED BY <1>a, <1>b, <1>d, <1>13, <2>1, <2>3, AccountedKept
<1>19. Phase(frames, marks, memory', addr_cond, "break") /\ Finished(memory', "break")
  BY <1>b, <1>1 DEF Phase, Finished
<1>20. TypeInv'
  BY <1>a, <1>1, <1>12, <1>14 DEF JumpsInv, TypeInv, Stayed
<1> QED BY <1>1, <1>c, <1>12, <1>15, <1>17, <1>18, <1>19, <1>20 DEF JumpsInv, Sound, Stayed
\* What is emitted to jump back: its last cell is the operand of the jump, x.
BackEmitted(mem, mem2, c, x) ==
    /\ Emitted(mem, mem2, {}) /\ NewCode(mem, mem2, {c})
    /\ c \in Len(mem)..Len(mem2) - 1 /\ c = Len(mem2) - 1
    /\ Get(mem2, c) = x /\ mem2[c + 1].kind = "arg"

\* Three pieces of code.
LEMMA ConcatThree ==
    ASSUME NEW s \in Seq(CellType), NEW t \in Seq(CellType), NEW u \in Seq(CellType)
    PROVE  (s \o t) \o u = s \o (t \o u)
OBVIOUS

\* The three forms of the jump back.
LEMMA JumpBackEmitted ==
    ASSUME NEW shape \in Expressions, memory \in Seq(CellType), Len(memory) >= 7,
           NEW x \in Nat, Top.kind \in Loops, Top.addr = x, Top.flag \in BOOLEAN, JumpBack(shape)
    PROVE  \E c \in Nat : BackEmitted(memory, memory', c, x)
<1>1. Len(memory) \in Nat /\ x \in Int
  OBVIOUS
<1>2. CASE \E c \in Nat : JumpAdded(memory, memory', c, x)
  <2>1. PICK c \in Nat : JumpAdded(memory, memory', c, x)
    BY <1>2
  <2>2. /\ Emitted(memory, memory', {}) /\ NewCode(memory, memory', {c})
        /\ Len(memory') = Len(memory) + 2 /\ c = Len(memory) + 1
        /\ Get(memory', c) = x /\ memory'[c + 1].kind = "arg"
    BY <2>1 DEF JumpAdded
  <2>3. c \in Len(memory)..Len(memory') - 1 /\ c = Len(memory') - 1
    BY <1>1, <2>2
  <2> QED BY <2>2, <2>3 DEF BackEmitted
<1>3. CASE Top.kind = "while"
  <2>1. memory' = memory \o <<Code("b"), Arg(x)>>
    BY <1>3 DEF JumpBack
  <2> QED BY <1>1, <1>2, <2>1, JumpEmitted
<1>4. CASE Top.kind = "do"
  <2>1. "bne0" \in Branches /\ memory' = memory \o Condition(shape, "bne0", x)
    BY <1>4 DEF JumpBack, Branches
  <2>2. shape \in ExpressionShapes
    BY CodegenAssumption
  <2>3. PICK c \in Nat : /\ c = Len(memory') - 1 /\ c > Len(memory)
                         /\ Emitted(memory, memory', {}) /\ NewCode(memory, memory', {c})
                         /\ memory'[c + 1] = Arg(x)
    BY <1>1, <2>1, <2>2, ConditionEmitted, Zenon
  <2>4. Get(memory', c) = x /\ memory'[c + 1].kind = "arg"
    BY <1>1, <2>3, CellTypes DEF Get
  <2>5. c \in Len(memory)..Len(memory') - 1
    BY <1>1, <2>3
  <2> QED BY <2>3, <2>4, <2>5 DEF BackEmitted
<1>5. CASE Top.kind = "for" /\ ~ Top.flag
  <2>1. memory' = (memory \o << >>) \o <<Code("b"), Arg(x)>>
    BY <1>5 DEF JumpBack
  <2>2. memory \o << >> = memory
    OBVIOUS
  <2>3. memory' = memory \o <<Code("b"), Arg(x)>>
    BY <2>1, <2>2
  <2> QED BY <1>1, <1>2, <2>3, JumpEmitted
<1>6. CASE Top.kind = "for" /\ Top.flag
  <2>1. PICK code : code = <<Code("value")>> /\ GoodCode(code, Len(memory), {})
    BY <1>1, SingleGood
  <2>2. PICK jump : jump = <<Code("b"), Arg(x)>>
    OBVIOUS
  <2>3. "b" \in Branches
    BY DEF Branches
  <2>4. /\ GoodCode(code \o jump, Len(memory), {Len(memory) + Len(code) + 1})
        /\ Len(code \o jump) = Len(code) + 2 /\ (code \o jump)[Len(code) + 2] = Arg(x)
    BY <1>1, <2>1, <2>2, <2>3, BranchGood
  <2>5. Len(code) = 1
    BY <2>1
  <2>6. PICK c \in Nat : c = Len(memory) + 2 /\ c = Len(memory) + Len(code) + 1
    BY <1>1, <2>5
  <2>7. memory' = memory \o (code \o jump)
    <3>1. memory' = (memory \o code) \o jump
      BY <1>6, <2>1, <2>2 DEF JumpBack
    <3>2. code \in Seq(CellType) /\ jump \in Seq(CellType)
      <4>1. Code("b") \in CellType /\ Arg(x) \in CellType
        BY <1>1, <2>3, CellTypes DEF Ops
      <4> QED BY <2>1, <2>2, <4>1 DEF GoodCode
    <3>3. (memory \o code) \o jump = memory \o (code \o jump)
      BY <3>2, ConcatThree
    <3> QED BY <3>1, <3>3
  <2>8. PICK all : all = code \o jump
    OBVIOUS
  <2>9. GoodCode(all, Len(memory), {c}) /\ Len(all) = 3 /\ all[3] = Arg(x)
    BY <2>4, <2>5, <2>6, <2>8
  <2>10. /\ Emitted(memory, memory \o all, {}) /\ NewCode(memory, memory \o all, {c})
         /\ Len(memory \o all) = Len(memory) + Len(all)
         /\ \A i \in 1..Len(all) : (memory \o all)[Len(memory) + i] = all[i]
    BY <2>9, GoodCodeEmitted
  <2>11. Len(memory') = Len(memory) + 3 /\ memory'[Len(memory) + 3] = Arg(x)
    BY <2>7, <2>8, <2>9, <2>10
  <2>12. c + 1 = Len(memory) + 3 /\ c = Len(memory') - 1 /\ c \in Len(memory)..Len(memory') - 1
    BY <1>1, <2>6, <2>11
  <2>13. Get(memory', c) = x /\ memory'[c + 1].kind = "arg"
    BY <1>1, <2>11, <2>12, CellTypes DEF Get
  <2> QED BY <2>7, <2>8, <2>10, <2>12, <2>13 DEF BackEmitted
<1> QED BY <1>3, <1>4, <1>5, <1>6 DEF Loops

\* The jump back to the beginning of the loop is settled at once.
LEMMA JumpBackStep ==
    ASSUME JumpsInv, NEW shape \in Expressions, JumpBack(shape)
    PROVE  JumpsInv'
<1>a. /\ memory \in Seq(CellType) /\ Len(memory) >= 7 /\ Len(memory) \in Nat
      /\ frames \in Seq(FrameType) /\ Len(frames) \in Nat /\ opened \in Nat
      /\ jumps \subseteq JumpType /\ marks \subseteq MarkType
      /\ addr_cond \in Nat /\ addr_case \in Nat /\ addr_break \in Nat
  BY DEF JumpsInv, TypeInv
<1>b. /\ Phase(frames, marks, memory, addr_cond, todo) /\ Placed(memory, jumps, opened) /\ Marked(memory, marks, opened)
      /\ Coded(memory, jumps)
  BY DEF JumpsInv, Sound
<1>c. /\ BreakChains(frames, jumps, memory, addr_break, todo)
      /\ ContinueChains(frames, jumps, marks, memory, addr_cond, todo)
      /\ CaseTests(frames, jumps, addr_case)
  BY DEF JumpsInv, Sound
<1>d. Remembered(frames, jumps, marks, opened) /\ Accounted(frames, jumps, marks, memory, todo)
  BY DEF JumpsInv, Sound
<1>1. /\ todo = "cond" /\ todo' = "break" /\ opened' = opened /\ frames' = frames /\ marks' = marks
      /\ addr_cond' = addr_cond /\ addr_case' = addr_case /\ addr_break' = addr_break
      /\ displ' = displ /\ max_local_displ' = max_local_displ /\ addr_cond = LastCond
  BY DEF JumpBack, heads
<1>2. PICK d \in 1..Len(frames) : d = Len(frames) /\ d > 0 /\ frames[d].kind \in Loops
  <2>1. Len(frames) > 0 /\ frames[Len(frames)].kind \in Loops
    BY <1>b, <1>1 DEF Phase
  <2>2. Len(frames) \in 1..Len(frames)
    BY <1>a, <2>1
  <2> QED BY <2>1, <2>2
<1>3. PICK f \in FrameType : f = frames[d] /\ f = Top
  BY <1>a, <1>2 DEF Top, Depth
<1>4. PICK c \in Nat : BackEmitted(memory, memory', c, f.addr)
  <2>1. f.addr \in Nat /\ f.flag \in BOOLEAN
    BY DEF FrameType
  <2> QED BY <1>a, <1>2, <1>3, <2>1, JumpBackEmitted, Zenon
<1>5. /\ Emitted(memory, memory', {}) /\ NewCode(memory, memory', {c})
      /\ c \in Len(memory)..Len(memory') - 1 /\ c = Len(memory') - 1
      /\ Get(memory', c) = f.addr /\ memory'[c + 1].kind = "arg"
  BY <1>4 DEF BackEmitted
<1>6. PICK l \in LabelType : l = Label(f.id, "top", 0) /\ l.id = f.id /\ l.what = "top"
  <2>1. f.id \in Nat /\ "top" \in Whats /\ 0 \in Nat
    BY DEF FrameType, Whats
  <2> QED BY <2>1, LabelTyped
<1>7. jumps' = jumps \cup {Jump(c, l)}
  BY <1>3, <1>5, <1>6 DEF JumpBack
<1>8. Jump(c, l) \in JumpType /\ Jump(c, l).label = l /\ Jump(c, l).cell = c
  BY JumpParts DEF Jump, JumpType
<1>9. f.id <= opened /\ Mark(l, f.addr) \in marks
  <2>1. frames[d].id \in 1..opened /\ Mark(Label(frames[d].id, "top", 0), frames[d].addr) \in marks
    BY <1>d, <1>2 DEF Remembered
  <2> QED BY <1>a, <1>3, <1>6, <2>1
<1>10. PICK P : P = {} /\ Emitted(memory, memory', P) /\ \A x : x \notin P
  BY <1>5
<1>11. Settled(memory', marks, Jump(c, l))
  BY <1>5, <1>8, <1>9, JumpParts DEF Settled
<1>12. PICK N : N = {} /\ marks' = marks \cup N
  <2>1. marks' = marks \cup {}
    BY <1>a, <1>1
  <2> QED BY <2>1
<1>13. Stays(P, {c}, N)
  <2>1. Patchable(jumps, P) /\ \A y \in {c} : \E j \in jumps' : j.cell = y
    BY <1>7, <1>8, <1>10 DEF Patchable
  <2>2. Placed(memory', jumps', opened)
    <3>1. l.id <= opened /\ opened <= opened
      BY <1>a, <1>6, <1>9
    <3> QED BY <1>a, <1>b, <1>5, <1>7, <1>10, <3>1, PlacedMore
  <2>3. jumps \subseteq jumps' /\ jumps' \subseteq JumpType /\ \A j \in jumps' : j \in jumps \/ j.label.what # "label"
    BY <1>a, <1>6, <1>7, <1>8
  <2>4. \A m \in N : m \in MarkType /\ Landing(memory', m.addr) /\ m.label.id <= opened /\ m.label.what # "else"
    BY <1>12
  <2> QED BY <1>1, <1>5, <1>10, <1>12, <2>1, <2>2, <2>3, <2>4 DEF Stays
<1>14. Stayed
  BY <1>13, StayKept
<1>15. SameFrames(frames, frames, Breakable) /\ marks \subseteq marks /\ jumps \subseteq jumps'
  BY <1>a, <1>7, SameStack
<1>16. AsideOnly(frames, jumps, jumps', P)
  <2>1. Aside(frames, l)
    BY <1>a, <1>d, <1>6, AsideLabels
  <2> QED BY <1>7, <1>8, <1>10, <2>1 DEF AsideOnly
<1>17. BreakChains(frames, jumps', memory', addr_break, "break")
  <2>1. todo # "break"
    BY <1>1
  <2> QED BY <1>a, <1>b, <1>c, <1>10, <1>15, <1>16, <2>1, BreaksAside
<1>18. ContinueChains(frames, jumps', marks, memory', addr_cond, "break")
  <2>1. todo # "break" /\ (todo = "cond" => "break" = "break" /\ Len(frames) = Len(frames))
    BY <1>1
  <2> QED BY <1>a, <1>b, <1>c, <1>10, <1>15, <1>16, <2>1, ContinuesAside
<1>19. CaseTests(frames, jumps', addr_case)
  <2>1. \A j \in jumps' : j \in jumps \/ j.label.what # "label"
    BY <1>6, <1>7, <1>8
  <2> QED BY <1>a, <1>c, <1>15, <2>1, TestsKept
<1>20. Accounted(frames, jumps', marks, memory', "break")
  <2>1. ASSUME NEW j \in jumps, NEW k \in 1..Len(frames), Owes(frames, k, j, todo) PROVE Answered(frames, marks, memory', "break", j)
    <3>1. Owes(frames, k, j, "break")
      BY <1>2, <2>1 DEF Owes, Loops
    <3> QED BY <3>1 DEF Answered
  <2>2. Answered(frames, marks, memory', "break", Jump(c, l))
    BY <1>11 DEF Answered
  <2>3. /\ \A j \in jumps : j.cell \in P => Answered(frames, marks, memory', "break", j)
        /\ \A j \in jumps' : j \in jumps \/ Answered(frames, marks, memory', "break", j)
    BY <1>7, <1>10, <2>2
  <2> QED BY <1>a, <1>b, <1>d, <1>10, <1>15, <2>1, <2>3, AccountedKept
<1>21. Phase(frames, marks, memory', addr_cond, "break") /\ Finished(memory', "break")
  <2>1. addr_cond = IF f.kind = "while" THEN f.addr ELSE 0
    BY <1>1, <1>3 DEF LastCond
  <2> QED BY <1>2, <1>3, <2>1 DEF Phase, Finished, Breakable, Loops
<1>22. TypeInv'
  BY <1>a, <1>1, <1>14 DEF JumpsInv, TypeInv, Stayed
<1> QED BY <1>1, <1>14, <1>17, <1>18, <1>19, <1>20, <1>21, <1>22 DEF JumpsInv, Sound, Stayed
-----------------------------------------------------------------------------
(* The steps: the labels of a switch *)

\* mem2 is the code with the last case test of switch k led to its end: P is its operand.
CaseSettled(k, mem2, P) ==
    /\ Emitted(memory, mem2, P) /\ NewCode(memory, mem2, {}) /\ Len(mem2) = Len(memory) /\ Patchable(jumps, P)
    /\ \A j \in jumps : j.cell \in P => j.label = NextLabel(frames[k])
    /\ \A j \in jumps : j.label = NextLabel(frames[k]) => Get(mem2, j.cell) = Len(memory)

\* addr_case is the operand of the last test of the innermost switch.
LEMMA SettleCaseKept ==
    ASSUME JumpsInv, NEW k \in 1..Len(frames), frames[k].kind = "switch", Clear(frames, {"switch"}, k, Len(frames) + 1)
    PROVE  \E P : CaseSettled(k, SettleCase, P)
<1>a. /\ memory \in Seq(CellType) /\ Len(memory) >= 7 /\ Len(memory) \in Nat
      /\ frames \in Seq(FrameType) /\ Len(frames) \in Nat /\ opened \in Nat
      /\ jumps \subseteq JumpType /\ marks \subseteq MarkType
      /\ addr_cond \in Nat /\ addr_case \in Nat /\ addr_break \in Nat
  BY DEF JumpsInv, TypeInv
<1>b. /\ Phase(frames, marks, memory, addr_cond, todo) /\ Placed(memory, jumps, opened) /\ Marked(memory, marks, opened)
      /\ Coded(memory, jumps)
  BY DEF JumpsInv, Sound
<1>c. /\ BreakChains(frames, jumps, memory, addr_break, todo)
      /\ ContinueChains(frames, jumps, marks, memory, addr_cond, todo)
      /\ CaseTests(frames, jumps, addr_case)
  BY DEF JumpsInv, Sound
<1>d. Remembered(frames, jumps, marks, opened) /\ Accounted(frames, jumps, marks, memory, todo)
  BY DEF JumpsInv, Sound
<1>1. Operands(jumps, NextLabel(frames[k])) = {addr_case} \ {0}
  BY <1>c DEF CaseTests
<1>2. CASE addr_case = 0
  <2>1. SettleCase = memory
    BY <1>2 DEF SettleCase
  <2>2. \A j \in jumps : j.label # NextLabel(frames[k])
    BY <1>1, <1>2 DEF Operands
  <2>3. Emitted(memory, memory, {}) /\ NewCode(memory, memory, {}) /\ Patchable(jumps, {})
    BY <1>a, EmittedNothing DEF NewCode, Patchable
  <2>4. CaseSettled(k, memory, {})
    BY <2>2, <2>3 DEF CaseSettled
  <2> QED BY <2>1, <2>4
<1>3. CASE addr_case # 0
  <2>1. PICK l : l = NextLabel(frames[k])
    OBVIOUS
  <2>2. addr_case \in Operands(jumps, l)
    BY <1>1, <1>3, <2>1
  <2>3. Jump(addr_case, l) \in jumps /\ addr_case \in 7..Len(memory) - 1
    BY <1>a, <1>b, <2>2, OperandsMember, OperandsPlace
  <2>4. PICK j \in jumps : j.cell = addr_case /\ j.label = l
    BY <2>3, JumpParts
  <2>5. PICK mem2 : mem2 = SettleCase /\ mem2 = mem_set(memory, addr_case, Len(memory))
    BY <1>3 DEF SettleCase, mem_size
  <2>6. addr_case \in 0..Len(memory) - 1 /\ Len(memory) \in Int
    BY <1>a, <2>3
  <2>7. PICK P : Patched(memory, mem2, addr_case, Len(memory), P)
    BY <1>a, <2>5, <2>6, PatchedCell
  <2>8. /\ Emitted(memory, mem2, P) /\ NewCode(memory, mem2, {}) /\ Len(mem2) = Len(memory)
        /\ Get(mem2, addr_case) = Len(memory) /\ \A x : x \in P <=> x = addr_case
    BY <2>7 DEF Patched
  <2>9. Patchable(jumps, P)
    BY <2>4, <2>8 DEF Patchable
  <2>10. \A i \in jumps : i.cell \in P => i.label = l
    BY <1>b, <2>4, <2>8 DEF Placed
  <2>11. \A i \in jumps : i.label = l => Get(mem2, i.cell) = Len(memory)
    <3>1. \A i \in jumps : i.label = l => i.cell = addr_case
      BY <1>1, <2>1 DEF Operands
    <3> QED BY <2>8, <3>1
  <2>12. CaseSettled(k, mem2, P)
    BY <2>1, <2>8, <2>9, <2>10, <2>11 DEF CaseSettled
  <2> QED BY <2>5, <2>12
<1> QED BY <1>2, <1>3

\* The body of a switch ends: a failed test of its last label leads here.
LEMMA EndSwitchBodyStep ==
    ASSUME JumpsInv, EndSwitchBody
    PROVE  JumpsInv'
<1>a. /\ memory \in Seq(CellType) /\ Len(memory) >= 7 /\ Len(memory) \in Nat
      /\ frames \in Seq(FrameType) /\ Len(frames) \in Nat /\ opened \in Nat
      /\ jumps \subseteq JumpType /\ marks \subseteq MarkType
      /\ addr_cond \in Nat /\ addr_case \in Nat /\ addr_break \in Nat
  BY DEF JumpsInv, TypeInv
<1>b. /\ Phase(frames, marks, memory, addr_cond, todo) /\ Placed(memory, jumps, opened) /\ Marked(memory, marks, opened)
      /\ Coded(memory, jumps)
  BY DEF JumpsInv, Sound
<1>c. /\ BreakChains(frames, jumps, memory, addr_break, todo)
      /\ ContinueChains(frames, jumps, marks, memory, addr_cond, todo)
      /\ CaseTests(frames, jumps, addr_case)
  BY DEF JumpsInv, Sound
<1>d. Remembered(frames, jumps, marks, opened) /\ Accounted(frames, jumps, marks, memory, todo)
  BY DEF JumpsInv, Sound
<1>1. /\ todo = "next" /\ todo' = "break" /\ opened' = opened /\ jumps' = jumps /\ frames' = frames /\ memory' = SettleCase
      /\ addr_cond' = addr_cond /\ addr_case' = addr_case /\ addr_break' = addr_break
      /\ displ' = displ /\ max_local_displ' = max_local_displ
  BY DEF EndSwitchBody, Resume, heads
<1>2. PICK d \in 1..Len(frames) : /\ d = Len(frames) /\ frames[d].kind = "switch" /\ frames[d] = Top
                                  /\ Clear(frames, {"switch"}, d, Len(frames) + 1)
  <2>1. Len(frames) > 0 /\ Top.kind = "switch" /\ Top = frames[Len(frames)]
    BY DEF EndSwitchBody, Resume, Depth, Top
  <2>2. Len(frames) \in 1..Len(frames) /\ Clear(frames, {"switch"}, Len(frames), Len(frames) + 1)
    BY <1>a, <2>1 DEF Clear
  <2> QED BY <2>1, <2>2
<1>3. PICK f \in FrameType : f = frames[d]
  BY <1>a
<1>4. PICK l \in LabelType : l = NextLabel(frames[d]) /\ l.id = f.id /\ l.what = "label" /\ l = Label(f.id, "label", f.labels + 1)
  <2>1. f.id \in Nat /\ "label" \in Whats /\ f.labels + 1 \in Nat
    BY DEF FrameType, Whats
  <2> QED BY <1>3, <2>1, LabelTyped DEF NextLabel
<1>5. PICK N : N = {Mark(l, Len(memory))} /\ marks' = marks \cup N
  BY <1>2, <1>3, <1>4 DEF EndSwitchBody, mem_size
<1>6. PICK P : CaseSettled(d, memory', P)
  BY <1>1, <1>2, SettleCaseKept
<1>7. /\ Emitted(memory, memory', P) /\ NewCode(memory, memory', {}) /\ Len(memory') = Len(memory) /\ Patchable(jumps, P)
      /\ \A j \in jumps : j.cell \in P => j.label = l
      /\ \A j \in jumps : j.label = l => Get(memory', j.cell) = Len(memory)
  BY <1>4, <1>6 DEF CaseSettled
<1>8. Stays(P, {}, N)
  <2>1. f.id <= opened
    BY <1>d, <1>a, <1>3 DEF Remembered
  <2>2. Landing(memory', Len(memory))
    BY <1>a, <1>7 DEF Landing
  <2>3. \A m \in N : m \in MarkType /\ Landing(memory', m.addr) /\ m.label.id <= opened /\ m.label.what # "else"
    BY <1>a, <1>4, <1>5, <2>1, <2>2, JumpParts DEF Mark, MarkType
  <2>4. Placed(memory', jumps, opened)
    <3>1. opened <= opened
      BY <1>a
    <3> QED BY <1>a, <1>b, <1>7, <3>1, PlacedKept
  <2>5. /\ jumps \subseteq jumps' /\ jumps' \subseteq JumpType /\ Placed(memory', jumps', opened)
        /\ \A j \in jumps' : j \in jumps \/ j.label.what # "label"
    BY <1>a, <1>1, <2>4
  <2> QED BY <1>1, <1>5, <1>7, <2>3, <2>5 DEF Stays
<1>9. Stayed
  BY <1>8, StayKept
<1>10. SameFrames(frames, frames, Breakable) /\ marks \subseteq marks' /\ AsideOnly(frames, jumps, jumps, P)
  <2>1. Aside(frames, l)
    BY <1>a, <1>d, <1>4, AsideLabels
  <2> QED BY <1>a, <1>5, <1>7, <2>1, SameStack DEF AsideOnly
<1>11. BreakChains(frames, jumps, memory', addr_break, "break")
  <2>1. todo # "break"
    BY <1>1
  <2> QED BY <1>a, <1>b, <1>c, <1>7, <1>10, <2>1, BreaksAside
<1>12. ContinueChains(frames, jumps, marks', memory', addr_cond, "break")
  <2>1. todo # "break" /\ (todo = "cond" => "break" = "break" /\ Len(frames) = Len(frames))
    BY <1>1
  <2> QED BY <1>a, <1>b, <1>c, <1>7, <1>10, <2>1, ContinuesAside
<1>13. ASSUME NEW j \in jumps, j.label = l PROVE Answered(frames, marks', memory', "break", j)
  <2>1. Mark(l, Len(memory)) \in marks'
    BY <1>5
  <2>2. Settled(memory', marks', j)
    BY <1>7, <1>13, <2>1, JumpParts DEF Settled
  <2> QED BY <2>2 DEF Answered
<1>14. Accounted(frames, jumps, marks', memory', "break")
  <2>1. ASSUME NEW j \in jumps, NEW k \in 1..Len(frames), Owes(frames, k, j, todo) PROVE Answered(frames, marks', memory', "break", j)
    <3>1. CASE j.label = l
      BY <1>13, <3>1
    <3>2. CASE j.label # l
      <4>1. Owes(frames, k, j, "break")
        BY <1>2, <1>4, <2>1, <3>2 DEF Owes
      <4> QED BY <4>1 DEF Answered
    <3> QED BY <3>1, <3>2
  <2>2. /\ \A j \in jumps : j.cell \in P => Answered(frames, marks', memory', "break", j)
        /\ \A j \in jumps : j \in jumps \/ Answered(frames, marks', memory', "break", j)
    BY <1>7, <1>13
  <2> QED BY <1>a, <1>b, <1>d, <1>7, <1>10, <2>1, <2>2, AccountedKept
<1>15. Phase(frames, marks', memory', addr_cond, "break") /\ Finished(memory', "break")
  BY <1>1, <1>2 DEF Phase, Finished, Breakable, Loops
<1>16. TypeInv'
  BY <1>a, <1>1, <1>9 DEF JumpsInv, TypeInv, Stayed
<1> QED BY <1>1, <1>c, <1>9, <1>11, <1>12, <1>14, <1>15, <1>16 DEF JumpsInv, Sound, Stayed

\* G is F with one more label at switch k.
Counted(F, G, k) ==
    /\ G \in Seq(FrameType) /\ Len(G) = Len(F) /\ Len(F) \in Nat
    /\ \A i \in 1..Len(F) : /\ G[i].kind = F[i].kind /\ G[i].id = F[i].id /\ G[i].addr = F[i].addr
                            /\ G[i].old_cond = F[i].old_cond /\ G[i].old_case = F[i].old_case
                            /\ G[i].old_break = F[i].old_break
                            /\ i # k => G[i] = F[i]
    /\ G[k].labels = F[k].labels + 1

LEMMA CountedFrames ==
    ASSUME NEW F \in Seq(FrameType), NEW k \in 1..Len(F)
    PROVE  Counted(F, [F EXCEPT ![k].labels = @ + 1], k)
<1> DEFINE G == [F EXCEPT ![k].labels = @ + 1]
<1>1. F[k] \in FrameType /\ Len(F) \in Nat
  OBVIOUS
<1>n. PICK n \in Nat : n = F[k].labels + 1
  <2>1. F[k].labels \in Nat
    BY <1>1 DEF FrameType
  <2>2. F[k].labels + 1 \in Nat
    BY <2>1
  <2> QED BY <2>2
<1>2. PICK g : g = [F[k] EXCEPT !.labels = n] /\ g = [F[k] EXCEPT !.labels = @ + 1]
  BY <1>n
<1>3. g \in FrameType /\ g.labels = F[k].labels + 1
  <2>1. \A r \in FrameType : [r EXCEPT !.labels = n] \in FrameType /\ [r EXCEPT !.labels = n].labels = n
    BY DEF FrameType
  <2> QED BY <1>1, <1>n, <1>2, <2>1
<1>4. /\ g.kind = F[k].kind /\ g.id = F[k].id /\ g.addr = F[k].addr
      /\ g.old_cond = F[k].old_cond /\ g.old_case = F[k].old_case /\ g.old_break = F[k].old_break
  BY <1>1, <1>2 DEF FrameType
<1>5. G = [F EXCEPT ![k] = g]
  BY <1>2
<1>6. G \in Seq(FrameType) /\ Len(G) = Len(F) /\ G[k] = g /\ \A i \in 1..Len(F) : i # k => G[i] = F[i]
  BY <1>3, <1>5
<1> HIDE DEF G
<1>7. Counted(F, G, k)
  BY <1>1, <1>3, <1>4, <1>6 DEF Counted
<1> QED BY <1>7 DEF G
\* The new label waits for the next one, and the tests of the other switches are as before.
LEMMA TestsCounted ==
    ASSUME NEW F \in Seq(FrameType), NEW G, NEW k \in 1..Len(F), Counted(F, G, k), F[k].kind = "switch",
           Clear(F, {"switch"}, k, Len(F) + 1), NEW f, f.kind # "switch", NEW F2, Pushed(G, F2, f),
           NEW M, NEW top \in Nat, NEW J, Remembered(F, J, M, top), NEW J2, NEW case, NEW case2,
           Operands(J2, NextLabel(G[k])) = {case2} \ {0},
           \A l : l.id # F[k].id => Operands(J2, l) = Operands(J, l),
           CaseTests(F, J, case)
    PROVE  CaseTests(F2, J2, case2)
<1>1. /\ Len(F) \in Nat /\ Len(F2) = Len(F) + 1 /\ F2[Len(F) + 1] = f
      /\ \A i \in 1..Len(F) : F2[i] = G[i]
  BY DEF Pushed, Counted
<1>2. \A i \in 1..Len(F) : F2[i].kind = F[i].kind /\ F2[i].old_case = F[i].old_case /\ (i # k => F2[i] = F[i])
  BY <1>1 DEF Counted
<1>3. PICK kinds : kinds = {"switch"}
  OBVIOUS
<1>4. /\ \A n \in 1..Len(F) : F[n].kind \in kinds /\ Clear(F, kinds, n, Len(F) + 1) => n = k
      /\ \A n \in 1..Len(F) : F[n].kind \in kinds => n <= k
      /\ ~ Clear(F, kinds, 0, Len(F) + 1)
  BY <1>3, InnermostOnly
<1>5. \A i \in 1..Len(F2) : F2[i].kind = "switch" => i \in 1..Len(F) /\ F[i].kind = "switch" /\ i \in Nat
  BY <1>1, <1>2, SMTT(30)
<1>6. ASSUME NEW i \in Nat, Clear(F2, kinds, i, Len(F2) + 1) PROVE Clear(F, kinds, i, Len(F) + 1)
  <2>1. ASSUME NEW n \in i + 1..Len(F) + 1 - 1 PROVE F[n].kind \notin kinds
    <3>1. n \in i + 1..Len(F2) + 1 - 1 /\ n \in 1..Len(F)
      BY <1>1
    <3> QED BY <1>2, <1>6, <3>1 DEF Clear
  <2> QED BY <2>1 DEF Clear
<1>7. ASSUME NEW i \in Nat, NEW n \in 1..Len(F), Clear(F2, kinds, i, n) PROVE Clear(F, kinds, i, n)
  <2>1. ASSUME NEW m \in i + 1..n - 1 PROVE F[m].kind \notin kinds
    <3>1. m \in 1..Len(F)
      BY <1>1
    <3> QED BY <1>2, <1>7, <3>1 DEF Clear
  <2> QED BY <2>1 DEF Clear
<1>8. ASSUME NEW i \in 1..Len(F2), F2[i].kind = "switch", Clear(F2, kinds, i, Len(F2) + 1)
      PROVE  Operands(J2, NextLabel(F2[i])) = {case2} \ {0}
  <2>1. i = k
    BY <1>3, <1>4, <1>5, <1>6, <1>8
  <2> QED BY <1>1, <2>1
<1>9. ASSUME NEW i \in 1..Len(F2), NEW n \in 1..Len(F2), i < n, F2[i].kind = "switch", F2[n].kind = "switch",
             Clear(F2, kinds, i, n)
      PROVE  Operands(J2, NextLabel(F2[i])) = {F2[n].old_case} \ {0}
  <2>1. i \in 1..Len(F) /\ n \in 1..Len(F) /\ F[i].kind = "switch" /\ F[n].kind = "switch" /\ Clear(F, kinds, i, n)
    BY <1>5, <1>7, <1>9
  <2>2. i # k
    BY <1>3, <1>4, <1>9, <2>1
  <2>3. F[i].id # F[k].id
    BY <2>1, <2>2, FramesApart
  <2>4. NextLabel(F[i]).id # F[k].id
    BY <2>3, LabelParts DEF NextLabel
  <2>5. Operands(J, NextLabel(F[i])) = {F[n].old_case} \ {0}
    BY <1>3, <1>9, <2>1 DEF CaseTests
  <2>6. F2[i] = F[i] /\ F2[n].old_case = F[n].old_case
    BY <1>2, <2>1, <2>2
  <2> QED BY <2>4, <2>5, <2>6
<1>10. ~ Clear(F2, kinds, 0, Len(F2) + 1)
  <2>1. 0 \in Nat
    OBVIOUS
  <2> QED BY <1>4, <1>6, <2>1
<1>11. ASSUME NEW n \in 1..Len(F2), F2[n].kind = "switch", Clear(F2, kinds, 0, n) PROVE F2[n].old_case = 0
  <2>1. n \in 1..Len(F) /\ F[n].kind = "switch" /\ Clear(F, kinds, 0, n)
    BY <1>5, <1>7, <1>11
  <2>2. F[n].old_case = 0
    BY <1>3, <2>1 DEF CaseTests
  <2> QED BY <1>2, <2>1, <2>2
<1> QED BY <1>3, <1>8, <1>9, <1>10, <1>11 DEF CaseTests

\* What the frames remember, when a label is counted and its statement pushed.
LEMMA RememberedCounted ==
    ASSUME NEW F \in Seq(FrameType), NEW G, NEW k \in 1..Len(F), Counted(F, G, k), F[k].kind = "switch",
           NEW J, J \subseteq JumpType, NEW J2, J \subseteq J2, J2 \subseteq JumpType, NEW M, NEW M2, M \subseteq M2,
           NEW top \in Nat, Remembered(F, J, M, top),
           \A j \in J2 : j \in J \/ j.label = NextLabel(G[k]),
           \A m \in M2 : m \in M \/ m.label.what # "else"
    PROVE  Remembered(G, J2, M2, top)
<1>1. /\ G \in Seq(FrameType) /\ Len(G) = Len(F) /\ Len(F) \in Nat /\ top <= top /\ Len(G) <= Len(F)
      /\ \A i \in 1..Len(F) : G[i].kind = F[i].kind /\ G[i].id = F[i].id /\ G[i].addr = F[i].addr /\ (i # k => G[i] = F[i])
      /\ G[k].labels = F[k].labels + 1
  BY DEF Counted
<1>2. \A i \in 1..Len(F) : F[i] \in FrameType /\ F[i].labels \in Nat
  <2>1. \A i \in 1..Len(F) : F[i] \in FrameType
    OBVIOUS
  <2> QED BY <2>1 DEF FrameType
<1>3. \A i \in 1..Len(G) : G[i].kind = F[i].kind /\ G[i].id = F[i].id /\ G[i].labels >= F[i].labels
  BY <1>1, <1>2
<1>4. \A i \in 1..Len(G) : G[i].kind \in Loops => G[i].addr = F[i].addr
  BY <1>1
<1>5. ASSUME NEW i \in 1..Len(G), G[i].kind = "if" PROVE Waiting(G[i], J2, M2)
  <2>1. G[i] = F[i] /\ Waiting(F[i], J, M)
    BY <1>1, <1>5 DEF Remembered
  <2>2. \A m \in M2 : m \in M \/ m.label # Label(G[i].id, "else", 0)
    BY LabelParts
  <2> QED BY <2>1, <2>2, WaitingKept
<1>6. ASSUME NEW j \in J2, j \notin J, NEW i \in 1..Len(G), j.label.id = G[i].id, j.label.what = "label"
      PROVE  j.label.n <= G[i].labels + 1
  <2>1. j.label.id = G[k].id /\ j.label.n = G[k].labels + 1
    BY <1>6, LabelParts DEF NextLabel
  <2>2. i = k
    <3>1. i \in 1..Len(F) /\ F[i].id = F[k].id
      BY <1>1, <1>6, <2>1
    <3> QED BY <3>1, FramesApart
  <2>3. G[k].labels + 1 \in Nat
    BY <1>1, <1>2
  <2> QED BY <2>1, <2>2, <2>3
<1>7. \A j \in J2 : j \in J \/ \A i \in 1..Len(G) : j.label.id = G[i].id /\ j.label.what = "label" => j.label.n <= G[i].labels + 1
  BY <1>6
<1> QED BY <1>1, <1>3, <1>4, <1>5, <1>7, RememberedKept
\* How the encoder emits a label of switch k: f is the frame of the statement it labels,
\* P what is patched, C the operand of the new test, if there is one.
Labelled(k, G, f, P, C) ==
    /\ frames[k].kind = "switch" /\ Clear(frames, {"switch"}, k, Len(frames) + 1)
    /\ Counted(frames, G, k) /\ f.kind \in {"case", "default"} /\ f.id = opened' /\ Pushed(G, frames', f)
    /\ Emitted(memory, memory', P) /\ NewCode(memory, memory', C) /\ Patchable(jumps, P)
    /\ \A j \in jumps : j.cell \in P => j.label = NextLabel(frames[k])
    /\ \A j \in jumps : j.label = NextLabel(frames[k]) => Get(memory', j.cell) = Len(memory)
    /\ marks' = marks \cup {Mark(NextLabel(frames[k]), Len(memory))}

\* The new test: it is owed by the switch.
Tested(l, C) ==
    \/ jumps' = jumps /\ C = {} /\ addr_case' = 0
    \/ \E c \in Len(memory)..Len(memory') - 1 :
          /\ memory'[c + 1].kind = "arg"
          /\ jumps' = jumps \cup {Jump(c, l)} /\ C = {c} /\ addr_case' = c

\* The jumps afterwards.
LEMMA TestedJumps ==
    ASSUME JumpsInv, NEW l \in LabelType, l.id <= opened, opened' = opened + 1, \A j \in jumps : j.label # l,
           NEW P, Emitted(memory, memory', P), NEW C, Tested(l, C)
    PROVE  /\ jumps \subseteq jumps' /\ jumps' \subseteq JumpType /\ addr_case' \in Nat
           /\ \A j \in jumps' : j \in jumps \/ j.label = l
           /\ Placed(memory', jumps', opened') /\ \A c \in C : \E j \in jumps' : j.cell = c
           /\ Operands(jumps', l) = {addr_case'} \ {0}
<1>a. /\ memory \in Seq(CellType) /\ Len(memory) >= 7 /\ Len(memory) \in Nat
      /\ frames \in Seq(FrameType) /\ Len(frames) \in Nat /\ opened \in Nat
      /\ jumps \subseteq JumpType /\ marks \subseteq MarkType
      /\ addr_cond \in Nat /\ addr_case \in Nat /\ addr_break \in Nat
  BY DEF JumpsInv, TypeInv
<1>b. /\ Phase(frames, marks, memory, addr_cond, todo) /\ Placed(memory, jumps, opened) /\ Marked(memory, marks, opened)
      /\ Coded(memory, jumps)
  BY DEF JumpsInv, Sound
<1>c. /\ BreakChains(frames, jumps, memory, addr_break, todo)
      /\ ContinueChains(frames, jumps, marks, memory, addr_cond, todo)
      /\ CaseTests(frames, jumps, addr_case)
  BY DEF JumpsInv, Sound
<1>d. Remembered(frames, jumps, marks, opened) /\ Accounted(frames, jumps, marks, memory, todo)
  BY DEF JumpsInv, Sound
<1>1. opened' \in Nat /\ opened <= opened' /\ l.id <= opened'
  <2>1. l.id \in Nat
    BY DEF LabelType
  <2> QED BY <1>a, <2>1
<1>2. Operands(jumps, l) = {}
  BY DEF Operands
<1>3. CASE jumps' = jumps /\ C = {} /\ addr_case' = 0
  <2>1. Placed(memory', jumps, opened')
    BY <1>a, <1>b, <1>1, PlacedKept
  <2> QED BY <1>a, <1>2, <1>3, <2>1
<1>4. CASE \E c \in Len(memory)..Len(memory') - 1 :
              /\ memory'[c + 1].kind = "arg"
              /\ jumps' = jumps \cup {Jump(c, l)} /\ C = {c} /\ addr_case' = c
  <2>1. PICK c \in Len(memory)..Len(memory') - 1 :
              /\ memory'[c + 1].kind = "arg"
              /\ jumps' = jumps \cup {Jump(c, l)} /\ C = {c} /\ addr_case' = c
    BY <1>4
  <2>2. c \in Nat /\ c > 0
    <3>1. Len(memory') \in Nat
      BY DEF Emitted
    <3> QED BY <1>a, <2>1, <3>1
  <2>3. Jump(c, l) \in JumpType /\ Jump(c, l).cell = c /\ Jump(c, l).label = l
    BY <2>2, JumpParts DEF Jump, JumpType
  <2>4. Placed(memory', jumps', opened')
    BY <1>a, <1>b, <1>1, <2>1, PlacedMore
  <2>5. Operands(jumps', l) = {c}
    BY <2>1, <2>3 DEF Operands
  <2>6. {c} = {addr_case'} \ {0}
    BY <2>1, <2>2
  <2> QED BY <1>a, <2>1, <2>2, <2>3, <2>4, <2>5, <2>6
<1> QED BY <1>3, <1>4 DEF Tested

\* A label keeps the invariant.
LEMMA LabelInv ==
    ASSUME JumpsInv, todo = "stmt", todo' = "stmt", opened' = opened + 1,
           NEW k \in 1..Len(frames), NEW G, NEW f \in FrameType, NEW P, NEW C, Labelled(k, G, f, P, C),
           Tested(NextLabel(G[k]), C),
           addr_cond' = addr_cond, addr_break' = addr_break, displ' = displ, max_local_displ' = max_local_displ
    PROVE  JumpsInv'
<1>a. /\ memory \in Seq(CellType) /\ Len(memory) >= 7 /\ Len(memory) \in Nat
      /\ frames \in Seq(FrameType) /\ Len(frames) \in Nat /\ opened \in Nat
      /\ jumps \subseteq JumpType /\ marks \subseteq MarkType
      /\ addr_cond \in Nat /\ addr_case \in Nat /\ addr_break \in Nat
  BY DEF JumpsInv, TypeInv
<1>b. /\ Phase(frames, marks, memory, addr_cond, todo) /\ Placed(memory, jumps, opened) /\ Marked(memory, marks, opened)
      /\ Coded(memory, jumps)
  BY DEF JumpsInv, Sound
<1>c. /\ BreakChains(frames, jumps, memory, addr_break, todo)
      /\ ContinueChains(frames, jumps, marks, memory, addr_cond, todo)
      /\ CaseTests(frames, jumps, addr_case)
  BY DEF JumpsInv, Sound
<1>d. Remembered(frames, jumps, marks, opened) /\ Accounted(frames, jumps, marks, memory, todo)
  BY DEF JumpsInv, Sound
<1>1. /\ frames[k].kind = "switch" /\ Clear(frames, {"switch"}, k, Len(frames) + 1)
      /\ Counted(frames, G, k) /\ f.kind \in {"case", "default"} /\ f.id = opened + 1 /\ Pushed(G, frames', f)
      /\ Emitted(memory, memory', P) /\ NewCode(memory, memory', C) /\ Patchable(jumps, P)
      /\ \A j \in jumps : j.cell \in P => j.label = NextLabel(frames[k])
      /\ \A j \in jumps : j.label = NextLabel(frames[k]) => Get(memory', j.cell) = Len(memory)
  BY DEF Labelled
<1>2. /\ G \in Seq(FrameType) /\ Len(G) = Len(frames) /\ frames' = Append(G, f) /\ frames' \in Seq(FrameType)
      /\ Len(frames') = Len(frames) + 1 /\ frames'[Len(frames) + 1] = f /\ \A i \in 1..Len(frames) : frames'[i] = G[i]
      /\ \A i \in 1..Len(frames) : /\ G[i].kind = frames[i].kind /\ G[i].id = frames[i].id /\ G[i].addr = frames[i].addr
                                   /\ G[i].old_cond = frames[i].old_cond /\ G[i].old_case = frames[i].old_case
                                   /\ G[i].old_break = frames[i].old_break
                                   /\ i # k => G[i] = frames[i]
      /\ G[k].labels = frames[k].labels + 1 /\ G[k] \in FrameType
  BY <1>1 DEF Pushed, Counted
<1>3. frames[k].id \in Nat /\ frames[k].id <= opened /\ frames[k].labels \in Nat
  <2>1. frames[k] \in FrameType
    BY <1>a
  <2>2. frames[k].id \in 1..opened
    BY <1>d DEF Remembered
  <2>3. frames[k].id \in Nat /\ frames[k].labels \in Nat
    BY <2>1 DEF FrameType
  <2>4. frames[k].id <= opened
    BY <1>a, <2>2
  <2> QED BY <2>3, <2>4
<1>4. PICK q \in LabelType : q = NextLabel(frames[k]) /\ q.id = frames[k].id /\ q.what = "label" /\ q.n = frames[k].labels + 1
  <2>1. "label" \in Whats /\ frames[k].labels + 1 \in Nat
    BY <1>3 DEF Whats
  <2> QED BY <1>3, <2>1, LabelTyped DEF NextLabel
<1>5. PICK l \in LabelType : l = NextLabel(G[k]) /\ l.id = frames[k].id /\ l.what = "label" /\ l.n = frames[k].labels + 2
  <2>1. "label" \in Whats /\ G[k].labels + 1 \in Nat /\ G[k].labels + 1 = frames[k].labels + 2 /\ G[k].id \in Nat
    BY <1>2, <1>3 DEF Whats
  <2> QED BY <1>2, <2>1, LabelTyped DEF NextLabel
<1>6. \A j \in jumps : j.label # l
  <2> SUFFICES ASSUME NEW j \in jumps, j.label = l PROVE FALSE
    OBVIOUS
  <2>1. l.n <= frames[k].labels + 1
    BY <1>d, <1>5 DEF Remembered
  <2> QED BY <1>3, <1>5, <2>1
<1>7. /\ jumps \subseteq jumps' /\ jumps' \subseteq JumpType /\ addr_case' \in Nat
      /\ \A j \in jumps' : j \in jumps \/ j.label = l
      /\ Placed(memory', jumps', opened') /\ \A c \in C : \E j \in jumps' : j.cell = c
      /\ Operands(jumps', l) = {addr_case'} \ {0}
  BY <1>1, <1>3, <1>5, <1>6, TestedJumps
<1>8. PICK N : N = {Mark(q, Len(memory))} /\ marks' = marks \cup N
  BY <1>4 DEF Labelled
<1>9. opened' \in Nat /\ opened <= opened' /\ marks \subseteq marks'
  BY <1>a, <1>8
<1>10. marks' \subseteq MarkType /\ \A m \in marks' : m \in marks \/ m.label.what # "else"
  BY <1>a, <1>4, <1>8, JumpParts DEF Mark, MarkType
<1>11. Marked(memory', marks', opened')
  <2>1. Landing(memory', Len(memory))
    BY <1>a, <1>1 DEF Landing, Emitted
  <2>2. \A m \in N : Landing(memory', m.addr) /\ m.label.id <= opened'
    BY <1>a, <1>3, <1>4, <1>8, <2>1, JumpParts
  <2>3. Marked(memory', marks \cup N, opened')
    BY <1>a, <1>b, <1>1, <1>9, <2>2, MarkedKept
  <2> QED BY <1>8, <2>3
<1>12. Coded(memory', jumps')
  BY <1>a, <1>b, <1>1, <1>7, CodedKept
<1>13. SameFrames(frames, frames', Breakable)
  <2>1. f.kind \notin Breakable
    BY <1>1 DEF Breakable, Loops
  <2> QED BY <1>a, <1>2, <2>1 DEF SameFrames
<1>14. AsideOnly(frames, jumps, jumps', P)
  <2>1. Aside(frames, q) /\ Aside(frames, l)
    <3>1. \A n : Aside(frames, Label(frames[k].id, "label", n))
      BY <1>a, <1>d, AsideLabels
    <3> QED BY <1>2, <1>4, <1>5, <3>1 DEF NextLabel
  <2> QED BY <1>1, <1>4, <1>7, <2>1 DEF AsideOnly
<1>15. BreakChains(frames', jumps', memory', addr_break, "stmt")
  <2>1. todo # "break"
    OBVIOUS
  <2> QED BY <1>a, <1>b, <1>c, <1>1, <1>2, <1>13, <1>14, <2>1, BreaksAside
<1>16. ContinueChains(frames', jumps', marks', memory', addr_cond, "stmt")
  <2>1. todo # "break" /\ (todo = "cond" => "stmt" = "break" /\ Len(frames') = Len(frames))
    OBVIOUS
  <2> QED BY <1>a, <1>b, <1>c, <1>1, <1>2, <1>9, <1>13, <1>14, <2>1, ContinuesAside
<1>17. CaseTests(frames', jumps', addr_case')
  <2>1. \A i : i.id # frames[k].id => Operands(jumps', i) = Operands(jumps, i)
    BY <1>5, <1>7 DEF Operands
  <2>2. f.kind # "switch" /\ Operands(jumps', NextLabel(G[k])) = {addr_case'} \ {0}
    BY <1>1, <1>5, <1>7
  <2> QED BY <1>a, <1>c, <1>d, <1>1, <2>1, <2>2, TestsCounted
<1>18. Remembered(frames', jumps', marks', opened')
  <2>1. Remembered(G, jumps', marks', opened)
    BY <1>a, <1>d, <1>1, <1>5, <1>7, <1>9, <1>10, RememberedCounted, SMTT(30)
  <2>2. \A j \in jumps' : j.label.id = f.id => j.label.what # "label"
    <3> SUFFICES ASSUME NEW j \in jumps', j.label.id = f.id PROVE FALSE
      OBVIOUS
    <3>1. j.label.id <= opened
      BY <1>b, <1>3, <1>5, <1>7 DEF Placed
    <3> QED BY <1>a, <1>1, <3>1
  <2>3. f.kind \notin Loops /\ f.kind # "while" /\ f.kind # "if"
    BY <1>1 DEF Loops
  <2>4. Remembered(Append(G, f), jumps', marks', opened + 1)
    BY <1>a, <1>1, <1>2, <2>1, <2>2, <2>3, RememberedPush
  <2> QED BY <1>2, <2>4
<1>19. ASSUME NEW j \in jumps, j.label = q PROVE Answered(frames', marks', memory', "stmt", j)
  <2>1. Mark(q, Len(memory)) \in marks' /\ Get(memory', j.cell) = Len(memory)
    BY <1>1, <1>4, <1>8, <1>19
  <2>2. Settled(memory', marks', j)
    BY <1>19, <2>1, JumpParts DEF Settled
  <2> QED BY <2>2 DEF Answered
<1>20. Accounted(frames', jumps', marks', memory', "stmt")
  <2>1. ASSUME NEW j \in jumps, NEW i \in 1..Len(frames), Owes(frames, i, j, todo) PROVE Answered(frames', marks', memory', "stmt", j)
    <3>1. CASE j.label = q
      BY <1>19, <3>1
    <3>2. CASE j.label # q
      <4>1. i \in 1..Len(frames') /\ frames'[i].kind = frames[i].kind /\ frames'[i].id = frames[i].id /\ frames'[i].addr = frames[i].addr
        BY <1>a, <1>2
      <4>2. CASE i = k
        <5>1. Owes(frames', i, j, "stmt")
          BY <1>1, <1>4, <2>1, <3>2, <4>1, <4>2 DEF Owes, EndOf, ContinueOf
        <5> QED BY <4>1, <5>1 DEF Answered
      <4>3. CASE i # k
        <5>1. frames'[i] = frames[i]
          BY <1>2, <4>3
        <5>2. Owes(frames', i, j, "stmt")
          BY <2>1, <5>1 DEF Owes
        <5> QED BY <4>1, <5>2 DEF Answered
      <4> QED BY <4>2, <4>3
    <3> QED BY <3>1, <3>2
  <2>2. \A j \in jumps : j.cell \in P => Answered(frames', marks', memory', "stmt", j)
    BY <1>1, <1>4, <1>19
  <2>3. ASSUME NEW j \in jumps', j \notin jumps PROVE Answered(frames', marks', memory', "stmt", j)
    <3>1. j.label = NextLabel(frames'[k]) /\ frames'[k].kind = "switch" /\ k \in 1..Len(frames')
      BY <1>a, <1>1, <1>2, <1>5, <1>7, <2>3
    <3>2. Owes(frames', k, j, "stmt")
      BY <3>1 DEF Owes
    <3> QED BY <3>1, <3>2 DEF Answered
  <2>4. \A j \in jumps' : j \in jumps \/ Answered(frames', marks', memory', "stmt", j)
    BY <2>3
  <2> QED BY <1>a, <1>b, <1>d, <1>1, <1>9, <2>1, <2>2, <2>4, AccountedKept
<1>21. Phase(frames', marks', memory', addr_cond, "stmt") /\ Finished(memory', "stmt")
  BY DEF Phase, Finished
<1>22. TypeInv'
  <2>1. memory' \in Seq(CellType) /\ Len(memory') >= 7
    BY <1>a, <1>1 DEF Emitted
  <2>2. displ' \in Nat /\ max_local_displ' \in Nat
    BY DEF JumpsInv, TypeInv
  <2> QED BY <1>a, <1>2, <1>7, <1>9, <1>10, <2>1, <2>2 DEF TypeInv
<1> QED BY <1>7, <1>11, <1>12, <1>15, <1>16, <1>17, <1>18, <1>20, <1>21, <1>22 DEF JumpsInv, Sound
\* The frame of a label of the innermost switch.
LabelFrame(kind, k, G, f) ==
    /\ k \in 1..Len(frames) /\ k = Max(Enclosing({"switch"}))
    /\ frames[k].kind = "switch" /\ Clear(frames, {"switch"}, k, Len(frames) + 1)
    /\ G = [frames EXCEPT ![k].labels = @ + 1] /\ Counted(frames, G, k)
    /\ f \in FrameType /\ f.kind = kind /\ f.id = opened' /\ Pushed(G, frames', f)

LEMMA LabelFrameKept ==
    ASSUME JumpsInv, opened' \in Nat, InSwitch, NEW kind \in {"case", "default"},
           frames' = Append([frames EXCEPT ![Max(Enclosing({"switch"}))].labels = @ + 1], Frame(kind, 0, FALSE))
    PROVE  \E k, G, f : LabelFrame(kind, k, G, f)
<1>1. frames \in Seq(FrameType) /\ TypeInv
  BY DEF JumpsInv, TypeInv
<1>2. PICK kinds : kinds = {"switch"}
  OBVIOUS
<1>3. PICK S : S = {i \in 1..Len(frames) : frames[i].kind \in kinds}
  OBVIOUS
<1>4. S = Enclosing({"switch"}) /\ S # {}
  BY <1>2, <1>3 DEF Enclosing, Depth, InSwitch
<1>5. PICK k \in 1..Len(frames) : k = Max(S) /\ frames[k].kind \in kinds /\ Clear(frames, kinds, k, Len(frames) + 1)
  BY <1>1, <1>3, <1>4, InnermostFrame
<1>6. PICK G : G = [frames EXCEPT ![k].labels = @ + 1]
  OBVIOUS
<1>7. Counted(frames, G, k)
  BY <1>1, <1>6, CountedFrames
<1>8. G \in Seq(FrameType)
  BY <1>7 DEF Counted
<1>9. frames' = Append(G, Frame(kind, 0, FALSE))
  BY <1>4, <1>5, <1>6
<1>10. PICK f \in FrameType : IsFrame(f, kind, 0, FALSE) /\ frames' = Append(G, f) /\ frames' \in Seq(FrameType)
  <2>1. kind \in Kinds /\ 0 \in Nat
    BY DEF Kinds
  <2> QED BY <1>1, <1>8, <1>9, <2>1, PushFrame, Zenon
<1>11. Pushed(G, frames', f) /\ f.kind = kind /\ f.id = opened'
  <2>1. f.kind = kind /\ f.id = opened'
    BY <1>10, Zenon DEF IsFrame
  <2>2. frames' = Append(G, f) /\ frames' \in Seq(FrameType)
    BY <1>10, Zenon
  <2>3. /\ Len(Append(G, f)) = Len(G) + 1 /\ Append(G, f)[Len(G) + 1] = f
        /\ \A i \in 1..Len(G) : Append(G, f)[i] = G[i]
    BY <1>8, AppendFrames
  <2>4. Pushed(G, frames', f)
    BY <2>2, <2>3 DEF Pushed
  <2> QED BY <2>1, <2>4
<1>12. LabelFrame(kind, k, G, f)
  BY <1>2, <1>4, <1>5, <1>6, <1>7, <1>10, <1>11 DEF LabelFrame
<1> QED BY <1>12

\* A default keeps the invariant.
LEMMA BeginDefaultStep ==
    ASSUME JumpsInv, BeginDefault
    PROVE  JumpsInv'
<1>a. /\ memory \in Seq(CellType) /\ Len(memory) >= 7 /\ Len(memory) \in Nat
      /\ frames \in Seq(FrameType) /\ Len(frames) \in Nat /\ opened \in Nat
      /\ jumps \subseteq JumpType /\ marks \subseteq MarkType
      /\ addr_cond \in Nat /\ addr_case \in Nat /\ addr_break \in Nat
  BY DEF JumpsInv, TypeInv
<1>b. /\ Phase(frames, marks, memory, addr_cond, todo) /\ Placed(memory, jumps, opened) /\ Marked(memory, marks, opened)
      /\ Coded(memory, jumps)
  BY DEF JumpsInv, Sound
<1>c. /\ BreakChains(frames, jumps, memory, addr_break, todo)
      /\ ContinueChains(frames, jumps, marks, memory, addr_cond, todo)
      /\ CaseTests(frames, jumps, addr_case)
  BY DEF JumpsInv, Sound
<1>d. Remembered(frames, jumps, marks, opened) /\ Accounted(frames, jumps, marks, memory, todo)
  BY DEF JumpsInv, Sound
<1>1. /\ todo = "stmt" /\ todo' = "stmt" /\ opened' = opened + 1 /\ opened' \in Nat /\ InSwitch
      /\ addr_cond' = addr_cond /\ addr_break' = addr_break /\ addr_case' = 0 /\ jumps' = jumps /\ memory' = SettleCase
      /\ displ' = displ /\ max_local_displ' = max_local_displ
  BY <1>a DEF BeginDefault, Begin
<1>2. PICK k, G, f : LabelFrame("default", k, G, f)
  <2>1. frames' = Append([frames EXCEPT ![Max(Enclosing({"switch"}))].labels = @ + 1], Frame("default", 0, FALSE))
    BY DEF BeginDefault
  <2> QED BY <1>1, <2>1, LabelFrameKept
<1>3. /\ k \in 1..Len(frames) /\ k = Max(Enclosing({"switch"}))
      /\ frames[k].kind = "switch" /\ Clear(frames, {"switch"}, k, Len(frames) + 1) /\ Counted(frames, G, k)
      /\ f \in FrameType /\ f.kind \in {"case", "default"} /\ f.id = opened' /\ Pushed(G, frames', f)
  BY <1>2 DEF LabelFrame
<1>4. PICK P : CaseSettled(k, memory', P)
  BY <1>1, <1>3, SettleCaseKept
<1>5. marks' = marks \cup {Mark(NextLabel(frames[k]), Len(memory))}
  BY <1>3 DEF BeginDefault, mem_size
<1>6. Labelled(k, G, f, P, {})
  BY <1>3, <1>4, <1>5 DEF Labelled, CaseSettled
<1>7. Tested(NextLabel(G[k]), {})
  BY <1>1 DEF Tested
<1> QED BY <1>1, <1>3, <1>6, <1>7, LabelInv

\* A case keeps the invariant.
LEMMA BeginCaseStep ==
    ASSUME JumpsInv, NEW value \in CaseValues, BeginCase(value)
    PROVE  JumpsInv'
<1>a. /\ memory \in Seq(CellType) /\ Len(memory) >= 7 /\ Len(memory) \in Nat
      /\ frames \in Seq(FrameType) /\ Len(frames) \in Nat /\ opened \in Nat
      /\ jumps \subseteq JumpType /\ marks \subseteq MarkType
      /\ addr_cond \in Nat /\ addr_case \in Nat /\ addr_break \in Nat
  BY DEF JumpsInv, TypeInv
<1>b. /\ Phase(frames, marks, memory, addr_cond, todo) /\ Placed(memory, jumps, opened) /\ Marked(memory, marks, opened)
      /\ Coded(memory, jumps)
  BY DEF JumpsInv, Sound
<1>c. /\ BreakChains(frames, jumps, memory, addr_break, todo)
      /\ ContinueChains(frames, jumps, marks, memory, addr_cond, todo)
      /\ CaseTests(frames, jumps, addr_case)
  BY DEF JumpsInv, Sound
<1>d. Remembered(frames, jumps, marks, opened) /\ Accounted(frames, jumps, marks, memory, todo)
  BY DEF JumpsInv, Sound
<1>1. /\ todo = "stmt" /\ todo' = "stmt" /\ opened' = opened + 1 /\ opened' \in Nat /\ InSwitch
      /\ addr_cond' = addr_cond /\ addr_break' = addr_break /\ addr_case' = Len(memory) + 5
      /\ displ' = displ /\ max_local_displ' = max_local_displ
  <2>1. todo = "stmt" /\ todo' = "stmt" /\ opened' = opened + 1 /\ InSwitch
    BY Zenon DEF BeginCase, Begin
  <2>2. addr_cond' = addr_cond /\ addr_break' = addr_break /\ displ' = displ /\ max_local_displ' = max_local_displ
    BY Zenon DEF BeginCase
  <2>3. addr_case' = Len(memory) + 5
    BY Zenon DEF BeginCase, mem_size
  <2> QED BY <1>a, <2>1, <2>2, <2>3
<1>2. PICK k, G, f : LabelFrame("case", k, G, f)
  <2>1. frames' = Append([frames EXCEPT ![Max(Enclosing({"switch"}))].labels = @ + 1], Frame("case", 0, FALSE))
    BY DEF BeginCase
  <2> QED BY <1>1, <2>1, LabelFrameKept
<1>3. /\ k \in 1..Len(frames) /\ k = Max(Enclosing({"switch"})) /\ G = [frames EXCEPT ![k].labels = @ + 1]
      /\ frames[k].kind = "switch" /\ Clear(frames, {"switch"}, k, Len(frames) + 1) /\ Counted(frames, G, k)
      /\ f \in FrameType /\ f.kind \in {"case", "default"} /\ f.id = opened' /\ Pushed(G, frames', f)
  BY <1>2 DEF LabelFrame
<1>4. PICK mem1, P : mem1 = SettleCase /\ CaseSettled(k, mem1, P)
  BY <1>3, SettleCaseKept
<1>5. /\ Emitted(memory, mem1, P) /\ Len(mem1) = Len(memory) /\ Patchable(jumps, P) /\ mem1 \in Seq(CellType)
      /\ \A j \in jumps : j.cell \in P => j.label = NextLabel(frames[k])
      /\ \A j \in jumps : j.label = NextLabel(frames[k]) => Get(mem1, j.cell) = Len(memory)
  BY <1>4 DEF CaseSettled, Emitted
<1>6. PICK code : code = <<Code("duplicate"), Code("li"), Arg(value), Code("eq"), Code("be0"), Arg(0)>>
  OBVIOUS
<1>7. PICK c \in Nat : c = Len(memory) + 5
  BY <1>a
<1>8. GoodCode(code, Len(mem1), {c}) /\ Len(code) = 6 /\ code[6] = Arg(0)
  <2>1. value \in Int
    BY CodegenAssumption
  <2> QED BY <1>a, <1>5, <1>6, <1>7, <2>1, CaseGood
<1>9. memory' = mem1 \o code
  BY <1>4, <1>6 DEF BeginCase
<1>10. /\ Emitted(mem1, mem1 \o code, {}) /\ Len(mem1 \o code) = Len(mem1) + Len(code)
       /\ \A i \in 1..Len(code) : (mem1 \o code)[Len(mem1) + i] = code[i]
       /\ NewCode(mem1, mem1 \o code, {c})
  BY <1>a, <1>5, <1>8, GoodCodeEmitted, ZenonT(40)
<1>11. Len(memory') = Len(memory) + 6 /\ memory'[c + 1] = Arg(0)
  <2>1. c + 1 = Len(mem1) + 6 /\ 6 \in 1..Len(code)
    BY <1>a, <1>5, <1>7, <1>8
  <2> QED BY <1>5, <1>8, <1>9, <1>10, <2>1
<1>12. NewCode(memory, memory', {c})
  BY <1>5, <1>9, <1>10 DEF NewCode
<1>13. PICK Q : Q = {} /\ Emitted(mem1, memory', Q) /\ \A x : x \notin Q
  BY <1>9, <1>10
<1>14. Emitted(memory, memory', P)
  <2>1. Emitted(memory, memory', P \cup Q)
    BY <1>a, <1>5, <1>13, EmittedBoth
  <2>2. P \cup Q = P
    BY <1>13
  <2> QED BY <2>1, <2>2
<1>15. \A j \in jumps : j.label = NextLabel(frames[k]) => Get(memory', j.cell) = Len(memory)
  <2> SUFFICES ASSUME NEW j \in jumps, j.label = NextLabel(frames[k]) PROVE Get(memory', j.cell) = Len(memory)
    OBVIOUS
  <2>1. j.cell \in 0..Len(mem1) - 1 /\ j.cell \notin Q
    BY <1>a, <1>b, <1>5, <1>13 DEF Placed
  <2>2. Get(memory', j.cell) = Get(mem1, j.cell)
    BY <1>5, <1>13, <2>1, GetKept
  <2> QED BY <1>5, <2>2
<1>16. marks' = marks \cup {Mark(NextLabel(frames[k]), Len(memory))}
  BY <1>3 DEF BeginCase, mem_size
<1>17. Labelled(k, G, f, P, {c})
  BY <1>3, <1>5, <1>12, <1>14, <1>15, <1>16 DEF Labelled
<1>18. jumps' = jumps \cup {Jump(c, NextLabel(G[k]))}
  BY <1>3, <1>7 DEF BeginCase, mem_size
<1>19. Tested(NextLabel(G[k]), {c})
  <2>1. c \in Len(memory)..Len(memory') - 1 /\ addr_case' = c
    BY <1>a, <1>1, <1>7, <1>11
  <2>2. memory'[c + 1].kind = "arg"
    BY <1>11, CellTypes
  <2> QED BY <1>18, <2>1, <2>2 DEF Tested
<1> QED BY <1>1, <1>3, <1>17, <1>19, LabelInv

-----------------------------------------------------------------------------
(* The steps: the end of a loop or switch *)

\* F2 is F without its last frame f.
Popped(F, F2, f) ==
    /\ F \in Seq(FrameType) /\ Len(F) \in Nat /\ Len(F) > 0 /\ f = F[Len(F)]
    /\ F2 \in Seq(FrameType) /\ Len(F2) = Len(F) - 1
    /\ \A k \in 1..Len(F2) : k \in 1..Len(F) /\ F2[k] = F[k]

\* What is between two frames after the last one is popped.
LEMMA ClearPopped ==
    ASSUME NEW F, NEW F2, NEW f, Popped(F, F2, f), NEW kinds, NEW k \in Nat
    PROVE  /\ Clear(F2, kinds, k, Len(F2) + 1) => Clear(F, kinds, k, Len(F))
           /\ \A n \in 1..Len(F2) : Clear(F2, kinds, k, n) => Clear(F, kinds, k, n)
<1>1. Len(F) \in Nat /\ Len(F2) = Len(F) - 1 /\ \A i \in 1..Len(F2) : F2[i] = F[i]
  BY DEF Popped
<1>2. ASSUME Clear(F2, kinds, k, Len(F2) + 1) PROVE Clear(F, kinds, k, Len(F))
  BY <1>1, <1>2 DEF Clear
<1>3. ASSUME NEW n \in 1..Len(F2), Clear(F2, kinds, k, n) PROVE Clear(F, kinds, k, n)
  BY <1>1, <1>3 DEF Clear
<1> QED BY <1>2, <1>3

\* When a loop or switch ends, the head it has saved is that of the breaks around it.
LEMMA BreaksPopped ==
    ASSUME NEW F, NEW F2, NEW f, Popped(F, F2, f), f.kind \in Breakable,
           NEW J, NEW mem, NEW M, NEW top, J \subseteq JumpType, mem \in Seq(CellType), Placed(mem, J, top),
           NEW head, NEW st, BreakChains(F, J, mem, head, st)
    PROVE  BreakChains(F2, J, mem, f.old_break, "next")
<1>1. /\ Len(F) \in 1..Len(F) /\ F[Len(F)] = f /\ Len(F2) = Len(F) - 1 /\ Len(F) \in Nat
      /\ \A i \in 1..Len(F2) : i \in 1..Len(F) /\ i < Len(F) /\ F2[i] = F[i]
      /\ f.old_break \in Nat
  <2>1. F[Len(F)] \in FrameType
    BY DEF Popped
  <2>2. f.old_break \in Nat
    BY <2>1 DEF Popped, FrameType
  <2> QED BY <2>2 DEF Popped
<1>2. ASSUME NEW k \in 1..Len(F2), F2[k].kind \in Breakable, Clear(F2, Breakable, k, Len(F2) + 1)
      PROVE  /\ Chain(mem, Operands(J, EndOf(F2[k])), f.old_break, 0)
             /\ \A c \in Operands(J, EndOf(F2[k])) : ~ (c > f.old_break)
  <2>1. Clear(F, Breakable, k, Len(F))
    BY <1>2, ClearPopped
  <2>2. k \in 1..Len(F) /\ k < Len(F) /\ {F[k].kind, F[Len(F)].kind} \subseteq Breakable /\ F2[k] = F[k]
    BY <1>1, <1>2
  <2>3. /\ Chain(mem, Operands(J, EndOf(F[k])), f.old_break, 0)
        /\ Whole(Operands(J, EndOf(F[k])), f.old_break)
    BY <1>1, <2>1, <2>2 DEF BreakChains
  <2>4. Operands(J, EndOf(F[k])) \subseteq Nat
    BY OperandsPlace
  <2>5. \A c \in Operands(J, EndOf(F[k])) : ~ (c > f.old_break)
    BY <1>1, <2>3, <2>4 DEF Whole
  <2> QED BY <2>2, <2>3, <2>5
<1>3. ASSUME NEW k \in 1..Len(F2), NEW n \in 1..Len(F2), k < n, {F2[k].kind, F2[n].kind} \subseteq Breakable,
             Clear(F2, Breakable, k, n)
      PROVE  /\ Chain(mem, Operands(J, EndOf(F2[k])), F2[n].old_break, 0)
             /\ Whole(Operands(J, EndOf(F2[k])), F2[n].old_break)
  <2>0. k \in Nat /\ Clear(F2, Breakable, k, n)
    BY <1>3
  <2>1. Clear(F, Breakable, k, n)
    BY <1>3, <2>0, ClearPopped
  <2> QED BY <1>1, <1>3, <2>1 DEF BreakChains
<1>4. ASSUME Clear(F2, Breakable, 0, Len(F2) + 1) PROVE f.old_break = 0
  <2>1. Clear(F, Breakable, 0, Len(F))
    BY <1>4, ClearPopped, 0 \in Nat
  <2> QED BY <1>1, <2>1 DEF BreakChains
<1>5. ASSUME NEW n \in 1..Len(F2), F2[n].kind \in Breakable, Clear(F2, Breakable, 0, n) PROVE F2[n].old_break = 0
  <2>1. Clear(F, Breakable, 0, n)
    BY <1>5, ClearPopped, 0 \in Nat
  <2> QED BY <1>1, <1>5, <2>1 DEF BreakChains
<1> QED BY <1>2, <1>3, <1>4, <1>5 DEF BreakChains

\* The same for the continues around a loop.
LEMMA ContinuesPopped ==
    ASSUME NEW F, NEW F2, NEW f, Popped(F, F2, f), f.kind \in Loops,
           NEW J, NEW mem, NEW M, NEW M2, NEW top, J \subseteq JumpType, mem \in Seq(CellType), Placed(mem, J, top),
           NEW head, NEW st, ContinueChains(F, J, M, mem, head, st)
    PROVE  ContinueChains(F2, J, M2, mem, f.old_cond, "next")
<1>1. /\ Len(F) \in 1..Len(F) /\ F[Len(F)] = f /\ Len(F2) = Len(F) - 1 /\ Len(F) \in Nat
      /\ \A i \in 1..Len(F2) : i \in 1..Len(F) /\ i < Len(F) /\ F2[i] = F[i]
      /\ f.old_cond \in Nat
  <2>1. F[Len(F)] \in FrameType
    BY DEF Popped
  <2>2. f.old_cond \in Nat
    BY <2>1 DEF Popped, FrameType
  <2> QED BY <2>2 DEF Popped
<1>2. ASSUME NEW k \in 1..Len(F2), F2[k].kind \in Loops, Clear(F2, Loops, k, Len(F2) + 1)
      PROVE  /\ Chain(mem, Operands(J, ContinueOf(F2[k])), f.old_cond, BaseOf(F2[k]))
             /\ \A c \in Operands(J, ContinueOf(F2[k])) : ~ (c > f.old_cond)
  <2>1. Clear(F, Loops, k, Len(F))
    BY <1>2, ClearPopped
  <2>2. k \in 1..Len(F) /\ k < Len(F) /\ {F[k].kind, F[Len(F)].kind} \subseteq Loops /\ F2[k] = F[k]
    BY <1>1, <1>2
  <2>3. /\ Chain(mem, Operands(J, ContinueOf(F[k])), f.old_cond, BaseOf(F[k]))
        /\ Whole(Operands(J, ContinueOf(F[k])), f.old_cond)
    BY <1>1, <2>1, <2>2 DEF ContinueChains
  <2>4. Operands(J, ContinueOf(F[k])) \subseteq Nat
    BY OperandsPlace
  <2>5. \A c \in Operands(J, ContinueOf(F[k])) : ~ (c > f.old_cond)
    BY <1>1, <2>3, <2>4 DEF Whole
  <2> QED BY <2>2, <2>3, <2>5
<1>3. ASSUME NEW k \in 1..Len(F2), NEW n \in 1..Len(F2), k < n, {F2[k].kind, F2[n].kind} \subseteq Loops,
             Clear(F2, Loops, k, n)
      PROVE  /\ Chain(mem, Operands(J, ContinueOf(F2[k])), F2[n].old_cond, BaseOf(F2[k]))
             /\ Whole(Operands(J, ContinueOf(F2[k])), F2[n].old_cond)
  <2>0. k \in Nat /\ Clear(F2, Loops, k, n)
    BY <1>3
  <2>1. Clear(F, Loops, k, n)
    BY <1>3, <2>0, ClearPopped
  <2> QED BY <1>1, <1>3, <2>1 DEF ContinueChains
<1>4. ASSUME Clear(F2, Loops, 0, Len(F2) + 1) PROVE f.old_cond = 0
  <2>1. Clear(F, Loops, 0, Len(F))
    BY <1>4, ClearPopped, 0 \in Nat
  <2> QED BY <1>1, <2>1 DEF ContinueChains
<1>5. ASSUME NEW n \in 1..Len(F2), F2[n].kind \in Loops, Clear(F2, Loops, 0, n) PROVE F2[n].old_cond = 0
  <2>1. Clear(F, Loops, 0, n)
    BY <1>5, ClearPopped, 0 \in Nat
  <2> QED BY <1>1, <1>5, <2>1 DEF ContinueChains
<1> QED BY <1>2, <1>3, <1>4, <1>5 DEF ContinueChains

\* The same for the case test around a switch.
LEMMA TestsPopped ==
    ASSUME NEW F, NEW F2, NEW f, Popped(F, F2, f), f.kind = "switch", NEW J, NEW head, CaseTests(F, J, head)
    PROVE  CaseTests(F2, J, f.old_case)
<1>1. /\ Len(F) \in 1..Len(F) /\ F[Len(F)] = f /\ Len(F2) = Len(F) - 1 /\ Len(F) \in Nat
      /\ \A i \in 1..Len(F2) : i \in 1..Len(F) /\ i < Len(F) /\ F2[i] = F[i]
  BY DEF Popped
<1>k. PICK kinds : kinds = {"switch"}
  OBVIOUS
<1>2. ASSUME NEW k \in 1..Len(F2), F2[k].kind = "switch", Clear(F2, {"switch"}, k, Len(F2) + 1)
      PROVE  Operands(J, NextLabel(F2[k])) = {f.old_case} \ {0}
  <2>1. Clear(F, kinds, k, Len(F))
    BY <1>2, <1>k, ClearPopped
  <2>2. k \in 1..Len(F) /\ k < Len(F) /\ F[k].kind = "switch" /\ F[Len(F)].kind = "switch" /\ F2[k] = F[k]
    BY <1>1, <1>2
  <2> QED BY <1>1, <1>k, <2>1, <2>2 DEF CaseTests
<1>3. ASSUME NEW k \in 1..Len(F2), NEW n \in 1..Len(F2), k < n, F2[k].kind = "switch", F2[n].kind = "switch",
             Clear(F2, {"switch"}, k, n)
      PROVE  Operands(J, NextLabel(F2[k])) = {F2[n].old_case} \ {0}
  <2>0. k \in Nat /\ Clear(F2, kinds, k, n)
    BY <1>3, <1>k
  <2>1. Clear(F, kinds, k, n)
    BY <1>3, <2>0, ClearPopped
  <2> QED BY <1>1, <1>k, <1>3, <2>1 DEF CaseTests
<1>4. ASSUME Clear(F2, {"switch"}, 0, Len(F2) + 1) PROVE f.old_case = 0
  <2>1. Clear(F, kinds, 0, Len(F))
    BY <1>4, <1>k, ClearPopped, 0 \in Nat
  <2> QED BY <1>1, <1>k, <2>1 DEF CaseTests
<1>5. ASSUME NEW n \in 1..Len(F2), F2[n].kind = "switch", Clear(F2, {"switch"}, 0, n) PROVE F2[n].old_case = 0
  <2>1. Clear(F, kinds, 0, n)
    BY <1>5, <1>k, ClearPopped, 0 \in Nat
  <2> QED BY <1>1, <1>k, <1>5, <2>1 DEF CaseTests
<1> QED BY <1>2, <1>3, <1>4, <1>5 DEF CaseTests

\* A loop or switch ends: its breaks and continues are settled, and it leaves the heads
\* as it has found them.
LEMMA EndBreaksStep ==
    ASSUME JumpsInv, EndBreaks
    PROVE  JumpsInv'
<1>a. /\ memory \in Seq(CellType) /\ Len(memory) >= 7 /\ Len(memory) \in Nat
      /\ frames \in Seq(FrameType) /\ Len(frames) \in Nat /\ opened \in Nat
      /\ jumps \subseteq JumpType /\ marks \subseteq MarkType
      /\ addr_cond \in Nat /\ addr_case \in Nat /\ addr_break \in Nat
  BY DEF JumpsInv, TypeInv
<1>b. /\ Phase(frames, marks, memory, addr_cond, todo) /\ Placed(memory, jumps, opened) /\ Marked(memory, marks, opened)
      /\ Coded(memory, jumps)
  BY DEF JumpsInv, Sound
<1>c. /\ BreakChains(frames, jumps, memory, addr_break, todo)
      /\ ContinueChains(frames, jumps, marks, memory, addr_cond, todo)
      /\ CaseTests(frames, jumps, addr_case)
  BY DEF JumpsInv, Sound
<1>d. Remembered(frames, jumps, marks, opened) /\ Accounted(frames, jumps, marks, memory, todo)
  BY DEF JumpsInv, Sound
<1>1. /\ todo = "break" /\ todo' = "next" /\ opened' = opened /\ jumps' = jumps /\ memory' = memory
      /\ addr_break = 0 /\ max_local_displ' = max_local_displ /\ frames' = SubSeq(frames, 1, Len(frames) - 1)
  BY DEF EndBreaks, Pop, Depth
<1>2. PICK d \in 1..Len(frames) : d = Len(frames) /\ d > 0 /\ frames[d].kind \in Breakable
  <2>1. Len(frames) > 0 /\ frames[Len(frames)].kind \in Breakable
    BY <1>b, <1>1 DEF Phase
  <2>2. Len(frames) \in 1..Len(frames)
    BY <1>a, <2>1
  <2> QED BY <2>1, <2>2
<1>3. PICK f \in FrameType : f = frames[d] /\ f = Top
  BY <1>a, <1>2 DEF Top, Depth
<1>4. /\ f.id \in Nat /\ f.kind \in Breakable /\ f.old_cond \in Nat /\ f.old_case \in Nat /\ f.old_break \in Nat
      /\ f.old_displ \in Nat /\ f.addr \in Nat
  BY <1>2, <1>3 DEF FrameType
<1>5. Popped(frames, frames', f)
  <2>1. /\ frames' \in Seq(FrameType) /\ Len(frames') = Len(frames) - 1
        /\ \A k \in 1..Len(frames) - 1 : frames'[k] = frames[k]
    BY <1>a, <1>1, <1>2, PopFrames
  <2>2. \A k \in 1..Len(frames') : k \in 1..Len(frames) /\ frames'[k] = frames[k]
    BY <1>a, <2>1
  <2> QED BY <1>a, <1>2, <1>3, <2>1, <2>2 DEF Popped
<1>6. f.id <= opened
  <2>1. f.id \in 1..opened
    BY <1>d, <1>2, <1>3 DEF Remembered
  <2> QED BY <1>a, <2>1
<1>7. PICK m \in MarkType : m = Mark(EndOf(f), Len(memory)) /\ m.label = EndOf(f) /\ m.addr = Len(memory)
                            /\ m.label.id = f.id /\ m.label.what = "end"
  <2>1. Mark(EndOf(f), Len(memory)) \in MarkType
    BY <1>a, <1>4, HistoryTypes, 0 \in Nat DEF EndOf, Whats
  <2> QED BY <2>1, JumpParts, LabelParts DEF EndOf
<1>8. marks' = marks \cup {m} /\ marks' \subseteq MarkType /\ marks \subseteq marks'
  BY <1>a, <1>3, <1>7 DEF EndBreaks, EndOf, mem_size
<1>9. Clear(frames, Breakable, d, Len(frames) + 1) /\ Clear(frames, Loops, d, Len(frames) + 1)
  BY <1>a, <1>2 DEF Clear
<1>10. \A j \in jumps : j.label = EndOf(f) => Settled(memory, marks', j)
  <2> SUFFICES ASSUME NEW j \in jumps, j.label = EndOf(f) PROVE Settled(memory, marks', j)
    OBVIOUS
  <2>1. j.cell \in Operands(jumps, EndOf(f))
    BY DEF Operands
  <2>2. j.cell > addr_break
    BY <1>1, <1>c, <1>2, <1>3, <1>9, <2>1 DEF BreakChains, Chain
  <2>3. Get(memory, j.cell) = Len(memory)
    BY <1>c, <1>2, <1>3, <1>9, <2>1, <2>2 DEF BreakChains
  <2> QED BY <1>7, <1>8, <2>3 DEF Settled
<1>11. \A j \in jumps : f.kind \in Loops /\ j.label = ContinueOf(f) => Settled(memory, marks', j)
  <2> SUFFICES ASSUME NEW j \in jumps, f.kind \in Loops, j.label = ContinueOf(f) PROVE Settled(memory, marks', j)
    OBVIOUS
  <2>1. j.cell \in Operands(jumps, ContinueOf(f))
    BY DEF Operands
  <2>2. addr_cond = BaseOf(f)
    BY <1>b, <1>1, <1>2, <1>3 DEF Phase, BaseOf, Loops
  <2>3. j.cell > addr_cond
    BY <1>c, <1>2, <1>3, <1>9, <2>1, <2>2 DEF ContinueChains, Chain
  <2>4. Settled(memory, marks, Jump(j.cell, ContinueOf(f)))
    BY <1>c, <1>2, <1>3, <1>9, <2>1, <2>3 DEF ContinueChains
  <2>5. Settled(memory, marks, j)
    BY <2>4, JumpParts DEF Settled
  <2> QED BY <1>8, <2>5 DEF Settled
<1>12. PICK P : P = {} /\ Emitted(memory, memory', P) /\ \A x : x \notin P
  BY <1>a, <1>1, EmittedNothing
<1>13. Accounted(frames', jumps, marks', memory', "next")
  <2>1. ASSUME NEW j \in jumps, Owes(frames, Len(frames), j, todo) PROVE Settled(memory', marks', j)
    <3>1. f.kind # "if"
      BY <1>4 DEF Breakable, Loops
    <3>2. j.label = EndOf(f) \/ (f.kind \in Loops /\ j.label = ContinueOf(f))
      BY <1>1, <1>2, <1>3, <2>1, <3>1 DEF Owes
    <3> QED BY <1>1, <1>10, <1>11, <3>2
  <2>2. \A j \in jumps : j.cell \in P => Settled(memory', marks', j)
    BY <1>12
  <2>3. Accounted(SubSeq(frames, 1, Len(frames) - 1), jumps, marks', memory', "next")
    BY <1>a, <1>b, <1>d, <1>2, <1>8, <1>12, <2>1, <2>2, AccountedPop
  <2> QED BY <1>1, <2>3
<1>14. Marked(memory', marks', opened)
  <2>1. Landing(memory, Len(memory))
    BY <1>a DEF Landing
  <2> QED BY <1>b, <1>1, <1>6, <1>7, <1>8, <2>1 DEF Marked
<1>15. Remembered(frames', jumps, marks', opened)
  <2>1. Len(frames') <= Len(frames) /\ \A k \in 1..Len(frames') : frames'[k] = frames[k]
    BY <1>5 DEF Popped
  <2>2. \A x \in marks' : x \in marks \/ \A k \in 1..Len(frames') : frames'[k].kind = "if" => x.label # Label(frames'[k].id, "else", 0)
    BY <1>7, <1>8, LabelParts
  <2>3. opened <= opened /\ jumps \subseteq jumps /\ (\A j \in jumps : j \in jumps \/ j.label.what # "label") /\ frames' \in Seq(FrameType)
    BY <1>a, <1>5 DEF Popped
  <2> QED BY <1>a, <1>d, <1>8, <2>1, <2>2, <2>3, RememberedSame
<1>16. addr_break' = f.old_break
  BY <1>3 DEF EndBreaks, Restore
<1>17. BreakChains(frames', jumps, memory, addr_break', "next")
  BY <1>a, <1>b, <1>c, <1>4, <1>5, <1>16, BreaksPopped
<1>18. f.kind \notin Loops => f.kind = "switch"
  BY <1>4 DEF Breakable
<1>19. ASSUME NEW kinds, kinds \subseteq Breakable, f.kind \notin kinds PROVE SameFrames(frames, frames', kinds)
  <2>1. /\ Len(frames) = d /\ frames[d] = f /\ d \in Nat /\ d > 0 /\ Len(frames') = d - 1
        /\ \A k \in 1..Len(frames') : frames'[k] = frames[k]
    BY <1>a, <1>2, <1>3, <1>5 DEF Popped
  <2> QED BY <1>19, <2>1 DEF SameFrames
<1>20. addr_cond' \in Nat /\ ContinueChains(frames', jumps, marks', memory, addr_cond', "next")
  <2>1. CASE f.kind \in Loops
    <3>1. addr_cond' = f.old_cond
      BY <1>3, <2>1 DEF EndBreaks, Restore, Loops
    <3> QED BY <1>a, <1>b, <1>c, <1>4, <1>5, <2>1, <3>1, ContinuesPopped
  <2>2. CASE f.kind \notin Loops
    <3>1. addr_cond' = addr_cond
      BY <1>3, <1>18, <2>2 DEF EndBreaks, Restore
    <3>2. SameFrames(frames, frames', Loops) /\ frames' \in Seq(FrameType)
      BY <1>5, <1>19, <2>2 DEF Breakable, Popped
    <3>3. \A k \in 1..Len(frames) : frames[k].kind \in Loops => Untouched(jumps, jumps, memory, memory, ContinueOf(frames[k]))
      BY DEF Untouched
    <3>4. frames[Len(frames)].kind \notin Loops
      BY <1>2, <1>3, <2>2
    <3>5. ContinueChains(frames', jumps, marks', memory, addr_cond, "next")
      BY <1>a, <1>c, <1>8, <3>2, <3>3, <3>4, ContinueChainsKept
    <3> QED BY <1>a, <3>1, <3>5
  <2> QED BY <2>1, <2>2
<1>21. addr_case' \in Nat /\ CaseTests(frames', jumps, addr_case')
  <2>1. CASE f.kind = "switch"
    <3>1. addr_case' = f.old_case
      BY <1>3, <2>1 DEF EndBreaks, Restore
    <3> QED BY <1>c, <1>4, <1>5, <2>1, <3>1, TestsPopped
  <2>2. CASE f.kind # "switch"
    <3>1. addr_case' = addr_case
      BY <1>3, <2>2 DEF EndBreaks, Restore
    <3>2. SameFrames(frames, frames', {"switch"}) /\ frames' \in Seq(FrameType)
      BY <1>5, <1>19, <2>2 DEF Breakable, Popped
    <3>3. \A k \in 1..Len(frames) : frames[k].kind = "switch" =>
              /\ NextLabel(frames'[k]) = NextLabel(frames[k])
              /\ Operands(jumps, NextLabel(frames[k])) = Operands(jumps, NextLabel(frames[k]))
      <4>1. \A k \in 1..Len(frames) : frames[k].kind = "switch" => k # d
        BY <1>3, <2>2
      <4>2. Len(frames') = d - 1 /\ \A k \in 1..Len(frames') : frames'[k] = frames[k]
        BY <1>2, <1>5 DEF Popped
      <4>3. \A k \in 1..Len(frames) : k # d => k \in 1..Len(frames')
        BY <1>a, <1>2, <4>2
      <4> QED BY <4>1, <4>2, <4>3
    <3>4. CaseTests(frames', jumps, addr_case)
      BY <1>a, <1>c, <3>2, <3>3, CaseTestsKept
    <3> QED BY <1>a, <3>1, <3>4
  <2> QED BY <2>1, <2>2
<1>22. displ' \in Nat
  <2>1. displ' = displ \/ displ' = f.old_displ
    BY <1>3 DEF EndBreaks, Free
  <2>2. displ \in Nat
    BY DEF JumpsInv, TypeInv
  <2> QED BY <1>4, <2>1, <2>2
<1>23. TypeInv'
  <2>1. frames' \in Seq(FrameType) /\ addr_break' \in Nat
    BY <1>4, <1>5, <1>16 DEF Popped
  <2>2. max_local_displ \in Nat
    BY DEF JumpsInv, TypeInv
  <2> QED BY <1>a, <1>1, <1>8, <1>20, <1>21, <1>22, <2>1, <2>2 DEF TypeInv
<1>24. Phase(frames', marks', memory', addr_cond', "next") /\ Finished(memory', "next")
  BY DEF Phase, Finished
<1>25. Sound(frames', jumps', marks', memory', opened', addr_cond', addr_case', addr_break', todo')
  BY <1>1, <1>b, <1>13, <1>14, <1>15, <1>17, <1>20, <1>21, <1>24 DEF Sound
<1> QED BY <1>23, <1>25 DEF JumpsInv

-----------------------------------------------------------------------------
(* The end of the function *)

\* mem2 is mem with the header of the function filled in, and a return.
Completed(mem, mem2, P) ==
    /\ Emitted(mem, mem2, P) /\ NewCode(mem, mem2, {}) /\ Len(mem2) = Len(mem) + 1
    /\ \A p \in P : p \in {5, 6}

LEMMA HeaderEmitted ==
    ASSUME NEW mem \in Seq(CellType), Len(mem) >= 7, NEW x \in Int, NEW y \in Int, NEW mem2,
           mem2 = mem_set(mem_set(mem, 5, x), 6, y) \o <<Code("return")>>
    PROVE  \E P : Completed(mem, mem2, P)
<1>1. PICK mem3 : mem3 = mem_set(mem, 5, x)
  OBVIOUS
<1>2. Emitted(mem, mem3, {5}) /\ Len(mem3) = Len(mem)
  <2>1. 5 \in 0..Len(mem) - 1
    OBVIOUS
  <2> QED BY <1>1, <2>1, EmittedPatch
<1>3. mem3 \in Seq(CellType)
  BY <1>2 DEF Emitted
<1>4. PICK mem4 : mem4 = mem_set(mem3, 6, y)
  OBVIOUS
<1>5. Emitted(mem3, mem4, {6}) /\ Len(mem4) = Len(mem3)
  <2>1. 6 \in 0..Len(mem3) - 1
    BY <1>2
  <2> QED BY <1>3, <1>4, <2>1, EmittedPatch
<1>6. mem4 \in Seq(CellType) /\ Len(mem4) = Len(mem)
  BY <1>2, <1>5 DEF Emitted
<1>7. Emitted(mem, mem4, {5} \cup {6})
  BY <1>2, <1>5, EmittedBoth
<1>8. PICK code : code = <<Code("return")>>
  OBVIOUS
<1>r. mem2 = mem4 \o code /\ Len(code) = 1
  <2>1. Len(code) = 1
    BY <1>8
  <2> QED BY <1>1, <1>4, <1>8, <2>1
<1>9. GoodCode(code, Len(mem4), {})
  BY <1>6, <1>8, SingleGood
<1>10. /\ Emitted(mem4, mem2, {}) /\ Len(mem2) = Len(mem4) + 1 /\ NewCode(mem4, mem2, {})
  BY <1>6, <1>r, <1>9, GoodCodeEmitted
<1>11. Emitted(mem, mem2, ({5} \cup {6}) \cup {})
  BY <1>6, <1>7, <1>10, EmittedBoth
<1>12. NewCode(mem, mem2, {})
  BY <1>6, <1>10 DEF NewCode
<1>13. Len(mem2) = Len(mem) + 1
  BY <1>6, <1>10
<1>14. \A p \in ({5} \cup {6}) \cup {} : p \in {5, 6}
  OBVIOUS
<1>15. Completed(mem, mem2, ({5} \cup {6}) \cup {})
  BY <1>11, <1>12, <1>13, <1>14 DEF Completed
<1> QED BY <1>15

\* When no statement is open every jump is settled.
LEMMA AllSettled ==
    ASSUME NEW F, NEW J, NEW M, NEW mem, NEW st, Len(F) = 0, Accounted(F, J, M, mem, st), NEW j \in J
    PROVE  Settled(mem, M, j)
<1>1. \A k \in 1..Len(F) : FALSE
  OBVIOUS
<1> QED BY <1>1 DEF Accounted, Answered

\* When all branches have landed and code is added after them, they land inside it.
LEMMA LandedInside ==
    ASSUME NEW mem \in Seq(CellType), NEW n \in Nat, Len(mem) = n + 1, n >= 7, NEW M, NEW J, NEW F, Len(F) = 0,
           Coded(mem, J), Accounted(F, J, M, mem, "end"),
           \A m \in M : Landing(mem, m.addr) /\ m.addr <= n, mem[n + 1].op \notin Branches,
           \A a \in 1..Len(mem) : mem[a].op \in Branches => (\E j \in J : j.cell = a) \/ Get(mem, a) <= n
    PROVE  Finished(mem, "end")
<1> SUFFICES ASSUME NEW a \in 1..Len(mem) - 1, mem[a].op \in Branches
             PROVE  Get(mem, a) \in 7..Len(mem) - 1 /\ mem[Get(mem, a) + 1].kind = "code"
  BY DEF Finished
<1>1. a \in 1..Len(mem)
  OBVIOUS
<1>2. Landing(mem, Get(mem, a)) /\ Get(mem, a) <= n
  <2>1. CASE \E j \in J : j.cell = a
    <3>1. PICK j \in J : j.cell = a
      BY <2>1
    <3>2. Settled(mem, M, j)
      BY AllSettled
    <3> QED BY <3>1, <3>2 DEF Settled
  <2>2. CASE ~ \E j \in J : j.cell = a
    BY <1>1, <2>2 DEF Coded
  <2> QED BY <2>1, <2>2
<1> QED BY <1>2 DEF Landing

\* The function ends: all its branches land inside it.
LEMMA EndFunctionStep ==
    ASSUME JumpsInv, EndFunction
    PROVE  JumpsInv'
<1>a. /\ memory \in Seq(CellType) /\ Len(memory) >= 7 /\ Len(memory) \in Nat
      /\ frames \in Seq(FrameType) /\ Len(frames) \in Nat /\ opened \in Nat
      /\ jumps \subseteq JumpType /\ marks \subseteq MarkType
      /\ addr_cond \in Nat /\ addr_case \in Nat /\ addr_break \in Nat
  BY DEF JumpsInv, TypeInv
<1>b. /\ Phase(frames, marks, memory, addr_cond, todo) /\ Placed(memory, jumps, opened) /\ Marked(memory, marks, opened)
      /\ Coded(memory, jumps)
  BY DEF JumpsInv, Sound
<1>c. /\ BreakChains(frames, jumps, memory, addr_break, todo)
      /\ ContinueChains(frames, jumps, marks, memory, addr_cond, todo)
      /\ CaseTests(frames, jumps, addr_case)
  BY DEF JumpsInv, Sound
<1>d. Remembered(frames, jumps, marks, opened) /\ Accounted(frames, jumps, marks, memory, todo)
  BY DEF JumpsInv, Sound
<1>1. /\ todo = "next" /\ todo' = "end" /\ opened' = opened /\ jumps' = jumps /\ frames' = frames /\ marks' = marks
      /\ addr_cond' = addr_cond /\ addr_case' = addr_case /\ addr_break' = addr_break
      /\ displ' = displ /\ max_local_displ' = max_local_displ /\ Len(frames) = 0
  BY DEF EndFunction, heads, history, Depth
<1>p. PICK P : Completed(memory, memory', P)
  <2>1. max_local_displ \in Int /\ Len(memory) + 1 \in Int
    BY <1>a DEF JumpsInv, TypeInv
  <2>2. memory' = mem_set(mem_set(memory, 5, max_local_displ), 6, Len(memory) + 1) \o <<Code("return")>>
    BY DEF EndFunction, mem_size
  <2> QED BY <1>a, <2>1, <2>2, HeaderEmitted
<1>2. /\ Emitted(memory, memory', P) /\ NewCode(memory, memory', {}) /\ Len(memory') = Len(memory) + 1
      /\ \A p \in P : p \in {5, 6}
  BY <1>p DEF Completed
<1>3. memory' \in Seq(CellType) /\ Len(memory') >= 7 /\ Len(memory') \in Nat
  BY <1>a, <1>2 DEF Emitted
<1>4. \A j \in jumps : j.cell \notin P
  <2>1. \A j \in jumps : j.cell \in 7..Len(memory) - 1
    BY <1>b DEF Placed
  <2> QED BY <1>a, <1>2, <2>1
<1>5. Patchable(jumps, P) /\ AsideOnly(frames, jumps, jumps, P)
  BY <1>2, <1>4 DEF Patchable, AsideOnly
<1>6. Placed(memory', jumps, opened)
  <2>1. opened <= opened
    BY <1>a
  <2> QED BY <1>a, <1>b, <1>2, <2>1, PlacedKept
<1>7. PICK N : N = {} /\ marks = marks \cup N
  <2>1. marks = marks \cup {}
    OBVIOUS
  <2> QED BY <2>1
<1>8. Marked(memory', marks, opened)
  <2>1. opened <= opened /\ \A m \in N : Landing(memory', m.addr) /\ m.label.id <= opened
    BY <1>a, <1>7
  <2>2. Marked(memory', marks \cup N, opened)
    BY <1>a, <1>b, <1>2, <1>5, <2>1, MarkedKept
  <2> QED BY <1>7, <2>2
<1>9. Coded(memory', jumps)
  <2>1. PICK C : C = {} /\ NewCode(memory, memory', C)
    BY <1>2
  <2>2. jumps \subseteq jumps /\ \A c \in C : \E j \in jumps : j.cell = c
    BY <2>1
  <2> QED BY <1>a, <1>b, <1>2, <1>5, <2>1, <2>2, CodedKept
<1>10. SameFrames(frames, frames, Breakable) /\ marks \subseteq marks /\ todo # "break" /\ todo # "cond"
  BY <1>a, <1>1, SameStack
<1>11. BreakChains(frames, jumps, memory', addr_break, "end")
  BY <1>a, <1>b, <1>c, <1>2, <1>5, <1>10, BreaksAside
<1>12. ContinueChains(frames, jumps, marks, memory', addr_cond, "end")
  BY <1>a, <1>b, <1>c, <1>2, <1>5, <1>10, ContinuesAside
<1>13. Accounted(frames, jumps, marks, memory', "end")
  <2>1. \A j \in jumps : \A k \in 1..Len(frames) : Owes(frames, k, j, todo) => Answered(frames, marks, memory', "end", j)
    BY <1>1
  <2>2. /\ \A j \in jumps : j.cell \in P => Answered(frames, marks, memory', "end", j)
        /\ \A j \in jumps : j \in jumps \/ Answered(frames, marks, memory', "end", j)
    BY <1>4
  <2> QED BY <1>a, <1>b, <1>d, <1>2, <1>10, <2>1, <2>2, AccountedKept
<1>14. Finished(memory', "end")
  <2>1. PICK n \in Nat : n = Len(memory) /\ n >= 7 /\ Len(memory') = n + 1
    BY <1>a, <1>2
  <2>2. \A m \in marks : Landing(memory', m.addr) /\ m.addr <= n
    BY <1>b, <1>8, <2>1 DEF Marked, Landing
  <2>3. memory'[n + 1].op \notin Branches
    <3>1. n + 1 \in Len(memory) + 1..Len(memory') /\ ~ (n + 1 <= Len(memory') - 1)
      BY <2>1
    <3>2. memory'[n + 1].op \in Branches => n + 1 \in 8..Len(memory') - 1
      BY <1>2, <3>1 DEF NewCode
    <3> QED BY <2>1, <3>1, <3>2
  <2>4. ASSUME NEW a \in 1..Len(memory'), memory'[a].op \in Branches
        PROVE  (\E j \in jumps : j.cell = a) \/ Get(memory', a) <= n
    <3>1. a # n + 1 /\ a \in 1..n
      BY <2>1, <2>3, <2>4
    <3>2. a - 1 \notin P
      <4>1. a - 1 \in P => memory'[a].op = "none"
        BY <1>2, <2>1, <3>1 DEF Emitted
      <4> QED BY <2>4, <4>1 DEF Branches
    <3>3. memory[a].op \in Branches
      BY <1>2, <2>1, <2>4, <3>1, <3>2 DEF Emitted
    <3>4. a \in 8..n - 1 /\ ((\E j \in jumps : j.cell = a) \/ Landing(memory, Get(memory, a)))
      BY <1>b, <2>1, <3>1, <3>3 DEF Coded
    <3>5. a \in 0..Len(memory) - 1 /\ a \notin P
      BY <1>2, <2>1, <3>4
    <3>6. Get(memory', a) = Get(memory, a)
      BY <1>a, <1>2, <3>5, GetKept
    <3> QED BY <2>1, <3>4, <3>6 DEF Landing
  <2> QED BY <1>1, <1>3, <1>9, <1>13, <2>1, <2>2, <2>3, <2>4, LandedInside
<1>15. Phase(frames, marks, memory', addr_cond, "end")
  BY <1>1 DEF Phase
<1>16. Sound(frames', jumps', marks', memory', opened', addr_cond', addr_case', addr_break', todo')
  BY <1>1, <1>c, <1>d, <1>6, <1>8, <1>9, <1>11, <1>12, <1>13, <1>14, <1>15 DEF Sound
<1>17. TypeInv'
  BY <1>a, <1>1, <1>3 DEF JumpsInv, TypeInv
<1> QED BY <1>16, <1>17 DEF JumpsInv

-----------------------------------------------------------------------------
(* Every jump lands *)

\* Every step keeps the invariant.
LEMMA NextJumpsInv ==
    ASSUME JumpsInv, [Next]_vars
    PROVE  JumpsInv'
<1>1. CASE \E shape \in Expressions :
              \/ emit_expression_statement(shape)
              \/ \E has_else \in BOOLEAN : BeginIf(shape, has_else)
              \/ BeginSwitch(shape) \/ BeginWhile(shape) \/ JumpBack(shape)
  BY <1>1, SimpleQuiet, BeginIfStep, BeginSwitchStep, BeginWhileStep, JumpBackStep
<1>2. CASE (\E size \in Sizes : emit_declaration_statement(size)) \/ emit_return_statement
  BY <1>2, SimpleQuiet
<1>3. CASE emit_continue_statement \/ emit_break_statement
  BY <1>3, ContinueStep, BreakStep
<1>4. CASE BeginCompound \/ NextInCompound \/ EndCompound \/ EndLabelled \/ NextInBody
  BY <1>4, BlockQuiet
<1>5. CASE BeginElse \/ EndIf
  BY <1>5, BeginElseStep, EndIfStep
<1>6. CASE (\E value \in CaseValues : BeginCase(value)) \/ BeginDefault \/ EndSwitchBody
  BY <1>6, BeginCaseStep, BeginDefaultStep, EndSwitchBodyStep
<1>7. CASE BeginDo \/ \E size \in Sizes \cup {0}, has_condition, has_increment \in BOOLEAN :
                          BeginFor(size, has_condition, has_increment)
  BY <1>7, BeginDoStep, BeginForStep
<1>8. CASE EndLoopBody \/ PatchCond \/ PatchBreak \/ EndBreaks
  BY <1>8, EndLoopBodyStep, PatchCondStep, PatchBreakStep, EndBreaksStep
<1>9. CASE EndFunction
  BY <1>9, EndFunctionStep
<1>10. CASE UNCHANGED vars
  BY <1>10 DEF JumpsInv, TypeInv, vars
<1> QED BY <1>1, <1>2, <1>3, <1>4, <1>5, <1>6, <1>7, <1>8, <1>9, <1>10 DEF Next

\* When all that was begun has ended nothing is owed.
LEMMA JumpsInvResolves == JumpsInv => JumpsResolved
<1> SUFFICES ASSUME JumpsInv PROVE JumpsResolved
  OBVIOUS
<1>a. /\ memory \in Seq(CellType) /\ Len(memory) >= 7 /\ Len(memory) \in Nat
      /\ frames \in Seq(FrameType) /\ Len(frames) \in Nat /\ opened \in Nat
      /\ jumps \subseteq JumpType /\ marks \subseteq MarkType
      /\ addr_cond \in Nat /\ addr_case \in Nat /\ addr_break \in Nat
  BY DEF JumpsInv, TypeInv
<1>b. /\ Phase(frames, marks, memory, addr_cond, todo) /\ Placed(memory, jumps, opened) /\ Marked(memory, marks, opened)
      /\ Coded(memory, jumps)
  BY DEF JumpsInv, Sound
<1>c. /\ BreakChains(frames, jumps, memory, addr_break, todo)
      /\ ContinueChains(frames, jumps, marks, memory, addr_cond, todo)
      /\ CaseTests(frames, jumps, addr_case)
  BY DEF JumpsInv, Sound
<1>d. Remembered(frames, jumps, marks, opened) /\ Accounted(frames, jumps, marks, memory, todo)
  BY DEF JumpsInv, Sound
<1>1. ASSUME Depth = 0
      PROVE  /\ \A j \in jumps : \E m \in marks : m.label = j.label /\ mem_get(j.cell) = m.addr
             /\ addr_cond = 0 /\ addr_case = 0 /\ addr_break = 0
  <2>1. Len(frames) = 0
    BY <1>1 DEF Depth
  <2>2. \A j \in jumps : Settled(memory, marks, j)
    BY <1>d, <2>1, AllSettled
  <2>3. \A kinds : Clear(frames, kinds, 0, Len(frames) + 1)
    BY <2>1 DEF Clear
  <2>4. addr_cond = 0 /\ addr_case = 0 /\ addr_break = 0
    BY <1>c, <2>3 DEF BreakChains, ContinueChains, CaseTests
  <2> QED BY <2>2, <2>4 DEF Settled, Get, mem_get
<1>2. ASSUME todo = "end"
      PROVE  \A a \in 1..mem_size - 1 : memory[a].op \in {"b", "be0", "bne0"} =>
                 mem_get(a) \in 7..mem_size - 1 /\ memory[mem_get(a) + 1].kind = "code"
  <2>1. Finished(memory, todo)
    BY DEF JumpsInv, Sound
  <2> QED BY <1>2, <2>1 DEF Finished, Get, mem_get, mem_size, Branches
<1> QED BY <1>1, <1>2 DEF JumpsResolved

\* Every jump of every function leads where the program text says, for all programs.
THEOREM EveryJumpLands == Spec => []JumpsResolved
<1>1. Init => JumpsInv
  BY InitJumpsInv
<1>2. JumpsInv /\ [Next]_vars => JumpsInv'
  BY NextJumpsInv
<1>3. JumpsInv => JumpsResolved
  BY JumpsInvResolves
<1> QED BY <1>1, <1>2, <1>3, PTL DEF Spec

-----------------------------------------------------------------------------
(***************************************************************************)
(* The frame Codegen lays out for the local variables of a function.  A    *)
(* variable belongs to a block or for statement that is still open, and    *)
(* its words are below the word that was free when the next statement      *)
(* inside was begun; so when a statement ends and displ goes back, the     *)
(* words of the variables that stay alive are all below it.                *)
(***************************************************************************)

\* The statements that have variables of their own.
Owners == {"compound", "for"}

\* How the variables L are laid out below the first free word d, in a frame of m words.
LaidOut(F, d, m, L) ==
    /\ d \in Nat /\ m \in Nat /\ d >= 3 /\ d <= m
    /\ \A k \in 1..Len(F) : F[k].old_displ \in 3..d
    /\ \A k, n \in 1..Len(F) : k < n => F[k].old_displ <= F[n].old_displ
    /\ \A v \in L : v.depth \in 0..Len(F) /\ v.words \subseteq 3..d - 1
    /\ \A v \in L : v.depth > 0 => F[v.depth].kind \in Owners
    /\ \A v \in L : \A k \in 1..Len(F) : v.depth < k => v.words \subseteq 3..F[k].old_displ - 1
    /\ \A v, w \in L : v # w => v.words \cap w.words = {}

LocalsInv == JumpsInv /\ LaidOut(frames, displ, max_local_displ, locals)

-----------------------------------------------------------------------------
(* Lemmas about the layout *)

\* Nothing a variable depends on changes in the frames.
LEMMA LaidSame ==
    ASSUME NEW F, NEW F2, NEW d, NEW m, NEW L, LaidOut(F, d, m, L), Len(F2) = Len(F),
           \A k \in 1..Len(F) : F2[k].kind = F[k].kind /\ F2[k].old_displ = F[k].old_displ
    PROVE  LaidOut(F2, d, m, L)
<1>1. \A v \in L : v.depth \in 0..Len(F) /\ (v.depth > 0 => v.depth \in 1..Len(F))
  BY DEF LaidOut
<1> QED BY <1>1 DEF LaidOut

\* A statement is begun.
LEMMA LaidPushed ==
    ASSUME NEW F \in Seq(FrameType), NEW F2, NEW f, Pushed(F, F2, f), NEW d, NEW m, NEW L, LaidOut(F, d, m, L),
           f.old_displ = d
    PROVE  LaidOut(F2, d, m, L)
<1>1. Len(F) \in Nat /\ Len(F2) = Len(F) + 1 /\ F2[Len(F) + 1] = f /\ \A k \in 1..Len(F) : F2[k] = F[k]
  BY DEF Pushed
<1>2. \A v \in L : v.depth \in 0..Len(F) /\ v.words \subseteq 3..d - 1
  BY DEF LaidOut
<1>3. ASSUME NEW v \in L PROVE v.depth \in 0..Len(F2) /\ (v.depth > 0 => F2[v.depth].kind \in Owners)
  BY <1>1, <1>2 DEF LaidOut
<1>5. \A k, n \in 1..Len(F2) : k < n => F2[k].old_displ <= F2[n].old_displ
  <2> SUFFICES ASSUME NEW k \in 1..Len(F2), NEW n \in 1..Len(F2), k < n PROVE F2[k].old_displ <= F2[n].old_displ
    OBVIOUS
  <2>1. k \in 1..Len(F) /\ F2[k] = F[k]
    BY <1>1
  <2>2. CASE n = Len(F) + 1
    BY <1>1, <2>1, <2>2 DEF LaidOut
  <2>3. CASE n # Len(F) + 1
    <3>1. n \in 1..Len(F) /\ F2[n] = F[n]
      BY <1>1, <2>3
    <3> QED BY <2>1, <3>1 DEF LaidOut
  <2> QED BY <2>2, <2>3
<1>4. ASSUME NEW k \in 1..Len(F2) PROVE /\ F2[k].old_displ \in 3..d
                                         /\ \A v \in L : v.depth < k => v.words \subseteq 3..F2[k].old_displ - 1
  <2>1. CASE k = Len(F) + 1
    BY <1>1, <1>2, <2>1 DEF LaidOut
  <2>2. CASE k # Len(F) + 1
    <3>1. k \in 1..Len(F) /\ F2[k] = F[k]
      BY <1>1, <2>2
    <3> QED BY <3>1 DEF LaidOut
  <2> QED BY <2>1, <2>2
<1> QED BY <1>2, <1>3, <1>4, <1>5 DEF LaidOut

\* A variable of the innermost statement is declared.
LEMMA LaidDeclared ==
    ASSUME NEW F, NEW d, NEW m, NEW L, LaidOut(F, d, m, L), Len(F) \in Nat,
           Len(F) > 0 => F[Len(F)].kind \in Owners, NEW size \in Nat,
           NEW d2, d2 = d + size, NEW m2, m2 = (IF d2 > m THEN d2 ELSE m), NEW x,
           x = [depth |-> Len(F), words |-> d..d2 - 1]
    PROVE  LaidOut(F, d2, m2, L \cup {x})
<1>1. d \in Nat /\ m \in Nat /\ d >= 3 /\ d <= m
  BY DEF LaidOut
<1>2. d2 \in Nat /\ m2 \in Nat /\ d2 >= 3 /\ d2 >= d /\ d2 <= m2
  BY <1>1
<1>3. x.depth = Len(F) /\ x.words = d..d2 - 1
  OBVIOUS
<1>4. \A k \in 1..Len(F) : F[k].old_displ \in 3..d2
  <2>1. \A k \in 1..Len(F) : F[k].old_displ \in 3..d
    BY DEF LaidOut
  <2> QED BY <1>1, <1>2, <2>1
<1>o. \A k, n \in 1..Len(F) : k < n => F[k].old_displ <= F[n].old_displ
  BY DEF LaidOut
<1>5. ASSUME NEW v \in L \cup {x} PROVE v.depth \in 0..Len(F) /\ v.words \subseteq 3..d2 - 1
  <2>1. CASE v \in L
    <3>1. v.depth \in 0..Len(F) /\ v.words \subseteq 3..d - 1
      BY <2>1 DEF LaidOut
    <3> QED BY <1>1, <1>2, <3>1
  <2>2. CASE v = x
    BY <1>1, <1>2, <1>3, <2>2
  <2> QED BY <2>1, <2>2
<1>6. \A v \in L \cup {x} : v.depth > 0 => F[v.depth].kind \in Owners
  BY <1>3 DEF LaidOut
<1>7. \A v \in L \cup {x} : \A k \in 1..Len(F) : v.depth < k => v.words \subseteq 3..F[k].old_displ - 1
  BY <1>3 DEF LaidOut
<1>8. \A v \in L : v.words \cap x.words = {}
  <2>1. \A v \in L : v.words \subseteq 3..d - 1
    BY DEF LaidOut
  <2> QED BY <1>1, <1>2, <1>3, <2>1
<1>9. \A v, w \in L \cup {x} : v # w => v.words \cap w.words = {}
  <2>1. \A v, w \in L : v # w => v.words \cap w.words = {}
    BY DEF LaidOut
  <2> QED BY <1>8, <2>1
<1> QED BY <1>2, <1>4, <1>o, <1>5, <1>6, <1>7, <1>9 DEF LaidOut

\* A statement without variables of its own ends.
LEMMA LaidPopped ==
    ASSUME NEW F, NEW F2, NEW f, Popped(F, F2, f), NEW d, NEW m, NEW L, LaidOut(F, d, m, L), f.kind \notin Owners
    PROVE  LaidOut(F2, d, m, L)
<1>1. /\ Len(F) \in Nat /\ Len(F) > 0 /\ Len(F2) = Len(F) - 1 /\ F[Len(F)] = f
      /\ \A k \in 1..Len(F2) : k \in 1..Len(F) /\ F2[k] = F[k]
  BY DEF Popped
<1>2. ASSUME NEW v \in L PROVE v.depth \in 0..Len(F2) /\ (v.depth > 0 => F2[v.depth].kind \in Owners)
  <2>1. v.depth \in 0..Len(F) /\ (v.depth > 0 => F[v.depth].kind \in Owners)
    BY DEF LaidOut
  <2>2. v.depth # Len(F)
    BY <1>1, <2>1
  <2> QED BY <1>1, <2>1, <2>2
<1> QED BY <1>1, <1>2 DEF LaidOut

\* A statement with variables of its own ends, and their words are free.
LEMMA LaidFreed ==
    ASSUME NEW F, NEW F2, NEW f, Popped(F, F2, f), NEW d, NEW m, NEW L, LaidOut(F, d, m, L)
    PROVE  LaidOut(F2, f.old_displ, m, {v \in L : v.depth < Len(F)})
<1>1. /\ Len(F) \in Nat /\ Len(F) > 0 /\ Len(F) \in 1..Len(F) /\ Len(F2) = Len(F) - 1 /\ F[Len(F)] = f
      /\ \A k \in 1..Len(F2) : k \in 1..Len(F) /\ F2[k] = F[k]
  BY DEF Popped
<1>2. PICK e \in Nat : e = f.old_displ /\ e >= 3 /\ e <= m
  BY <1>1 DEF LaidOut
<1>3. ASSUME NEW k \in 1..Len(F2) PROVE F2[k].old_displ \in 3..e
  <2>1. k \in 1..Len(F) /\ k < Len(F) /\ F2[k] = F[k]
    BY <1>1
  <2>2. F[k].old_displ \in 3..d /\ F[k].old_displ <= F[Len(F)].old_displ
    BY <1>1, <2>1 DEF LaidOut
  <2> QED BY <1>1, <1>2, <2>1, <2>2
<1>4. \A k, n \in 1..Len(F2) : k < n => F2[k].old_displ <= F2[n].old_displ
  BY <1>1 DEF LaidOut
<1>5. ASSUME NEW v \in L, v.depth < Len(F)
      PROVE  /\ v.depth \in 0..Len(F2) /\ v.words \subseteq 3..e - 1
             /\ v.depth > 0 => F2[v.depth].kind \in Owners
             /\ \A k \in 1..Len(F2) : v.depth < k => v.words \subseteq 3..F2[k].old_displ - 1
  <2>1. v.depth \in 0..Len(F)
    BY DEF LaidOut
  <2>2. v.words \subseteq 3..e - 1
    BY <1>1, <1>2, <1>5 DEF LaidOut
  <2>3. v.depth > 0 => F2[v.depth].kind \in Owners
    BY <1>1, <1>5, <2>1 DEF LaidOut
  <2>4. ASSUME NEW k \in 1..Len(F2), v.depth < k PROVE v.words \subseteq 3..F2[k].old_displ - 1
    BY <1>1, <2>4 DEF LaidOut
  <2> QED BY <1>1, <1>5, <2>1, <2>2, <2>3, <2>4
<1>6. \A v, w \in L : v # w => v.words \cap w.words = {}
  BY DEF LaidOut
<1>7. m \in Nat
  BY DEF LaidOut
<1>8. LaidOut(F2, e, m, {v \in L : v.depth < Len(F)})
  BY <1>2, <1>3, <1>4, <1>5, <1>6, <1>7 DEF LaidOut
<1> QED BY <1>2, <1>8

-----------------------------------------------------------------------------
(* The steps *)

\* The header of the function has no variables.
LEMMA InitLaid == Init => LaidOut(frames, displ, max_local_displ, locals)
BY DEF Init, LaidOut

\* What the layout of a step depends on.
LocalsFacts ==
    /\ TypeInv /\ frames \in Seq(FrameType) /\ Len(frames) \in Nat /\ frames' \in Seq(FrameType)
    /\ opened' \in Nat /\ memory' \in Seq(CellType) /\ Len(memory') >= 7
    /\ LaidOut(frames, displ, max_local_displ, locals)

LEMMA FactsHold ==
    ASSUME LocalsInv, [Next]_vars
    PROVE  LocalsFacts
<1>1. JumpsInv /\ JumpsInv'
  BY NextJumpsInv DEF LocalsInv
<1>2. TypeInv /\ TypeInv'
  BY <1>1 DEF JumpsInv
<1> QED BY <1>2 DEF LocalsFacts, LocalsInv, TypeInv

\* A frame goes on the stack and remembers which word is free.
LEMMA PushLaid ==
    ASSUME LocalsFacts, NEW kind \in Kinds, NEW addr \in Nat, NEW flag \in BOOLEAN,
           NEW F \in Seq(FrameType), LaidOut(F, displ, max_local_displ, locals),
           frames' = Append(F, Frame(kind, addr, flag))
    PROVE  /\ LaidOut(frames', displ, max_local_displ, locals)
           /\ Len(frames') = Len(F) + 1 /\ frames'[Len(F) + 1].kind = kind
<1>1. TypeInv /\ opened' \in Nat
  BY DEF LocalsFacts
<1>2. PICK f \in FrameType : IsFrame(f, kind, addr, flag) /\ frames' = Append(F, f) /\ frames' \in Seq(FrameType)
  BY <1>1, PushFrame, Zenon
<1>3. f.kind = kind /\ f.old_displ = displ
  BY <1>2, Zenon DEF IsFrame
<1>4. /\ Len(Append(F, f)) = Len(F) + 1 /\ Append(F, f)[Len(F) + 1] = f
      /\ \A i \in 1..Len(F) : Append(F, f)[i] = F[i]
  BY AppendFrames
<1>5. frames' = Append(F, f) /\ frames' \in Seq(FrameType)
  BY <1>2, Zenon
<1>6. Pushed(F, frames', f)
  BY <1>4, <1>5 DEF Pushed
<1>7. LaidOut(frames', displ, max_local_displ, locals)
  BY <1>3, <1>6, LaidPushed
<1> QED BY <1>3, <1>4, <1>5, <1>7

\* A frame leaves the stack.
LEMMA PopFacts ==
    ASSUME LocalsFacts, Depth > 0, Pop
    PROVE  Popped(frames, frames', Top)
<1>1. frames \in Seq(FrameType) /\ Len(frames) \in Nat /\ Len(frames) > 0 /\ frames' = SubSeq(frames, 1, Len(frames) - 1)
  BY DEF LocalsFacts, Pop, Depth
<1>2. /\ frames' \in Seq(FrameType) /\ Len(frames') = Len(frames) - 1
      /\ \A k \in 1..Len(frames) - 1 : frames'[k] = frames[k]
  BY <1>1, PopFrames
<1>3. \A k \in 1..Len(frames') : k \in 1..Len(frames) /\ frames'[k] = frames[k]
  BY <1>1, <1>2
<1> QED BY <1>1, <1>2, <1>3 DEF Popped, Top, Depth

\* Steps that leave variables and stack alone.
LEMMA StillLaid ==
    ASSUME LocalsFacts,
           \/ \E shape \in Expressions : emit_expression_statement(shape) \/ JumpBack(shape)
           \/ emit_return_statement \/ emit_continue_statement \/ emit_break_statement
           \/ NextInCompound \/ EndSwitchBody \/ EndLoopBody \/ PatchCond \/ PatchBreak
           \/ NextInBody \/ EndFunction \/ UNCHANGED vars
    PROVE  LaidOut(frames', displ', max_local_displ', locals')
<1>1. frames' = frames /\ displ' = displ /\ max_local_displ' = max_local_displ /\ locals' = locals
  BY DEF emit_expression_statement, JumpBack, emit_return_statement, emit_continue_statement,
         emit_break_statement, NextInCompound, EndSwitchBody, EndLoopBody, PatchCond, PatchBreak,
         NextInBody, EndFunction, vars, history, Simple, Resume
<1> QED BY <1>1 DEF LocalsFacts

\* A statement without variables begins.
LEMMA BeginLaid ==
    ASSUME LocalsFacts,
           \/ BeginCompound \/ BeginDo
           \/ \E shape \in Expressions : \/ BeginSwitch(shape) \/ BeginWhile(shape)
                                         \/ \E has_else \in BOOLEAN : BeginIf(shape, has_else)
    PROVE  LaidOut(frames', displ', max_local_displ', locals')
<1>1. displ' = displ /\ max_local_displ' = max_local_displ /\ locals' = locals
  BY DEF BeginCompound, BeginDo, BeginSwitch, BeginWhile, BeginIf, history
<1>2. /\ Len(memory) \in Nat /\ Len(memory') - 1 \in Nat /\ 0 \in Nat /\ FALSE \in BOOLEAN
      /\ frames \in Seq(FrameType) /\ LaidOut(frames, displ, max_local_displ, locals)
      /\ {"compound", "do", "switch", "while", "if"} \subseteq Kinds
  BY DEF LocalsFacts, TypeInv, Kinds, Breakable, Loops
<1>3. LaidOut(frames', displ, max_local_displ, locals)
  <2>1. CASE BeginCompound
    <3>1. frames' = Append(frames, Frame("compound", 0, FALSE)) /\ "compound" \in Kinds
      BY <1>2, <2>1 DEF BeginCompound
    <3> QED BY <1>2, <3>1, PushLaid
  <2>2. CASE BeginDo
    <3>1. frames' = Append(frames, Frame("do", Len(memory), FALSE)) /\ "do" \in Kinds
      BY <1>2, <2>2 DEF BeginDo, Push, mem_size
    <3> QED BY <1>2, <3>1, PushLaid
  <2>3. ASSUME NEW shape \in Expressions, BeginSwitch(shape) PROVE LaidOut(frames', displ, max_local_displ, locals)
    <3>1. frames' = Append(frames, Frame("switch", 0, FALSE)) /\ "switch" \in Kinds
      BY <1>2, <2>3 DEF BeginSwitch, Push
    <3> QED BY <1>2, <3>1, PushLaid
  <2>4. ASSUME NEW shape \in Expressions, BeginWhile(shape) PROVE LaidOut(frames', displ, max_local_displ, locals)
    <3>1. frames' = Append(frames, Frame("while", Len(memory), FALSE)) /\ "while" \in Kinds
      BY <1>2, <2>4 DEF BeginWhile, Push, mem_size
    <3> QED BY <1>2, <3>1, PushLaid
  <2>5. ASSUME NEW shape \in Expressions, NEW has_else \in BOOLEAN, BeginIf(shape, has_else)
        PROVE  LaidOut(frames', displ, max_local_displ, locals)
    <3>1. frames' = Append(frames, Frame("if", Len(memory') - 1, has_else)) /\ "if" \in Kinds
      BY <1>2, <2>5 DEF BeginIf, Push
    <3> QED BY <1>2, <3>1, PushLaid
  <2> QED BY <2>1, <2>2, <2>3, <2>4, <2>5
<1> QED BY <1>1, <1>3

\* A variable is declared in a block or in the body of the function.
LEMMA DeclarationLaid ==
    ASSUME LocalsFacts, NEW size \in Sizes, emit_declaration_statement(size)
    PROVE  LaidOut(frames', displ', max_local_displ', locals')
<1>1. /\ frames' = frames /\ displ' = displ + size
      /\ max_local_displ' = IF displ' > max_local_displ THEN displ' ELSE max_local_displ
      /\ Len(frames) > 0 => frames[Len(frames)].kind \in Owners
  BY DEF emit_declaration_statement, Simple, Depth, Top, Owners
<1>2. PICK x : x = [depth |-> Len(frames), words |-> displ..displ' - 1] /\ locals' = locals \cup {x}
  BY DEF emit_declaration_statement, Depth
<1>3. size \in Nat
  BY CodegenAssumption
<1>4. LaidOut(frames, displ, max_local_displ, locals) /\ Len(frames) \in Nat
  BY DEF LocalsFacts
<1>5. LaidOut(frames, displ', max_local_displ', locals \cup {x})
  BY <1>1, <1>2, <1>3, <1>4, LaidDeclared
<1> QED BY <1>1, <1>2, <1>5

\* A for begins, with a variable of its own or none.
LEMMA ForLaid ==
    ASSUME LocalsFacts, NEW size \in Sizes \cup {0}, NEW has_condition \in BOOLEAN, NEW has_increment \in BOOLEAN,
           BeginFor(size, has_condition, has_increment)
    PROVE  LaidOut(frames', displ', max_local_displ', locals')
<1>1. displ' = displ + size /\ max_local_displ' = IF displ' > max_local_displ THEN displ' ELSE max_local_displ
  BY Zenon DEF BeginFor
<1>2. /\ frames \in Seq(FrameType) /\ LaidOut(frames, displ, max_local_displ, locals) /\ Len(memory) \in Nat
      /\ Len(frames) \in Nat /\ "for" \in Kinds
  BY DEF LocalsFacts, TypeInv, Kinds, Breakable, Loops
<1>3. frames' = Append(frames, Frame("for", Len(memory), has_increment))
  BY Zenon DEF BeginFor, Push, mem_size
<1>4. /\ LaidOut(frames', displ, max_local_displ, locals)
      /\ Len(frames') = Len(frames) + 1 /\ frames'[Len(frames) + 1].kind = "for"
  BY <1>2, <1>3, PushLaid, Zenon
<1>5. PICK x : x = [depth |-> Len(frames'), words |-> displ..displ' - 1] /\ locals' = locals \cup {x}
  <2>1. locals' = locals \cup {[depth |-> Len(frames) + 1, words |-> displ..displ' - 1]}
    BY Zenon DEF BeginFor, Depth
  <2> QED BY <1>4, <2>1
<1>6. size \in Nat
  BY CodegenAssumption
<1>7. Len(frames') \in Nat /\ frames'[Len(frames')].kind \in Owners
  BY <1>2, <1>4 DEF Owners
<1>8. LaidOut(frames', displ', max_local_displ', locals \cup {x})
  BY <1>1, <1>4, <1>5, <1>6, <1>7, LaidDeclared
<1> QED BY <1>5, <1>8

\* What a step changes in a frame is neither its kind nor the word it remembers.
LEMMA FieldsKept ==
    ASSUME NEW r \in FrameType, NEW n
    PROVE  /\ [r EXCEPT !.labels = n].kind = r.kind /\ [r EXCEPT !.labels = n].old_displ = r.old_displ
           /\ [r EXCEPT !.addr = n, !.flag = FALSE].kind = r.kind
           /\ [r EXCEPT !.addr = n, !.flag = FALSE].old_displ = r.old_displ
BY DEF FrameType

\* A label begins.
LEMMA LabelLaid ==
    ASSUME LocalsFacts, BeginDefault \/ \E value \in CaseValues : BeginCase(value)
    PROVE  LaidOut(frames', displ', max_local_displ', locals')
<1>1. displ' = displ /\ max_local_displ' = max_local_displ /\ locals' = locals
  BY DEF BeginDefault, BeginCase
<1>2. /\ frames \in Seq(FrameType) /\ LaidOut(frames, displ, max_local_displ, locals) /\ Len(frames) \in Nat
      /\ 0 \in Nat /\ FALSE \in BOOLEAN /\ "case" \in Kinds /\ "default" \in Kinds
  BY DEF LocalsFacts, Kinds
<1>3. InSwitch
  BY DEF BeginDefault, BeginCase
<1>4. PICK k \in 1..Len(frames) : k = Max(Enclosing({"switch"}))
  <2>1. PICK kinds : kinds = {"switch"}
    OBVIOUS
  <2>2. PICK S : S = {i \in 1..Len(frames) : frames[i].kind \in kinds}
    OBVIOUS
  <2>3. S = Enclosing({"switch"}) /\ S # {}
    BY <1>3, <2>1, <2>2 DEF Enclosing, Depth, InSwitch
  <2>4. PICK k \in 1..Len(frames) : k = Max(S) /\ frames[k].kind \in kinds /\ Clear(frames, kinds, k, Len(frames) + 1)
    BY <1>2, <2>2, <2>3, InnermostFrame
  <2> QED BY <2>3, <2>4
<1>5. PICK G : G = [frames EXCEPT ![k].labels = @ + 1]
  OBVIOUS
<1>6. G \in Seq(FrameType)
  BY <1>2, <1>5, CountedFrames DEF Counted
<1>7. Len(G) = Len(frames) /\ \A i \in 1..Len(frames) : G[i].kind = frames[i].kind /\ G[i].old_displ = frames[i].old_displ
  <2>1. PICK n : n = frames[k].labels + 1
    OBVIOUS
  <2>2. PICK g : g = [frames[k] EXCEPT !.labels = n] /\ G = [frames EXCEPT ![k] = g]
    BY <1>5, <2>1
  <2>3. g.kind = frames[k].kind /\ g.old_displ = frames[k].old_displ
    BY <1>2, <2>2, FieldsKept
  <2>4. Len(G) = Len(frames) /\ G[k] = g /\ \A i \in 1..Len(frames) : i # k => G[i] = frames[i]
    BY <1>2, <2>2
  <2> QED BY <2>3, <2>4
<1>8. LaidOut(G, displ, max_local_displ, locals)
  BY <1>2, <1>7, LaidSame
<1>9. PICK kind \in Kinds : frames' = Append(G, Frame(kind, 0, FALSE))
  <2>1. CASE BeginDefault
    <3>1. frames' = Append(G, Frame("default", 0, FALSE))
      BY <1>4, <1>5, <2>1 DEF BeginDefault
    <3> QED BY <1>2, <3>1
  <2>2. ASSUME NEW value \in CaseValues, BeginCase(value) PROVE frames' = Append(G, Frame("case", 0, FALSE))
    BY <1>4, <1>5, <2>2 DEF BeginCase
  <2> QED BY <1>2, <2>1, <2>2
<1>10. LaidOut(frames', displ, max_local_displ, locals)
  BY <1>2, <1>6, <1>8, <1>9, PushLaid
<1> QED BY <1>1, <1>10

\* The else of an if begins.
LEMMA ElseLaid ==
    ASSUME LocalsFacts, BeginElse
    PROVE  LaidOut(frames', displ', max_local_displ', locals')
<1>1. displ' = displ /\ max_local_displ' = max_local_displ /\ locals' = locals
  BY DEF BeginElse
<1>2. /\ frames \in Seq(FrameType) /\ LaidOut(frames, displ, max_local_displ, locals) /\ Len(frames) \in Nat
  BY DEF LocalsFacts
<1>3. PICK d \in 1..Len(frames) : frames' = [frames EXCEPT ![d].addr = mem_size + 1, ![d].flag = FALSE]
  <2>1. Len(frames) \in 1..Len(frames)
    BY <1>2 DEF BeginElse, Resume, Depth
  <2> QED BY <2>1 DEF BeginElse, Depth
<1>4. Len(frames') = Len(frames) /\ \A i \in 1..Len(frames) : frames'[i].kind = frames[i].kind /\ frames'[i].old_displ = frames[i].old_displ
  <2>1. PICK n : n = mem_size + 1
    OBVIOUS
  <2>2. PICK g : g = [frames[d] EXCEPT !.addr = n, !.flag = FALSE] /\ frames' = [frames EXCEPT ![d] = g]
    BY <1>3, <2>1
  <2>3. g.kind = frames[d].kind /\ g.old_displ = frames[d].old_displ
    BY <1>2, <2>2, FieldsKept
  <2>4. PICK G : G = frames' /\ G = [frames EXCEPT ![d] = g]
    BY <2>2
  <2>5. Len(G) = Len(frames) /\ G[d] = g /\ \A i \in 1..Len(frames) : i # d => G[i] = frames[i]
    BY <1>2, <2>4
  <2>6. Len(frames') = Len(frames) /\ frames'[d] = g /\ \A i \in 1..Len(frames) : i # d => frames'[i] = frames[i]
    BY <2>4, <2>5
  <2> QED BY <2>3, <2>6
<1>5. LaidOut(frames', displ, max_local_displ, locals)
  BY <1>2, <1>4, LaidSame
<1> QED BY <1>1, <1>5

\* A statement without variables ends.
LEMMA EndLaid ==
    ASSUME LocalsFacts, EndIf \/ EndLabelled
    PROVE  LaidOut(frames', displ', max_local_displ', locals')
<1>1. displ' = displ /\ max_local_displ' = max_local_displ /\ locals' = locals /\ Depth > 0 /\ Pop
  BY DEF EndIf, EndLabelled, Resume, history
<1>2. Top.kind \notin Owners
  BY DEF EndIf, EndLabelled, Resume, Owners
<1>3. Popped(frames, frames', Top) /\ LaidOut(frames, displ, max_local_displ, locals)
  BY <1>1, PopFacts DEF LocalsFacts
<1>4. LaidOut(frames', displ, max_local_displ, locals)
  BY <1>2, <1>3, LaidPopped
<1> QED BY <1>1, <1>4

\* A block, loop or switch ends.
LEMMA FreeLaid ==
    ASSUME LocalsInv, LocalsFacts, EndCompound \/ EndBreaks
    PROVE  LaidOut(frames', displ', max_local_displ', locals')
<1>1. /\ max_local_displ' = max_local_displ /\ Depth > 0 /\ Pop
      /\ Free \/ (Top.kind \notin Owners /\ displ' = displ /\ locals' = locals)
  <2>1. CASE EndCompound
    BY <2>1 DEF EndCompound, Resume
  <2>2. CASE EndBreaks
    <3>1. Len(frames) > 0 /\ frames[Len(frames)].kind \in Breakable
      BY <2>2 DEF LocalsInv, JumpsInv, Sound, Phase, EndBreaks
    <3>2. Top.kind # "for" => Top.kind \notin Owners
      BY <3>1 DEF Top, Depth, Owners, Breakable, Loops
    <3> QED BY <2>2, <3>1, <3>2 DEF EndBreaks, Depth
  <2> QED BY <2>1, <2>2
<1>2. Popped(frames, frames', Top) /\ LaidOut(frames, displ, max_local_displ, locals)
  BY <1>1, PopFacts DEF LocalsFacts
<1>3. CASE Free
  <2>1. displ' = Top.old_displ /\ locals' = {v \in locals : v.depth < Len(frames)}
    BY <1>3 DEF Free, Depth
  <2>2. LaidOut(frames', Top.old_displ, max_local_displ, {v \in locals : v.depth < Len(frames)})
    BY <1>2, LaidFreed
  <2> QED BY <1>1, <2>1, <2>2
<1>4. CASE Top.kind \notin Owners /\ displ' = displ /\ locals' = locals
  <2>1. LaidOut(frames', displ, max_local_displ, locals)
    BY <1>2, <1>4, LaidPopped
  <2> QED BY <1>1, <1>4, <2>1
<1> QED BY <1>1, <1>3, <1>4

-----------------------------------------------------------------------------
(* Live variables never share a word *)

\* Every step keeps the layout.
LEMMA NextLocalsInv ==
    ASSUME LocalsInv, [Next]_vars
    PROVE  LocalsInv'
<1>1. LocalsFacts
  BY FactsHold
<1>2. JumpsInv'
  BY NextJumpsInv DEF LocalsInv
<1>3. LaidOut(frames', displ', max_local_displ', locals')
  <2>1. CASE \/ \E shape \in Expressions : emit_expression_statement(shape) \/ JumpBack(shape)
             \/ emit_return_statement \/ emit_continue_statement \/ emit_break_statement
             \/ NextInCompound \/ EndSwitchBody \/ EndLoopBody \/ PatchCond \/ PatchBreak
             \/ NextInBody \/ EndFunction \/ UNCHANGED vars
    BY <1>1, <2>1, StillLaid
  <2>2. CASE \/ BeginCompound \/ BeginDo
             \/ \E shape \in Expressions : \/ BeginSwitch(shape) \/ BeginWhile(shape)
                                           \/ \E has_else \in BOOLEAN : BeginIf(shape, has_else)
    BY <1>1, <2>2, BeginLaid
  <2>3. CASE \E size \in Sizes : emit_declaration_statement(size)
    BY <1>1, <2>3, DeclarationLaid
  <2>4. CASE \E size \in Sizes \cup {0}, has_condition, has_increment \in BOOLEAN :
                 BeginFor(size, has_condition, has_increment)
    BY <1>1, <2>4, ForLaid
  <2>5. CASE BeginDefault \/ \E value \in CaseValues : BeginCase(value)
    BY <1>1, <2>5, LabelLaid
  <2>6. CASE BeginElse
    BY <1>1, <2>6, ElseLaid
  <2>7. CASE EndIf \/ EndLabelled
    BY <1>1, <2>7, EndLaid
  <2>8. CASE EndCompound \/ EndBreaks
    BY <1>1, <2>8, FreeLaid
  <2> QED BY <2>1, <2>2, <2>3, <2>4, <2>5, <2>6, <2>7, <2>8 DEF Next
<1> QED BY <1>2, <1>3 DEF LocalsInv

\* The variables of a function that are alive at the same time have words of their own
\* in its frame, for all programs.
THEOREM LiveLocalsApart == Spec => []LocalsDisjoint
<1>1. Init => LocalsInv
  BY InitJumpsInv, InitLaid DEF LocalsInv
<1>2. LocalsInv /\ [Next]_vars => LocalsInv'
  BY NextLocalsInv
<1>3. LocalsInv => LocalsDisjoint
  BY DEF LocalsInv, LaidOut, LocalsDisjoint
<1> QED BY <1>1, <1>2, <1>3, PTL DEF Spec
=============================================================================
