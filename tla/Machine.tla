------------------------------ MODULE Machine ------------------------------
(***************************************************************************)
(* The virtual machine the code of Emitter is meant for, as far as         *)
(* codegen.c and instructions.h use it (the machine is not part of the     *)
(* repository).  Its memory holds the code, the globals and the frame;     *)
(* a floating value takes two cells.  An instruction that does not find    *)
(* the operands it takes on the stack stops the machine.                   *)
(***************************************************************************)
EXTENDS Emitter

GlobalBase == 1000
FrameBase == 2000
HeapBase == 4000
Addr(displ) == IF displ < 0 THEN GlobalBase - displ ELSE FrameBase + displ

Cell(code, st, a) == IF a < Len(code) THEN code[a + 1] ELSE st.mem[a]

\* What the user functions of the instances and the builtins compute: any
\* function tells a wrong argument or call from the right one.
Called(code, st, f, args) ==
  CASE f = "first" -> <<Number(10 * Cell(code, st, args[1][2] - 1)[2] + Cell(code, st, args[1][2])[2])>>
    [] f = "twice" -> <<Number(2 * args[1][2])>>
    [] f = "half" -> Double(<<args[1][2][1], 2 * args[1][2][2]>>)
    [] f = "pair" -> <<args[1]>> \o Double(Fraction(args[1][2]))
    [] f = "apply" -> <<Number(args[1][2] + args[2][2])>>
    [] f = "sqrt" -> Double(<<args[1][2][1] + 7 * args[1][2][2], args[1][2][2]>>)
    [] f = "round" -> <<Number(args[1][2][1] \div args[1][2][2])>>
FunctionOf(number) == CHOOSE f \in DOMAIN FunctionNumber : FunctionNumber[f] = number

\* An instruction among the numbered ones: which, on what, and whether it leaves a value.
Decoded(k) ==
  LET void == k \in 9201..9299
      valued == IF void THEN k - 200 ELSE k
      real == valued \in 9051..9099
      i == (IF real THEN valued - 50 ELSE valued) - MinInstructionCode
  IN [op |-> Numbered[i], at |-> i \in 12..22 \/ i \in 45..48, real |-> real, void |-> void,
      form |-> IF i <= 22 THEN "assign" ELSE IF i <= 40 THEN "binary" ELSE IF i <= 48 THEN "increment" ELSE "minus"]
OperationOf == [REM_ASSIGN |-> "REM", SHL_ASSIGN |-> "SHL", SHR_ASSIGN |-> "SHR", AND_ASSIGN |-> "AND", XOR_ASSIGN |-> "XOR",
                OR_ASSIGN |-> "OR", ADD_ASSIGN |-> "ADD", SUB_ASSIGN |-> "SUB", MUL_ASSIGN |-> "MUL", DIV_ASSIGN |-> "DIV"]
Instructions == (9001..9049) \cup (9057..9099) \cup (9201..9248) \cup (9257..9298)

Zero(op, b) == op \in {"DIV", "REM"} /\ (IF Len(b) = 2 THEN b[1][2][1] ELSE b[1][2]) = 0
\* The cells of a op b, where a and b are the cells of two values of one type.
Operated(op, a, b) ==
  IF Len(a) = 1 THEN <<Number(IntegerValue(op, a[1][2], b[1][2]))>>
  ELSE IF op \in Relations THEN <<Number(Truth(FloatingRelation(op, a[1][2], b[1][2])))>>
  ELSE Double(FloatingValue(op, a[1][2], b[1][2]))
One(size) == IF size = 2 THEN Double(Fraction(1)) ELSE <<Number(1)>>
IsWord(c) == c[1] = "n"
IsDouble(c, d) == c[1] = "d1" /\ d[1] = "d2"

\* The operands an instruction takes, from the bottom: words and doubles.
Takes(k) ==
  IF k \in Instructions
  THEN LET d == Decoded(k)
           one == IF d.real THEN "d" ELSE "w"
       IN CASE d.form = "assign" -> IF d.at THEN <<"w", one>> ELSE <<one>>
            [] d.form = "binary" -> <<one, one>>
            [] d.form = "increment" -> IF d.at THEN <<"w">> ELSE <<>>
            [] d.form = "minus" -> <<one>>
  ELSE CASE k \in {IC.NOT, IC.LOG_NOT, IC.LAT, IC.LATD, IC.COPY1ST, IC.BE0, IC.BNE0, IC.SELECT, IC.WIDEN,
                   IC.DUPLICATE, IC.ABSI, IC.PRINTF} -> <<"w">>
         [] k \in {IC.SLICE, IC.UPB} -> <<"w", "w">>
         [] k \in {IC.ABS, IC.SQRT, IC.ROUND} -> <<"d">>
         [] OTHER -> <<>>
RECURSIVE Fits(_, _)
Fits(cells, kinds) ==
  \/ kinds = <<>>
  \/ /\ Last(kinds) = "w" /\ Len(cells) >= 1 /\ IsWord(Last(cells))
     /\ Fits(Front(cells), Front(kinds))
  \/ /\ Last(kinds) = "d" /\ Len(cells) >= 2 /\ IsDouble(cells[Len(cells) - 1], Last(cells))
     /\ Fits(Front(Front(cells)), Front(kinds))

----------------------------------------------------------------------------
Initial(code, memory) == [pc |-> 4, stack |-> <<>>, mem |-> memory, out |-> <<>>, ok |-> TRUE, heap |-> HeapBase, base |-> 0]
Stopped(st) == [st EXCEPT !.ok = FALSE]
Known(code, st, a, size) == \A i \in 0..size - 1 : a + i \in DOMAIN st.mem \/ (a >= 4 /\ a + i < Len(code))
Read(code, st, a, size) == [i \in 1..size |-> Cell(code, st, a + i - 1)]
Written(memory, a, cells) == [b \in DOMAIN memory |-> IF b \in a..a + Len(cells) - 1 THEN cells[b - a + 1] ELSE memory[b]]

\* What a format prints of the cells it is given, and whether it takes them all.
RECURSIVE Printed(_, _)
Printed(format, cells) ==
  IF format = <<>> THEN IF cells = <<>> THEN <<>> ELSE <<"left over">>
  ELSE LET piece == format[1][2]
       IN IF piece \in {"text", "%"} THEN Printed(Tail(format), cells)
          ELSE IF piece = "f"
          THEN IF Len(cells) >= 2 /\ IsDouble(cells[1], cells[2])
               THEN <<cells[1]>> \o Printed(Tail(format), SubSeq(cells, 3, Len(cells))) ELSE <<"not a double">>
          ELSE IF Len(cells) >= 1 /\ IsWord(cells[1]) THEN <<cells[1]>> \o Printed(Tail(format), Tail(cells))
          ELSE <<"not a word">>

\* A numbered instruction, n cells of the stack being its operands.
Arithmetic(code, st, k) ==
  LET d == Decoded(k)
      S == st.stack
      size == IF d.real THEN 2 ELSE 1
      Top(from, count) == SubSeq(S, Len(S) - from + 1, Len(S) - from + count)
      Result(count, cells, memory, length) ==
        [st EXCEPT !.stack = SubSeq(S, 1, Len(S) - count) \o cells, !.mem = memory, !.pc = @ + length]
      right == Top(size, size)
      place == IF ~d.at THEN Addr(code[st.pc + 2][2])
               ELSE IF d.form = "increment" THEN Top(1, 1)[1][2] ELSE Top(size + 1, 1)[1][2]
      length == IF d.at THEN 1 ELSE 2
      address == IF d.at THEN 1 ELSE 0
      old == Read(code, st, place, size)
      new == IF d.form = "increment"
             THEN Operated(IF d.op \in {"POSTINC", "PREINC"} THEN "ADD" ELSE "SUB", old, One(size))
             ELSE IF d.op = "ASSIGN" THEN right ELSE Operated(OperationOf[d.op], old, right)
      value == IF d.op \in {"POSTINC", "POSTDEC"} THEN old ELSE new
  IN CASE d.form = "binary" -> IF Zero(d.op, right) THEN Stopped(st)
                               ELSE Result(2 * size, Operated(d.op, Top(2 * size, size), right), st.mem, 1)
       [] d.form = "minus" -> Result(size, IF d.real THEN Double(<<-right[1][2][1], right[1][2][2]>>)
                                           ELSE <<Number(-right[1][2])>>, st.mem, 1)
       [] OTHER ->
            IF ~Known(code, st, place, size) \/ (d.op # "ASSIGN" /\ ~Fits(old, <<IF d.real THEN "d" ELSE "w">>))
            THEN Stopped(st)
            ELSE IF d.op \in DOMAIN OperationOf /\ Zero(OperationOf[d.op], right) THEN Stopped(st)
            ELSE Result(address + (IF d.form = "assign" THEN size ELSE 0), IF d.void THEN <<>> ELSE value,
                        Written(st.mem, place, new), length)

RECURSIVE Execute(_, _), Allocated(_, _, _, _, _)
\* The procedure that makes the arrays of the structure at the address.
Made(code, st, address, proc) == [Execute(code, [st EXCEPT !.pc = proc, !.base = address]) EXCEPT !.pc = st.pc, !.base = st.base]
\* An array with these bounds, of elements of d cells: <<its address, the machine>>.
Allocated(code, st, bounds, d, proc) ==
  LET n == bounds[1]
      base == st.heap + 1
      width == IF Len(bounds) = 1 THEN d ELSE 1
      block == [a \in st.heap..st.heap + n * width |-> IF a = st.heap THEN Number(n) ELSE Number(0)]
      reserved == [st EXCEPT !.heap = @ + n * width + 1, !.mem = block @@ @]
      Element(m, i) ==
        IF Len(bounds) = 1 THEN IF proc = 0 THEN m ELSE Made(code, m, base + (i - 1) * d, proc)
        ELSE LET row == Allocated(code, m, Tail(bounds), d, proc)
             IN [row[2] EXCEPT !.mem = Written(@, base + i - 1, <<Number(row[1])>>)]
  IN <<base, FoldLeft(Element, reserved, [i \in 1..n |-> i])>>

Step(code, st) ==
  LET k == Numeric(code[st.pc + 1])
      a == code[st.pc + 2][2]
      b == code[st.pc + 3][2]
      c == code[st.pc + 4][2]
      S == st.stack
      top == Last(S)[2]
      below == S[Len(S) - 1][2]
      Drop(n) == SubSeq(S, 1, Len(S) - n)
      Next(count, cells, length) == [st EXCEPT !.stack = Drop(count) \o cells, !.pc = @ + length]
      Loaded(count, address, size, length) ==
        IF Known(code, st, address, size) THEN Next(count, Read(code, st, address, size), length) ELSE Stopped(st)
      marked == CHOOSE i \in DOMAIN S : S[i][1] = "m" /\ \A j \in i + 1..Len(S) : S[j][1] # "m"
  IN IF ~Fits(S, Takes(k)) THEN Stopped(st)
     ELSE IF k \in Instructions THEN Arithmetic(code, st, k)
     ELSE CASE k = IC.LI -> Next(0, <<code[st.pc + 2]>>, 2)
       [] k = IC.LID -> Next(0, SubSeq(code, st.pc + 2, st.pc + 3), 3)
       [] k = IC.LOAD -> Loaded(0, Addr(a), 1, 2)
       [] k = IC.LOADD -> Loaded(0, Addr(a), 2, 2)
       [] k = IC.LA -> Next(0, <<Number(Addr(a))>>, 2)
       [] k = IC.LAT -> Loaded(1, top, 1, 1)
       [] k = IC.LATD -> Loaded(1, top, 2, 1)
       [] k = IC.COPY0ST -> Loaded(0, Addr(a), b, 3)
       [] k = IC.COPY1ST -> Loaded(1, top, a, 2)
       [] k = IC.COPYST -> Next(c, SubSeq(S, Len(S) - c + a + 1, Len(S) - c + a + b), 4)
       [] k = IC.COPY0ST_ASSIGN ->
            [Next(b, <<>>, 3) EXCEPT !.mem = Written(st.mem, Addr(a), SubSeq(S, Len(S) - b + 1, Len(S)))]
       [] k = IC.COPY1ST_ASSIGN ->
            IF ~Known(code, st, S[Len(S) - a][2], a) THEN Stopped(st)
            ELSE [Next(a + 1, <<>>, 2) EXCEPT !.mem = Written(st.mem, S[Len(S) - a][2], SubSeq(S, Len(S) - a + 1, Len(S)))]
       [] k = IC.SELECT -> Next(1, <<Number(top + a)>>, 2)
       [] k = IC.SLICE -> IF Known(code, st, below - 1, 1) /\ top \in 0..Cell(code, st, below - 1)[2] - 1
                          THEN Next(2, <<Number(below + top * a)>>, 2) ELSE Stopped(st)
       [] k = IC.UPB -> IF Known(code, st, top - 1, 1) THEN Next(2, <<Cell(code, st, top - 1)>>, 1) ELSE Stopped(st)
       [] k = IC.WIDEN -> Next(1, Double(Fraction(top)), 1)
       [] k = IC.NOT -> Next(1, <<Number(-top - 1)>>, 1)
       [] k = IC.LOG_NOT -> Next(1, <<Number(Truth(top = 0))>>, 1)
       [] k = IC.ABSI -> Next(1, <<Number(Abs(top))>>, 1)
       [] k = IC.ABS -> Next(2, Double(<<Abs(top[1]), top[2]>>), 1)
       [] k = IC.SQRT -> Next(2, Called(code, st, "sqrt", SubSeq(S, Len(S) - 1, Len(S))), 1)
       [] k = IC.ROUND -> Next(2, Called(code, st, "round", SubSeq(S, Len(S) - 1, Len(S))), 1)
       [] k = IC.DUPLICATE -> Next(0, <<Last(S)>>, 1)
       [] k = IC.B -> [st EXCEPT !.pc = a]
       [] k = IC.BE0 -> [Next(1, <<>>, 2) EXCEPT !.pc = IF top = 0 THEN a ELSE @]
       [] k = IC.BNE0 -> [Next(1, <<>>, 2) EXCEPT !.pc = IF top # 0 THEN a ELSE @]
       [] k = IC.CALL1 -> Next(0, <<<<"m", 0>>>>, 1)
       [] k = IC.CALL2 -> Next(Len(S) - marked + 1, Called(code, st, FunctionOf(a), SubSeq(S, marked + 1, Len(S))), 2)
       [] k = IC.PRINTF ->
            LET length == Cell(code, st, top - 1)[2]
            IN [Next(1 + a, <<>>, 2) EXCEPT
                  !.out = @ \o Printed(Read(code, st, top, length), SubSeq(S, Len(S) - a, Len(S) - 1))]
       [] k = IC.PRIN -> LET size == type_size(a)
                         IN [Next(size, <<>>, 2) EXCEPT !.out = @ \o SubSeq(S, Len(S) - size + 1, Len(S))]
       [] k \in {IC.PRINTID, IC.GETID} -> [Next(0, <<>>, 2) EXCEPT !.out = Append(@, <<"ref", a>>)]
       [] k = IC.DEFARR ->
            LET sizes == SubSeq(S, Len(S) - a + 1, Len(S))
                bounds == [i \in DOMAIN sizes |-> sizes[i][2]]
                target == IF code[st.pc + 8][2] = 1 THEN st.base + c ELSE Addr(c)
                array == Allocated(code, Next(a, <<>>, 8), bounds, b, code[st.pc + 5][2])
            IN IF ~Fits(S, [i \in 1..a |-> "w"]) \/ \E i \in DOMAIN bounds : bounds[i] <= 0 THEN Stopped(st)
               ELSE [array[2] EXCEPT !.mem = (target :> Number(array[1])) @@ @]
       [] k = IC.STRUCT_WITH_ARR -> Made(code, Next(0, <<>>, 3), Addr(a), b)
       [] OTHER -> Stopped(st)

Execute(code, st) ==
  IF ~st.ok \/ st.pc >= Len(code) \/ code[st.pc + 1] = Number(IC.STOP) THEN st ELSE Execute(code, Step(code, st))
=============================================================================
