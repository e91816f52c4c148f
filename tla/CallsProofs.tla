---------------------------- MODULE CallsProofs ----------------------------
(***************************************************************************)
(* Proofs about Calls, for every set of functions and any number of calls. *)
(***************************************************************************)
EXTENDS Calls, SequenceTheorems, TLAPS

UseRecord == [cell : Nat, fun : Funs, how : {"call", "param", "pass"}]

\* Type correctness of the encoder's tables.
TypeInv ==
    /\ memory \in Seq(Int) /\ Len(memory) >= 4
    /\ displacements \in [Identifiers -> Int]
    /\ functions \in Seq(Nat) /\ Len(functions) >= 2
    /\ curr_func \in Funs \cup {Nobody}
    /\ link \in Nat
    /\ uses \in Seq(UseRecord)
    /\ DOMAIN start \subseteq Funs

\* The operand cells of the calls of f emitted so far.
CallCells(f) == {u.cell : u \in {v \in Uses("call") : v.fun = f}}

\* The operand of every use is a cell of its own, inside the code.
CellsApart ==
    /\ \A i \in DOMAIN uses : uses[i].cell \in 1..mem_size - 1
    /\ \A i, j \in DOMAIN uses : uses[i].cell = uses[j].cell => i = j

\* p is the last call of f before address c, or 0 when there is none.
IsLastBefore(p, c, f) ==
    /\ p \in CallCells(f) \cup {0} /\ p < c
    /\ \A d \in CallCells(f) : d < c => d <= p

\* The calls of f up to address top still form the chain that ends in 0.
Chained(top, f) ==
    \A c \in CallCells(f) : c <= top => IsLastBefore(mem_get(c), c, f)

\* Before the definition of f: its prototype leads to the newest call, each call to
\* the one before it.
Pending(f) ==
    /\ displacements[Proto(f)] <= 0
    /\ IsLastBefore(-displacements[Proto(f)], mem_size, f)
    /\ Chained(mem_size, f)
    /\ f \notin Announced => CallCells(f) = {}

\* The address up to which the calls of a defined function wait for the loop.
Unlinked(f) == IF curr_func = f THEN link ELSE 0

\* After the definition of f: its number is in the table, calls above the loop's
\* address hold it, calls up to that address are still chained.
Defined(f) ==
    /\ displacements[Def(f)] \in 1..Len(functions) - 1
    /\ functions[displacements[Def(f)] + 1] = start[f]
    /\ Unlinked(f) \in CallCells(f) \cup {0}
    /\ Chained(Unlinked(f), f)
    /\ \A c \in CallCells(f) : c > Unlinked(f) => mem_get(c) = displacements[Def(f)]

\* The function being emitted and its parameter.
Current ==
    /\ curr_func = Nobody => link = 0
    /\ curr_func # Nobody => /\ curr_func \in DOMAIN start
                             /\ displacements[Param(curr_func)] = -3

ParamCalls == \A u \in Uses("param") : mem_get(u.cell) = -3

LinkInv ==
    /\ TypeInv /\ CellsApart /\ Current /\ ParamCalls
    /\ \A f \in Funs \ DOMAIN start : Pending(f)
    /\ \A f \in DOMAIN start : Defined(f)

-----------------------------------------------------------------------------
(* Lemmas about identifiers, uses and the code. *)

\* The prototype, the definition and the parameter of a function are different
\* identifiers, and different from those of any other function.
LEMMA IdentifiersApart ==
    ASSUME NEW f \in Funs, NEW g \in Funs
    PROVE  /\ {Proto(f), Def(f), Param(f)} \subseteq Identifiers
           /\ Proto(f) # Def(g) /\ Proto(f) # Param(g) /\ Def(f) # Param(g)
           /\ f # g => Proto(f) # Proto(g) /\ Def(f) # Def(g) /\ Param(f) # Param(g)
BY DEF Proto, Def, Param, Identifiers

\* What Use appends is a record of the history.
LEMMA UseIsRecord ==
    ASSUME NEW c \in Nat, NEW f \in Funs, NEW how \in {"call", "param", "pass"}
    PROVE  \E u \in UseRecord : /\ u = [cell |-> c, fun |-> f, how |-> how]
                               /\ u.cell = c /\ u.fun = f /\ u.how = how
<1>1. [cell |-> c, fun |-> f, how |-> how] \in UseRecord
  BY DEF UseRecord
<1> QED BY <1>1

\* A use is looked up by its position.
LEMMA UsesMember ==
    ASSUME TypeInv, NEW how
    PROVE  /\ \A u \in Uses(how) : /\ u \in UseRecord /\ u.how = how
                                  /\ \E i \in 1..Len(uses) : uses[i] = u
           /\ \A i \in 1..Len(uses) : uses[i].how = how => uses[i] \in Uses(how)
BY DEF Uses, TypeInv

\* A new use is added to the uses of its kind and to no other.
LEMMA UsesGrow ==
    ASSUME TypeInv, NEW u \in UseRecord, uses' = Append(uses, u), NEW how
    PROVE  Uses(how)' = Uses(how) \cup (IF u.how = how THEN {u} ELSE {})
<1>1. Len(uses') = Len(uses) + 1 /\ uses'[Len(uses) + 1] = u
  BY DEF TypeInv
<1>2. \A i \in 1..Len(uses) : uses'[i] = uses[i]
  BY DEF TypeInv
<1>3. DOMAIN uses = 1..Len(uses) /\ DOMAIN uses' = 1..Len(uses) + 1
  BY <1>1 DEF TypeInv
<1>4. Uses(how)' = {uses'[i] : i \in {j \in 1..Len(uses) + 1 : uses'[j].how = how}}
  BY <1>3 DEF Uses
<1>5. Uses(how) = {uses[i] : i \in {j \in 1..Len(uses) : uses[j].how = how}}
  BY <1>3 DEF Uses
<1>6. Len(uses) \in Nat
  BY DEF TypeInv
<1> QED BY <1>1, <1>2, <1>4, <1>5, <1>6

\* A new use of f that is a call gives f one more call; no other use gives a call.
LEMMA CallCellsGrow ==
    ASSUME TypeInv, NEW u \in UseRecord, uses' = Append(uses, u), NEW f \in Funs
    PROVE  CallCells(f)' = CallCells(f) \cup (IF u.how = "call" /\ u.fun = f THEN {u.cell} ELSE {})
<1>1. Uses("call")' = Uses("call") \cup (IF u.how = "call" THEN {u} ELSE {})
  BY UsesGrow
<1>2. CallCells(f)' = {v.cell : v \in {w \in Uses("call")' : w.fun = f}}
  BY DEF CallCells
<1> QED BY <1>1, <1>2 DEF CallCells

\* The calls of a function lie inside the code, at addresses no other use shares.
LEMMA CallCellsPlace ==
    ASSUME TypeInv, CellsApart, NEW f \in Funs, NEW c \in CallCells(f)
    PROVE  /\ c \in 1..mem_size - 1
           /\ \A g \in Funs \ {f} : c \notin CallCells(g)
           /\ \A u \in Uses("param") : u.cell # c
<1>1. PICK u \in Uses("call") : u.fun = f /\ u.cell = c
  BY DEF CallCells
<1>2. PICK i \in 1..Len(uses) : uses[i] = u /\ u.how = "call"
  BY <1>1, UsesMember
<1>3. DOMAIN uses = 1..Len(uses)
  BY DEF TypeInv
<1>4. ASSUME NEW g \in Funs \ {f}, c \in CallCells(g) PROVE FALSE
  <2>1. PICK v \in Uses("call") : v.fun = g /\ v.cell = c
    BY <1>4 DEF CallCells
  <2>2. PICK j \in 1..Len(uses) : uses[j] = v
    BY UsesMember
  <2> QED BY <1>1, <1>2, <1>3, <2>1, <2>2 DEF CellsApart
<1>5. ASSUME NEW v \in Uses("param"), v.cell = c PROVE FALSE
  <2>1. PICK j \in 1..Len(uses) : uses[j] = v /\ v.how = "param"
    BY UsesMember
  <2> QED BY <1>1, <1>2, <1>3, <1>5, <2>1 DEF CellsApart
<1>6. c \in 1..mem_size - 1
  BY <1>1, <1>2, <1>3 DEF CellsApart
<1> QED BY <1>4, <1>5, <1>6

\* Emitting an instruction leaves the cells before it alone.
LEMMA CodeGrows ==
    ASSUME TypeInv, NEW s \in Seq(Int), memory' = memory \o s
    PROVE  /\ memory' \in Seq(Int) /\ mem_size' = mem_size + Len(s)
           /\ \A a \in 0..mem_size - 1 : mem_get(a)' = mem_get(a)
           /\ \A k \in 1..Len(s) : memory'[mem_size + k] = s[k]
<1>1. memory' \in Seq(Int) /\ Len(memory') = Len(memory) + Len(s)
  BY DEF TypeInv
<1>2. \A a \in 0..mem_size - 1 : mem_get(a)' = mem_get(a)
  BY DEF TypeInv, mem_get, mem_size
<1>3. \A k \in 1..Len(s) : memory'[mem_size + k] = s[k]
  <2>1. memory \in Seq(Int)
    BY DEF TypeInv
  <2>2. \A k \in 1..Len(s) : (memory \o s)[Len(memory) + k] = s[k]
    BY ONLY <2>1, s \in Seq(Int), SMTT(30)
  <2> QED BY <2>2 DEF mem_size
<1> QED BY <1>1, <1>2, <1>3 DEF mem_size

-----------------------------------------------------------------------------
(* The steps *)

\* The state enc_create leaves satisfies the inductive invariant.
LEMMA InitLinkInv == Init => LinkInv
<1> SUFFICES ASSUME Init PROVE LinkInv
  OBVIOUS
<1> USE DEF Init
<1>1. TypeInv
  BY EmptySeq DEF TypeInv, Identifiers
<1>2. uses = <<>> /\ Len(uses) = 0 /\ DOMAIN uses = {}
  OBVIOUS
<1>3. \A how : Uses(how) = {}
  BY <1>2 DEF Uses
<1>4. CellsApart /\ Current /\ ParamCalls
  BY <1>2, <1>3 DEF CellsApart, Current, ParamCalls
<1>5. DOMAIN start = {}
  OBVIOUS
<1>6. ASSUME NEW f \in Funs PROVE Pending(f)
  <2>1. CallCells(f) = {}
    BY <1>3 DEF CallCells
  <2>2. displacements[Proto(f)] = 0
    <3>1. Proto(f) \in Identifiers
      BY IdentifiersApart
    <3> QED BY <3>1
  <2>3. 0 < mem_size
    BY DEF mem_size
  <2>4. IsLastBefore(0, mem_size, f) /\ Chained(mem_size, f)
    BY <2>1, <2>3 DEF IsLastBefore, Chained
  <2> QED BY <2>1, <2>2, <2>4 DEF Pending
<1> QED BY <1>1, <1>4, <1>5, <1>6 DEF LinkInv

\* functions_add numbers f, starts the loop at the newest call of its prototype and
\* leaves the chains of the other functions alone.
LEMMA BeginFunctionLinkInv ==
    ASSUME LinkInv, NEW f \in Funs, BeginFunction(f)
    PROVE  LinkInv'
<1> USE DEF LinkInv
<1>0. /\ curr_func = Nobody /\ link = 0 /\ f \notin DOMAIN start /\ Pending(f)
      /\ UNCHANGED <<memory, uses>> /\ curr_func' = f
      /\ functions' = Append(functions, mem_size)
      /\ displacements' = [displacements EXCEPT ![Def(f)] = Len(functions), ![Param(f)] = -3]
      /\ link' = IF PredeclDispl(f) < 0 THEN Absolute(PredeclDispl(f)) ELSE 0
      /\ start' = [g \in DOMAIN start \cup {f} |-> IF g = f THEN mem_size ELSE start[g]]
  BY DEF BeginFunction, functions_add, Current
<1>1. mem_size \in Nat /\ mem_size' = mem_size /\ Len(functions) \in Nat
  BY <1>0 DEF TypeInv, mem_size
<1>2. /\ \A how : Uses(how)' = Uses(how)
      /\ \A g : CallCells(g)' = CallCells(g)
      /\ \A a : mem_get(a)' = mem_get(a)
  BY <1>0 DEF Uses, CallCells, mem_get
<1>3. \A g \in Funs : CallCells(g) \subseteq 1..mem_size - 1
  BY CallCellsPlace
<1>4. /\ displacements' \in [Identifiers -> Int]
      /\ displacements'[Def(f)] = Len(functions) /\ displacements'[Param(f)] = -3
      /\ \A g \in Funs : displacements'[Proto(g)] = displacements[Proto(g)]
      /\ \A g \in Funs \ {f} : displacements'[Def(g)] = displacements[Def(g)]
  BY <1>0, <1>1, IdentifiersApart, SMTT(30) DEF TypeInv
<1>5. /\ functions' \in Seq(Nat) /\ Len(functions') = Len(functions) + 1
      /\ functions'[Len(functions) + 1] = mem_size
      /\ \A n \in 1..Len(functions) : functions'[n] = functions[n]
  BY <1>0, <1>1 DEF TypeInv
<1>6. DOMAIN start' = DOMAIN start \cup {f} /\ start'[f] = mem_size
      /\ \A g \in DOMAIN start : start'[g] = start[g]
  BY <1>0
\* The loop starts at the newest call of f.
<1>7. IsLastBefore(link', mem_size, f) /\ link' \in Nat
  <2>1. CASE f \in Announced
    <3>1. PredeclDispl(f) = displacements[Proto(f)] /\ displacements[Proto(f)] \in Int
      BY <2>1, IdentifiersApart DEF PredeclDispl, TypeInv
    <3>2. link' = -displacements[Proto(f)]
      BY <1>0, <3>1 DEF Pending, Absolute
    <3> QED BY <1>0, <3>1, <3>2 DEF Pending
  <2>2. CASE f \notin Announced
    <3>1. link' = 0
      BY <1>0, <2>2 DEF PredeclDispl, ITEM_MAX
    <3>2. CallCells(f) = {}
      BY <1>0, <2>2 DEF Pending
    <3>3. 0 < mem_size
      BY DEF TypeInv, mem_size
    <3> QED BY <3>1, <3>2, <3>3 DEF IsLastBefore
  <2> QED BY <2>1, <2>2
<1>8. TypeInv'
  <2>1. /\ memory' = memory /\ uses' = uses /\ curr_func' \in Funs \cup {Nobody}
        /\ DOMAIN start' \subseteq Funs
    BY <1>0, <1>6 DEF TypeInv
  <2>2. Len(functions') >= 2
    BY <1>1, <1>5 DEF TypeInv
  <2> QED BY <1>4, <1>5, <1>7, <2>1, <2>2 DEF TypeInv
<1>9. CellsApart' /\ Current' /\ ParamCalls'
  <2>1. f # Nobody
    BY CallsAssumption
  <2> QED BY <1>0, <1>1, <1>2, <1>4, <1>6, <2>1 DEF CellsApart, Current, ParamCalls
<1>10. ASSUME NEW g \in Funs \ DOMAIN start' PROVE Pending(g)'
  <2>1. Pending(g) /\ g # f
    BY <1>6
  <2> QED BY <1>1, <1>2, <1>4, <2>1 DEF Pending, IsLastBefore, Chained
<1>11. ASSUME NEW g \in DOMAIN start PROVE Defined(g)'
  <2>1. Defined(g) /\ g \in Funs /\ g # f
    BY <1>0 DEF TypeInv
  <2>2. Unlinked(g) = 0 /\ Unlinked(g)' = 0
    BY <1>0, <2>1, CallsAssumption DEF Unlinked
  <2>3. displacements'[Def(g)] = displacements[Def(g)] /\ displacements[Def(g)] \in 1..Len(functions) - 1
    BY <1>4, <2>1 DEF Defined
  <2>4. functions'[displacements[Def(g)] + 1] = start'[g]
    BY <1>5, <1>6, <2>1, <2>3 DEF Defined
  <2> QED BY <1>1, <1>2, <1>5, <2>1, <2>2, <2>3, <2>4 DEF Defined, Chained, IsLastBefore
<1>12. Defined(f)'
  <2>1. Unlinked(f)' = link'
    BY <1>0 DEF Unlinked
  <2>2. \A c \in CallCells(f) : c <= link'
    BY <1>1, <1>3, <1>7 DEF IsLastBefore
  <2>3. Chained(mem_size, f)
    BY <1>0 DEF Pending
  <2>4. \A c \in CallCells(f) : IsLastBefore(mem_get(c), c, f)
    BY <1>1, <1>3, <2>3 DEF Chained
  <2>5. Chained(link, f)'
    BY <1>2, <2>4 DEF Chained, IsLastBefore
  <2>6. link' \in CallCells(f) \cup {0}
    BY <1>7 DEF IsLastBefore
  <2>7. Len(functions) >= 2
    BY DEF TypeInv
  <2>8. \A c \in CallCells(f) : ~(c > link')
    BY <1>3, <1>7, <2>2
  <2>9. /\ displacements'[Def(f)] \in 1..Len(functions') - 1
        /\ functions'[displacements'[Def(f)] + 1] = start'[f]
    BY <1>1, <1>4, <1>5, <1>6, <2>7
  <2>10. (\A c \in CallCells(f) : c > Unlinked(f) => mem_get(c) = displacements[Def(f)])'
    BY <1>2, <2>1, <2>8
  <2>11. (Unlinked(f) \in CallCells(f) \cup {0} /\ Chained(Unlinked(f), f))'
    BY <1>2, <2>1, <2>5, <2>6
  <2> QED BY <2>9, <2>10, <2>11 DEF Defined
<1> QED BY <1>6, <1>8, <1>9, <1>10, <1>11, <1>12

\* One iteration of the loop of functions_add links one call and leaves the others
\* of this function, and those of every other, as they were.
LEMMA LinkCallLinkInv ==
    ASSUME LinkInv, LinkCall, NEW f \in Funs, curr_func = f, NEW n \in Int, n = displacements[Def(f)]
    PROVE  LinkInv'
<1> USE DEF LinkInv
<1>0. /\ link # 0 /\ memory' = [memory EXCEPT ![link + 1] = n] /\ link' = mem_get(link)
      /\ UNCHANGED <<displacements, functions, curr_func, uses, start>>
  BY DEF LinkCall
<1>1. f \in DOMAIN start /\ Defined(f) /\ Unlinked(f) = link
  BY CallsAssumption DEF Current, Unlinked
<1>2. link \in CallCells(f) /\ link \in 1..mem_size - 1
  BY <1>0, <1>1, CallCellsPlace DEF Defined
<1>3. IsLastBefore(mem_get(link), link, f)
  BY <1>1, <1>2 DEF Defined, Chained
<1>4. link' \in CallCells(f) \cup {0} /\ link' \in Nat /\ link' < link
      /\ \A c \in CallCells(f) : c < link => c <= link'
  <2>1. \A c \in CallCells(f) : c \in Nat
    BY CallCellsPlace
  <2>2. mem_get(link) \in Nat
    BY <1>3, <2>1 DEF IsLastBefore
  <2> QED BY <1>0, <1>3, <2>2 DEF IsLastBefore
<1>6. /\ memory' \in Seq(Int) /\ Len(memory') = Len(memory)
      /\ \A a \in 0..mem_size - 1 : mem_get(a)' = IF a = link THEN n ELSE mem_get(a)
  <2>1. link + 1 \in 1..Len(memory) /\ memory \in Seq(Int)
    BY <1>2 DEF TypeInv, mem_size
  <2>2. memory' \in Seq(Int) /\ Len(memory') = Len(memory)
    BY <1>0, <2>1, ExceptSeq
  <2>3. \A i \in 1..Len(memory) : memory'[i] = IF i = link + 1 THEN n ELSE memory[i]
    BY <1>0, <2>1
  <2>4. ASSUME NEW a \in 0..mem_size - 1
        PROVE  mem_get(a)' = IF a = link THEN n ELSE mem_get(a)
    <3>1. a + 1 \in 1..Len(memory) /\ (a + 1 = link + 1 <=> a = link)
      BY <1>2, <2>1 DEF mem_size
    <3> QED BY <2>3, <3>1 DEF mem_get
  <2> QED BY <2>2, <2>4
<1>7. mem_size' = mem_size /\ mem_size \in Nat
  BY <1>6 DEF mem_size, TypeInv
<1>8. (\A how : Uses(how)' = Uses(how)) /\ (\A g : CallCells(g)' = CallCells(g))
  BY <1>0 DEF Uses, CallCells
<1>9. TypeInv' /\ CellsApart' /\ Current'
  <2>1. TypeInv'
    BY <1>0, <1>4, <1>6 DEF TypeInv
  <2> QED BY <1>0, <1>1, <1>7, <2>1 DEF CellsApart, Current, TypeInv
<1>10. ParamCalls'
  <2>1. ASSUME NEW u \in Uses("param") PROVE mem_get(u.cell)' = -3
    <3>1. u.cell # link
      BY <1>1, <1>2, CallCellsPlace
    <3>2. u.cell \in 0..mem_size - 1
      <4>1. PICK i \in 1..Len(uses) : uses[i] = u
        BY UsesMember
      <4> QED BY <4>1 DEF CellsApart, TypeInv
    <3> QED BY <1>6, <3>1, <3>2 DEF ParamCalls
  <2> QED BY <1>8, <2>1 DEF ParamCalls
<1>11. ASSUME NEW g \in Funs \ {f}, NEW c \in CallCells(g)
       PROVE  mem_get(c)' = mem_get(c)
  <2>1. c # link /\ c \in 0..mem_size - 1
    BY <1>1, <1>2, CallCellsPlace
  <2> QED BY <1>6, <2>1
<1>12. ASSUME NEW g \in Funs \ DOMAIN start PROVE Pending(g)'
  <2>1. Pending(g) /\ g # f
    BY <1>1
  <2> QED BY <1>0, <1>7, <1>8, <1>11, <2>1 DEF Pending, Chained, IsLastBefore
<1>13. ASSUME NEW g \in DOMAIN start, g # f PROVE Defined(g)'
  <2>1. Defined(g) /\ g \in Funs
    BY DEF TypeInv
  <2>2. Unlinked(g) = 0 /\ Unlinked(g)' = 0
    BY <1>0, <1>13 DEF Unlinked
  <2> QED BY <1>0, <1>8, <1>11, <1>13, <2>1, <2>2 DEF Defined, Chained, IsLastBefore
<1>14. Defined(f)'
  <2>1. Unlinked(f)' = link'
    BY <1>0 DEF Unlinked
  <2>2. \A c \in CallCells(f) : c \in 1..mem_size - 1
    BY <1>1, CallCellsPlace
  <2>3. ASSUME NEW c \in CallCells(f), c <= link'
        PROVE  mem_get(c)' = mem_get(c) /\ IsLastBefore(mem_get(c), c, f)
    <3>1. c < link
      BY <1>2, <1>4, <2>2, <2>3
    <3> QED BY <1>1, <1>2, <1>6, <2>2, <3>1 DEF Defined, Chained
  <2>4. Chained(link, f)'
    BY <1>8, <2>3 DEF Chained, IsLastBefore
  <2>5. ASSUME NEW c \in CallCells(f), c > link'
        PROVE  mem_get(c)' = n
    <3>1. c = link \/ c > link
      BY <1>2, <1>4, <2>2, <2>5
    <3> QED BY <1>1, <1>2, <1>6, <2>2, <3>1 DEF Defined
  <2>6. (\A c \in CallCells(f) : c > Unlinked(f) => mem_get(c) = displacements[Def(f)])'
    BY <1>0, <1>8, <2>1, <2>5
  <2>7. (Unlinked(f) \in CallCells(f) \cup {0} /\ Chained(Unlinked(f), f))'
    BY <1>4, <1>8, <2>1, <2>4
  <2> QED BY <1>0, <1>1, <2>6, <2>7 DEF Defined
<1> QED BY <1>0, <1>9, <1>10, <1>12, <1>13, <1>14

\* Emitting code keeps the chain, or the links, of a function that gets no new call.
LEMMA EmitKeeps ==
    ASSUME LinkInv, link = 0, NEW s \in Seq(Int), memory' = memory \o s,
           UNCHANGED <<functions, link, start>>, NEW g \in Funs, CallCells(g)' = CallCells(g),
           displacements'[Proto(g)] = displacements[Proto(g)],
           displacements'[Def(g)] = displacements[Def(g)]
    PROVE  (Pending(g) => Pending(g)') /\ (Defined(g) => Defined(g)')
<1>0. TypeInv /\ mem_size \in Nat /\ Len(s) \in Nat
  BY DEF LinkInv, TypeInv, mem_size
<1>1. /\ mem_size \in Nat /\ mem_size' = mem_size + Len(s) /\ Len(s) \in Nat
      /\ \A a \in 0..mem_size - 1 : mem_get(a)' = mem_get(a)
  BY <1>0, CodeGrows
<1>2. \A c \in CallCells(g) : c \in 1..mem_size - 1 /\ mem_get(c)' = mem_get(c)
  BY <1>1, CallCellsPlace DEF LinkInv
<1>3. ASSUME Pending(g) PROVE Pending(g)'
  <2>1. -displacements[Proto(g)] \in Int
    BY IdentifiersApart DEF LinkInv, TypeInv
  <2>2. IsLastBefore(-displacements[Proto(g)], mem_size, g)'
    BY <1>1, <1>2, <1>3, <2>1 DEF Pending, IsLastBefore
  <2>3. Chained(mem_size, g)'
    BY <1>1, <1>2, <1>3 DEF Pending, Chained, IsLastBefore
  <2> QED BY <1>3, <2>2, <2>3 DEF Pending
<1>4. ASSUME Defined(g) PROVE Defined(g)'
  <2>1. Unlinked(g) = 0 /\ Unlinked(g)' = 0
    BY DEF Unlinked
  <2> QED BY <1>2, <1>4, <2>1 DEF Defined, Chained, IsLastBefore
<1> QED BY <1>3, <1>4

\* A use takes the last cell of what it emits, a cell no earlier use has.
LEMMA UseKeeps ==
    ASSUME LinkInv, NEW s \in Seq(Int), memory' = memory \o s, Len(s) >= 2,
           NEW u \in UseRecord, uses' = Append(uses, u), u.cell = mem_size + Len(s) - 1,
           u.how = "param" => s[Len(s)] = -3
    PROVE  /\ CellsApart' /\ ParamCalls'
           /\ uses' \in Seq(UseRecord) /\ memory' \in Seq(Int) /\ Len(memory') >= 4
<1>0. TypeInv /\ mem_size \in Nat /\ Len(s) \in Nat /\ mem_size >= 4
  BY SMTT(30) DEF LinkInv, TypeInv, mem_size
<1>1. /\ mem_size \in Nat /\ mem_size' = mem_size + Len(s) /\ Len(s) \in Nat
      /\ \A a \in 0..mem_size - 1 : mem_get(a)' = mem_get(a)
      /\ memory' \in Seq(Int) /\ mem_size' >= 4
  <2>1. /\ memory' \in Seq(Int) /\ mem_size' = mem_size + Len(s)
        /\ \A a \in 0..mem_size - 1 : mem_get(a)' = mem_get(a)
    BY <1>0, CodeGrows
  <2>2. mem_size' >= 4
    BY <1>0, <2>1
  <2> QED BY <1>0, <2>1, <2>2
<1>2. /\ uses' \in Seq(UseRecord) /\ Len(uses) \in Nat
      /\ DOMAIN uses = 1..Len(uses) /\ DOMAIN uses' = 1..Len(uses) + 1
      /\ uses'[Len(uses) + 1] = u /\ \A i \in 1..Len(uses) : uses'[i] = uses[i]
  BY SMTT(30) DEF LinkInv, TypeInv
<1>3. \A i \in 1..Len(uses) : uses[i].cell \in 1..mem_size - 1
  BY <1>2 DEF LinkInv, CellsApart
<1>4. CellsApart'
  <2>1. ASSUME NEW i \in 1..Len(uses) + 1
        PROVE  uses'[i].cell \in 1..mem_size' - 1
    <3>1. CASE i = Len(uses) + 1
      BY <1>1, <1>2, <3>1
    <3>2. CASE i \in 1..Len(uses)
      BY <1>1, <1>2, <1>3, <3>2
    <3> QED BY <1>2, <3>1, <3>2
  <2>2. ASSUME NEW i \in 1..Len(uses) + 1, NEW j \in 1..Len(uses) + 1,
               uses'[i].cell = uses'[j].cell
        PROVE  i = j
    <3>1. \A k \in 1..Len(uses) : uses'[k].cell # u.cell
      BY <1>1, <1>2, <1>3
    <3>2. CASE i = Len(uses) + 1 \/ j = Len(uses) + 1
      BY <1>2, <2>2, <3>1, <3>2
    <3>3. CASE i \in 1..Len(uses) /\ j \in 1..Len(uses)
      BY <1>2, <2>2, <3>3 DEF LinkInv, CellsApart
    <3> QED BY <1>2, <3>2, <3>3
  <2> QED BY <1>2, <2>1, <2>2 DEF CellsApart
<1>5. ParamCalls'
  <2>1. Uses("param")' = Uses("param") \cup (IF u.how = "param" THEN {u} ELSE {})
    BY UsesGrow DEF LinkInv
  <2>2. \A v \in Uses("param") : v.cell \in 0..mem_size - 1
    BY <1>2, <1>3, UsesMember DEF LinkInv
  <2>3. ASSUME u.how = "param" PROVE mem_get(u.cell)' = -3
    <3>1. memory'[mem_size + Len(s)] = s[Len(s)]
      <4>1. Len(s) \in 1..Len(s)
        BY <1>0
      <4> QED BY <1>0, <4>1, CodeGrows
    <3>2. u.cell + 1 = mem_size + Len(s)
      BY <1>1
    <3> QED BY <2>3, <3>1, <3>2 DEF mem_get
  <2> QED BY <1>1, <2>1, <2>2, <2>3 DEF LinkInv, ParamCalls
<1> QED BY <1>1, <1>2, <1>4, <1>5 DEF mem_size

\* What every emitted use has in common: the tables stay well typed, the cells of the
\* uses apart, and every function without a new call keeps its chain or its links.
LEMMA EmitLinkInv ==
    ASSUME LinkInv, Emitting, NEW s \in Seq(Int), memory' = memory \o s, Len(s) >= 2,
           NEW u \in UseRecord, uses' = Append(uses, u), u.cell = mem_size + Len(s) - 1,
           u.how = "param" => s[Len(s)] = -3,
           functions' = functions, curr_func' = curr_func, link' = link, start' = start,
           displacements' \in [Identifiers -> Int],
           \A id \in Identifiers : id # Proto(u.fun) => displacements'[id] = displacements[id],
           u.how # "call" => displacements' = displacements,
           u.how = "call" => (u.fun \notin DOMAIN start => Pending(u.fun)')
                             /\ (u.fun \in DOMAIN start => Defined(u.fun)')
    PROVE  LinkInv'
<1> USE DEF LinkInv
<1>0. link = 0 /\ curr_func # Nobody /\ curr_func \in Funs /\ curr_func \in DOMAIN start
  BY DEF Emitting, Current, TypeInv
<1>1. /\ CellsApart' /\ ParamCalls'
      /\ uses' \in Seq(UseRecord) /\ memory' \in Seq(Int) /\ Len(memory') >= 4
  BY UseKeeps
<1>2. TypeInv'
  BY <1>1 DEF TypeInv
<1>3. Current'
  <2>1. u.fun \in Funs
    BY DEF UseRecord
  <2>2. Param(curr_func) \in Identifiers /\ Param(curr_func) # Proto(u.fun)
    BY <1>0, <2>1, IdentifiersApart
  <2> QED BY <1>0, <2>2 DEF Current
<1>4. ASSUME NEW g \in Funs, g # u.fun \/ u.how # "call"
      PROVE  (Pending(g) => Pending(g)') /\ (Defined(g) => Defined(g)')
  <2>1. CallCells(g)' = CallCells(g)
    BY <1>4, CallCellsGrow
  <2>2. u.fun \in Funs
    BY DEF UseRecord
  <2>3. /\ displacements'[Proto(g)] = displacements[Proto(g)]
        /\ displacements'[Def(g)] = displacements[Def(g)]
    BY <1>4, <2>2, IdentifiersApart
  <2> QED BY <1>0, <2>1, <2>3, EmitKeeps
<1>5. ASSUME NEW g \in Funs \ DOMAIN start PROVE Pending(g)'
  BY <1>4
<1>6. ASSUME NEW g \in DOMAIN start PROVE Defined(g)'
  BY <1>4 DEF TypeInv
<1> QED BY <1>1, <1>2, <1>3, <1>5, <1>6

\* A call of a function that is not defined yet becomes the head of its chain; a call
\* of a defined function holds its number at once.
LEMMA CallLinkInv ==
    ASSUME LinkInv, NEW f \in Funs, Call(f)
    PROVE  LinkInv'
<1>0. /\ TypeInv /\ mem_size \in Nat /\ Emitting /\ Usable(f) /\ link = 0
      /\ uses' = Append(uses, [cell |-> mem_size + 2, fun |-> f, how |-> "call"])
      /\ memory' = memory \o <<0, 0, Operand(Visible(f))>>
      /\ UNCHANGED <<functions, curr_func, link, start>>
      /\ functions_get(Visible(f))
  BY SMTT(30) DEF Call, Use, LinkInv, TypeInv, mem_size, Emitting
<1>1. curr_func \in Funs /\ curr_func # Nobody
  BY <1>0 DEF Emitting, TypeInv
<1>2. Visible(f) \in Identifiers /\ ~IsParameter(Visible(f))
  BY <1>1, IdentifiersApart DEF Visible, IsParameter
<1>3. displacements[Visible(f)] \in Int
  BY <1>0, <1>2 DEF TypeInv
<1>4. Operand(Visible(f)) = Absolute(displacements[Visible(f)]) /\ Operand(Visible(f)) \in Int
  BY <1>2, <1>3 DEF Operand, Absolute
<1>5. PICK s \in Seq(Int) : /\ memory' = memory \o s /\ Len(s) = 3
                           /\ s[3] = Operand(Visible(f))
  <2>1. /\ <<0, 0, Operand(Visible(f))>> \in Seq(Int)
        /\ Len(<<0, 0, Operand(Visible(f))>>) = 3
        /\ <<0, 0, Operand(Visible(f))>>[3] = Operand(Visible(f))
    BY <1>4
  <2> QED BY <1>0, <2>1
<1>6. PICK u \in UseRecord : /\ uses' = Append(uses, u)
                            /\ u.cell = mem_size + 2 /\ u.how = "call" /\ u.fun = f
  <2>1. mem_size + 2 \in Nat
    BY <1>0
  <2>2. \E u \in UseRecord : /\ u = [cell |-> mem_size + 2, fun |-> f, how |-> "call"]
                            /\ u.cell = mem_size + 2 /\ u.fun = f /\ u.how = "call"
    BY <2>1, UseIsRecord
  <2> QED BY <1>0, <2>2
<1>7. /\ mem_size' = mem_size + 3
      /\ \A a \in 0..mem_size - 1 : mem_get(a)' = mem_get(a)
      /\ mem_get(u.cell)' = Operand(Visible(f))
  <2>1. /\ mem_size' = mem_size + 3
        /\ \A a \in 0..mem_size - 1 : mem_get(a)' = mem_get(a)
        /\ \A k \in 1..3 : memory'[mem_size + k] = s[k]
    BY <1>0, <1>5, CodeGrows
  <2>2. u.cell + 1 = mem_size + 3
    BY <1>0, <1>6
  <2>3. mem_get(u.cell)' = memory'[mem_size + 3]
    BY <2>2 DEF mem_get
  <2>4. memory'[mem_size + 3] = s[3]
    BY <2>1
  <2> QED BY <1>5, <2>1, <2>3, <2>4
<1>8. CallCells(f)' = CallCells(f) \cup {u.cell}
  BY <1>0, <1>6, CallCellsGrow
<1>9. \A c \in CallCells(f) : c \in 1..mem_size - 1 /\ mem_get(c)' = mem_get(c)
  BY <1>0, <1>7, CallCellsPlace DEF LinkInv
<1>10. CASE f \in DOMAIN start
  <2>1. Visible(f) = Def(f) /\ Defined(f)
    BY <1>10 DEF Visible, LinkInv
  <2>2. displacements[Def(f)] > 0
    BY <2>1, SMTT(30) DEF Defined, LinkInv, TypeInv
  <2>3. displacements' = displacements
    BY <1>0, <2>1, <2>2, <1>3 DEF functions_get
  <2>4. Operand(Visible(f)) = displacements[Def(f)]
    BY <1>3, <1>4, <2>1, <2>2 DEF Absolute
  <2>5. Unlinked(f) = 0 /\ Unlinked(f)' = 0
    BY <1>0 DEF Unlinked
  <2>6. \A c \in CallCells(f) : mem_get(c)' = displacements[Def(f)]
    BY <1>9, <2>1, <2>5 DEF Defined
  <2>7. \A c \in CallCells(f)' : c > 0 /\ mem_get(c)' = displacements'[Def(f)]
    BY <1>0, <1>6, <1>7, <1>8, <1>9, <2>3, <2>4, <2>6
  <2>8. Defined(f)'
    <3>1. /\ displacements'[Def(f)] \in 1..Len(functions') - 1
          /\ functions'[displacements'[Def(f)] + 1] = start'[f]
      BY <1>0, <2>1, <2>3 DEF Defined
    <3>2. (Unlinked(f) \in CallCells(f) \cup {0} /\ Chained(Unlinked(f), f))'
      BY <1>0, <1>6, <1>8, <1>9, <2>5, <2>7 DEF Chained
    <3> QED BY <2>5, <2>7, <3>1, <3>2 DEF Defined
  <2>9. /\ u.cell = mem_size + Len(s) - 1 /\ Len(s) >= 2
        /\ u.how = "param" => s[Len(s)] = -3
    BY <1>0, <1>5, <1>6
  <2>10. /\ displacements' \in [Identifiers -> Int]
         /\ \A id \in Identifiers : id # Proto(u.fun) => displacements'[id] = displacements[id]
    BY <1>0, <2>3 DEF TypeInv
  <2> QED BY <1>0, <1>5, <1>6, <1>10, <2>8, <2>9, <2>10, EmitLinkInv
<1>11. CASE f \notin DOMAIN start
  <2>1. Visible(f) = Proto(f) /\ Pending(f) /\ f \in Announced
    BY <1>0, <1>11 DEF Visible, LinkInv, Usable
  <2>2. displacements' = [displacements EXCEPT ![Proto(f)] = -(mem_size + 2)]
    BY <1>0, <1>2, <2>1 DEF functions_get, Pending
  <2>3. /\ displacements' \in [Identifiers -> Int] /\ displacements'[Proto(f)] = -(mem_size + 2)
        /\ \A id \in Identifiers : id # Proto(f) => displacements'[id] = displacements[id]
    BY <1>0, <1>2, <2>1, <2>2 DEF TypeInv
  <2>4. Operand(Visible(f)) = -displacements[Proto(f)]
    BY <1>3, <1>4, <2>1 DEF Absolute, Pending
  <2>6. \A c \in CallCells(f)' : IsLastBefore(mem_get(c), c, f)'
    <3>1. ASSUME NEW c \in CallCells(f) PROVE IsLastBefore(mem_get(c), c, f)'
      <4>1. IsLastBefore(mem_get(c), c, f) /\ c \in 1..mem_size - 1
        BY <1>0, <1>9, <2>1 DEF Pending, Chained
      <4>2. ~(u.cell < c)
        BY <1>0, <1>6, <4>1
      <4> QED BY <1>8, <1>9, <4>1, <4>2 DEF IsLastBefore
    <3>2. IsLastBefore(mem_get(u.cell), u.cell, f)'
      BY <1>0, <1>3, <1>6, <1>7, <1>8, <1>9, <2>1, <2>4 DEF Pending, IsLastBefore
    <3> QED BY <1>6, <1>8, <3>1, <3>2
  <2>7. IsLastBefore(-displacements[Proto(f)], mem_size, f)'
    <3>1. -displacements'[Proto(f)] = u.cell
      BY <1>0, <1>6, <2>3
    <3>2. u.cell < mem_size' /\ \A c \in CallCells(f)' : c <= u.cell
      BY <1>0, <1>6, <1>7, <1>8, <1>9
    <3> QED BY <1>8, <3>1, <3>2 DEF IsLastBefore
  <2>8. Pending(f)'
    BY <1>0, <2>1, <2>3, <2>6, <2>7 DEF Pending, Chained
  <2>9. /\ u.cell = mem_size + Len(s) - 1 /\ Len(s) >= 2
        /\ u.how = "param" => s[Len(s)] = -3
    BY <1>0, <1>5, <1>6
  <2>10. /\ displacements' \in [Identifiers -> Int]
         /\ \A id \in Identifiers : id # Proto(u.fun) => displacements'[id] = displacements[id]
    BY <1>6, <2>3
  <2> QED BY <1>0, <1>5, <1>6, <1>11, <2>8, <2>9, <2>10, EmitLinkInv
<1> QED BY <1>10, <1>11

\* A call through the parameter holds the word of the parameter.
LEMMA CallParameterLinkInv ==
    ASSUME LinkInv, CallParameter
    PROVE  LinkInv'
<1>0. /\ TypeInv /\ mem_size \in Nat /\ Emitting
      /\ uses' = Append(uses, [cell |-> mem_size + 2, fun |-> curr_func, how |-> "param"])
      /\ UNCHANGED <<displacements, functions, curr_func, link, start>>
      /\ memory' = memory \o <<0, 0, displacements[Param(curr_func)]>>
  BY SMTT(30) DEF CallParameter, Use, LinkInv, TypeInv, mem_size, functions_get, IsParameter, Operand
<1>1. curr_func \in Funs /\ displacements[Param(curr_func)] = -3
  BY <1>0 DEF Emitting, LinkInv, Current, TypeInv
<1>2. PICK s \in Seq(Int) : memory' = memory \o s /\ Len(s) = 3 /\ s[3] = -3
  <2>1. <<0, 0, -3>> \in Seq(Int) /\ Len(<<0, 0, -3>>) = 3 /\ <<0, 0, -3>>[3] = -3
    OBVIOUS
  <2> QED BY <1>0, <1>1, <2>1
<1>3. PICK u \in UseRecord : /\ uses' = Append(uses, u)
                            /\ u.cell = mem_size + 2 /\ u.how = "param"
  <2>1. mem_size + 2 \in Nat
    BY <1>0
  <2>2. \E u \in UseRecord : /\ u = [cell |-> mem_size + 2, fun |-> curr_func, how |-> "param"]
                            /\ u.cell = mem_size + 2 /\ u.fun = curr_func /\ u.how = "param"
    BY <1>1, <2>1, UseIsRecord
  <2> QED BY <1>0, <2>2
<1>4. /\ u.cell = mem_size + Len(s) - 1 /\ Len(s) >= 2
      /\ u.how = "param" => s[Len(s)] = -3
  BY <1>0, <1>2, <1>3
<1>5. /\ displacements' \in [Identifiers -> Int]
      /\ \A id \in Identifiers : id # Proto(u.fun) => displacements'[id] = displacements[id]
  BY <1>0 DEF TypeInv
<1> QED BY <1>0, <1>2, <1>3, <1>4, <1>5, EmitLinkInv

\* A function passed as an argument is not a call, and is in no chain.
LEMMA PassFunctionLinkInv ==
    ASSUME LinkInv, NEW f \in Funs, PassFunction(f)
    PROVE  LinkInv'
<1>0. /\ TypeInv /\ mem_size \in Nat /\ Emitting
      /\ uses' = Append(uses, [cell |-> mem_size + 1, fun |-> f, how |-> "pass"])
      /\ memory' = memory \o <<0, Absolute(displacements[Visible(f)])>>
      /\ UNCHANGED <<displacements, functions, curr_func, link, start>>
  BY DEF PassFunction, Use, LinkInv, TypeInv, mem_size
<1>1. Visible(f) \in Identifiers
  BY IdentifiersApart DEF Visible
<1>2. PICK s \in Seq(Int) : memory' = memory \o s /\ Len(s) = 2
  <2>1. Absolute(displacements[Visible(f)]) \in Int
    BY <1>0, <1>1 DEF TypeInv, Absolute
  <2>2. /\ <<0, Absolute(displacements[Visible(f)])>> \in Seq(Int)
        /\ Len(<<0, Absolute(displacements[Visible(f)])>>) = 2
    BY <2>1
  <2> QED BY <1>0, <2>2
<1>3. PICK u \in UseRecord : /\ uses' = Append(uses, u)
                            /\ u.cell = mem_size + 1 /\ u.how = "pass"
  <2>1. mem_size + 1 \in Nat
    BY <1>0
  <2>2. \E u \in UseRecord : /\ u = [cell |-> mem_size + 1, fun |-> f, how |-> "pass"]
                            /\ u.cell = mem_size + 1 /\ u.fun = f /\ u.how = "pass"
    BY <2>1, UseIsRecord
  <2> QED BY <1>0, <2>2
<1>4. /\ u.cell = mem_size + Len(s) - 1 /\ Len(s) >= 2
      /\ u.how = "param" => s[Len(s)] = -3
  BY <1>0, <1>2, <1>3
<1>5. /\ displacements' \in [Identifiers -> Int]
      /\ \A id \in Identifiers : id # Proto(u.fun) => displacements'[id] = displacements[id]
  BY <1>0 DEF TypeInv
<1> QED BY <1>0, <1>2, <1>3, <1>4, <1>5, EmitLinkInv

\* The end of a function emits one cell and links nothing.
LEMMA EndFunctionLinkInv ==
    ASSUME LinkInv, EndFunction
    PROVE  LinkInv'
<1> USE DEF LinkInv
<1>0. /\ TypeInv /\ mem_size \in Nat /\ mem_size >= 4 /\ link = 0 /\ curr_func' = Nobody
      /\ UNCHANGED <<displacements, functions, link, uses, start>>
      /\ memory' = Append(memory, 0)
  BY DEF EndFunction, Emitting, TypeInv, mem_size
<1>1. PICK s \in Seq(Int) : memory' = memory \o s /\ Len(s) = 1
  <2>1. <<0>> \in Seq(Int) /\ Len(<<0>>) = 1 /\ memory \in Seq(Int) /\ 0 \in Int
    BY <1>0 DEF TypeInv
  <2>2. Append(memory, 0) = memory \o <<0>>
    BY <2>1, AppendIsConcat
  <2> QED BY <1>0, <2>1, <2>2
<1>2. /\ memory' \in Seq(Int) /\ mem_size' = mem_size + 1
      /\ \A a \in 0..mem_size - 1 : mem_get(a)' = mem_get(a)
  BY <1>0, <1>1, CodeGrows
<1>3. \A g : CallCells(g)' = CallCells(g)
  BY <1>0 DEF CallCells, Uses
<1>4. TypeInv'
  <2>1. Len(memory') >= 4
    BY <1>0, <1>2 DEF mem_size
  <2> QED BY <1>0, <1>2, <2>1 DEF TypeInv
<1>5. CellsApart' /\ Current'
  BY <1>0, <1>2, SMTT(30) DEF CellsApart, Current, TypeInv
<1>6. ParamCalls'
  <2>1. ASSUME NEW u \in Uses("param") PROVE mem_get(u.cell)' = -3
    <3>1. PICK i \in 1..Len(uses) : uses[i] = u
      BY <1>0, UsesMember
    <3>2. u.cell \in 0..mem_size - 1
      BY <3>1 DEF CellsApart, TypeInv
    <3> QED BY <1>2, <3>2 DEF ParamCalls
  <2> QED BY <1>0, <2>1 DEF ParamCalls, Uses
<1>7. ASSUME NEW g \in Funs
      PROVE  (Pending(g) => Pending(g)') /\ (Defined(g) => Defined(g)')
  BY <1>0, <1>1, <1>3, EmitKeeps
<1> QED BY <1>0, <1>4, <1>5, <1>6, <1>7 DEF TypeInv

\* Every step keeps the inductive invariant.
LEMMA NextLinkInv == LinkInv /\ [Next]_vars => LinkInv'
<1> SUFFICES ASSUME LinkInv, [Next]_vars PROVE LinkInv'
  OBVIOUS
<1>1. CASE \E f \in Funs : BeginFunction(f)
  BY <1>1, BeginFunctionLinkInv
<1>2. CASE \E f \in Funs : Call(f)
  BY <1>2, CallLinkInv
<1>3. CASE \E f \in Funs : PassFunction(f)
  BY <1>3, PassFunctionLinkInv
<1>4. CASE LinkCall
  <2>1. curr_func \in Funs
    BY <1>4 DEF LinkCall, LinkInv, Current, TypeInv
  <2>2. displacements[Def(curr_func)] \in Int
    BY <2>1, IdentifiersApart DEF LinkInv, TypeInv
  <2>3. PICK f \in Funs, n \in Int : curr_func = f /\ n = displacements[Def(f)]
    BY <2>1, <2>2
  <2> QED BY <1>4, <2>3, LinkCallLinkInv
<1>5. CASE CallParameter
  BY <1>5, CallParameterLinkInv
<1>6. CASE EndFunction
  BY <1>6, EndFunctionLinkInv
<1>7. CASE UNCHANGED vars
  <2>1. UNCHANGED <<memory, displacements, functions, curr_func, link, uses, start>>
    BY <1>7 DEF vars
  <2>2. TypeInv' /\ CellsApart' /\ Current'
    BY <2>1 DEF LinkInv, TypeInv, CellsApart, Current, mem_size
  <2>3. /\ \A how : Uses(how)' = Uses(how)
        /\ \A g : CallCells(g)' = CallCells(g) /\ Unlinked(g)' = Unlinked(g)
        /\ \A a : mem_get(a)' = mem_get(a)
        /\ mem_size' = mem_size
    BY <2>1 DEF Uses, CallCells, Unlinked, mem_get, mem_size
  <2>4. ParamCalls'
    BY <2>3 DEF LinkInv, ParamCalls
  <2>5. ASSUME NEW g
        PROVE  (Pending(g) => Pending(g)') /\ (Defined(g) => Defined(g)')
    BY <2>1, <2>3 DEF Pending, Defined, Chained, IsLastBefore
  <2> QED BY <2>1, <2>2, <2>4, <2>5 DEF LinkInv
<1> QED BY <1>1, <1>2, <1>3, <1>4, <1>5, <1>6, <1>7 DEF Next

\* The inductive invariant holds in every reachable state.
LEMMA LinkInvHolds == Spec => []LinkInv
BY InitLinkInv, NextLinkInv, PTL DEF Spec

-----------------------------------------------------------------------------
(* The properties of the runs *)

\* Functions of any number, announced or not, and calls in any order: a linked call
\* holds the number of its function, whose entry is where its code starts, and the
\* loop of functions_add never writes into a call through a parameter.
THEOREM EveryCallReachesItsDefinition == Spec => []CallsReachDefinitions
<1>1. LinkInv => CallsReachDefinitions
  <2> SUFFICES ASSUME LinkInv PROVE CallsReachDefinitions
    OBVIOUS
  <2>1. ASSUME NEW u \in Uses("call"), Linked(u.fun)
        PROVE  Reaches(mem_get(u.cell), u.fun)
    <3> DEFINE f == u.fun
    <3>1. u \in UseRecord /\ f \in Funs /\ f \in DOMAIN start
      BY <2>1, UsesMember DEF LinkInv, Linked, UseRecord
    <3>2. u.cell \in CallCells(f) /\ u.cell > 0 /\ Defined(f)
      <4>1. u.cell \in CallCells(f)
        BY DEF CallCells
      <4> QED BY <3>1, <4>1, CallCellsPlace DEF LinkInv
    <3>3. Unlinked(f) = 0
      BY <2>1 DEF Linked, Unlinked
    <3>4. mem_get(u.cell) = displacements[Def(f)]
      BY <3>2, <3>3 DEF Defined
    <3>5. DOMAIN functions = 1..Len(functions)
      BY DEF LinkInv, TypeInv
    <3> QED BY <3>2, <3>4, <3>5, SMTT(30) DEF Defined, Reaches, LinkInv, TypeInv
  <2> QED BY <2>1 DEF LinkInv, ParamCalls, CallsReachDefinitions
<1> QED BY <1>1, LinkInvHolds, PTL

\* The operands of the calls of a function without a definition lead, each to an
\* earlier call of the same function, down to 0: the chains of several announced
\* functions never meet, whatever the order of the calls in the code.
THEOREM ChainsNeverMeet == Spec => []ChainsSeparate
<1>1. LinkInv => ChainsSeparate
  <2> SUFFICES ASSUME LinkInv, NEW u \in Uses("call"), u.fun \notin DOMAIN start
               PROVE  \/ mem_get(u.cell) = 0
                      \/ \E v \in Uses("call") : /\ v.fun = u.fun /\ v.cell = mem_get(u.cell)
                                                /\ v.cell < u.cell
    BY DEF ChainsSeparate
  <2>1. u \in UseRecord /\ Pending(u.fun)
    BY UsesMember DEF LinkInv, UseRecord
  <2>2. u.cell \in CallCells(u.fun) /\ u.fun \in Funs
    BY <2>1 DEF CallCells, UseRecord
  <2>3. u.cell <= mem_size
    BY <2>2, CallCellsPlace DEF LinkInv, TypeInv, mem_size
  <2>4. IsLastBefore(mem_get(u.cell), u.cell, u.fun)
    BY <2>1, <2>2, <2>3 DEF Pending, Chained
  <2> QED BY <2>4 DEF IsLastBefore, CallCells
<1> QED BY <1>1, LinkInvHolds, PTL
=============================================================================
