---------------------------- MODULE ParserProofs ----------------------------
(***************************************************************************)
(* Proofs about Parser, for every source: any tokens, of any number.       *)
(*                                                                         *)
(* The call stack holds the values the parse functions have saved on it.   *)
(* As long as no error is reported every saved node is correct, no call    *)
(* that would lose a node waits, and one call that leaves a scope waits    *)
(* for every scope entered.  Always, the value a loop or switch has saved  *)
(* tells whether another one waits below it.  The second part is about the *)
(* brackets: the calls that wait close, in order, those that are open.     *)
(***************************************************************************)
EXTENDS Parser, Integers, FiniteSetTheorems, FunctionTheorems, SequenceTheorems, TLAPS

\* The items that hold a node: none of them holds a broken one.
Holders == {"index", "call", "arguments", "member", "colon", "binary_build"}
Trusted(t) ==
    /\ t[1] # "broken"
    /\ t[1] \in Holders => t[2] = TRUE
    /\ t[1] = "operand" => t[3] = TRUE

\* v is the truth value of p.
Tells(v, p) == (v = TRUE /\ p) \/ (v = FALSE /\ ~p)

\* A call of f waits below item i of stack s.
Below(s, f, i) == \E j \in i + 1..Len(s) : s[j][1] = f

\* flag tells whether a call of f waits, and each of them whether another does.
Nested(s, f, flag) ==
    /\ Tells(flag, Below(s, f, 0))
    /\ \A i \in 1..Len(s) : s[i][1] = f => Tells(s[i][2], Below(s, f, i))

Leaves(s) == {i \in 1..Len(s) : s[i][1] \in Leaving}

\* What holds until an error is reported.
Clean(s, good, scopes) ==
    /\ good = TRUE /\ \A i \in 1..Len(s) : Trusted(s[i])
    /\ scopes = Cardinality(Leaves(s))

IsStack(s) == \E S : s \in Seq(S)

ParserInv ==
    /\ IsStack(todo)
    /\ errors = TRUE \/ (errors = FALSE /\ Clean(todo, correct, blocks))
    /\ Nested(todo, "in_loop", is_in_loop)
    /\ Nested(todo, "in_switch", is_in_switch)

-----------------------------------------------------------------------------
(* Lemmas about the stack *)

\* r is stack s with items in the place of its first item.
Replaced(s, items, r) ==
    /\ Len(s) \in Nat /\ Len(s) > 0 /\ Len(items) \in Nat /\ Len(r) = Len(items) + Len(s) - 1
    /\ Head(s) = s[1]
    /\ \A i \in 1..Len(items) : r[i] = items[i]
    /\ \A i \in 2..Len(s) : r[Len(items) + i - 1] = s[i]
    /\ IsStack(r)

LEMMA ConcatItems ==
    ASSUME NEW U, NEW s \in Seq(U), NEW t \in Seq(U)
    PROVE  /\ s \o t \in Seq(U) /\ Len(s \o t) = Len(s) + Len(t) /\ Len(s) \in Nat
           /\ \A i \in 1..Len(s) : (s \o t)[i] = s[i]
           /\ \A i \in 1..Len(t) : (s \o t)[Len(s) + i] = t[i]
OBVIOUS

LEMMA ReplacedTail ==
    ASSUME NEW s, IsStack(s), s # <<>>, NEW items, IsStack(items), NEW r, r = items \o Tail(s)
    PROVE  Replaced(s, items, r)
<1>1. PICK S : s \in Seq(S)
  BY DEF IsStack
<1>2. PICK T : items \in Seq(T)
  BY DEF IsStack
<1>3. PICK U : U = S \cup T
  OBVIOUS
<1>4. s \in Seq(U) /\ items \in Seq(U)
  BY <1>1, <1>2, <1>3
<1>5. PICK t : t = Tail(s)
  OBVIOUS
<1>6. Len(s) \in Nat /\ Len(s) > 0 /\ Head(s) = s[1]
  BY <1>4
<1>7. t \in Seq(U) /\ Len(t) = Len(s) - 1 /\ \A i \in 2..Len(s) : i - 1 \in 1..Len(t) /\ t[i - 1] = s[i]
  BY <1>4, <1>5, <1>6
<1>8. /\ items \o t \in Seq(U) /\ Len(items \o t) = Len(items) + Len(t) /\ Len(items) \in Nat
      /\ \A i \in 1..Len(items) : (items \o t)[i] = items[i]
      /\ \A i \in 1..Len(t) : (items \o t)[Len(items) + i] = t[i]
  <2>1. t \in Seq(U)
    BY <1>7
  <2>2. items \in Seq(U)
    BY <1>4
  <2> QED BY ONLY <2>1, <2>2, ConcatItems
<1>9. r = items \o t
  BY <1>5
<1>10. \A i \in 2..Len(s) : r[Len(items) + i - 1] = s[i]
  <2> SUFFICES ASSUME NEW i \in 2..Len(s) PROVE r[Len(items) + i - 1] = s[i]
    OBVIOUS
  <2>1. Len(items) + i - 1 = Len(items) + (i - 1) /\ i - 1 \in 1..Len(t)
    BY <1>6, <1>7, <1>8
  <2>2. (items \o t)[Len(items) + (i - 1)] = t[i - 1]
    BY <1>8, <2>1
  <2> QED BY <1>7, <1>9, <2>1, <2>2
<1>11. IsStack(r)
  BY <1>8, <1>9 DEF IsStack
<1>12. Len(r) = Len(items) + Len(s) - 1 /\ \A i \in 1..Len(items) : r[i] = items[i]
  BY <1>6, <1>7, <1>8, <1>9
<1> QED BY <1>6, <1>8, <1>10, <1>11, <1>12 DEF Replaced

\* What waits below an item that stays.
LEMMA BelowKept ==
    ASSUME NEW s, NEW items, NEW r, Replaced(s, items, r), NEW f
    PROVE  /\ \A i \in 1..Len(s) : Below(r, f, Len(items) + i - 1) <=> Below(s, f, i)
           /\ Below(s, f, 0) <=> s[1][1] = f \/ Below(s, f, 1)
           /\ \A k \in 0..Len(items) : (\A j \in k + 1..Len(items) : items[j][1] # f) =>
                  (Below(r, f, k) <=> Below(s, f, 1))
<1> DEFINE n == Len(items)
<1>1. /\ Len(s) \in Nat /\ Len(s) > 0 /\ n \in Nat /\ Len(r) = n + Len(s) - 1
      /\ \A i \in 1..n : r[i] = items[i]
      /\ \A i \in 2..Len(s) : r[n + i - 1] = s[i]
  BY DEF Replaced
<1> HIDE DEF n
<1>2. ASSUME NEW i \in 1..Len(s) PROVE Below(r, f, n + i - 1) <=> Below(s, f, i)
  <2>1. ASSUME Below(s, f, i) PROVE Below(r, f, n + i - 1)
    <3>1. PICK j \in i + 1..Len(s) : s[j][1] = f
      BY <2>1 DEF Below
    <3>2. n + j - 1 \in (n + i - 1) + 1..Len(r) /\ j \in 2..Len(s)
      BY <1>1
    <3>3. r[n + j - 1][1] = f
      BY <1>1, <3>1, <3>2
    <3> QED BY <3>2, <3>3 DEF Below
  <2>2. ASSUME Below(r, f, n + i - 1) PROVE Below(s, f, i)
    <3>1. PICK j \in (n + i - 1) + 1..Len(r) : r[j][1] = f
      BY <2>2 DEF Below
    <3>2. PICK m \in i + 1..Len(s) : j = n + m - 1
      <4>1. j - n + 1 \in i + 1..Len(s) /\ j = n + (j - n + 1) - 1
        BY <1>1
      <4> QED BY <4>1
    <3>3. s[m][1] = f
      BY <1>1, <3>1, <3>2
    <3> QED BY <3>3 DEF Below
  <2> QED BY <2>1, <2>2
<1>3. Below(s, f, 0) <=> s[1][1] = f \/ Below(s, f, 1)
  <2>1. \A j \in 0 + 1..Len(s) : j = 1 \/ j \in 1 + 1..Len(s)
    BY <1>1
  <2>2. 1 \in 0 + 1..Len(s) /\ \A j \in 1 + 1..Len(s) : j \in 0 + 1..Len(s)
    BY <1>1
  <2> QED BY <2>1, <2>2 DEF Below
<1>4. ASSUME NEW k \in 0..n, \A j \in k + 1..n : items[j][1] # f
      PROVE  Below(r, f, k) <=> Below(s, f, 1)
  <2>1. 1 \in 1..Len(s) /\ n + 1 - 1 = n
    BY <1>1
  <2>2. Below(r, f, n) <=> Below(s, f, 1)
    BY <1>2, <2>1
  <2>3. \A j \in k + 1..Len(r) : r[j][1] = f => j \in n + 1..Len(r)
    <3> SUFFICES ASSUME NEW j \in k + 1..Len(r), ~ (j \in n + 1..Len(r)) PROVE r[j][1] # f
      OBVIOUS
    <3>1. j \in k + 1..n /\ j \in 1..n
      BY <1>1
    <3> QED BY <1>1, <1>4, <3>1
  <2>4. \A j \in n + 1..Len(r) : j \in k + 1..Len(r)
    BY <1>1
  <2>5. Below(r, f, k) <=> Below(r, f, n)
    BY <2>3, <2>4 DEF Below
  <2> QED BY <2>2, <2>5
<1> QED BY <1>2, <1>3, <1>4 DEF n

\* Stack and flag are kept by a step that neither begins nor ends a call of f.
LEMMA NestedKept ==
    ASSUME NEW s, NEW items, NEW r, Replaced(s, items, r), NEW f, NEW flag, Nested(s, f, flag),
           s[1][1] # f, \A j \in 1..Len(items) : items[j][1] # f
    PROVE  Nested(r, f, flag)
<1>1. /\ Len(s) \in Nat /\ Len(s) > 0 /\ Len(items) \in Nat /\ Len(r) = Len(items) + Len(s) - 1
      /\ \A i \in 1..Len(items) : r[i] = items[i]
      /\ \A i \in 2..Len(s) : r[Len(items) + i - 1] = s[i]
  BY DEF Replaced
<1>2. Below(r, f, 0) <=> Below(s, f, 0)
  <2>1. 0 \in 0..Len(items) /\ \A j \in 0 + 1..Len(items) : items[j][1] # f
    BY <1>1
  <2> QED BY <2>1, BelowKept
<1>3. Tells(flag, Below(r, f, 0))
  BY <1>2 DEF Nested, Tells
<1>4. ASSUME NEW i \in 1..Len(r), r[i][1] = f PROVE Tells(r[i][2], Below(r, f, i))
  <2>1. PICK m \in 2..Len(s) : i = Len(items) + m - 1
    <3>1. i \notin 1..Len(items)
      BY <1>1, <1>4
    <3>2. i - Len(items) + 1 \in 2..Len(s) /\ i = Len(items) + (i - Len(items) + 1) - 1
      BY <1>1, <3>1
    <3> QED BY <3>2
  <2>2. r[i] = s[m] /\ m \in 1..Len(s)
    BY <1>1, <2>1
  <2>3. Below(r, f, i) <=> Below(s, f, m)
    BY <2>1, <2>2, BelowKept
  <2>4. Tells(s[m][2], Below(s, f, m))
    BY <1>4, <2>2 DEF Nested
  <2> QED BY <2>2, <2>3, <2>4 DEF Tells
<1> QED BY <1>3, <1>4 DEF Nested



\* One of items is a call of f that has saved flag.
Saved(items, f, flag) ==
    \E k \in 1..Len(items) :
        items[k][1] = f /\ items[k][2] = flag /\ \A j \in 1..Len(items) : j # k => items[j][1] # f

\* The flag when a call of f begins.
LEMMA NestedBegun ==
    ASSUME NEW s, NEW items, NEW r, Replaced(s, items, r), NEW f, NEW flag, Nested(s, f, flag), s[1][1] # f,
           Saved(items, f, flag)
    PROVE  Nested(r, f, TRUE)
<1>1. PICK k \in 1..Len(items) :
          items[k][1] = f /\ items[k][2] = flag /\ \A j \in 1..Len(items) : j # k => items[j][1] # f
  BY DEF Saved
<1>2. /\ Len(s) \in Nat /\ Len(s) > 0 /\ Len(items) \in Nat /\ Len(r) = Len(items) + Len(s) - 1
      /\ \A i \in 1..Len(items) : r[i] = items[i]
      /\ \A i \in 2..Len(s) : r[Len(items) + i - 1] = s[i]
  BY DEF Replaced
<1>3. Below(r, f, 0)
  <2>1. k \in 0 + 1..Len(r) /\ r[k][1] = f
    BY <1>1, <1>2
  <2> QED BY <2>1 DEF Below
<1>4. Tells(r[k][2], Below(r, f, k))
  <2>1. k \in 0..Len(items) /\ \A j \in k + 1..Len(items) : items[j][1] # f
    BY <1>1, <1>2
  <2>2. Below(r, f, k) <=> Below(s, f, 1)
    BY <2>1, BelowKept
  <2>3. Below(s, f, 1) <=> Below(s, f, 0)
    BY BelowKept
  <2>4. Tells(flag, Below(s, f, 0)) /\ r[k] = items[k]
    BY <1>2 DEF Nested
  <2> QED BY <1>1, <2>2, <2>3, <2>4 DEF Tells
<1>5. ASSUME NEW i \in 1..Len(r), r[i][1] = f PROVE Tells(r[i][2], Below(r, f, i))
  <2>1. CASE i = k
    BY <1>4, <2>1
  <2>2. CASE i # k
    <3>1. i \notin 1..Len(items)
      BY <1>1, <1>2, <1>5, <2>2
    <3>2. PICK m \in 2..Len(s) : i = Len(items) + m - 1
      <4>1. i - Len(items) + 1 \in 2..Len(s) /\ i = Len(items) + (i - Len(items) + 1) - 1
        BY <1>2, <3>1
      <4> QED BY <4>1
    <3>3. r[i] = s[m] /\ m \in 1..Len(s)
      BY <1>2, <3>2
    <3>4. Below(r, f, i) <=> Below(s, f, m)
      BY <3>2, <3>3, BelowKept
    <3>5. Tells(s[m][2], Below(s, f, m))
      BY <1>5, <3>3 DEF Nested
    <3> QED BY <3>3, <3>4, <3>5 DEF Tells
  <2> QED BY <2>1, <2>2
<1> QED BY <1>3, <1>5 DEF Nested, Tells

\* The flag when a call of f ends: what it has saved.
LEMMA NestedEnded ==
    ASSUME NEW s, NEW items, NEW r, Replaced(s, items, r), NEW f, NEW flag, Nested(s, f, flag), s[1][1] = f,
           Len(items) = 0
    PROVE  Nested(r, f, s[1][2])
<1>1. /\ Len(s) \in Nat /\ Len(s) > 0 /\ Len(r) = Len(s) - 1
      /\ \A i \in 2..Len(s) : r[0 + i - 1] = s[i]
  BY DEF Replaced
<1>2. Below(r, f, 0) <=> Below(s, f, 1)
  <2>1. 0 \in 0..Len(items) /\ \A j \in 0 + 1..Len(items) : items[j][1] # f
    OBVIOUS
  <2> QED BY <2>1, BelowKept
<1>3. Tells(s[1][2], Below(r, f, 0))
  <2>1. 1 \in 1..Len(s)
    BY <1>1
  <2>2. Tells(s[1][2], Below(s, f, 1))
    BY <2>1 DEF Nested
  <2> QED BY <1>2, <2>2 DEF Tells
<1>4. ASSUME NEW i \in 1..Len(r), r[i][1] = f PROVE Tells(r[i][2], Below(r, f, i))
  <2>1. PICK m \in 2..Len(s) : m = i + 1 /\ i = Len(items) + m - 1
    <3>1. i + 1 \in 2..Len(s) /\ i = Len(items) + (i + 1) - 1
      BY <1>1
    <3> QED BY <3>1
  <2>2. r[i] = s[m] /\ m \in 1..Len(s)
    BY <1>1, <2>1
  <2>3. Below(r, f, i) <=> Below(s, f, m)
    <3>1. Below(r, f, Len(items) + m - 1) <=> Below(s, f, m)
      <4>1. Replaced(s, items, r)
        OBVIOUS
      <4>2. \A j \in 1..Len(s) : Below(r, f, Len(items) + j - 1) <=> Below(s, f, j)
        BY ONLY <4>1, BelowKept
      <4>3. m \in 1..Len(s)
        BY <2>2
      <4> QED BY ONLY <4>2, <4>3
    <3>2. Len(items) + m - 1 = i
      BY <2>1
    <3> QED BY ONLY <3>1, <3>2
  <2>4. Tells(s[m][2], Below(s, f, m))
    BY <1>4, <2>2 DEF Nested
  <2> QED BY <2>2, <2>3, <2>4 DEF Tells
<1> QED BY <1>3, <1>4 DEF Nested

-----------------------------------------------------------------------------
(* Lemmas about the calls that leave a scope *)

LEMMA LeavesFinite ==
    ASSUME NEW s, Len(s) \in Nat
    PROVE  IsFiniteSet(Leaves(s)) /\ Cardinality(Leaves(s)) \in Nat
<1>1. IsFiniteSet(1..Len(s))
  BY FS_Interval
<1>2. Leaves(s) \in SUBSET (1..Len(s))
  BY DEF Leaves
<1>3. IsFiniteSet(Leaves(s))
  BY <1>1, <1>2, FS_Subset
<1> QED BY <1>3, FS_CardinalityType

\* The positions of the items that stay move up or down together.
LEMMA LeavesMoved ==
    ASSUME NEW s, NEW items, NEW r, Replaced(s, items, r)
    PROVE  \E T, U : /\ T = {i \in 2..Len(s) : s[i][1] \in Leaving} /\ IsFiniteSet(T)
                     /\ U = {i \in Len(items) + 1..Len(r) : r[i][1] \in Leaving} /\ IsFiniteSet(U)
                     /\ Cardinality(T) = Cardinality(U) /\ Cardinality(T) \in Nat
<1>1. /\ Len(s) \in Nat /\ Len(s) > 0 /\ Len(items) \in Nat /\ Len(r) = Len(items) + Len(s) - 1
      /\ \A i \in 2..Len(s) : r[Len(items) + i - 1] = s[i]
  BY DEF Replaced
<1>2. PICK T : T = {i \in 2..Len(s) : s[i][1] \in Leaving}
  OBVIOUS
<1>3. PICK U : U = {i \in Len(items) + 1..Len(r) : r[i][1] \in Leaving}
  OBVIOUS
<1>4. IsFiniteSet(T)
  <2>1. IsFiniteSet(2..Len(s))
    BY <1>1, FS_Interval
  <2>2. T \in SUBSET (2..Len(s))
    BY <1>2
  <2> QED BY <2>1, <2>2, FS_Subset
<1>5. PICK move : move = [i \in T |-> Len(items) + i - 1]
  OBVIOUS
<1>6. \A i \in T : Len(items) + i - 1 \in U
  BY <1>1, <1>2, <1>3
<1>7. move \in [T -> U]
  BY <1>5, <1>6
<1>8. \A i, j \in T : move[i] = move[j] => i = j
  BY <1>1, <1>2, <1>5
<1>9. \A u \in U : \E i \in T : move[i] = u
  <2> SUFFICES ASSUME NEW u \in U PROVE \E i \in T : move[i] = u
    OBVIOUS
  <2>1. u - Len(items) + 1 \in 2..Len(s) /\ Len(items) + (u - Len(items) + 1) - 1 = u
    BY <1>1, <1>3
  <2>2. PICK i \in 2..Len(s) : i = u - Len(items) + 1 /\ Len(items) + i - 1 = u
    BY <2>1
  <2>3. i \in T
    BY <1>1, <1>2, <1>3, <2>2
  <2> QED BY <1>5, <2>2, <2>3
<1>10. move \in Bijection(T, U)
  BY <1>7, <1>8, <1>9, Fun_IsBij
<1>11. ExistsBijection(T, U)
  BY <1>10 DEF ExistsBijection
<1>12. IsFiniteSet(U) /\ Cardinality(T) = Cardinality(U)
  BY <1>4, <1>11, FS_Bijection
<1>13. Cardinality(T) \in Nat
  BY <1>4, FS_CardinalityType
<1> QED BY <1>2, <1>3, <1>4, <1>12, <1>13

\* One: 1 or 0, as p holds or not.
One(p) == IF p THEN 1 ELSE 0

\* What a step changes in the number of calls that leave a scope.
LEMMA LeavesReplaced ==
    ASSUME NEW s, NEW items, NEW r, Replaced(s, items, r), NEW L, L = {i \in 1..Len(items) : items[i][1] \in Leaving},
           NEW p \in BOOLEAN, p => \E k : L = {k}, ~p => L = {}
    PROVE  Cardinality(Leaves(r)) = Cardinality(Leaves(s)) + One(p) - One(s[1][1] \in Leaving)
<1>1. /\ Len(s) \in Nat /\ Len(s) > 0 /\ Len(items) \in Nat /\ Len(r) = Len(items) + Len(s) - 1
      /\ \A i \in 1..Len(items) : r[i] = items[i]
  BY DEF Replaced
<1>2. PICK T, U : /\ T = {i \in 2..Len(s) : s[i][1] \in Leaving} /\ IsFiniteSet(T)
                  /\ U = {i \in Len(items) + 1..Len(r) : r[i][1] \in Leaving} /\ IsFiniteSet(U)
                  /\ Cardinality(T) = Cardinality(U) /\ Cardinality(T) \in Nat
  BY LeavesMoved
<1>3. Cardinality(Leaves(s)) = Cardinality(T) + One(s[1][1] \in Leaving)
  <2>1. CASE s[1][1] \in Leaving
    <3>1. Leaves(s) = T \cup {1} /\ 1 \notin T
      BY <1>1, <1>2, <2>1 DEF Leaves
    <3>2. Cardinality(T \cup {1}) = Cardinality(T) + 1
      BY <1>2, <3>1, FS_AddElement
    <3> QED BY <2>1, <3>1, <3>2 DEF One
  <2>2. CASE s[1][1] \notin Leaving
    <3>1. Leaves(s) = T
      BY <1>1, <1>2, <2>2 DEF Leaves
    <3> QED BY <1>2, <2>2, <3>1 DEF One
  <2> QED BY <2>1, <2>2
<1>4. Leaves(r) = U \cup L
  <2>1. \A i \in 1..Len(r) : i \in 1..Len(items) \/ i \in Len(items) + 1..Len(r)
    BY <1>1
  <2>2. \A i \in 1..Len(items) : i \in 1..Len(r)
    BY <1>1
  <2>3. \A i \in Len(items) + 1..Len(r) : i \in 1..Len(r)
    BY <1>1
  <2> QED BY <1>1, <1>2, <2>1, <2>2, <2>3 DEF Leaves
<1>5. Cardinality(Leaves(r)) = Cardinality(U) + One(p)
  <2>1. CASE p
    <3>1. PICK k : L = {k}
      BY <2>1
    <3>2. k \in 1..Len(items)
      BY <3>1
    <3>3. k \notin U
      BY <1>1, <1>2, <3>2
    <3>4. Cardinality(U \cup {k}) = Cardinality(U) + 1
      BY <1>2, <3>3, FS_AddElement
    <3> QED BY <1>4, <2>1, <3>1, <3>4 DEF One
  <2>2. CASE ~p
    <3>1. Leaves(r) = U
      BY <1>4, <2>2
    <3> QED BY <1>2, <2>2, <3>1 DEF One
  <2> QED BY <2>1, <2>2
<1> QED BY <1>2, <1>3, <1>5 DEF One

-----------------------------------------------------------------------------
(* Steps *)

\* One call that leaves a scope is among items, or none.
Leads(items, p) ==
    /\ p \in BOOLEAN
    /\ p => \E k : {i \in 1..Len(items) : items[i][1] \in Leaving} = {k}
    /\ ~p => {i \in 1..Len(items) : items[i][1] \in Leaving} = {}

\* The step reports an error, or keeps the parser clean.
Sound(items, p) ==
    \/ errors' = TRUE
    \/ /\ errors' = errors
       /\ errors = FALSE => /\ correct' = TRUE /\ \A i \in 1..Len(items) : Trusted(items[i])
                            /\ blocks' = blocks + One(p) - One(Head(todo)[1] \in Leaving)

LEMMA GeneralStep ==
    ASSUME ParserInv, todo # <<>>, NEW items, IsStack(items), Push(items),
           NEW p, Leads(items, p), Sound(items, p),
           Nested(todo', "in_loop", is_in_loop'), Nested(todo', "in_switch", is_in_switch')
    PROVE  ParserInv'
<1>1. PICK s : s = todo
  OBVIOUS
<1>2. PICK r : r = todo'
  OBVIOUS
<1>3. IsStack(s) /\ s # <<>>
  BY <1>1 DEF ParserInv
<1>4. r = items \o Tail(s)
  BY <1>1, <1>2 DEF Push
<1>5. Replaced(s, items, r)
  BY <1>3, <1>4, ReplacedTail
<1>6. /\ Len(s) \in Nat /\ Len(s) > 0 /\ Head(s) = s[1] /\ Len(items) \in Nat
      /\ Len(r) = Len(items) + Len(s) - 1 /\ IsStack(r)
      /\ \A i \in 1..Len(items) : r[i] = items[i]
      /\ \A i \in 2..Len(s) : r[Len(items) + i - 1] = s[i]
  BY <1>5 DEF Replaced
<1>7. ASSUME errors = FALSE, correct' = TRUE, \A i \in 1..Len(items) : Trusted(items[i]),
             blocks' = blocks + One(p) - One(Head(todo)[1] \in Leaving)
      PROVE  Clean(r, correct', blocks')
  <2>1. Clean(s, correct, blocks)
    BY <1>1, <1>7 DEF ParserInv
  <2>2. ASSUME NEW i \in 1..Len(r) PROVE Trusted(r[i])
    <3>1. CASE i \in 1..Len(items)
      BY <1>6, <1>7, <3>1
    <3>2. CASE i \notin 1..Len(items)
      <4>1. i - Len(items) + 1 \in 2..Len(s) /\ i = Len(items) + (i - Len(items) + 1) - 1
        BY <1>6, <3>2
      <4>2. PICK m \in 2..Len(s) : i = Len(items) + m - 1
        BY <4>1
      <4>3. r[i] = s[m] /\ m \in 1..Len(s)
        BY <1>6, <4>2
      <4> QED BY <2>1, <4>3 DEF Clean
    <3> QED BY <3>1, <3>2
  <2>3. Cardinality(Leaves(r)) = Cardinality(Leaves(s)) + One(p) - One(s[1][1] \in Leaving)
    BY <1>5, LeavesReplaced DEF Leads
  <2>4. Head(todo) = s[1]
    BY <1>1, <1>6
  <2>5. blocks' = Cardinality(Leaves(s)) + One(p) - One(s[1][1] \in Leaving)
    BY <1>7, <2>1, <2>4 DEF Clean
  <2> QED BY <1>7, <2>2, <2>3, <2>5 DEF Clean
<1>8. errors' = TRUE \/ (errors' = FALSE /\ Clean(r, correct', blocks'))
  BY <1>7 DEF Sound, ParserInv
<1> QED BY <1>2, <1>6, <1>8 DEF ParserInv

\* The calls that decide the flags and the scopes.
Flagged == Leaving \cup {"in_loop", "in_switch"}

Plain(items) == IsStack(items) /\ \A i \in 1..Len(items) : items[i][1] \notin Flagged

\* A step with which no loop, switch or scope begins or ends.
Passing(items) ==
    /\ todo # <<>> /\ Head(todo)[1] \notin Flagged
    /\ Push(items) /\ Plain(items)
    /\ UNCHANGED <<is_in_loop, is_in_switch, blocks>>

\* The flags when no loop or switch begins or ends.
LEMMA FlagsKept ==
    ASSUME ParserInv, todo # <<>>, Head(todo)[1] \notin {"in_loop", "in_switch"}, NEW items, IsStack(items),
           \A i \in 1..Len(items) : items[i][1] \notin {"in_loop", "in_switch"},
           Push(items), UNCHANGED <<is_in_loop, is_in_switch>>
    PROVE  Nested(todo', "in_loop", is_in_loop') /\ Nested(todo', "in_switch", is_in_switch')
<1>1. PICK s : s = todo
  OBVIOUS
<1>2. PICK r : r = todo'
  OBVIOUS
<1>3. IsStack(s) /\ s # <<>>
  BY <1>1 DEF ParserInv
<1>4. r = items \o Tail(s)
  BY <1>1, <1>2 DEF Push
<1>5. Replaced(s, items, r)
  BY <1>3, <1>4, ReplacedTail
<1>6. s[1][1] # "in_loop" /\ s[1][1] # "in_switch"
  BY <1>1, <1>5 DEF Replaced
<1>7. Nested(s, "in_loop", is_in_loop) /\ Nested(s, "in_switch", is_in_switch)
  BY <1>1 DEF ParserInv
<1>8. Nested(r, "in_loop", is_in_loop)
  BY <1>5, <1>6, <1>7, NestedKept
<1>9. Nested(r, "in_switch", is_in_switch)
  BY <1>5, <1>6, <1>7, NestedKept
<1> QED BY <1>2, <1>8, <1>9

LEMMA PassingStep ==
    ASSUME ParserInv, NEW items, Passing(items),
           \/ errors' = TRUE
           \/ /\ errors' = errors
              /\ errors = FALSE => correct' = TRUE /\ \A i \in 1..Len(items) : Trusted(items[i])
    PROVE  ParserInv'
<1>1. Leads(items, FALSE)
  BY DEF Leads, Passing, Plain, Flagged
<1>2. \A k : ParserInv /\ errors = FALSE => blocks = blocks + 0 - 0
  <2>1. SUFFICES ASSUME errors = FALSE PROVE blocks = blocks + 0 - 0
    OBVIOUS
  <2>2. PICK s : s = todo
    OBVIOUS
  <2>3. Len(s) \in Nat
    BY <2>2 DEF ParserInv, IsStack
  <2>4. blocks \in Nat
    BY <2>1, <2>2, <2>3, LeavesFinite DEF ParserInv, Clean
  <2> QED BY <2>4
<1>3. One(FALSE) = 0 /\ One(Head(todo)[1] \in Leaving) = 0
  BY DEF One, Passing, Flagged
<1>4. Sound(items, FALSE)
  BY <1>2, <1>3 DEF Sound, Passing
<1>5. Nested(todo', "in_loop", is_in_loop') /\ Nested(todo', "in_switch", is_in_switch')
  BY FlagsKept DEF Passing, Plain, Flagged
<1> QED BY <1>1, <1>4, <1>5, GeneralStep DEF Passing, Plain

\* An item that decides no flag and no scope, nor holds a broken node before
\* an error is reported.
Common(t) == t[1] \notin Flagged /\ (errors' = TRUE \/ Trusted(t))
AllCommon(items) == IsStack(items) /\ \A i \in 1..Len(items) : Common(items[i])

\* A step that pushes items, and reports an error or leaves a correct node.
Does(items) ==
    /\ todo # <<>> /\ Head(todo)[1] \notin Flagged
    /\ Push(items) /\ UNCHANGED <<is_in_loop, is_in_switch, blocks>>
    /\ errors' = TRUE \/ (errors' = errors /\ correct' = TRUE)

LEMMA OrdinaryStep ==
    ASSUME ParserInv, NEW items, AllCommon(items), Does(items)
    PROVE  ParserInv'
<1>1. Passing(items)
  BY DEF Passing, Does, AllCommon, Common, Plain
<1>2. errors' = TRUE \/ \A i \in 1..Len(items) : Trusted(items[i])
  BY DEF AllCommon, Common
<1> QED BY <1>1, <1>2, PassingStep DEF Does

LEMMA HeadTrusted ==
    ASSUME ParserInv
    PROVE  errors = TRUE \/ (errors = FALSE /\ correct = TRUE /\ (todo # <<>> => Trusted(Head(todo))))
<1> SUFFICES ASSUME errors # TRUE PROVE errors = FALSE /\ correct = TRUE /\ (todo # <<>> => Trusted(Head(todo)))
  OBVIOUS
<1>1. errors = FALSE /\ correct = TRUE /\ \A i \in 1..Len(todo) : Trusted(todo[i])
  BY DEF ParserInv, Clean
<1>2. ASSUME todo # <<>> PROVE 1 \in 1..Len(todo) /\ Head(todo) = todo[1]
  BY <1>2 DEF ParserInv, IsStack
<1> QED BY <1>1, <1>2

LEMMA CommonItems ==
    /\ AllCommon(<<>>)
    /\ \A a : Common(a) => AllCommon(<<a>>)
    /\ \A a, b : Common(a) /\ Common(b) => AllCommon(<<a, b>>)
    /\ \A a, b, c : Common(a) /\ Common(b) /\ Common(c) => AllCommon(<<a, b, c>>)
    /\ \A a, b, c, d : Common(a) /\ Common(b) /\ Common(c) /\ Common(d) => AllCommon(<<a, b, c, d>>)
<1>1. AllCommon(<<>>)
  <2>1. <<>> \in Seq({})
    OBVIOUS
  <2> QED BY <2>1 DEF AllCommon, IsStack
<1>2. ASSUME NEW a, Common(a) PROVE AllCommon(<<a>>)
  <2>1. <<a>> \in Seq({a})
    OBVIOUS
  <2>2. Len(<<a>>) = 1 /\ <<a>>[1] = a
    OBVIOUS
  <2>3. \A i \in 1..1 : i = 1
    OBVIOUS
  <2>4. \A i \in 1..1 : Common(<<a>>[i])
    BY <1>2, <2>2, <2>3
  <2> QED BY <2>1, <2>2, <2>4 DEF AllCommon, IsStack
<1>3. ASSUME NEW a, NEW b, Common(a), Common(b) PROVE AllCommon(<<a, b>>)
  <2>1. <<a, b>> \in Seq({a, b})
    OBVIOUS
  <2>2. Len(<<a, b>>) = 2 /\ <<a, b>>[1] = a /\ <<a, b>>[2] = b
    OBVIOUS
  <2>3. \A i \in 1..2 : i = 1 \/ i = 2
    OBVIOUS
  <2>4. \A i \in 1..2 : Common(<<a, b>>[i])
    BY <1>3, <2>2, <2>3
  <2> QED BY <2>1, <2>2, <2>4 DEF AllCommon, IsStack
<1>4. ASSUME NEW a, NEW b, NEW c, Common(a), Common(b), Common(c) PROVE AllCommon(<<a, b, c>>)
  <2>1. <<a, b, c>> \in Seq({a, b, c})
    OBVIOUS
  <2>2. Len(<<a, b, c>>) = 3 /\ <<a, b, c>>[1] = a /\ <<a, b, c>>[2] = b /\ <<a, b, c>>[3] = c
    OBVIOUS
  <2>3. \A i \in 1..3 : i = 1 \/ i = 2 \/ i = 3
    OBVIOUS
  <2>4. \A i \in 1..3 : Common(<<a, b, c>>[i])
    BY <1>4, <2>2, <2>3
  <2> QED BY <2>1, <2>2, <2>4 DEF AllCommon, IsStack
<1>5. ASSUME NEW a, NEW b, NEW c, NEW d, Common(a), Common(b), Common(c), Common(d)
      PROVE  AllCommon(<<a, b, c, d>>)
  <2>1. <<a, b, c, d>> \in Seq({a, b, c, d})
    OBVIOUS
  <2>2. /\ Len(<<a, b, c, d>>) = 4
        /\ <<a, b, c, d>>[1] = a /\ <<a, b, c, d>>[2] = b /\ <<a, b, c, d>>[3] = c /\ <<a, b, c, d>>[4] = d
    OBVIOUS
  <2>3. \A i \in 1..4 : i = 1 \/ i = 2 \/ i = 3 \/ i = 4
    OBVIOUS
  <2>4. \A i \in 1..4 : Common(<<a, b, c, d>>[i])
    BY <1>5, <2>2, <2>3
  <2> QED BY <2>1, <2>2, <2>4 DEF AllCommon, IsStack
<1> QED BY <1>1, <1>2, <1>3, <1>4, <1>5

LEMMA CommonJoin ==
    ASSUME NEW s, NEW t, AllCommon(s), AllCommon(t)
    PROVE  AllCommon(s \o t)
<1>1. PICK S, T : s \in Seq(S) /\ t \in Seq(T)
  BY DEF AllCommon, IsStack
<1>2. PICK U : U = S \cup T
  OBVIOUS
<1>3. s \in Seq(U) /\ t \in Seq(U)
  BY <1>1, <1>2
<1>4. /\ s \o t \in Seq(U) /\ Len(s \o t) = Len(s) + Len(t) /\ Len(s) \in Nat
      /\ \A i \in 1..Len(s) : (s \o t)[i] = s[i]
      /\ \A i \in 1..Len(t) : (s \o t)[Len(s) + i] = t[i]
  BY ONLY <1>3, ConcatItems
<1>5. ASSUME NEW i \in 1..Len(s \o t) PROVE Common((s \o t)[i])
  <2>1. CASE i \in 1..Len(s)
    BY <1>4, <2>1 DEF AllCommon
  <2>2. CASE i \notin 1..Len(s)
    <3>1. i - Len(s) \in 1..Len(t) /\ Len(s) + (i - Len(s)) = i
      BY <1>3, <1>4, <2>2
    <3> QED BY <1>4, <3>1 DEF AllCommon
  <2> QED BY <2>1, <2>2
<1> QED BY <1>4, <1>5 DEF AllCommon, IsStack


-----------------------------------------------------------------------------
(* The actions of the tokens and of the expressions *)

LEMMA TokensStep ==
    ASSUME ParserInv, Tokens
    PROVE  ParserInv'
<1>1. errors = TRUE \/ correct = TRUE
  BY HeadTrusted
<1>2. CASE peek_token
  BY <1>2 DEF peek_token, flags, ParserInv
<1>3. CASE try_consume_token
  <2>1. Does(<<>>)
    BY <1>1, <1>3 DEF try_consume_token, Consume, Stay, At, Does, flags, Flagged, Leaving
  <2> QED BY <2>1, CommonItems, OrdinaryStep
<1>4. CASE expect_and_consume
  <2>1. Common(Call("consume_token"))
    BY DEF Call, Common, Trusted, Flagged, Leaving, Holders
  <2>2. Does(<<>>) \/ Does(<<Call("consume_token")>>)
    BY <1>1, <1>4 DEF expect_and_consume, Missing, Fail, FailAndConsume, Consume, At, Does, flags, Flagged, Leaving
  <2> QED BY <2>1, <2>2, CommonItems, OrdinaryStep
<1>5. CASE ConsumeToken
  <2>1. Does(<<>>)
    BY <1>1, <1>5 DEF ConsumeToken, Consume, At, Does, flags, Flagged, Leaving
  <2> QED BY <2>1, CommonItems, OrdinaryStep
<1>6. CASE skip_until
  <2>1. Common(Head(todo)) /\ Common(Skip({Closer[tk]}))
    BY <1>6 DEF skip_until, At, Skip, Common, Trusted, Flagged, Leaving, Holders
  <2>2. Does(<<>>) \/ Does(<<Skip({Closer[tk]}), Head(todo)>>) \/ Does(<<Head(todo)>>)
    BY <1>1, <1>6 DEF skip_until, Consume, Stay, At, Does, flags, Flagged, Leaving
  <2> QED BY <2>1, <2>2, CommonItems, OrdinaryStep
<1> QED BY <1>2, <1>3, <1>4, <1>5, <1>6 DEF Tokens

LEMMA PrimaryStep ==
    ASSUME ParserInv, parse_primary_expression \/ ClosePrimary
    PROVE  ParserInv'
<1>1. errors = TRUE \/ correct = TRUE
  BY HeadTrusted
<1>2. Common(Call("expression")) /\ Common(Call("close_paren"))
  BY DEF Call, Common, Trusted, Flagged, Leaving, Holders
<1>3. Does(<<>>) \/ Does(<<Call("expression"), Call("close_paren")>>)
  BY <1>1 DEF parse_primary_expression, ClosePrimary, Build, Built, SemanticError, Consume, Stay, Fail,
              At, Does, flags, Flagged, Leaving
<1> QED BY <1>2, <1>3, CommonItems, OrdinaryStep

LEMMA InitializerListStep ==
    ASSUME ParserInv, parse_initializer_list
    PROVE  ParserInv'
<1>1. errors = TRUE \/ correct = TRUE
  BY HeadTrusted
<1>2. Common(Call("initializer")) /\ Common(Call("more_initializers")) /\ Common(Call("initializer_list"))
  BY DEF Call, Common, Trusted, Flagged, Leaving, Holders
<1>3. Does(<<Call("initializer"), Call("more_initializers")>>) \/ Does(<<Call("initializer_list")>>) \/ Does(<<>>)
  BY <1>1 DEF parse_initializer_list, Consume, Stay, At, Does, flags, Flagged, Leaving
<1> QED BY <1>2, <1>3, CommonItems, OrdinaryStep

LEMMA PostfixStep ==
    ASSUME ParserInv, parse_postfix_expression
    PROVE  ParserInv'
<1>1. errors = TRUE \/ correct = TRUE
  BY HeadTrusted
<1>2. At("postfix_expression")
  BY DEF parse_postfix_expression
<1>3. errors' = TRUE \/ correct = TRUE
  BY <1>1 DEF parse_postfix_expression, Build, Built, SemanticError, Consume, Stay
<1>4. /\ Common(Call("expression")) /\ Common(Head(todo))
      /\ Common(<<"index", correct>>) /\ Common(<<"call", correct>>) /\ Common(<<"member", correct>>)
  BY <1>2, <1>3 DEF At, Call, Common, Trusted, Flagged, Leaving, Holders
<1>5. \/ Does(<<Call("expression"), <<"index", correct>>, Head(todo)>>)
      \/ Does(<<<<"call", correct>>, Head(todo)>>) \/ Does(<<<<"member", correct>>, Head(todo)>>)
      \/ Does(<<Head(todo)>>) \/ Does(<<>>)
  BY <1>1 DEF parse_postfix_expression, Build, Built, SemanticError, Consume, Stay, At, Does, flags, Flagged, Leaving
<1> QED BY <1>4, <1>5, CommonItems, OrdinaryStep

LEMMA PostfixOperandStep ==
    ASSUME ParserInv, parse_postfix_operand
    PROVE  ParserInv'
<1>1. Head(todo)[1] \in {"index", "call", "arguments", "member"}
  BY DEF parse_postfix_operand, At
<1>2. errors = TRUE \/ (correct = TRUE /\ Arg(1) = TRUE)
  <2>1. errors = TRUE \/ (correct = TRUE /\ Trusted(Head(todo)))
    BY HeadTrusted DEF parse_postfix_operand, At
  <2>2. Trusted(Head(todo)) => Head(todo)[2] = TRUE
    BY <1>1 DEF Trusted, Holders
  <2>3. Arg(1) = Head(todo)[2]
    BY DEF Arg
  <2> QED BY <2>1, <2>2, <2>3
<1>3. errors' = TRUE \/ Arg(1) = TRUE
  BY <1>2 DEF parse_postfix_operand, Build, Built, SemanticError, Consume, Stay, Fail
<1>4. /\ errors' = TRUE => Common(Call("broken"))
      /\ \A x : Common(Try(x)) /\ Common(Skip(x))
      /\ Common(Call("initializer_list")) /\ Common(<<"arguments", Arg(1)>>)
  BY <1>3 DEF Call, Try, Skip, Common, Trusted, Flagged, Leaving, Holders
<1>5. \/ Does(<<>>) \/ Does(<<Call("initializer_list"), <<"arguments", Arg(1)>>>>)
      \/ errors' = TRUE /\ \E x, y : Does(<<Skip(x), Try(y), Call("broken")>>)
  BY <1>1, <1>2 DEF parse_postfix_operand, Build, Built, SemanticError, Stay, Fail, At, Does, flags, Flagged, Leaving
<1> QED BY <1>4, <1>5, CommonItems, OrdinaryStep

LEMMA UnaryStep ==
    ASSUME ParserInv, parse_unary_expression
    PROVE  ParserInv'
<1>1. errors = TRUE \/ correct = TRUE
  BY HeadTrusted
<1>2. /\ Common(Call("unary_expression")) /\ Common(Call("unary_build"))
      /\ Common(Call("primary_expression")) /\ Common(Call("postfix_expression"))
  BY DEF Call, Common, Trusted, Flagged, Leaving, Holders
<1>3. \/ Does(<<Call("unary_expression"), Call("unary_build")>>)
      \/ Does(<<Call("primary_expression"), Call("postfix_expression")>>) \/ Does(<<>>)
  BY <1>1 DEF parse_unary_expression, Build, Built, SemanticError, Consume, Stay, At, Does, flags, Flagged, Leaving
<1> QED BY <1>2, <1>3, CommonItems, OrdinaryStep

LEMMA AssignmentCommon == AllCommon(Assignment)
<1>1. Common(Call("unary_expression")) /\ Common(<<"RHS", 2>>)
  BY DEF Call, Common, Trusted, Flagged, Leaving, Holders
<1> QED BY <1>1, CommonItems DEF Assignment

LEMMA ExpressionStep ==
    ASSUME ParserInv, parse_expression \/ parse_constant_expression \/ parse_initializer \/ Broken
    PROVE  ParserInv'
<1>1. errors = TRUE \/ correct = TRUE
  BY HeadTrusted
<1>2. CASE parse_expression
  <2>1. Common(<<"RHS", 1>>)
    BY DEF Common, Trusted, Flagged, Leaving, Holders
  <2>2. AllCommon(<<<<"RHS", 1>>>>)
    BY <2>1, CommonItems
  <2>3. AllCommon(Assignment \o <<<<"RHS", 1>>>>)
    BY <2>2, AssignmentCommon, CommonJoin
  <2>4. Does(Assignment \o <<<<"RHS", 1>>>>)
    BY <1>1, <1>2 DEF parse_expression, Stay, At, Does, flags, Flagged, Leaving
  <2> QED BY <2>3, <2>4, OrdinaryStep
<1>3. CASE parse_constant_expression
  <2>1. Common(Call("unary_expression")) /\ Common(<<"RHS", 3>>) /\ Common(Call("constant_build"))
    BY DEF Call, Common, Trusted, Flagged, Leaving, Holders
  <2>2. Does(<<Call("unary_expression"), <<"RHS", 3>>, Call("constant_build")>>) \/ Does(<<>>)
    BY <1>1, <1>3 DEF parse_constant_expression, Build, Built, SemanticError, Stay, At, Does, flags, Flagged, Leaving
  <2> QED BY <2>1, <2>2, CommonItems, OrdinaryStep
<1>4. CASE parse_initializer
  <2>1. /\ Common(Call("initializers")) /\ Common(Call("initializer_list")) /\ Common(Call("close_initializer"))
        /\ \A x : Common(Try(x)) /\ Common(Skip(x))
        /\ errors' = TRUE => Common(Call("broken"))
    BY DEF Call, Try, Skip, Common, Trusted, Flagged, Leaving, Holders
  <2>2. \/ Does(<<Call("initializers")>>) \/ Does(Assignment) \/ Does(<<>>)
        \/ Does(<<Call("initializer_list"), Call("close_initializer")>>)
        \/ errors' = TRUE /\ \E x, y : Does(<<Skip(x), Try(y), Call("broken")>>)
    BY <1>1, <1>4 DEF parse_initializer, Consume, Stay, Fail, FailAndConsume, At, Does, flags, Flagged, Leaving
  <2> QED BY <2>1, <2>2, CommonItems, AssignmentCommon, OrdinaryStep
<1>5. CASE Broken
  <2>1. errors = TRUE
    BY <1>5, HeadTrusted DEF Broken, At, Trusted
  <2>2. Does(<<>>)
    BY <1>5, <2>1 DEF Broken, Stay, At, Does, flags, Flagged, Leaving
  <2> QED BY <2>2, CommonItems, OrdinaryStep
<1> QED BY <1>2, <1>3, <1>4, <1>5

LEMMA ConditionalOperand ==
    ASSUME ParserInv, At("colon")
    PROVE  errors = TRUE \/ (correct /\ Arg(1)) = TRUE
<1>1. errors = TRUE \/ (correct = TRUE /\ Trusted(Head(todo)))
  BY HeadTrusted DEF At
<1>2. Trusted(Head(todo)) => Head(todo)[2] = TRUE
  BY DEF Trusted, Holders, At
<1>3. Arg(1) = Head(todo)[2]
  BY DEF Arg
<1>4. ASSUME correct = TRUE, Arg(1) = TRUE PROVE (correct /\ Arg(1)) = TRUE
  BY <1>4, Zenon
<1> QED BY <1>1, <1>2, <1>3, <1>4

\* The node of a right operand, with the left operand it has saved.
LEMMA BinaryBuildStep ==
    ASSUME ParserInv, parse_RHS_of_binary_expression, At("binary_build")
    PROVE  ParserInv'
<1>1. errors = TRUE \/ (correct = TRUE /\ Trusted(Head(todo)))
  BY HeadTrusted DEF At
<1>2. Trusted(Head(todo)) => Head(todo)[2] = TRUE
  BY DEF Trusted, Holders, At
<1>3. Arg(1) = Head(todo)[2]
  BY DEF Arg
<1>4. Build(correct /\ Arg(1)) /\ Push(<<>>) /\ UNCHANGED flags
  BY DEF parse_RHS_of_binary_expression, At
<1>5. errors' = TRUE \/ (errors' = errors /\ correct' = (correct /\ Arg(1)))
  BY <1>4 DEF Build, Built, SemanticError
<1>6. ASSUME correct = TRUE, Arg(1) = TRUE PROVE (correct /\ Arg(1)) = TRUE
  BY <1>6, Zenon
<1>7. errors' = TRUE \/ (errors' = errors /\ correct' = TRUE)
  BY <1>1, <1>2, <1>3, <1>5, <1>6
<1>8. Does(<<>>)
  BY <1>4, <1>7 DEF At, Does, flags, Flagged, Leaving
<1> QED BY <1>8, CommonItems, OrdinaryStep

\* The right operand's functions, when the left one is saved for them.
LEMMA OperandStep ==
    ASSUME ParserInv, parse_RHS_of_binary_expression, At("operand")
    PROVE  ParserInv'
<1>1. errors = TRUE \/ (correct = TRUE /\ Trusted(Head(todo)))
  BY HeadTrusted DEF At
<1>2. Trusted(Head(todo)) => Head(todo)[3] = TRUE
  BY DEF Trusted, Holders, At
<1>3. Arg(2) = Head(todo)[3]
  BY DEF Arg
<1>4. Stay(Operand(Arg(1), Arg(2), Arg(3))) /\ UNCHANGED correct /\ UNCHANGED flags
  BY DEF parse_RHS_of_binary_expression, At
<1>5. errors' = TRUE \/ Arg(2) = TRUE
  BY <1>1, <1>2, <1>3, <1>4 DEF Stay
<1>6. PICK first : first = IF tk = "{" THEN Call("initializer") ELSE Call("unary_expression")
  OBVIOUS
<1>7. Common(first)
  BY <1>6 DEF Call, Common, Trusted, Flagged, Leaving, Holders
<1>8. Common(<<"tail", Arg(1)>>) /\ Common(<<"binary_build", Arg(2)>>) /\ Common(<<"RHS", Arg(3)>>)
  BY <1>5 DEF Common, Trusted, Flagged, Leaving, Holders
<1>9. AllCommon(Operand(Arg(1), Arg(2), Arg(3)))
  <2>1. Operand(Arg(1), Arg(2), Arg(3)) =
            <<first, <<"tail", Arg(1)>>, <<"binary_build", Arg(2)>>, <<"RHS", Arg(3)>>>>
    BY <1>6 DEF Operand
  <2> QED BY <1>7, <1>8, <2>1, CommonItems
<1>10. Does(Operand(Arg(1), Arg(2), Arg(3)))
  BY <1>1, <1>4 DEF Stay, At, Does, flags, Flagged, Leaving
<1> QED BY <1>9, <1>10, OrdinaryStep

LEMMA BinaryStep ==
    ASSUME ParserInv, parse_RHS_of_binary_expression
    PROVE  ParserInv'
<1>1. errors = TRUE \/ correct = TRUE
  BY HeadTrusted
<1>2. CASE At("RHS")
  <2>1. errors' = errors /\ correct' = correct
    BY <1>2 DEF parse_RHS_of_binary_expression, Consume, Stay, At
  <2>2. \A x, y : /\ Common(Call("initializer")) /\ Common(<<"colon", correct, x>>)
                  /\ Common(<<"operand", x, correct, y>>)
    BY <1>1, <2>1 DEF Call, Common, Trusted, Flagged, Leaving, Holders
  <2>3. \/ Does(<<>>) \/ Does(<<Call("initializer"), <<"colon", correct, Arg(1)>>>>)
        \/ \E p : Does(<<<<"operand", p, correct, Arg(1)>>>>)
    BY <1>1, <1>2 DEF parse_RHS_of_binary_expression, Consume, Stay, At, Does, flags, Flagged, Leaving
  <2> QED BY <2>2, <2>3, CommonItems, OrdinaryStep
<1>3. CASE At("colon")
  <2>1. errors = TRUE \/ (correct /\ Arg(1)) = TRUE
    BY <1>3, ConditionalOperand
  <2>2. PICK left : left = (correct /\ Arg(1))
    OBVIOUS
  <2>3. PICK rest : rest = <<<<"operand", 3, correct /\ Arg(1), Arg(2)>>>>
    OBVIOUS
  <2>4. (Consume(rest) \/ Fail(rest)) /\ UNCHANGED correct /\ UNCHANGED flags
    BY <1>3, <2>3 DEF parse_RHS_of_binary_expression, At
  <2>5. errors' = TRUE \/ left = TRUE
    BY <2>1, <2>2, <2>4 DEF Consume, Fail
  <2>6. rest = <<<<"operand", 3, left, Arg(2)>>>>
    BY <2>2, <2>3
  <2>7. Common(<<"operand", 3, left, Arg(2)>>)
    BY <2>5 DEF Common, Trusted, Flagged, Leaving, Holders
  <2>8. AllCommon(rest)
    BY <2>6, <2>7, CommonItems
  <2>9. Does(rest)
    BY <1>1, <1>3, <2>4 DEF Consume, Fail, At, Does, flags, Flagged, Leaving
  <2> QED BY <2>8, <2>9, OrdinaryStep
<1>4. CASE At("operand")
  BY <1>4, OperandStep
<1>5. CASE At("tail")
  <2>1. \A x : Common(<<"RHS", x>>)
    BY DEF Common, Trusted, Flagged, Leaving, Holders
  <2>2. Does(<<>>) \/ \E x : Does(<<<<"RHS", x>>>>)
    BY <1>1, <1>5 DEF parse_RHS_of_binary_expression, Stay, At, Does, flags, Flagged, Leaving
  <2> QED BY <2>1, <2>2, CommonItems, OrdinaryStep
<1>6. CASE At("binary_build")
  BY <1>6, BinaryBuildStep
<1> QED BY <1>2, <1>3, <1>4, <1>5, <1>6 DEF parse_RHS_of_binary_expression

LEMMA ExpressionsStep ==
    ASSUME ParserInv, Expressions
    PROVE  ParserInv'
BY PrimaryStep, InitializerListStep, PostfixStep, PostfixOperandStep, UnaryStep, BinaryStep, ExpressionStep DEF Expressions

-----------------------------------------------------------------------------
(* The actions of the declarations *)

LEMMA TypeSpecifierStep ==
    ASSUME ParserInv, parse_type_specifier \/ Qualify
    PROVE  ParserInv'
<1>1. errors = TRUE \/ correct = TRUE
  BY HeadTrusted
<1>2. CASE parse_type_specifier
  <2>1. /\ Common(Call("type_specifier"))
        /\ \A t \in {"const", "struct", "enum", "typedef"} : Common(Call(t))
    BY DEF Call, Common, Trusted, Flagged, Leaving, Holders
  <2>2. \/ Does(<<>>)
        \/ \E t \in {"const", "struct", "enum", "typedef"} :
              Does(<<Call("type_specifier"), Call(t)>>) \/ Does(<<Call(t)>>)
    BY <1>1, <1>2 DEF parse_type_specifier, Consume, Fail, FailAndConsume, At, Does, flags, Flagged, Leaving
  <2> QED BY <2>1, <2>2, CommonItems, OrdinaryStep
<1>3. CASE Qualify
  <2>1. Does(<<>>)
    BY <1>1, <1>3 DEF Qualify, Stay, Fail, At, Does, flags, Flagged, Leaving
  <2> QED BY <2>1, CommonItems, OrdinaryStep
<1> QED BY <1>2, <1>3

LEMMA TypedefStep ==
    ASSUME ParserInv, Typedef
    PROVE  ParserInv'
<1>1. errors = TRUE \/ correct = TRUE
  BY HeadTrusted
<1>2. Common(Skip({";"})) /\ Common(Call("typedef_name")) /\ Common(Call("typedef_end"))
  BY DEF Skip, Call, Common, Trusted, Flagged, Leaving, Holders
<1>3. \/ Does(<<>>) \/ Does(<<Skip({";"})>>)
      \/ Does(<<Call("typedef_name")>>) \/ Does(<<Call("typedef_end")>>)
  BY <1>1 DEF Typedef, Consume, Stay, Fail, At, Does, Flagged, Leaving
<1> QED BY <1>2, <1>3, CommonItems, OrdinaryStep

LEMMA StructStep ==
    ASSUME ParserInv, parse_struct_specifier \/ parse_struct_declaration
    PROVE  ParserInv'
<1>1. errors = TRUE \/ correct = TRUE
  BY HeadTrusted
<1>2. /\ Common(Call("members")) /\ Common(Call("struct_name"))
      /\ Common(Call("type_specifier")) /\ Common(Call("member_star"))
  BY DEF Call, Common, Trusted, Flagged, Leaving, Holders
<1>3. CASE parse_struct_specifier
  <2>1. Does(<<>>) \/ Does(<<Call("members")>>) \/ Does(<<Call("struct_name")>>)
    BY <1>1, <1>3 DEF parse_struct_specifier, Reference, Consume, Stay, Fail, At, Does, Flagged, Leaving
  <2> QED BY <1>2, <2>1, CommonItems, OrdinaryStep
<1>4. CASE parse_struct_declaration
  <2>1. Common(Head(todo))
    BY <1>4 DEF parse_struct_declaration, At, Common, Trusted, Flagged, Leaving, Holders
  <2>2. Does(<<>>) \/ Does(<<Call("type_specifier"), Call("member_star"), Head(todo)>>)
    BY <1>1, <1>4 DEF parse_struct_declaration, Consume, Stay, At, Does, flags, Flagged, Leaving
  <2> QED BY <1>2, <2>1, <2>2, CommonItems, OrdinaryStep
<1> QED BY <1>3, <1>4

LEMMA StarStep ==
    ASSUME ParserInv, NEW at, NEW name, at \notin Flagged,
           name \notin Flagged \cup Holders \cup {"broken", "operand"}, Star(at, name)
    PROVE  ParserInv'
<1>1. errors = TRUE \/ correct = TRUE
  BY HeadTrusted
<1>2. Common(Try("const")) /\ Common(Call(name))
  BY DEF Try, Call, Common, Trusted, Flagged, Leaving, Holders
<1>3. Does(<<Try("const"), Call(name)>>) \/ Does(<<Call(name)>>)
  BY <1>1 DEF Star, Consume, Stay, At, Does, flags
<1> QED BY <1>2, <1>3, CommonItems, OrdinaryStep

LEMMA MemberStep ==
    ASSUME ParserInv, parse_member_declaration
    PROVE  ParserInv'
<1>1. errors = TRUE \/ correct = TRUE
  BY HeadTrusted
<1>2. CASE Star("member_star", "member_name")
  BY <1>2, StarStep DEF Flagged, Leaving, Holders
<1>3. CASE At("member_name")
  <2>1. \A x : Common(<<"bounds", x>>) /\ Common(Expect(x)) /\ Common(Skip(x)) /\ Common(Try(x))
    BY DEF Expect, Skip, Try, Common, Trusted, Flagged, Leaving, Holders
  <2>2. Does(<<<<"bounds", MemberStops>>, Expect(";")>>) \/ Does(<<Skip({";", "}"}), Try(";")>>)
    BY <1>1, <1>3 DEF parse_member_declaration, Star, Consume, Fail, At, Does, flags, Flagged, Leaving
  <2> QED BY <2>1, <2>2, CommonItems, OrdinaryStep
<1> QED BY <1>2, <1>3 DEF parse_member_declaration

LEMMA BoundsStep ==
    ASSUME ParserInv, parse_bounds
    PROVE  ParserInv'
<1>1. errors = TRUE \/ correct = TRUE
  BY HeadTrusted
<1>2. /\ Common(Call("expression")) /\ Common(Try("]"))
      /\ \A x : Common(<<"bound_start", x>>) /\ Common(<<"bound", x>>) /\ Common(Skip(x))
  BY DEF Call, Try, Skip, Common, Trusted, Flagged, Leaving, Holders
<1>3. At("bounds") => Common(Head(todo))
  BY DEF At, Common, Trusted, Flagged, Leaving, Holders
<1>4. \/ At("bounds") /\ Does(<<<<"bound_start", Arg(1)>>, Head(todo)>>)
      \/ Does(<<>>) \/ Does(<<Call("expression"), <<"bound", Arg(1)>>>>)
      \/ Does(<<Skip(Arg(1)), Try("]")>>)
  BY <1>1 DEF parse_bounds, Consume, Stay, Fail, FailAndConsume, At, Does, flags, Flagged, Leaving
<1> QED BY <1>2, <1>3, <1>4, CommonItems, OrdinaryStep

LEMMA EnumStep ==
    ASSUME ParserInv, parse_enum_specifier
    PROVE  ParserInv'
<1>1. errors = TRUE \/ correct = TRUE
  BY HeadTrusted
<1>2. Common(Call("enum_first")) /\ Common(Call("enum_end")) /\ Common(Call("enum_name"))
  BY DEF Call, Common, Trusted, Flagged, Leaving, Holders
<1>3. Does(<<Call("enum_first"), Call("enum_end")>>) \/ Does(<<Call("enum_name")>>) \/ Does(<<>>)
  BY <1>1 DEF parse_enum_specifier, Reference, Consume, Stay, Fail, At, Does, Flagged, Leaving
<1> QED BY <1>2, <1>3, CommonItems, OrdinaryStep

LEMMA EnumeratorStep ==
    ASSUME ParserInv, parse_enum_declaration_list
    PROVE  ParserInv'
<1>1. errors = TRUE \/ correct = TRUE
  BY HeadTrusted
<1>2. /\ \A f \in {"enumerator", "consume_token", "enum_value", "constant_expression", "enum_constant",
                   "enum_comma", "enum_more"} : Common(Call(f))
      /\ Common(Expect(",")) /\ Common(Skip({";", "}"}))
  BY DEF Call, Expect, Skip, Common, Trusted, Flagged, Leaving, Holders
<1>3. CASE At("enumerator")
  <2>1. PICK rest : rest = <<Call("consume_token"), Call("enum_value")>>
    OBVIOUS
  <2>2. AllCommon(rest) /\ AllCommon(<<Skip({";", "}"})>> \o rest)
    BY <1>2, <2>1, CommonItems, CommonJoin
  <2>3. Does(rest) \/ Does(<<Skip({";", "}"})>> \o rest)
    BY <1>1, <1>3, <2>1 DEF parse_enum_declaration_list, Stay, Fail, At, Does, flags, Flagged, Leaving
  <2> QED BY <2>2, <2>3, OrdinaryStep
<1>4. CASE ~At("enumerator")
  <2>1. \/ Does(<<>>) \/ Does(<<Call("enumerator")>>)
        \/ Does(<<Call("constant_expression"), Call("enum_constant")>>)
        \/ Does(<<Call("enum_comma")>>) \/ Does(<<Call("enum_more")>>)
        \/ Does(<<Expect(","), Call("enum_more")>>)
    BY <1>1, <1>4 DEF parse_enum_declaration_list, Consume, Stay, Fail, FailAndConsume, At, Does, flags, Flagged, Leaving
  <2> QED BY <1>2, <2>1, CommonItems, OrdinaryStep
<1> QED BY <1>3, <1>4

LEMMA DeclaratorStep ==
    ASSUME ParserInv, parse_init_declarator \/ parse_declaration
    PROVE  ParserInv'
<1>1. errors = TRUE \/ correct = TRUE
  BY HeadTrusted
<1>2. /\ \A f \in {"init", "initializer", "init_end", "type_specifier", "declarators", "init_declarator",
                   "more_declarators"} : Common(Call(f))
      /\ \A x : Common(<<"bounds", x>>) /\ Common(Skip(x)) /\ Common(Expect(x))
  BY DEF Call, Expect, Skip, Common, Trusted, Flagged, Leaving, Holders
<1>3. CASE Star("init_declarator", "declarator_name")
  BY <1>3, StarStep DEF Flagged, Leaving, Holders
<1>4. CASE parse_init_declarator /\ ~Star("init_declarator", "declarator_name")
  <2>1. \/ Does(<<<<"bounds", DeclaratorStops>>, Call("init")>>) \/ Does(<<Skip({",", ";"})>>)
        \/ Does(<<Call("initializer"), Call("init_end")>>) \/ Does(<<>>)
    BY <1>1, <1>4 DEF parse_init_declarator, Consume, Stay, Fail, At, Does, flags, Flagged, Leaving
  <2> QED BY <1>2, <2>1, CommonItems, OrdinaryStep
<1>5. CASE parse_declaration
  <2>1. At("more_declarators") => Common(Head(todo))
    BY DEF At, Common, Trusted, Flagged, Leaving, Holders
  <2>2. \/ Does(<<Call("type_specifier"), Call("declarators")>>) \/ Does(<<Expect(";")>>)
        \/ Does(<<Call("init_declarator"), Call("more_declarators")>>)
        \/ At("more_declarators") /\ Does(<<Call("init_declarator"), Head(todo)>>)
    BY <1>1, <1>5 DEF parse_declaration, Consume, Stay, At, Does, flags, Flagged, Leaving
  <2> QED BY <1>2, <2>1, <2>2, CommonItems, OrdinaryStep
<1> QED BY <1>3, <1>4, <1>5

LEMMA DeclarationsStep ==
    ASSUME ParserInv, Declarations
    PROVE  ParserInv'
BY TypeSpecifierStep, TypedefStep, StructStep, MemberStep, BoundsStep, EnumStep, EnumeratorStep, DeclaratorStep
   DEF Declarations

-----------------------------------------------------------------------------
(* Steps that begin or end a scope, a loop or a switch *)

LEMMA ScopesCounted ==
    ASSUME ParserInv
    PROVE  errors = TRUE \/ blocks \in Nat
<1> SUFFICES ASSUME errors # TRUE PROVE blocks \in Nat
  OBVIOUS
<1>1. PICK s : s = todo
  OBVIOUS
<1>2. Len(s) \in Nat
  BY <1>1 DEF ParserInv, IsStack
<1> QED BY <1>1, <1>2, LeavesFinite DEF ParserInv, Clean

\* One call that leaves a scope, after another call or alone.
Handed(items) == \E b : b[1] \in Leaving /\ (items = <<b>> \/ \E a : Common(a) /\ items = <<a, b>>)

LEMMA HandedItems ==
    ASSUME NEW items, Handed(items)
    PROVE  /\ IsStack(items) /\ Leads(items, TRUE)
           /\ \A i \in 1..Len(items) : items[i][1] \notin {"in_loop", "in_switch"}
           /\ errors' = TRUE \/ \A i \in 1..Len(items) : Trusted(items[i])
<1>1. PICK b : b[1] \in Leaving /\ (items = <<b>> \/ \E a : Common(a) /\ items = <<a, b>>)
  BY DEF Handed
<1>2. b[1] \notin {"in_loop", "in_switch"} /\ Trusted(b)
  BY <1>1 DEF Leaving, Trusted, Holders
<1>3. CASE items = <<b>>
  <2>1. <<b>> \in Seq({b}) /\ Len(<<b>>) = 1 /\ <<b>>[1] = b /\ \A i \in 1..1 : i = 1
    OBVIOUS
  <2>2. IsStack(items)
    BY <1>3, <2>1 DEF IsStack
  <2>3. {i \in 1..Len(items) : items[i][1] \in Leaving} = {1}
    BY <1>1, <1>3, <2>1
  <2> QED BY <1>2, <1>3, <2>1, <2>2, <2>3 DEF Leads
<1>4. CASE \E a : Common(a) /\ items = <<a, b>>
  <2>1. PICK a : Common(a) /\ items = <<a, b>>
    BY <1>4
  <2>2. <<a, b>> \in Seq({a, b}) /\ Len(<<a, b>>) = 2 /\ <<a, b>>[1] = a /\ <<a, b>>[2] = b
    OBVIOUS
  <2>3. \A i \in 1..2 : i = 1 \/ i = 2
    OBVIOUS
  <2>4. IsStack(items)
    BY <2>1, <2>2 DEF IsStack
  <2>5. a[1] \notin Leaving /\ a[1] \notin {"in_loop", "in_switch"} /\ (errors' = TRUE \/ Trusted(a))
    BY <2>1 DEF Common, Flagged
  <2>6. {i \in 1..Len(items) : items[i][1] \in Leaving} = {2}
    BY <1>1, <2>1, <2>2, <2>3, <2>5
  <2> QED BY <1>2, <2>1, <2>2, <2>3, <2>4, <2>5, <2>6 DEF Leads
<1> QED BY <1>1, <1>3, <1>4

\* A step that pushes a call that leaves a scope.
Hands(items) ==
    /\ todo # <<>> /\ Head(todo)[1] \notin {"in_loop", "in_switch"}
    /\ Push(items) /\ UNCHANGED <<is_in_loop, is_in_switch>>
    /\ \/ errors' = TRUE
       \/ errors' = errors /\ correct' = TRUE /\ Head(todo)[1] \in Leaving /\ blocks' = blocks
       \/ errors' = errors /\ correct' = TRUE /\ Head(todo)[1] \notin Leaving /\ blocks' = blocks + 1

LEMMA HandingStep ==
    ASSUME ParserInv, NEW items, Handed(items), Hands(items)
    PROVE  ParserInv'
<1>1. /\ IsStack(items) /\ Leads(items, TRUE)
      /\ \A i \in 1..Len(items) : items[i][1] \notin {"in_loop", "in_switch"}
      /\ errors' = TRUE \/ \A i \in 1..Len(items) : Trusted(items[i])
  BY HandedItems
<1>2. Nested(todo', "in_loop", is_in_loop') /\ Nested(todo', "in_switch", is_in_switch')
  BY <1>1, FlagsKept DEF Hands
<1>3. errors = TRUE \/ blocks \in Nat
  BY ScopesCounted
<1>4. \/ errors' = TRUE
      \/ errors = TRUE
      \/ blocks' = blocks + One(TRUE) - One(Head(todo)[1] \in Leaving)
  BY <1>3 DEF Hands, One
<1>5. Sound(items, TRUE)
  BY <1>1, <1>4 DEF Sound, Hands
<1> QED BY <1>1, <1>2, <1>5, GeneralStep DEF Hands

\* A step after which a scope stays entered: only with an error reported.
LEMMA LosingStep ==
    ASSUME ParserInv, todo # <<>>, Head(todo)[1] \notin {"in_loop", "in_switch"},
           NEW items, AllCommon(items), Push(items), UNCHANGED <<is_in_loop, is_in_switch>>, errors' = TRUE
    PROVE  ParserInv'
<1>1. IsStack(items) /\ \A i \in 1..Len(items) : items[i][1] \notin Flagged
  BY DEF AllCommon, Common
<1>2. \A i \in 1..Len(items) : items[i][1] \notin {"in_loop", "in_switch"} /\ items[i][1] \notin Leaving
  BY <1>1 DEF Flagged
<1>3. Nested(todo', "in_loop", is_in_loop') /\ Nested(todo', "in_switch", is_in_switch')
  BY <1>1, <1>2, FlagsKept
<1>4. Leads(items, FALSE)
  BY <1>2 DEF Leads
<1>5. Sound(items, FALSE)
  BY DEF Sound
<1> QED BY <1>1, <1>3, <1>4, <1>5, GeneralStep

\* A body's items: its second one puts back the flag f, which was v.
Body(items, f, v) ==
    /\ IsStack(items) /\ 2 \in 1..Len(items) /\ items[2] = <<f, v>>
    /\ \A i \in 1..Len(items) : i # 2 => items[i][1] \notin {"in_loop", "in_switch"} /\ Trusted(items[i])

LEMMA BodyNested ==
    ASSUME NEW s, NEW items, NEW r, Replaced(s, items, r), NEW f \in {"in_loop", "in_switch"}, NEW flag,
           Nested(s, f, flag), s[1][1] # f, Body(items, f, flag)
    PROVE  Nested(r, f, TRUE)
<1>1. Saved(items, f, flag)
  BY DEF Body, Saved
<1> QED BY <1>1, NestedBegun

\* A step that begins the body of a loop or a switch.
Begins(items) ==
    /\ todo # <<>> /\ Head(todo)[1] \notin {"in_loop", "in_switch"}
    /\ Push(items) /\ UNCHANGED <<errors, correct, blocks>>

LEMMA LoopBodyStep ==
    ASSUME ParserInv, NEW items, Body(items, "in_loop", is_in_loop), Begins(items),
           is_in_loop' = TRUE, is_in_switch' = is_in_switch, Leads(items, Head(todo)[1] \in Leaving)
    PROVE  ParserInv'
<1>1. PICK s : s = todo
  OBVIOUS
<1>2. PICK r : r = todo'
  OBVIOUS
<1>3. Replaced(s, items, r)
  BY <1>1, <1>2, ReplacedTail DEF ParserInv, Begins, Push, Body
<1>4. s[1][1] # "in_loop" /\ s[1][1] # "in_switch"
  BY <1>1, <1>3 DEF Begins, Replaced
<1>5. Nested(s, "in_loop", is_in_loop) /\ Nested(s, "in_switch", is_in_switch)
  BY <1>1 DEF ParserInv
<1>6. \A i \in 1..Len(items) : items[i][1] # "in_switch"
  BY DEF Body
<1>7. Nested(r, "in_loop", TRUE)
  BY <1>3, <1>4, <1>5, BodyNested
<1>8. Nested(r, "in_switch", is_in_switch)
  BY <1>3, <1>4, <1>5, <1>6, NestedKept
<1>9. \A i \in 1..Len(items) : Trusted(items[i])
  BY DEF Body, Trusted, Holders
<1>10. errors = TRUE \/ (correct = TRUE /\ blocks \in Nat)
  BY HeadTrusted, ScopesCounted
<1>11. PICK n : n = One(Head(todo)[1] \in Leaving)
  OBVIOUS
<1>12. n \in Nat
  BY <1>11 DEF One
<1>13. errors = TRUE \/ blocks = blocks + n - n
  BY <1>10, <1>12
<1>14. Sound(items, Head(todo)[1] \in Leaving)
  BY <1>9, <1>10, <1>11, <1>13 DEF Sound, Begins
<1>15. Nested(todo', "in_loop", is_in_loop') /\ Nested(todo', "in_switch", is_in_switch')
  BY <1>2, <1>7, <1>8
<1> QED BY <1>14, <1>15, GeneralStep DEF Begins, Body

LEMMA SwitchBodyStep ==
    ASSUME ParserInv, NEW items, Body(items, "in_switch", is_in_switch), Begins(items),
           is_in_switch' = TRUE, is_in_loop' = is_in_loop, Leads(items, Head(todo)[1] \in Leaving)
    PROVE  ParserInv'
<1>1. PICK s : s = todo
  OBVIOUS
<1>2. PICK r : r = todo'
  OBVIOUS
<1>3. Replaced(s, items, r)
  BY <1>1, <1>2, ReplacedTail DEF ParserInv, Begins, Push, Body
<1>4. s[1][1] # "in_loop" /\ s[1][1] # "in_switch"
  BY <1>1, <1>3 DEF Begins, Replaced
<1>5. Nested(s, "in_loop", is_in_loop) /\ Nested(s, "in_switch", is_in_switch)
  BY <1>1 DEF ParserInv
<1>6. \A i \in 1..Len(items) : items[i][1] # "in_loop"
  BY DEF Body
<1>7. Nested(r, "in_switch", TRUE)
  BY <1>3, <1>4, <1>5, BodyNested
<1>8. Nested(r, "in_loop", is_in_loop)
  BY <1>3, <1>4, <1>5, <1>6, NestedKept
<1>9. \A i \in 1..Len(items) : Trusted(items[i])
  BY DEF Body, Trusted, Holders
<1>10. errors = TRUE \/ (correct = TRUE /\ blocks \in Nat)
  BY HeadTrusted, ScopesCounted
<1>11. PICK n : n = One(Head(todo)[1] \in Leaving)
  OBVIOUS
<1>12. n \in Nat
  BY <1>11 DEF One
<1>13. errors = TRUE \/ blocks = blocks + n - n
  BY <1>10, <1>12
<1>14. Sound(items, Head(todo)[1] \in Leaving)
  BY <1>9, <1>10, <1>11, <1>13 DEF Sound, Begins
<1>15. Nested(todo', "in_loop", is_in_loop') /\ Nested(todo', "in_switch", is_in_switch')
  BY <1>2, <1>7, <1>8
<1> QED BY <1>14, <1>15, GeneralStep DEF Begins, Body

-----------------------------------------------------------------------------
(* The actions of the statements *)

LEMMA RestoreStep ==
    ASSUME ParserInv, RestoreLoop \/ RestoreSwitch
    PROVE  ParserInv'
<1>1. PICK s : s = todo
  OBVIOUS
<1>2. PICK r : r = todo'
  OBVIOUS
<1>3. /\ todo # <<>> /\ Push(<<>>) /\ UNCHANGED <<errors, correct>>
      /\ Head(todo)[1] \in {"in_loop", "in_switch"}
  BY DEF RestoreLoop, RestoreSwitch, Stay, At
<1>4. IsStack(<<>>) /\ Len(<<>>) = 0
  <2>1. <<>> \in Seq({})
    OBVIOUS
  <2> QED BY <2>1 DEF IsStack
<1>5. IsStack(s) /\ s # <<>> /\ r = <<>> \o Tail(s)
  BY <1>1, <1>2, <1>3 DEF ParserInv, Push
<1>6. Replaced(s, <<>>, r)
  BY <1>4, <1>5, ReplacedTail
<1>7. Nested(s, "in_loop", is_in_loop) /\ Nested(s, "in_switch", is_in_switch)
  BY <1>1 DEF ParserInv
<1>8. s[1] = Head(todo) /\ \A j \in 1..Len(<<>>) : FALSE
  BY <1>1, <1>4, <1>6 DEF Replaced
<1>9. Nested(r, "in_loop", is_in_loop') /\ Nested(r, "in_switch", is_in_switch')
  <2>1. CASE RestoreLoop
    <3>1. s[1][1] = "in_loop" /\ is_in_loop' = s[1][2] /\ is_in_switch' = is_in_switch
      BY <1>8, <2>1 DEF RestoreLoop, At, Arg
    <3>2. Nested(r, "in_loop", s[1][2])
      BY <1>4, <1>6, <1>7, <3>1, NestedEnded
    <3>3. Nested(r, "in_switch", is_in_switch)
      BY <1>6, <1>7, <1>8, <3>1, NestedKept
    <3> QED BY <3>1, <3>2, <3>3
  <2>2. CASE RestoreSwitch
    <3>1. s[1][1] = "in_switch" /\ is_in_switch' = s[1][2] /\ is_in_loop' = is_in_loop
      BY <1>8, <2>2 DEF RestoreSwitch, At, Arg
    <3>2. Nested(r, "in_switch", s[1][2])
      BY <1>4, <1>6, <1>7, <3>1, NestedEnded
    <3>3. Nested(r, "in_loop", is_in_loop)
      BY <1>6, <1>7, <1>8, <3>1, NestedKept
    <3> QED BY <3>1, <3>2, <3>3
  <2> QED BY <2>1, <2>2
<1>10. Leads(<<>>, FALSE)
  BY <1>8 DEF Leads
<1>11. One(FALSE) = 0 /\ One(Head(todo)[1] \in Leaving) = 0
  BY <1>3 DEF One, Leaving
<1>12. blocks' = blocks
  BY DEF RestoreLoop, RestoreSwitch
<1>13. errors = TRUE \/ (correct = TRUE /\ blocks = blocks + 0 - 0)
  <2>1. errors = TRUE \/ (correct = TRUE /\ blocks \in Nat)
    BY HeadTrusted, ScopesCounted
  <2> QED BY ONLY <2>1
<1>14. Sound(<<>>, FALSE)
  BY <1>3, <1>8, <1>11, <1>12, <1>13 DEF Sound
<1> QED BY <1>2, <1>3, <1>4, <1>9, <1>10, <1>14, GeneralStep

LEMMA LeaveBlockStep ==
    ASSUME ParserInv, LeaveBlock
    PROVE  ParserInv'
<1>1. /\ todo # <<>> /\ Head(todo)[1] = "leave_block" /\ Push(<<>>)
      /\ UNCHANGED <<errors, correct, is_in_loop, is_in_switch>> /\ blocks' = blocks - 1
  BY DEF LeaveBlock, Stay, At
<1>2. IsStack(<<>>) /\ \A j \in 1..Len(<<>>) : FALSE
  <2>1. <<>> \in Seq({}) /\ Len(<<>>) = 0
    OBVIOUS
  <2> QED BY <2>1 DEF IsStack
<1>3. Nested(todo', "in_loop", is_in_loop') /\ Nested(todo', "in_switch", is_in_switch')
  BY <1>1, <1>2, FlagsKept
<1>4. Leads(<<>>, FALSE)
  BY <1>2 DEF Leads
<1>5. One(FALSE) = 0 /\ One(Head(todo)[1] \in Leaving) = 1
  BY <1>1 DEF One, Leaving
<1>6. errors = TRUE \/ (correct = TRUE /\ blocks - 1 = blocks + 0 - 1)
  <2>1. errors = TRUE \/ (correct = TRUE /\ blocks \in Nat)
    BY HeadTrusted, ScopesCounted
  <2> QED BY ONLY <2>1
<1>7. Sound(<<>>, FALSE)
  BY <1>1, <1>2, <1>5, <1>6 DEF Sound
<1> QED BY <1>1, <1>2, <1>3, <1>4, <1>7, GeneralStep

LEMMA ConditionStep ==
    ASSUME ParserInv, parse_condition \/ parse_case_statement \/ parse_default_statement
    PROVE  ParserInv'
<1>1. errors = TRUE \/ correct = TRUE
  BY HeadTrusted
<1>2. /\ \A f \in {"expression", "close_condition", "constant_expression", "case_label", "statement"} : Common(Call(f))
      /\ \A x : Common(Skip(x)) /\ Common(Try(x)) /\ Common(Expect(x))
  BY DEF Call, Skip, Try, Expect, Common, Trusted, Flagged, Leaving, Holders
<1>3. CASE parse_condition
  <2>1. \/ Does(<<>>) \/ Does(<<Call("expression"), Call("close_condition")>>)
        \/ Does(<<Skip({";"})>>) \/ Does(<<Skip({")", ";"}), Try(")")>>)
    BY <1>1, <1>3 DEF parse_condition, Consume, Stay, Fail, At, Does, flags, Flagged, Leaving
  <2> QED BY <1>2, <2>1, CommonItems, OrdinaryStep
<1>4. CASE parse_case_statement
  <2>1. \/ Does(<<Skip({";"})>>) \/ Does(<<Call("constant_expression"), Call("case_label")>>)
        \/ Does(<<Skip({";", "}"})>>) \/ Does(<<Expect(":"), Call("statement")>>)
    BY <1>1, <1>4 DEF parse_case_statement, Stay, Fail, At, Does, flags, Flagged, Leaving
  <2> QED BY <1>2, <2>1, CommonItems, OrdinaryStep
<1>5. CASE parse_default_statement
  <2>1. Does(<<Expect(":"), Call("statement")>>) \/ Does(<<Skip({";"})>>)
    BY <1>1, <1>5 DEF parse_default_statement, Stay, Fail, At, Does, flags, Flagged, Leaving
  <2> QED BY <1>2, <2>1, CommonItems, OrdinaryStep
<1> QED BY <1>3, <1>4, <1>5

LEMMA CompoundStep ==
    ASSUME ParserInv, parse_compound_statement_body \/ parse_compound_statement
    PROVE  ParserInv'
<1>1. errors = TRUE \/ correct = TRUE
  BY HeadTrusted
<1>2. CASE parse_compound_statement_body
  <2>1. Common(Head(todo)) /\ \A f \in {"declaration", "statement"} : Common(Call(f))
    BY <1>2 DEF parse_compound_statement_body, At, Call, Common, Trusted, Flagged, Leaving, Holders
  <2>2. Does(<<>>) \/ \E f \in {"declaration", "statement"} : Does(<<Call(f), Head(todo)>>)
    BY <1>1, <1>2 DEF parse_compound_statement_body, UnclosedBody, Consume, Stay, Fail, At, Does, flags, Flagged, Leaving
  <2> QED BY <2>1, <2>2, CommonItems, OrdinaryStep
<1>3. CASE parse_compound_statement
  <2>1. Common(Call("compound_body")) /\ Call("leave_block")[1] \in Leaving
    BY DEF Call, Common, Trusted, Flagged, Leaving, Holders
  <2>2. Handed(<<Call("compound_body"), Call("leave_block")>>)
    BY <2>1 DEF Handed
  <2>3. Hands(<<Call("compound_body"), Call("leave_block")>>)
    BY <1>1, <1>3 DEF parse_compound_statement, Consume, At, Hands, Leaving
  <2> QED BY <2>2, <2>3, HandingStep
<1> QED BY <1>2, <1>3

LEMMA SimpleStatementStep ==
    ASSUME ParserInv,
           \/ parse_expression_statement \/ parse_if_statement \/ parse_continue_statement
           \/ parse_break_statement \/ parse_return_statement \/ parse_statement
    PROVE  ParserInv'
<1>1. errors = TRUE \/ correct = TRUE
  BY HeadTrusted
<1>2. /\ \A f \in {"expression", "end_of_expression", "condition", "statement", "else", "compound",
                   "expression_statement"} \cup Keywords : Common(Call(f))
      /\ \A x : Common(Skip(x)) /\ Common(Expect(x))
  BY DEF Call, Skip, Expect, Keywords, Common, Trusted, Flagged, Leaving, Holders
<1>3. CASE parse_expression_statement
  <2>1. \/ Does(<<Call("expression"), Call("end_of_expression")>>)
        \/ Does(<<Expect(";")>>) \/ Does(<<Skip({";"})>>)
    BY <1>1, <1>3 DEF parse_expression_statement, Stay, At, Does, flags, Flagged, Leaving
  <2> QED BY <1>2, <2>1, CommonItems, OrdinaryStep
<1>4. CASE parse_if_statement
  <2>1. \/ Does(<<Call("condition"), Call("statement"), Call("else")>>)
        \/ Does(<<Call("statement")>>) \/ Does(<<>>)
    BY <1>1, <1>4 DEF parse_if_statement, Consume, Stay, At, Does, flags, Flagged, Leaving
  <2> QED BY <1>2, <2>1, CommonItems, OrdinaryStep
<1>5. CASE parse_continue_statement \/ parse_break_statement
  <2>1. Does(<<Expect(";")>>) \/ Does(<<Skip({";"})>>)
    BY <1>1, <1>5 DEF parse_continue_statement, parse_break_statement, Stay, Fail, At, Does, flags, Flagged, Leaving
  <2> QED BY <1>2, <2>1, CommonItems, OrdinaryStep
<1>6. CASE parse_return_statement
  <2>1. Does(<<>>) \/ Does(<<Call("expression"), Call("end_of_expression")>>)
    BY <1>1, <1>6 DEF parse_return_statement, Consume, Stay, At, Does, flags, Flagged, Leaving
  <2> QED BY <1>2, <2>1, CommonItems, OrdinaryStep
<1>7. CASE parse_statement
  <2>1. \/ Does(<<Call("compound")>>) \/ Does(<<>>)
        \/ (\E k \in Keywords : Does(<<Call(k)>>)) \/ Does(<<Call("expression_statement")>>)
    BY <1>1, <1>7 DEF parse_statement, Consume, Stay, At, Does, flags, Flagged, Leaving
  <2> QED BY <1>2, <2>1, CommonItems, OrdinaryStep
<1> QED BY <1>3, <1>4, <1>5, <1>6, <1>7

LEMMA BodyItems ==
    ASSUME NEW f, NEW v, NEW b, b[1] \notin {"in_loop", "in_switch"}, Trusted(b)
    PROVE  /\ Body(<<Call("statement"), <<f, v>>>>, f, v)
           /\ Body(<<Call("statement"), <<f, v>>, b>>, f, v)
<1>1. PICK a, c : a = Call("statement") /\ c = <<f, v>>
  OBVIOUS
<1>2. a[1] \notin {"in_loop", "in_switch"} /\ Trusted(a)
  BY <1>1 DEF Call, Trusted, Holders
<1>3. Body(<<a, c>>, f, v)
  <2>1. <<a, c>> \in Seq({a, c}) /\ Len(<<a, c>>) = 2 /\ <<a, c>>[1] = a /\ <<a, c>>[2] = c
    OBVIOUS
  <2>2. 2 \in 1..2 /\ \A i \in 1..2 : i = 1 \/ i = 2
    OBVIOUS
  <2> QED BY <1>1, <1>2, <2>1, <2>2 DEF Body, IsStack
<1>4. Body(<<a, c, b>>, f, v)
  <2>1. /\ <<a, c, b>> \in Seq({a, c, b}) /\ Len(<<a, c, b>>) = 3
        /\ <<a, c, b>>[1] = a /\ <<a, c, b>>[2] = c /\ <<a, c, b>>[3] = b
    OBVIOUS
  <2>2. 2 \in 1..3 /\ \A i \in 1..3 : i = 1 \/ i = 2 \/ i = 3
    OBVIOUS
  <2> QED BY <1>1, <1>2, <2>1, <2>2 DEF Body, IsStack
<1> QED BY <1>1, <1>3, <1>4

LEMMA ItemsJoined ==
    ASSUME NEW a, NEW c, NEW b
    PROVE  <<a, c>> \o <<>> = <<a, c>> /\ <<a, c>> \o <<b>> = <<a, c, b>>
<1>1. PICK U : U = {a, b, c}
  OBVIOUS
<1>2. PICK s, t : s = <<a, c>> /\ t = <<b>>
  OBVIOUS
<1>3. s \in Seq(U) /\ t \in Seq(U) /\ Len(s) = 2 /\ Len(t) = 1 /\ s[1] = a /\ s[2] = c /\ t[1] = b
  BY <1>1, <1>2
<1>4. s \o <<>> = s
  BY <1>3
<1>5. s \o t = <<a, c, b>>
  <2>1. PICK u : u = s \o t
    OBVIOUS
  <2>2. PICK w : w = <<a, c, b>>
    OBVIOUS
  <2>3. u \in Seq(U) /\ Len(u) = 3 /\ u[1] = a /\ u[2] = c /\ u[3] = b
    <3>1. s \in Seq(U) /\ t \in Seq(U)
      BY <1>3
    <3>2. /\ s \o t \in Seq(U) /\ Len(s \o t) = Len(s) + Len(t)
          /\ \A i \in 1..Len(s) : (s \o t)[i] = s[i]
          /\ \A i \in 1..Len(t) : (s \o t)[Len(s) + i] = t[i]
      BY ONLY <3>1, ConcatItems
    <3>3. /\ u \in Seq(U) /\ Len(u) = Len(s) + Len(t)
          /\ \A i \in 1..Len(s) : u[i] = s[i]
          /\ \A i \in 1..Len(t) : u[Len(s) + i] = t[i]
      BY <2>1, <3>2
    <3>4. u[Len(s) + 1] = t[1]
      BY <1>3, <3>3
    <3> QED BY <1>3, <3>3, <3>4
  <2>4. w \in Seq(U) /\ Len(w) = 3 /\ w[1] = a /\ w[2] = c /\ w[3] = b
    BY <1>1, <2>2
  <2>5. \A i \in 1..3 : i = 1 \/ i = 2 \/ i = 3
    OBVIOUS
  <2>6. \A i \in 1..Len(u) : u[i] = w[i]
    BY <2>3, <2>4, <2>5
  <2>7. u = w
    BY <2>3, <2>4, <2>6, SeqEqual
  <2> QED BY <2>1, <2>2, <2>7
<1> QED BY <1>2, <1>4, <1>5

\* Whether the items of a body lead out of a scope.
LEMMA BodyLeads ==
    ASSUME NEW a, NEW c, NEW b, a[1] \notin Leaving, c[1] \notin Leaving
    PROVE  /\ Leads(<<a, c>>, FALSE)
           /\ b[1] \notin Leaving => Leads(<<a, c, b>>, FALSE)
           /\ b[1] \in Leaving => Leads(<<a, c, b>>, TRUE)
<1>1. Leads(<<a, c>>, FALSE)
  <2>1. Len(<<a, c>>) = 2 /\ <<a, c>>[1] = a /\ <<a, c>>[2] = c /\ \A i \in 1..2 : i = 1 \/ i = 2
    OBVIOUS
  <2> QED BY <2>1 DEF Leads
<1>2. Len(<<a, c, b>>) = 3 /\ <<a, c, b>>[1] = a /\ <<a, c, b>>[2] = c /\ <<a, c, b>>[3] = b
  OBVIOUS
<1>3. \A i \in 1..3 : i = 1 \/ i = 2 \/ i = 3
  OBVIOUS
<1>4. ASSUME b[1] \notin Leaving PROVE Leads(<<a, c, b>>, FALSE)
  BY <1>2, <1>3, <1>4 DEF Leads
<1>5. ASSUME b[1] \in Leaving PROVE Leads(<<a, c, b>>, TRUE)
  <2>1. {i \in 1..Len(<<a, c, b>>) : <<a, c, b>>[i][1] \in Leaving} = {3}
    BY <1>2, <1>3, <1>5
  <2> QED BY <2>1 DEF Leads
<1> QED BY <1>1, <1>4, <1>5

LEMMA LoopStep ==
    ASSUME ParserInv, NEW rest, LoopBody(rest), UNCHANGED correct,
           todo # <<>>, Head(todo)[1] \notin {"in_loop", "in_switch"},
           \/ rest = <<>> /\ Head(todo)[1] \notin Leaving
           \/ \E b : /\ rest = <<b>> /\ b[1] \notin {"in_loop", "in_switch"} /\ Trusted(b)
                     /\ (b[1] \in Leaving <=> Head(todo)[1] \in Leaving)
    PROVE  ParserInv'
<1>1. PICK a, c : a = Call("statement") /\ c = <<"in_loop", is_in_loop>>
  OBVIOUS
<1>2. /\ is_in_loop' = TRUE /\ is_in_switch' = is_in_switch
      /\ Push(<<a, c>> \o rest) /\ UNCHANGED <<errors, correct, blocks>>
  BY <1>1 DEF LoopBody, Stay
<1>3. a[1] \notin Leaving /\ c[1] \notin Leaving
  BY <1>1 DEF Call, Leaving
<1>4. CASE rest = <<>> /\ Head(todo)[1] \notin Leaving
  <2>1. PICK b : b = a
    OBVIOUS
  <2>2. b[1] \notin {"in_loop", "in_switch"} /\ Trusted(b)
    BY <1>1, <2>1 DEF Call, Trusted, Holders
  <2>3. Body(<<a, c>>, "in_loop", is_in_loop)
    BY <1>1, <2>2, BodyItems
  <2>4. Begins(<<a, c>>)
    BY <1>2, <1>4, ItemsJoined DEF Begins
  <2>5. Leads(<<a, c>>, Head(todo)[1] \in Leaving)
    <3>1. Leads(<<a, c>>, FALSE)
      BY <1>3, BodyLeads
    <3>2. (Head(todo)[1] \in Leaving) = FALSE
      BY <1>4
    <3> QED BY <3>1, <3>2
  <2> QED BY <1>2, <2>3, <2>4, <2>5, LoopBodyStep
<1>5. CASE \E b : /\ rest = <<b>> /\ b[1] \notin {"in_loop", "in_switch"} /\ Trusted(b)
                  /\ (b[1] \in Leaving <=> Head(todo)[1] \in Leaving)
  <2>1. PICK b : /\ rest = <<b>> /\ b[1] \notin {"in_loop", "in_switch"} /\ Trusted(b)
                 /\ (b[1] \in Leaving <=> Head(todo)[1] \in Leaving)
    BY <1>5
  <2>2. Body(<<a, c, b>>, "in_loop", is_in_loop)
    BY <1>1, <2>1, BodyItems
  <2>3. Begins(<<a, c, b>>)
    BY <1>2, <2>1, ItemsJoined DEF Begins
  <2>4. Leads(<<a, c, b>>, Head(todo)[1] \in Leaving)
    <3>1. CASE b[1] \in Leaving
      <4>1. (Head(todo)[1] \in Leaving) = TRUE
        BY <2>1, <3>1
      <4> QED BY <1>3, <3>1, <4>1, BodyLeads
    <3>2. CASE b[1] \notin Leaving
      <4>1. (Head(todo)[1] \in Leaving) = FALSE
        BY <2>1, <3>2
      <4> QED BY <1>3, <3>2, <4>1, BodyLeads
    <3> QED BY <3>1, <3>2
  <2> QED BY <1>2, <2>2, <2>3, <2>4, LoopBodyStep
<1> QED BY <1>4, <1>5

LEMMA SwitchStep ==
    ASSUME ParserInv, parse_switch_statement
    PROVE  ParserInv'
<1>1. errors = TRUE \/ correct = TRUE
  BY HeadTrusted
<1>2. CASE At("switch")
  <2>1. Common(Call("condition")) /\ Common(Call("switch_body"))
    BY DEF Call, Common, Trusted, Flagged, Leaving, Holders
  <2>2. Does(<<Call("condition"), Call("switch_body")>>)
    BY <1>1, <1>2 DEF parse_switch_statement, Stay, At, Does, flags, Flagged, Leaving
  <2> QED BY <2>1, <2>2, CommonItems, OrdinaryStep
<1>3. CASE At("switch_body")
  <2>1. PICK a, c : a = Call("statement") /\ c = <<"in_switch", is_in_switch>>
    OBVIOUS
  <2>2. /\ is_in_switch' = TRUE /\ is_in_loop' = is_in_loop
        /\ Push(<<a, c>>) /\ UNCHANGED <<errors, correct, blocks>>
        /\ todo # <<>> /\ Head(todo)[1] = "switch_body"
    BY <1>3, <2>1 DEF parse_switch_statement, Stay, At
  <2>3. a[1] \notin Leaving /\ c[1] \notin Leaving /\ a[1] \notin {"in_loop", "in_switch"} /\ Trusted(a)
    BY <2>1 DEF Call, Leaving, Trusted, Holders
  <2>4. Body(<<a, c>>, "in_switch", is_in_switch)
    BY <2>1, <2>3, BodyItems
  <2>5. Begins(<<a, c>>)
    BY <2>2 DEF Begins
  <2>6. Leads(<<a, c>>, Head(todo)[1] \in Leaving)
    <3>1. (Head(todo)[1] \in Leaving) = FALSE
      BY <2>2 DEF Leaving
    <3> QED BY <2>3, <3>1, BodyLeads
  <2> QED BY <2>2, <2>4, <2>5, <2>6, SwitchBodyStep
<1> QED BY <1>2, <1>3 DEF parse_switch_statement

LEMMA LoopsStep ==
    ASSUME ParserInv, parse_while_statement \/ parse_do_statement
    PROVE  ParserInv'
<1>1. errors = TRUE \/ correct = TRUE
  BY HeadTrusted
<1>2. CASE parse_while_statement /\ At("while")
  <2>1. Common(Call("condition")) /\ Common(Call("while_body"))
    BY DEF Call, Common, Trusted, Flagged, Leaving, Holders
  <2>2. Does(<<Call("condition"), Call("while_body")>>)
    BY <1>1, <1>2 DEF parse_while_statement, Stay, At, Does, flags, Flagged, Leaving
  <2> QED BY <2>1, <2>2, CommonItems, OrdinaryStep
<1>3. CASE parse_while_statement /\ At("while_body")
  <2>1. LoopBody(<<>>) /\ UNCHANGED correct /\ todo # <<>> /\ Head(todo)[1] = "while_body"
    BY <1>3 DEF parse_while_statement, At
  <2>2. Head(todo)[1] \notin Leaving /\ Head(todo)[1] \notin {"in_loop", "in_switch"}
    BY <2>1 DEF Leaving
  <2> QED BY <2>1, <2>2, LoopStep
<1>4. CASE parse_do_statement /\ At("do")
  <2>1. LoopBody(<<Call("do_while")>>) /\ UNCHANGED correct /\ todo # <<>> /\ Head(todo)[1] = "do"
    BY <1>4 DEF parse_do_statement, At
  <2>2. Head(todo)[1] \notin Leaving /\ Head(todo)[1] \notin {"in_loop", "in_switch"}
    BY <2>1 DEF Leaving
  <2>3. PICK b : b = Call("do_while")
    OBVIOUS
  <2>4. b[1] \notin {"in_loop", "in_switch"} /\ Trusted(b) /\ b[1] \notin Leaving
    BY <2>3 DEF Call, Trusted, Holders, Leaving
  <2> QED BY <2>1, <2>2, <2>3, <2>4, LoopStep
<1>5. CASE parse_do_statement /\ At("do_while")
  <2>1. Common(Call("condition")) /\ Common(Expect(";")) /\ Common(Skip({";"}))
    BY DEF Call, Expect, Skip, Common, Trusted, Flagged, Leaving, Holders
  <2>2. Does(<<Call("condition"), Expect(";")>>) \/ Does(<<Skip({";"})>>)
    BY <1>1, <1>5 DEF parse_do_statement, Consume, Fail, At, Does, flags, Flagged, Leaving
  <2> QED BY <2>1, <2>2, CommonItems, OrdinaryStep
<1> QED BY <1>2, <1>3, <1>4, <1>5 DEF parse_while_statement, parse_do_statement

\* A step of a for statement's header, which pushes the next one.
LEMMA HeaderStep ==
    ASSUME ParserInv, NEW next \in Leaving, Header(next), UNCHANGED <<correct, is_in_loop, is_in_switch, blocks>>,
           todo # <<>>, Head(todo)[1] \in Leaving
    PROVE  ParserInv'
<1>1. errors = TRUE \/ correct = TRUE
  BY HeadTrusted
<1>2. Head(todo)[1] \notin {"in_loop", "in_switch"} /\ Call(next)[1] \in Leaving
  BY DEF Leaving, Call
<1>3. Handed(<<Call(next)>>)
  BY <1>2 DEF Handed
<1>4. Common(Skip({";"}))
  BY DEF Skip, Common, Trusted, Flagged, Leaving, Holders
<1>5. Hands(<<Call(next)>>) \/ (Push(<<Skip({";"})>>) /\ errors' = TRUE)
  BY <1>1, <1>2 DEF Header, Consume, Stay, Fail, Hands
<1> QED BY <1>2, <1>3, <1>4, <1>5, CommonItems, HandingStep, LosingStep

LEMMA ForStep ==
    ASSUME ParserInv, parse_for_statement
    PROVE  ParserInv'
<1>1. errors = TRUE \/ correct = TRUE
  BY HeadTrusted
<1>2. /\ \A f \in Leaving : Handed(<<Call(f)>>)
      /\ \A f \in Leaving : \A g \in {"declaration", "expression"} : Handed(<<Call(g), Call(f)>>)
  <2>1. \A g \in {"declaration", "expression"} : Common(Call(g))
    BY DEF Call, Common, Trusted, Flagged, Leaving, Holders
  <2>2. \A f \in Leaving : Call(f)[1] \in Leaving
    BY DEF Call
  <2> QED BY <2>1, <2>2 DEF Handed
<1>3. AllCommon(<<Skip({";"})>>)
  <2>1. Common(Skip({";"}))
    BY DEF Skip, Common, Trusted, Flagged, Leaving, Holders
  <2> QED BY <2>1, CommonItems
<1>4. {"for_init", "for_init_end", "for_condition", "for_condition_end", "for_increment", "for_close",
       "for_body", "leave_block"} \subseteq Leaving
  BY DEF Leaving
<1>5. UNCHANGED correct
  BY DEF parse_for_statement
<1>6. CASE At("for")
  <2>1. /\ todo # <<>> /\ Head(todo)[1] = "for" /\ UNCHANGED <<is_in_loop, is_in_switch>> /\ blocks' = blocks + 1
        /\ Consume(<<Call("for_init")>>) \/ Fail(<<Skip({";"})>>)
    BY <1>6 DEF parse_for_statement, At
  <2>2. Head(todo)[1] \notin {"in_loop", "in_switch"} /\ Head(todo)[1] \notin Leaving
    BY <2>1 DEF Leaving
  <2>3. Hands(<<Call("for_init")>>) \/ (Push(<<Skip({";"})>>) /\ errors' = TRUE)
    BY <1>1, <1>5, <2>1, <2>2 DEF Consume, Fail, Hands
  <2> QED BY <1>2, <1>3, <1>4, <2>1, <2>2, <2>3, HandingStep, LosingStep
<1>7. CASE At("for_init_end") \/ At("for_condition_end")
  <2>1. /\ todo # <<>> /\ Head(todo)[1] \in {"for_init_end", "for_condition_end"} /\ UNCHANGED flags
        /\ \E next \in {"for_condition", "for_increment"} : Header(next)
    BY <1>7 DEF parse_for_statement, At
  <2>2. UNCHANGED <<correct, is_in_loop, is_in_switch, blocks>> /\ Head(todo)[1] \in Leaving
    BY <1>4, <1>5, <2>1 DEF flags
  <2> QED BY <1>4, <2>1, <2>2, HeaderStep
<1>8. CASE At("for_body")
  <2>1. LoopBody(<<Call("leave_block")>>) /\ todo # <<>> /\ Head(todo)[1] = "for_body"
    BY <1>8 DEF parse_for_statement, ForBody, At
  <2>2. Head(todo)[1] \in Leaving /\ Head(todo)[1] \notin {"in_loop", "in_switch"}
    BY <1>4, <2>1
  <2>3. PICK b : b = Call("leave_block")
    OBVIOUS
  <2>4. b[1] \notin {"in_loop", "in_switch"} /\ Trusted(b) /\ b[1] \in Leaving
    BY <2>3 DEF Call, Trusted, Holders, Leaving
  <2> QED BY <1>5, <2>1, <2>2, <2>3, <2>4, LoopStep
<1>9. CASE At("for_close")
  <2>1. /\ todo # <<>> /\ Head(todo)[1] = "for_close" /\ UNCHANGED flags
        /\ \/ ~correct /\ Stay(<<Skip({";"})>>)
           \/ correct /\ Consume(<<Call("for_body")>>)
           \/ Fail(<<Skip({";"})>>)
    BY <1>9 DEF parse_for_statement, At
  <2>2. Head(todo)[1] \notin {"in_loop", "in_switch"} /\ Head(todo)[1] \in Leaving
    BY <1>4, <2>1
  <2>3. Hands(<<Call("for_body")>>) \/ (Push(<<Skip({";"})>>) /\ errors' = TRUE)
    BY <1>1, <1>5, <2>1, <2>2 DEF Consume, Stay, Fail, Hands, flags
  <2>4. UNCHANGED <<is_in_loop, is_in_switch>>
    BY <2>1 DEF flags
  <2> QED BY <1>2, <1>3, <1>4, <2>1, <2>2, <2>3, <2>4, HandingStep, LosingStep
<1>10. CASE At("for_init") \/ At("for_condition") \/ At("for_increment")
  <2>1. /\ todo # <<>> /\ Head(todo)[1] \in {"for_init", "for_condition", "for_increment"} /\ UNCHANGED flags
        /\ \E f \in Leaving : \/ Consume(<<Call(f)>>)
                              \/ \E g \in {"declaration", "expression"} : Stay(<<Call(g), Call(f)>>)
    BY <1>4, <1>10 DEF parse_for_statement, At
  <2>2. Head(todo)[1] \notin {"in_loop", "in_switch"} /\ Head(todo)[1] \in Leaving
    BY <1>4, <2>1
  <2>3. \E f \in Leaving : \/ Hands(<<Call(f)>>)
                           \/ \E g \in {"declaration", "expression"} : Hands(<<Call(g), Call(f)>>)
    BY <1>1, <1>5, <2>1, <2>2 DEF Consume, Stay, Hands, flags
  <2> QED BY <1>2, <2>3, HandingStep
<1> QED BY <1>6, <1>7, <1>8, <1>9, <1>10 DEF parse_for_statement

LEMMA StatementsStep ==
    ASSUME ParserInv, Statements
    PROVE  ParserInv'
BY RestoreStep, LeaveBlockStep, ConditionStep, CompoundStep, SimpleStatementStep, SwitchStep, LoopsStep, ForStep
   DEF Statements

-----------------------------------------------------------------------------
(* The actions of the functions and of the external definitions *)

LEMMA FunctionDeclaratorStep ==
    ASSUME ParserInv, parse_function_declarator \/ SetFuncDef
    PROVE  ParserInv'
<1>1. errors = TRUE \/ correct = TRUE
  BY HeadTrusted
<1>2. /\ Common(Call("type_specifier")) /\ Common(Call("array_close"))
      /\ \A x : Common(Try(x)) /\ Common(Skip(x)) /\ Common(<<"func_def", x>>)
      /\ \A x, y : Common(<<"parameter", x, y>>) /\ Common(<<"parameter_star", x, y>>)
      /\ \A x, y, z : Common(<<"parameter_name", x, y, z>>)
      /\ \A x, y, z, u : /\ Common(<<"parameter_void", x, y, z, u>>) /\ Common(<<"parameter_array", x, y, z, u>>)
                         /\ Common(<<"parameter_function", x, y, z, u>>)
  BY DEF Call, Try, Skip, Common, Trusted, Flagged, Leaving, Holders
<1>3. CASE SetFuncDef
  <2>1. Does(<<>>)
    BY <1>1, <1>3 DEF SetFuncDef, Stay, At, Does, Flagged, Leaving
  <2> QED BY <2>1, CommonItems, OrdinaryStep
<1>4. CASE parse_function_declarator /\ (At("function_declarator") \/ At("parameter") \/ At("parameter_star"))
  <2>1. \/ Does(<<<<"func_def", 0>>>>) \/ Does(<<<<"parameter", Arg(1), Arg(2)>>>>)
        \/ Does(<<Call("type_specifier"), <<"parameter_star", Arg(1), Arg(2)>>>>)
        \/ Does(<<Try("const"), <<"parameter_name", Arg(1), Arg(2), 1>>>>)
        \/ Does(<<<<"parameter_name", Arg(1), Arg(2), 0>>>>)
    BY <1>1, <1>4 DEF parse_function_declarator, Consume, Stay, At, Does, flags, Flagged, Leaving
  <2> QED BY <1>2, <2>1, CommonItems, OrdinaryStep
<1>5. CASE parse_function_declarator /\ (At("parameter_name") \/ At("parameter_void") \/ At("array_close"))
  <2>1. \/ \E x : Does(<<<<"parameter_void", Arg(1), Arg(2), Arg(3), x>>>>)
        \/ Does(<<Skip({")", ";"}), Try(")")>>)
        \/ Does(<<<<"parameter_array", Arg(1), Arg(2), Arg(3), Arg(4)>>>>)
        \/ Does(<<>>) \/ Does(<<Skip({"]", ",", ")", ";"}), Try("]")>>)
    BY <1>1, <1>5 DEF parse_function_declarator, Consume, Stay, Fail, At, Does, flags, Flagged, Leaving
  <2> QED BY <1>2, <2>1, CommonItems, OrdinaryStep
<1>6. CASE parse_function_declarator /\ At("parameter_array")
  <2>1. PICK again : again = <<<<"parameter_array", Arg(1), Arg(2), 2, Arg(4)>>>>
    OBVIOUS
  <2>2. AllCommon(<<Call("array_close")>> \o again)
    BY <1>2, <2>1, CommonItems, CommonJoin
  <2>3. \/ Does(<<Call("array_close")>> \o again)
        \/ Does(<<<<"parameter_function", Arg(1), Arg(2), Arg(3), Arg(4)>>>>)
    BY <1>1, <1>6, <2>1 DEF parse_function_declarator, Consume, Stay, At, Does, flags, Flagged, Leaving
  <2> QED BY <1>2, <2>2, <2>3, CommonItems, OrdinaryStep
<1> QED BY <1>3, <1>4, <1>5, <1>6 DEF parse_function_declarator

LEMMA FunctionParameterStep ==
    ASSUME ParserInv, parse_function_parameter
    PROVE  ParserInv'
<1>1. errors = TRUE \/ correct = TRUE
  BY HeadTrusted
<1>2. /\ Common(Call("parameter_error"))
      /\ \A x : Common(Expect(x)) /\ Common(Skip(x)) /\ Common(<<"func_def", x>>)
      /\ \A x, y : Common(<<"function_declarator", x, y>>)
      /\ \A x, y, z : Common(<<"parameter_end", x, y, z>>)
      /\ \A x, y, z, u : Common(<<"function_name", x, y, z, u>>)
  BY DEF Call, Expect, Skip, Common, Trusted, Flagged, Leaving, Holders
<1>3. CASE At("parameter_function") \/ At("parameter_error")
  <2>1. \/ Does(<<Expect("*"), <<"function_name", Arg(1), Arg(2), Arg(3), Arg(4)>>>>)
        \/ Does(<<<<"parameter_end", Arg(1), Arg(2), Arg(4)>>>>) \/ Does(<<>>)
    BY <1>1, <1>3 DEF parse_function_parameter, Consume, Stay, Fail, At, Does, flags, Flagged, Leaving
  <2> QED BY <1>2, <2>1, CommonItems, OrdinaryStep
<1>4. CASE At("function_name")
  <2> DEFINE recovery == IF Arg(3) = 0 THEN <<>> ELSE <<Call("parameter_error"), Skip({",", ")", ";"})>>
  <2> DEFINE rest(named) == <<Expect(")"), Expect("(")>> \o recovery
                 \o << <<"function_declarator", 0, 2>>, <<"func_def", func_def>>,
                       <<"parameter_end", Arg(1), Arg(2), named>> >>
  <2>1. AllCommon(recovery)
    BY <1>2, CommonItems
  <2>2. \A named : AllCommon(rest(named))
    <3> SUFFICES ASSUME NEW named PROVE AllCommon(rest(named))
      OBVIOUS
    <3>1. PICK a, b : /\ a = <<Expect(")"), Expect("(")>>
                      /\ b = << <<"function_declarator", 0, 2>>, <<"func_def", func_def>>,
                                <<"parameter_end", Arg(1), Arg(2), named>> >>
      OBVIOUS
    <3>2. AllCommon(a) /\ AllCommon(b)
      BY <1>2, <3>1, CommonItems
    <3> HIDE DEF recovery
    <3>3. AllCommon(a \o recovery)
      BY <2>1, <3>2, CommonJoin
    <3>4. AllCommon((a \o recovery) \o b)
      BY <3>2, <3>3, CommonJoin
    <3> QED BY <3>1, <3>4
  <2>3. \/ Does(<<>>) \/ \E named : Does(rest(named))
    BY <1>1, <1>4 DEF parse_function_parameter, Consume, Stay, Fail, At, Does, flags, Flagged, Leaving
  <2> HIDE DEF rest
  <2> QED BY <2>2, <2>3, CommonItems, OrdinaryStep
<1> QED BY <1>3, <1>4 DEF parse_function_parameter

LEMMA ParameterEndStep ==
    ASSUME ParserInv, parse_parameter_end
    PROVE  ParserInv'
<1>1. errors = TRUE \/ correct = TRUE
  BY HeadTrusted
<1>2. /\ Common(Call("skip_braces"))
      /\ \A x : Common(Expect(x)) /\ Common(Skip(x)) /\ Common(Try(x)) /\ Common(<<"func_def", x>>)
      /\ \A x, y : Common(<<"more_parameters", x, y>>) /\ Common(<<"parameter", x, y>>)
  BY DEF Call, Expect, Skip, Try, Common, Trusted, Flagged, Leaving, Holders
<1>3. \/ \E x, y : Does(<<<<"more_parameters", x, y>>>>) \/ Does(<<<<"parameter", x, y>>>>)
      \/ \E x : Does(<<Skip(x), Call("skip_braces")>>) \/ Does(<<Skip(x)>>)
      \/ Does(<<Skip({"}"}), Try("}")>>) \/ Does(<<>>)
      \/ Does(<<Expect(")"), <<"func_def", Arg(2)>>>>)
  BY <1>1 DEF parse_parameter_end, Consume, Stay, Fail, At, Does, flags, Flagged, Leaving
<1> QED BY <1>2, <1>3, CommonItems, OrdinaryStep

LEMMA SkipBodyCommon == AllCommon(SkipBody)
<1>1. Common(Skip({"}"})) /\ Common(Try("}"))
  BY DEF Skip, Try, Common, Trusted, Flagged, Leaving, Holders
<1> QED BY <1>1, CommonItems DEF SkipBody

LEMMA FunctionStep ==
    ASSUME ParserInv, parse_function_definition \/ parse_function_declaration
    PROVE  ParserInv'
<1>1. errors = TRUE \/ correct = TRUE
  BY HeadTrusted
<1>2. CASE parse_function_definition
  <2>1. Common(Call("compound_body")) /\ Call("leave_block")[1] \in Leaving
    BY DEF Call, Common, Trusted, Flagged, Leaving, Holders
  <2>2. Handed(<<Call("compound_body"), Call("leave_block")>>)
    BY <2>1 DEF Handed
  <2>3. Does(SkipBody) \/ Hands(<<Call("compound_body"), Call("leave_block")>>)
    BY <1>1, <1>2 DEF parse_function_definition, Consume, Fail, At, Does, Hands, Flagged, Leaving
  <2> QED BY <2>2, <2>3, SkipBodyCommon, OrdinaryStep, HandingStep
<1>3. CASE parse_function_declaration
  <2>1. /\ \A f \in {"consume_token", "function_rest", "function_definition"} : Common(Call(f))
        /\ Common(<<"function_declarator", 1, 3>>) /\ Common(Try(";"))
    BY DEF Call, Try, Common, Trusted, Flagged, Leaving, Holders
  <2>2. \/ Does(<<Call("consume_token"), <<"function_declarator", 1, 3>>, Call("function_rest")>>)
        \/ Does(<<Call("function_definition")>>) \/ Does(SkipBody) \/ Does(<<Try(";")>>) \/ Does(<<>>)
    BY <1>1, <1>3 DEF parse_function_declaration, Consume, Stay, Fail, At, Does, Flagged, Leaving
  <2> QED BY <2>1, <2>2, CommonItems, SkipBodyCommon, OrdinaryStep
<1> QED BY <1>2, <1>3

LEMMA ExternalStep ==
    ASSUME ParserInv, parse_external_definition \/ parse_translation_unit
    PROVE  ParserInv'
<1>1. errors = TRUE \/ correct = TRUE
  BY HeadTrusted
<1>2. /\ \A f \in {"type_specifier", "group", "function_declaration", "init_declarator",
                   "external_definition"} : Common(Call(f))
      /\ \A x : /\ Common(<<"external", x>>) /\ Common(<<"more_externals", x>>) /\ Common(<<"external_name", x>>)
                /\ Common(Skip(x)) /\ Common(Expect(x))
  BY DEF Call, Skip, Expect, Common, Trusted, Flagged, Leaving, Holders
<1>3. At("more_externals") \/ At("translation_unit") => Common(Head(todo))
  BY DEF At, Common, Trusted, Flagged, Leaving, Holders
<1>4. CASE parse_external_definition
  <2>1. \/ Does(<<Call("type_specifier"), Call("group")>>)
        \/ Does(<<>>) \/ Does(<<<<"external", type>>, <<"more_externals", type>>>>)
        \/ Does(<<<<"external_name", Arg(1)>>>>)
        \/ Does(<<Call("function_declaration")>>) \/ Does(<<Call("init_declarator")>>)
        \/ Does(<<Skip({",", ";"})>>)
        \/ At("more_externals") /\ Does(<<<<"external", Arg(1)>>, Head(todo)>>)
        \/ Does(<<Expect(";")>>)
    BY <1>1, <1>4 DEF parse_external_definition, NoDeclarator, Consume, Stay, Fail, At, Does, Flagged, Leaving
  <2> QED BY <1>2, <1>3, <2>1, CommonItems, OrdinaryStep
<1>5. CASE parse_translation_unit
  <2>1. Does(<<>>) \/ (At("translation_unit") /\ Does(<<Call("external_definition"), Head(todo)>>))
    BY <1>1, <1>5 DEF parse_translation_unit, Stay, At, Does, flags, Flagged, Leaving
  <2> QED BY <1>2, <1>3, <2>1, CommonItems, OrdinaryStep
<1> QED BY <1>4, <1>5

LEMMA DefinitionsStep ==
    ASSUME ParserInv, Definitions
    PROVE  ParserInv'
BY FunctionDeclaratorStep, FunctionParameterStep, ParameterEndStep, FunctionStep, ExternalStep DEF Definitions

-----------------------------------------------------------------------------
(* The theorems *)

LEMMA InitParserInv ==
    ASSUME Init
    PROVE  ParserInv
<1>1. PICK a, b : a = Call("external_definition") /\ b = Call("translation_unit")
  OBVIOUS
<1>2. todo = <<a, b>>
  BY <1>1 DEF Init
<1>3. <<a, b>> \in Seq({a, b}) /\ Len(<<a, b>>) = 2 /\ <<a, b>>[1] = a /\ <<a, b>>[2] = b
  OBVIOUS
<1>4. \A i \in 1..2 : i = 1 \/ i = 2
  OBVIOUS
<1>5. \A i \in 1..Len(todo) : /\ todo[i][1] \notin {"in_loop", "in_switch"} /\ todo[i][1] \notin Leaving
                              /\ Trusted(todo[i])
  BY <1>1, <1>2, <1>3, <1>4 DEF Call, Trusted, Holders, Leaving
<1>6. IsStack(todo)
  BY <1>2, <1>3 DEF IsStack
<1>7. ~Below(todo, "in_loop", 0) /\ ~Below(todo, "in_switch", 0)
  BY <1>2, <1>3, <1>5 DEF Below
<1>8. Nested(todo, "in_loop", is_in_loop) /\ Nested(todo, "in_switch", is_in_switch)
  BY <1>5, <1>7 DEF Init, Nested, Tells
<1>9. Leaves(todo) = {}
  BY <1>5 DEF Leaves
<1>10. Clean(todo, correct, blocks)
  BY <1>5, <1>9, FS_EmptySet DEF Init, Clean
<1> QED BY <1>6, <1>8, <1>10 DEF Init, ParserInv

LEMMA NextParserInv ==
    ASSUME ParserInv, [Next]_vars
    PROVE  ParserInv'
<1>1. CASE Tokens
  BY <1>1, TokensStep
<1>2. CASE Expressions
  BY <1>2, ExpressionsStep
<1>3. CASE Declarations
  BY <1>3, DeclarationsStep
<1>4. CASE Statements
  BY <1>4, StatementsStep
<1>5. CASE Definitions
  BY <1>5, DefinitionsStep
<1>6. CASE UNCHANGED vars
  BY <1>6 DEF vars, ParserInv
<1> QED BY <1>1, <1>2, <1>3, <1>4, <1>5, <1>6 DEF Next

LEMMA ParserInvExact ==
    ASSUME ParserInv
    PROVE  NestingExact /\ BrokenReported
<1>1. PICK s : s = todo
  OBVIOUS
<1>2. Len(s) \in Nat
  BY <1>1 DEF ParserInv, IsStack
<1>3. \A f : Pending({f}) # {} <=> Below(s, f, 0)
  <2> SUFFICES ASSUME NEW f PROVE Pending({f}) # {} <=> Below(s, f, 0)
    OBVIOUS
  <2>1. \A j : j \in 1..Len(s) <=> j \in 0 + 1..Len(s)
    BY <1>2
  <2> QED BY <1>1, <2>1 DEF Pending, Below
<1>4. Tells(is_in_loop, Below(s, "in_loop", 0)) /\ Tells(is_in_switch, Below(s, "in_switch", 0))
  BY <1>1 DEF ParserInv, Nested
<1>5. is_in_loop = (Pending({"in_loop"}) # {})
  <2>1. (is_in_loop = TRUE /\ Pending({"in_loop"}) # {}) \/ (is_in_loop = FALSE /\ ~(Pending({"in_loop"}) # {}))
    BY <1>3, <1>4 DEF Tells
  <2> QED BY ONLY <2>1
<1>6. is_in_switch = (Pending({"in_switch"}) # {})
  <2>1. (is_in_switch = TRUE /\ Pending({"in_switch"}) # {}) \/ (is_in_switch = FALSE /\ ~(Pending({"in_switch"}) # {}))
    BY <1>3, <1>4 DEF Tells
  <2> QED BY ONLY <2>1
<1>7. Pending(Leaving) = Leaves(s)
  BY <1>1 DEF Pending, Leaves
<1>8. errors = TRUE \/ (errors = FALSE /\ correct = TRUE /\ blocks = Cardinality(Pending(Leaving)))
  BY <1>1, <1>7 DEF ParserInv, Clean
<1>9. NestingExact
  BY <1>5, <1>6, <1>8 DEF NestingExact
<1>10. BrokenReported
  BY <1>8 DEF BrokenReported
<1> QED BY <1>9, <1>10

\* The invariant the two theorems rest on: the values saved on the call stack
\* are what the locals of the waiting parse functions are.
THEOREM StackTellsNesting == Spec => []ParserInv
<1>1. Init => ParserInv
  BY InitParserInv
<1>2. ParserInv /\ [Next]_vars => ParserInv'
  BY NextParserInv
<1> QED BY <1>1, <1>2, PTL DEF Spec

\* A break or continue is accepted in a loop's body (or a switch's) only, and
\* until an error the scopes entered are those of the statements being read:
\* no parse function leaves is_in_loop, is_in_switch or the scopes wrong,
\* whatever path it returns by.
THEOREM ParserKnowsItsPlace == Spec => []NestingExact
<1>1. ParserInv => NestingExact
  BY ParserInvExact
<1> QED BY <1>1, StackTellsNesting, PTL

\* A node that is not correct was reported: no parse function makes one or
\* saves one without an error.
THEOREM BrokenNodesAreReported == Spec => []BrokenReported
<1>1. ParserInv => BrokenReported
  BY ParserInvExact
<1> QED BY <1>1, StackTellsNesting, PTL

-----------------------------------------------------------------------------
(***************************************************************************)
(* The brackets of an accepted source.                                     *)
(*                                                                         *)
(* Runs says what each waiting call does to the brackets that are open     *)
(* when no error is reported: it closes the bracket its caller has taken,  *)
(* or leaves them as they are.  Path says the same of the whole stack.     *)
(***************************************************************************)
Opening == {"(", "[", "{"}
Closing == {")", "]", "}"}

\* Brackets that are open where a call begins; a call that is reached with an
\* error only begins with Unreached.
Stacks == Seq(Opening \cup {"none"})
Unreached == <<"none">>

ParenClosers == {"close_paren", "call", "arguments", "function_declarator", "parameter", "parameter_star",
                 "parameter_name", "parameter_void", "parameter_array", "parameter_function", "parameter_end",
                 "more_parameters", "close_condition", "for_init", "for_init_end", "for_condition",
                 "for_condition_end", "for_increment", "for_close"}
SquareClosers == {"index", "array_close", "bound_start", "bound"}
BraceClosers == {"initializers", "close_initializer", "members", "enum_first", "enumerator", "enum_value",
                 "enum_constant", "enum_comma", "enum_more", "compound_body"}

\* Calls that follow an error, or report one.
Recovering == {"skip_until", "broken", "skip_braces"}

\* Calls that are made at once, for the token that was seen.
Immediate == {"consume_token", "compound", "function_definition", "function_declaration"}

Levels == {"RHS", "tail", "operand", "colon"}
Special == ParenClosers \cup SquareClosers \cup BraceClosers \cup Recovering \cup Immediate \cup Levels
           \cup {"function_name", "expect_and_consume", "try_consume_token", "parameter_error"}

ExpectRuns(t, a, b) ==
    \/ t = ")" /\ a = Append(b, "(")
    \/ t = "(" /\ b = Append(a, "(")
    \/ t \in {";", "*", ":", ","} /\ a = b

ImmediateRuns(t, a, b, k, ah) ==
    \/ t = "consume_token" /\ k \in Identifiers /\ a = b
    \/ t = "consume_token" /\ k = "(" /\ b = Append(a, "(")
    \/ t \in {"compound", "function_definition"} /\ k = "{" /\ a = b
    \/ t = "function_declaration" /\ k \in Identifiers /\ ah = "(" /\ a = b

LevelRuns(t) ==
    /\ t[1] = "RHS" => t[2] \in Nat \ {0}
    /\ t[1] = "tail" => t[2] \in Nat
    /\ t[1] = "operand" => t[2] \in Nat /\ t[4] \in Nat \ {0}
    /\ t[1] = "colon" => t[3] \in Nat \ {0}

\* A call of t that begins with brackets a ends with brackets b; k and ah are
\* the current token and the one after it.
Runs(t, a, b, k, ah) ==
    /\ t[1] \in ParenClosers => a = Append(b, "(")
    /\ t[1] \in SquareClosers => a = Append(b, "[")
    /\ t[1] \in BraceClosers => a = Append(b, "{")
    /\ t[1] = "function_name" => a = Append(Append(b, "("), "(")
    /\ t[1] = "expect_and_consume" => ExpectRuns(t[2], a, b)
    /\ t[1] = "try_consume_token" => (t[2] = "const" /\ a = b) \/ (t[2] # "const" /\ a = Unreached)
    /\ t[1] \in Recovering => a = Unreached
    /\ t[1] \in Immediate => ImmediateRuns(t[1], a, b, k, ah)
    /\ t[1] \in Levels => a = b /\ LevelRuns(t)
    /\ t[1] \notin Special => a = b

Free(s) == \A i \in 1..Len(s) : s[i][1] \notin Immediate

Path(s, a, b, k, ah) ==
    /\ IsStack(s) /\ \A i \in 2..Len(s) : s[i][1] \notin Immediate
    /\ \E W \in [0..Len(s) -> Stacks] :
          /\ W[0] = a /\ W[Len(s)] = b
          /\ \A i \in 1..Len(s) : Runs(s[i], W[i - 1], W[i], k, ah)

\* As long as no error is reported, the calls that wait close what is open.
Balanced ==
    /\ open \in Seq(Opening) /\ type # "undefined"
    /\ Path(todo, open, <<>>, tk, ahead)

BalanceInv == ParserInv /\ (errors = TRUE \/ Balanced)

-----------------------------------------------------------------------------
(* What the items do *)

LEMMA PlainRuns ==
    ASSUME NEW t, t[1] \notin Special, NEW a, NEW b, NEW k, NEW ah
    PROVE  Runs(t, a, b, k, ah) <=> a = b
BY DEF Runs, Special

LEMMA ParenRuns ==
    ASSUME NEW t, t[1] \in ParenClosers, NEW a, NEW b, NEW k, NEW ah
    PROVE  Runs(t, a, b, k, ah) <=> a = Append(b, "(")
<1>1. /\ t[1] \notin SquareClosers \cup BraceClosers \cup Recovering \cup Immediate \cup Levels
      /\ t[1] \notin {"function_name", "expect_and_consume", "try_consume_token"} /\ t[1] \in Special
  BY DEF ParenClosers, SquareClosers, BraceClosers, Recovering, Immediate, Levels, Special
<1> QED BY <1>1 DEF Runs

LEMMA SquareRuns ==
    ASSUME NEW t, t[1] \in SquareClosers, NEW a, NEW b, NEW k, NEW ah
    PROVE  Runs(t, a, b, k, ah) <=> a = Append(b, "[")
<1>1. /\ t[1] \notin ParenClosers \cup BraceClosers \cup Recovering \cup Immediate \cup Levels
      /\ t[1] \notin {"function_name", "expect_and_consume", "try_consume_token"} /\ t[1] \in Special
  BY DEF ParenClosers, SquareClosers, BraceClosers, Recovering, Immediate, Levels, Special
<1> QED BY <1>1 DEF Runs

LEMMA BraceRuns ==
    ASSUME NEW t, t[1] \in BraceClosers, NEW a, NEW b, NEW k, NEW ah
    PROVE  Runs(t, a, b, k, ah) <=> a = Append(b, "{")
<1>1. /\ t[1] \notin ParenClosers \cup SquareClosers \cup Recovering \cup Immediate \cup Levels
      /\ t[1] \notin {"function_name", "expect_and_consume", "try_consume_token"} /\ t[1] \in Special
  BY DEF ParenClosers, SquareClosers, BraceClosers, Recovering, Immediate, Levels, Special
<1> QED BY <1>1 DEF Runs

LEMMA LevelsRuns ==
    ASSUME NEW t, t[1] \in Levels, NEW a, NEW b, NEW k, NEW ah
    PROVE  Runs(t, a, b, k, ah) <=> a = b /\ LevelRuns(t)
<1>1. /\ t[1] \notin ParenClosers \cup SquareClosers \cup BraceClosers \cup Recovering \cup Immediate
      /\ t[1] \notin {"function_name", "expect_and_consume", "try_consume_token"} /\ t[1] \in Special
  BY DEF ParenClosers, SquareClosers, BraceClosers, Recovering, Immediate, Levels, Special
<1> QED BY <1>1 DEF Runs

LEMMA ImmediatelyRuns ==
    ASSUME NEW t, t[1] \in Immediate, NEW a, NEW b, NEW k, NEW ah
    PROVE  Runs(t, a, b, k, ah) <=> ImmediateRuns(t[1], a, b, k, ah)
<1>1. /\ t[1] \notin ParenClosers \cup SquareClosers \cup BraceClosers \cup Recovering \cup Levels
      /\ t[1] \notin {"function_name", "expect_and_consume", "try_consume_token"} /\ t[1] \in Special
  BY DEF ParenClosers, SquareClosers, BraceClosers, Recovering, Immediate, Levels, Special
<1> QED BY <1>1 DEF Runs

LEMMA RecoveringRuns ==
    ASSUME NEW t, t[1] \in Recovering, NEW a, NEW b, NEW k, NEW ah
    PROVE  Runs(t, a, b, k, ah) <=> a = Unreached
<1>1. /\ t[1] \notin ParenClosers \cup SquareClosers \cup BraceClosers \cup Immediate \cup Levels
      /\ t[1] \notin {"function_name", "expect_and_consume", "try_consume_token"} /\ t[1] \in Special
  BY DEF ParenClosers, SquareClosers, BraceClosers, Recovering, Immediate, Levels, Special
<1> QED BY <1>1 DEF Runs

LEMMA OtherRuns ==
    ASSUME NEW t, NEW a, NEW b, NEW k, NEW ah
    PROVE  /\ t[1] = "function_name" => (Runs(t, a, b, k, ah) <=> a = Append(Append(b, "("), "("))
           /\ t[1] = "expect_and_consume" => (Runs(t, a, b, k, ah) <=> ExpectRuns(t[2], a, b))
           /\ t[1] = "try_consume_token" =>
                  (Runs(t, a, b, k, ah) <=> (t[2] = "const" /\ a = b) \/ (t[2] # "const" /\ a = Unreached))
           /\ t[1] = "parameter_error" => Runs(t, a, b, k, ah)
<1>1. ASSUME t[1] \in {"function_name", "expect_and_consume", "try_consume_token", "parameter_error"}
      PROVE  /\ t[1] \notin ParenClosers \cup SquareClosers \cup BraceClosers \cup Recovering \cup Immediate \cup Levels
             /\ t[1] \in Special
  BY <1>1 DEF ParenClosers, SquareClosers, BraceClosers, Recovering, Immediate, Levels, Special
<1>2. CASE t[1] = "function_name"
  BY <1>1, <1>2 DEF Runs
<1>3. CASE t[1] = "expect_and_consume"
  BY <1>1, <1>3 DEF Runs
<1>4. CASE t[1] = "try_consume_token"
  BY <1>1, <1>4 DEF Runs
<1>5. CASE t[1] = "parameter_error"
  BY <1>1, <1>5 DEF Runs
<1> QED BY <1>2, <1>3, <1>4, <1>5

\* Only the calls made at once depend on the tokens.
LEMMA RunsFree ==
    ASSUME NEW t, t[1] \notin Immediate, NEW a, NEW b, NEW k, NEW ah, NEW k2, NEW ah2, Runs(t, a, b, k, ah)
    PROVE  Runs(t, a, b, k2, ah2)
BY DEF Runs

-----------------------------------------------------------------------------
(* Lemmas about the paths *)

LEMMA PathNone ==
    ASSUME NEW a \in Stacks, NEW k, NEW ah
    PROVE  Path(<<>>, a, a, k, ah)
<1>1. IsStack(<<>>)
  <2>1. <<>> \in Seq({})
    OBVIOUS
  <2> QED BY <2>1 DEF IsStack
<1>2. Len(<<>>) = 0
  OBVIOUS
<1>3. PICK W : W = [i \in 0..0 |-> a]
  OBVIOUS
<1>4. W \in [0..0 -> Stacks] /\ W[0] = a
  BY <1>3
<1>5. 1..0 = {} /\ 2..0 = {}
  OBVIOUS
<1> QED BY <1>1, <1>2, <1>4, <1>5 DEF Path

LEMMA PathOne ==
    ASSUME NEW t, NEW a \in Stacks, NEW b \in Stacks, NEW k, NEW ah, Runs(t, a, b, k, ah)
    PROVE  Path(<<t>>, a, b, k, ah)
<1>1. <<t>> \in Seq({t}) /\ Len(<<t>>) = 1 /\ <<t>>[1] = t
  OBVIOUS
<1>2. PICK W : W = [i \in 0..1 |-> IF i = 0 THEN a ELSE b]
  OBVIOUS
<1>3. W \in [0..1 -> Stacks] /\ W[0] = a /\ W[1] = b
  BY <1>2
<1>4. 2..1 = {} /\ \A i \in 1..1 : i = 1 /\ i - 1 = 0
  OBVIOUS
<1>5. \A i \in 1..1 : Runs(<<t>>[i], W[i - 1], W[i], k, ah)
  BY <1>1, <1>3, <1>4
<1> QED BY <1>1, <1>3, <1>4, <1>5 DEF Path, IsStack

LEMMA PathTwo ==
    ASSUME NEW t, NEW u, NEW a \in Stacks, NEW c \in Stacks, NEW b \in Stacks, NEW k, NEW ah,
           Runs(t, a, c, k, ah), Runs(u, c, b, k, ah), u[1] \notin Immediate
    PROVE  Path(<<t, u>>, a, b, k, ah)
<1>1. <<t, u>> \in Seq({t, u}) /\ Len(<<t, u>>) = 2 /\ <<t, u>>[1] = t /\ <<t, u>>[2] = u
  OBVIOUS
<1>2. PICK W : W = [i \in 0..2 |-> IF i = 0 THEN a ELSE IF i = 1 THEN c ELSE b]
  OBVIOUS
<1>3. W \in [0..2 -> Stacks] /\ W[0] = a /\ W[1] = c /\ W[2] = b
  BY <1>2
<1>4. (\A i \in 2..2 : i = 2) /\ \A i \in 1..2 : (i = 1 /\ i - 1 = 0) \/ (i = 2 /\ i - 1 = 1)
  OBVIOUS
<1>5. \A i \in 1..2 : Runs(<<t, u>>[i], W[i - 1], W[i], k, ah)
  BY <1>1, <1>3, <1>4
<1>6. \A i \in 2..2 : <<t, u>>[i][1] \notin Immediate
  BY <1>1, <1>4
<1> QED BY <1>1, <1>3, <1>5, <1>6 DEF Path, IsStack

LEMMA PathThree ==
    ASSUME NEW t, NEW u, NEW v, NEW a \in Stacks, NEW c \in Stacks, NEW d \in Stacks, NEW b \in Stacks,
           NEW k, NEW ah, u[1] \notin Immediate, v[1] \notin Immediate,
           Runs(t, a, c, k, ah), Runs(u, c, d, k, ah), Runs(v, d, b, k, ah)
    PROVE  Path(<<t, u, v>>, a, b, k, ah)
<1>1. /\ <<t, u, v>> \in Seq({t, u, v}) /\ Len(<<t, u, v>>) = 3
      /\ <<t, u, v>>[1] = t /\ <<t, u, v>>[2] = u /\ <<t, u, v>>[3] = v
  OBVIOUS
<1>2. PICK W : W = [i \in 0..3 |-> IF i = 0 THEN a ELSE IF i = 1 THEN c ELSE IF i = 2 THEN d ELSE b]
  OBVIOUS
<1>3. W \in [0..3 -> Stacks] /\ W[0] = a /\ W[1] = c /\ W[2] = d /\ W[3] = b
  BY <1>2
<1>4. /\ \A i \in 2..3 : i = 2 \/ i = 3
      /\ \A i \in 1..3 : (i = 1 /\ i - 1 = 0) \/ (i = 2 /\ i - 1 = 1) \/ (i = 3 /\ i - 1 = 2)
  OBVIOUS
<1>5. \A i \in 1..3 : Runs(<<t, u, v>>[i], W[i - 1], W[i], k, ah)
  BY <1>1, <1>3, <1>4
<1>6. \A i \in 2..3 : <<t, u, v>>[i][1] \notin Immediate
  BY <1>1, <1>4
<1> QED BY <1>1, <1>3, <1>5, <1>6 DEF Path, IsStack

LEMMA PathJoin ==
    ASSUME NEW s, NEW t, NEW a, NEW c, NEW b, NEW k, NEW ah,
           Path(s, a, c, k, ah), Path(t, c, b, k, ah), Free(t)
    PROVE  Path(s \o t, a, b, k, ah)
<1>1. PICK S, T : s \in Seq(S) /\ t \in Seq(T)
  BY DEF Path, IsStack
<1>2. PICK U : U = S \cup T
  OBVIOUS
<1>3. s \in Seq(U) /\ t \in Seq(U)
  BY <1>1, <1>2
<1>4. PICK r : r = s \o t
  OBVIOUS
<1>5. /\ r \in Seq(U) /\ Len(r) = Len(s) + Len(t) /\ Len(s) \in Nat /\ Len(t) \in Nat
      /\ \A i \in 1..Len(s) : r[i] = s[i]
      /\ \A i \in 1..Len(t) : r[Len(s) + i] = t[i]
  <2>1. /\ s \o t \in Seq(U) /\ Len(s \o t) = Len(s) + Len(t) /\ Len(s) \in Nat
        /\ \A i \in 1..Len(s) : (s \o t)[i] = s[i]
        /\ \A i \in 1..Len(t) : (s \o t)[Len(s) + i] = t[i]
    BY ONLY <1>3, ConcatItems
  <2>2. Len(t) \in Nat
    BY <1>3
  <2> QED BY <1>4, <2>1, <2>2
<1>6. PICK V \in [0..Len(s) -> Stacks] :
          /\ V[0] = a /\ V[Len(s)] = c /\ \A i \in 1..Len(s) : Runs(s[i], V[i - 1], V[i], k, ah)
  BY DEF Path
<1>7. PICK W \in [0..Len(t) -> Stacks] :
          /\ W[0] = c /\ W[Len(t)] = b /\ \A i \in 1..Len(t) : Runs(t[i], W[i - 1], W[i], k, ah)
  BY DEF Path
<1>8. PICK m, n : m = Len(s) /\ n = Len(t)
  OBVIOUS
<1>9. PICK X : X = [i \in 0..m + n |-> IF i <= m THEN V[i] ELSE W[i - m]]
  OBVIOUS
<1>10. m \in Nat /\ n \in Nat /\ \A i \in 0..m + n : X[i] = IF i <= m THEN V[i] ELSE W[i - m]
  BY <1>5, <1>8, <1>9
<1>11. ASSUME NEW i \in 0..m + n PROVE X[i] \in Stacks
  <2>1. CASE i <= m
    <3>1. i \in 0..Len(s) /\ X[i] = V[i]
      BY <1>8, <1>10, <2>1
    <3> QED BY <1>6, <3>1
  <2>2. CASE ~(i <= m)
    <3>1. i - m \in 0..n
      BY <1>10, <2>2
    <3> QED BY <1>7, <1>8, <1>10, <2>2, <3>1
  <2> QED BY <2>1, <2>2
<1>12. X \in [0..m + n -> Stacks]
  BY <1>9, <1>11
<1>13. X[0] = a
  BY <1>6, <1>10
<1>14. X[m + n] = b
  <2>1. CASE n = 0
    BY <1>6, <1>7, <1>8, <1>10, <2>1
  <2>2. CASE n # 0
    <3>1. ~(m + n <= m) /\ m + n - m = n /\ m + n \in 0..m + n
      BY <1>10, <2>2
    <3> QED BY <1>7, <1>8, <1>10, <3>1
  <2> QED BY <2>1, <2>2
<1>15. ASSUME NEW i \in 1..m + n PROVE Runs(r[i], X[i - 1], X[i], k, ah)
  <2>1. CASE i <= m
    <3>1. i \in 1..Len(s) /\ X[i - 1] = V[i - 1] /\ X[i] = V[i] /\ r[i] = s[i]
      BY <1>5, <1>8, <1>10, <2>1
    <3> QED BY <1>6, <3>1
  <2>2. CASE ~(i <= m)
    <3>1. PICK j \in 1..n : i = m + j
      <4>1. i - m \in 1..n /\ i = m + (i - m)
        BY <1>10, <2>2
      <4> QED BY <4>1
    <3>2. r[i] = t[j] /\ X[i] = W[j]
      <4>1. i - m = j /\ i \in 0..m + n
        BY <1>10, <3>1
      <4> QED BY <1>5, <1>8, <1>10, <2>2, <3>1, <4>1
    <3>3. X[i - 1] = W[j - 1]
      <4>1. CASE j = 1
        <5>1. i - 1 = m /\ j - 1 = 0 /\ m \in 0..m + n /\ m <= m
          BY <1>10, <3>1, <4>1
        <5> QED BY <1>6, <1>7, <1>8, <1>10, <5>1
      <4>2. CASE j # 1
        <5>1. i - 1 \in 0..m + n /\ ~(i - 1 <= m) /\ i - 1 - m = j - 1
          BY <1>10, <3>1, <4>2
        <5> QED BY <1>10, <5>1
      <4> QED BY <4>1, <4>2
    <3> QED BY <1>7, <1>8, <3>1, <3>2, <3>3
  <2> QED BY <2>1, <2>2
<1>16. ASSUME NEW i \in 2..m + n PROVE r[i][1] \notin Immediate
  <2>1. CASE i <= m
    BY <1>5, <1>8, <2>1 DEF Path
  <2>2. CASE ~(i <= m)
    <3>1. PICK j \in 1..n : i = m + j
      <4>1. i - m \in 1..n /\ i = m + (i - m)
        BY <1>10, <2>2
      <4> QED BY <4>1
    <3> QED BY <1>5, <1>8, <3>1 DEF Free
  <2> QED BY <2>1, <2>2
<1>17. IsStack(r) /\ Len(r) = m + n
  BY <1>5, <1>8 DEF IsStack
<1>18. Path(r, a, b, k, ah)
  BY <1>12, <1>13, <1>14, <1>15, <1>16, <1>17 DEF Path
<1> QED BY <1>4, <1>18

\* The first call, and what is left when it returns, whatever the tokens are by then.
LEMMA PathSplit ==
    ASSUME NEW s, s # <<>>, NEW a, NEW b, NEW k, NEW ah, Path(s, a, b, k, ah)
    PROVE  /\ Free(Tail(s))
           /\ \E c \in Stacks : Runs(Head(s), a, c, k, ah) /\ \A k2, ah2 : Path(Tail(s), c, b, k2, ah2)
<1>1. PICK S : s \in Seq(S)
  BY DEF Path, IsStack
<1>2. PICK t : t = Tail(s)
  OBVIOUS
<1>3. PICK n : n = Len(t)
  OBVIOUS
<1>4. /\ n \in Nat /\ Len(s) = n + 1 /\ Head(s) = s[1] /\ t \in Seq(S)
      /\ \A i \in 1..n : t[i] = s[i + 1]
  BY <1>1, <1>2, <1>3
<1>5. PICK W \in [0..n + 1 -> Stacks] :
          /\ W[0] = a /\ W[n + 1] = b /\ \A i \in 1..n + 1 : Runs(s[i], W[i - 1], W[i], k, ah)
  BY <1>4 DEF Path
<1>6. ASSUME NEW i \in 1..n PROVE t[i][1] \notin Immediate
  <2>1. i + 1 \in 2..Len(s)
    BY <1>4
  <2> QED BY <1>4, <2>1 DEF Path
<1>7. Free(t)
  BY <1>3, <1>6 DEF Free
<1>8. Runs(Head(s), a, W[1], k, ah) /\ W[1] \in Stacks
  <2>1. 1 \in 1..n + 1 /\ 1 - 1 = 0 /\ 1 \in 0..n + 1
    BY <1>4
  <2> QED BY <1>4, <1>5, <2>1
<1>9. ASSUME NEW k2, NEW ah2 PROVE Path(t, W[1], b, k2, ah2)
  <2>1. PICK V : V = [i \in 0..n |-> W[i + 1]]
    OBVIOUS
  <2>2. V \in [0..n -> Stacks]
    BY <1>4, <1>5, <2>1
  <2>3. V[0] = W[1] /\ V[n] = b
    BY <1>4, <1>5, <2>1
  <2>4. ASSUME NEW i \in 1..n PROVE Runs(t[i], V[i - 1], V[i], k2, ah2)
    <3>1. i + 1 \in 1..n + 1 /\ i + 1 - 1 = i /\ V[i - 1] = W[i] /\ V[i] = W[i + 1]
      BY <1>4, <2>1
    <3>2. Runs(s[i + 1], W[i], W[i + 1], k, ah)
      BY <1>5, <3>1
    <3>3. Runs(t[i], V[i - 1], V[i], k, ah)
      BY <1>4, <3>1, <3>2
    <3> QED BY <1>6, <3>3, RunsFree
  <2>5. IsStack(t)
    BY <1>4 DEF IsStack
  <2>6. \A i \in 2..n : t[i][1] \notin Immediate
    BY <1>4, <1>6
  <2> QED BY <1>3, <2>2, <2>3, <2>4, <2>5, <2>6 DEF Path
<1> QED BY <1>2, <1>7, <1>8, <1>9

-----------------------------------------------------------------------------
(* The brackets a step leaves open *)

LEMMA OpenStacks ==
    ASSUME NEW b \in Stacks, NEW x \in Opening
    PROVE  Append(b, x) \in Stacks
BY DEF Stacks

LEMMA OpenedStacks ==
    ASSUME NEW a \in Seq(Opening)
    PROVE  /\ a \in Stacks /\ a # Unreached
           /\ \A x \in Opening : Append(a, x) \in Seq(Opening)
<1>1. a \in Stacks
  BY DEF Stacks
<1>2. \A x \in Opening : Append(a, x) \in Seq(Opening)
  OBVIOUS
<1>3. a # Unreached
  <2> SUFFICES ASSUME a = Unreached PROVE FALSE
    OBVIOUS
  <2>1. Len(a) = 1 /\ a[1] = "none"
    BY DEF Unreached
  <2>2. a[1] \in Opening
    BY <2>1
  <2> QED BY <2>1, <2>2 DEF Opening
<1> QED BY <1>1, <1>2, <1>3

\* What is open below an open bracket.
LEMMA ClosedStacks ==
    ASSUME NEW b \in Stacks, NEW x \in Opening, Append(b, x) \in Seq(Opening)
    PROVE  /\ b \in Seq(Opening) /\ Append(b, x) # <<>>
           /\ LET a == Append(b, x) IN a[Len(a)] = x /\ SubSeq(a, 1, Len(a) - 1) = b
<1>1. PICK a : a = Append(b, x)
  OBVIOUS
<1>2. PICK n : n = Len(b)
  OBVIOUS
<1>3. n \in Nat /\ Len(a) = n + 1 /\ a[n + 1] = x /\ \A i \in 1..n : a[i] = b[i]
  BY <1>1, <1>2 DEF Stacks
<1>4. \A i \in 1..n : b[i] \in Opening
  BY <1>1, <1>3
<1>5. b \in Seq(Opening)
  BY <1>2, <1>4 DEF Stacks
<1>6. SubSeq(a, 1, n) = b
  <2>1. a \in Seq(Opening)
    BY <1>1
  <2>2. SubSeq(a, 1, n) \in Seq(Opening) /\ Len(SubSeq(a, 1, n)) = n
        /\ \A i \in 1..n : SubSeq(a, 1, n)[i] = a[i]
    BY <1>3, <2>1
  <2>3. \A i \in 1..n : SubSeq(a, 1, n)[i] = b[i]
    BY <1>3, <2>2
  <2> QED BY ONLY <1>2, <1>3, <1>5, <2>2, <2>3
<1>7. a # <<>> /\ Len(a) - 1 = n
  BY <1>3
<1> QED BY <1>1, <1>3, <1>5, <1>6, <1>7

Brackets == Opening \cup Closing

LEMMA TrackedBrackets ==
    ASSUME open \in Seq(Opening)
    PROVE  /\ tk \notin Brackets => Track(tk) = open
           /\ tk \in Opening => Track(tk) = Append(open, tk) /\ Track(tk) \in Seq(Opening)
           /\ \A b \in Stacks, x \in Opening :
                  open = Append(b, x) /\ tk = Closer[x] => Track(tk) = b /\ b \in Seq(Opening)
<1>1. tk \notin Brackets => Track(tk) = open
  BY DEF Track, Brackets, Opening, Closing
<1>2. tk \in Opening => Track(tk) = Append(open, tk)
  BY DEF Track, Opening
<1>3. ASSUME NEW b \in Stacks, NEW x \in Opening, open = Append(b, x), tk = Closer[x]
      PROVE  Track(tk) = b /\ b \in Seq(Opening)
  <2>1. /\ b \in Seq(Opening) /\ open # <<>> /\ open[Len(open)] = x
        /\ SubSeq(open, 1, Len(open) - 1) = b
    BY <1>3, ClosedStacks
  <2>2. x # "bad" /\ Closer[x] \in Closing /\ Closer[x] \notin Opening
    BY DEF Closer, Openers, Opening, Closing
  <2>3. Track(tk) = b
    BY <1>3, <2>1, <2>2 DEF Track, Opening, Closing
  <2> QED BY <2>1, <2>3
<1> QED BY <1>1, <1>2, <1>3, OpenedStacks

-----------------------------------------------------------------------------
(* One step *)

\* The first call is made with open brackets and shall end with c, no error so far.
Ready(c) ==
    /\ errors = FALSE /\ correct = TRUE /\ open \in Seq(Opening) /\ type # "undefined"
    /\ c \in Stacks /\ todo # <<>> /\ Runs(Head(todo), open, c, tk, ahead)

\* The calls that take its place end with c as well, or an error is reported.
Arrives(c) ==
    \/ errors' = TRUE
    \/ /\ errors' = FALSE /\ type' # "undefined" /\ open' \in Seq(Opening)
       /\ \E items : Push(items) /\ Path(items, open', c, tk', ahead')

LEMMA BalancedStep ==
    ASSUME BalanceInv, ParserInv', errors = TRUE => errors' = TRUE, todo # <<>>,
           \A c : Ready(c) => Arrives(c)
    PROVE  BalanceInv'
<1>1. CASE errors' = TRUE
  BY <1>1 DEF BalanceInv
<1>2. CASE errors' # TRUE
  <2>1. errors = FALSE /\ correct = TRUE /\ Balanced
    BY <1>2 DEF BalanceInv, ParserInv, Clean
  <2>2. PICK c \in Stacks : /\ Runs(Head(todo), open, c, tk, ahead)
                            /\ \A k2, ah2 : Path(Tail(todo), c, <<>>, k2, ah2)
    BY <2>1, PathSplit DEF Balanced
  <2>3. Free(Tail(todo))
    BY <2>1, PathSplit DEF Balanced
  <2>4. Arrives(c)
    BY <2>1, <2>2 DEF Ready, Balanced
  <2>5. PICK items : Push(items) /\ Path(items, open', c, tk', ahead')
    BY <1>2, <2>4 DEF Arrives
  <2>6. Path(Tail(todo), c, <<>>, tk', ahead')
    BY <2>2
  <2>7. todo' = items \o Tail(todo)
    BY <2>5 DEF Push
  <2>8. PICK t, a, k, ah : t = Tail(todo) /\ a = open' /\ k = tk' /\ ah = ahead'
    OBVIOUS
  <2>9. Path(items \o t, a, <<>>, k, ah)
    <3>1. Path(items, a, c, k, ah) /\ Path(t, c, <<>>, k, ah) /\ Free(t)
      BY <2>3, <2>5, <2>6, <2>8
    <3> QED BY ONLY <3>1, PathJoin
  <2>10. Path(todo', open', <<>>, tk', ahead')
    BY <2>7, <2>8, <2>9
  <2>11. Balanced'
    BY <1>2, <2>4, <2>10 DEF Arrives, Balanced
  <2> QED BY <2>11 DEF BalanceInv
<1> QED BY <1>1, <1>2

\* A step without an error that leaves the token, and one that takes it.
Waits(items) ==
    /\ Push(items) /\ errors' = FALSE /\ type' # "undefined"
    /\ open' = open /\ tk' = tk /\ ahead' = ahead
Takes(items) == Push(items) /\ errors' = FALSE /\ type' # "undefined" /\ open' = Track(tk)

\* Items that end with the brackets they begin with, and items that close x.
Keep(items) == \A a \in Stacks : \A k, ah : Path(items, a, a, k, ah)
Close(items, x) == \A a \in Stacks : \A k, ah : Path(items, Append(a, x), a, k, ah)

LEMMA LeftToken ==
    ASSUME NEW c, Ready(c), NEW items, Waits(items), Path(items, open, c, tk, ahead)
    PROVE  Arrives(c)
BY DEF Ready, Waits, Arrives

LEMMA TakenToken ==
    ASSUME NEW c, Ready(c), NEW items, Takes(items), Track(tk) \in Seq(Opening),
           \A k, ah : Path(items, Track(tk), c, k, ah)
    PROVE  Arrives(c)
<1>1. Path(items, Track(tk), c, tk', ahead')
  OBVIOUS
<1> QED BY <1>1 DEF Takes, Arrives

\* At a call that ends with the brackets it began with.
LEMMA KeepingStep ==
    ASSUME NEW c, Ready(c), open = c
    PROVE  /\ \A items : Waits(items) /\ Keep(items) => Arrives(c)
           /\ \A items : Takes(items) /\ tk \notin Brackets /\ Keep(items) => Arrives(c)
           /\ \A items : Takes(items) /\ tk \in Opening /\ Close(items, tk) => Arrives(c)
<1>1. c \in Stacks /\ open \in Seq(Opening)
  BY DEF Ready
<1>2. ASSUME NEW items, Waits(items), Keep(items) PROVE Arrives(c)
  <2>1. Path(items, open, c, tk, ahead)
    BY <1>1, <1>2 DEF Keep
  <2> QED BY <1>2, <2>1, LeftToken
<1>3. ASSUME NEW items, Takes(items), tk \notin Brackets, Keep(items) PROVE Arrives(c)
  <2>1. Track(tk) = c
    BY <1>1, <1>3, TrackedBrackets
  <2>2. \A k, ah : Path(items, Track(tk), c, k, ah)
    BY <1>1, <1>3, <2>1 DEF Keep
  <2> QED BY <1>1, <1>3, <2>1, <2>2, TakenToken
<1>4. ASSUME NEW items, Takes(items), tk \in Opening, Close(items, tk) PROVE Arrives(c)
  <2>1. Track(tk) = Append(c, tk) /\ Track(tk) \in Seq(Opening)
    BY <1>1, <1>4, TrackedBrackets
  <2>2. \A k, ah : Path(items, Track(tk), c, k, ah)
    BY <1>1, <1>4, <2>1 DEF Close
  <2> QED BY <1>4, <2>1, <2>2, TakenToken
<1> QED BY <1>2, <1>3, <1>4

\* At a call that closes x.
LEMMA ClosingStep ==
    ASSUME NEW c, Ready(c), NEW x \in Opening, open = Append(c, x)
    PROVE  /\ \A items : Waits(items) /\ Close(items, x) => Arrives(c)
           /\ \A items : Takes(items) /\ tk \notin Brackets /\ Close(items, x) => Arrives(c)
           /\ \A items : Takes(items) /\ tk = Closer[x] /\ Keep(items) => Arrives(c)
<1>1. c \in Stacks /\ open \in Seq(Opening)
  BY DEF Ready
<1>2. ASSUME NEW items, Waits(items), Close(items, x) PROVE Arrives(c)
  <2>1. Path(items, open, c, tk, ahead)
    BY <1>1, <1>2 DEF Close
  <2> QED BY <1>2, <2>1, LeftToken
<1>3. ASSUME NEW items, Takes(items), tk \notin Brackets, Close(items, x) PROVE Arrives(c)
  <2>1. Track(tk) = open
    BY <1>1, <1>3, TrackedBrackets
  <2>2. \A k, ah : Path(items, Track(tk), c, k, ah)
    BY <1>1, <1>3, <2>1 DEF Close
  <2> QED BY <1>1, <1>3, <2>1, <2>2, TakenToken
<1>4. ASSUME NEW items, Takes(items), tk = Closer[x], Keep(items) PROVE Arrives(c)
  <2>1. Track(tk) = c /\ c \in Seq(Opening)
    BY <1>1, <1>4, TrackedBrackets
  <2>2. \A k, ah : Path(items, Track(tk), c, k, ah)
    BY <1>1, <1>4, <2>1 DEF Keep
  <2> QED BY <1>4, <2>1, <2>2, TakenToken
<1> QED BY <1>2, <1>3, <1>4

-----------------------------------------------------------------------------
(* Lists of calls *)

ItemKeeps(t) == t[1] \notin Immediate /\ \A a, k, ah : Runs(t, a, a, k, ah)
ItemCloses(t, x) == t[1] \notin Immediate /\ \A a, k, ah : Runs(t, Append(a, x), a, k, ah)

LEMMA KeepItems ==
    /\ Keep(<<>>)
    /\ \A t : ItemKeeps(t) => Keep(<<t>>)
    /\ \A t, u : ItemKeeps(t) /\ ItemKeeps(u) => Keep(<<t, u>>)
    /\ \A t, u, v : ItemKeeps(t) /\ ItemKeeps(u) /\ ItemKeeps(v) => Keep(<<t, u, v>>)
<1>1. Keep(<<>>)
  BY PathNone DEF Keep
<1>2. ASSUME NEW t, ItemKeeps(t) PROVE Keep(<<t>>)
  <2> SUFFICES ASSUME NEW a \in Stacks, NEW k, NEW ah PROVE Path(<<t>>, a, a, k, ah)
    BY DEF Keep
  <2>1. Runs(t, a, a, k, ah)
    BY <1>2 DEF ItemKeeps
  <2> QED BY <2>1, PathOne
<1>3. ASSUME NEW t, NEW u, ItemKeeps(t), ItemKeeps(u) PROVE Keep(<<t, u>>)
  <2> SUFFICES ASSUME NEW a \in Stacks, NEW k, NEW ah PROVE Path(<<t, u>>, a, a, k, ah)
    BY DEF Keep
  <2>1. Runs(t, a, a, k, ah) /\ Runs(u, a, a, k, ah) /\ u[1] \notin Immediate
    BY <1>3 DEF ItemKeeps
  <2> QED BY <2>1, PathTwo
<1>4. ASSUME NEW t, NEW u, NEW v, ItemKeeps(t), ItemKeeps(u), ItemKeeps(v) PROVE Keep(<<t, u, v>>)
  <2> SUFFICES ASSUME NEW a \in Stacks, NEW k, NEW ah PROVE Path(<<t, u, v>>, a, a, k, ah)
    BY DEF Keep
  <2>1. /\ Runs(t, a, a, k, ah) /\ Runs(u, a, a, k, ah) /\ Runs(v, a, a, k, ah)
        /\ u[1] \notin Immediate /\ v[1] \notin Immediate
    BY <1>4 DEF ItemKeeps
  <2> QED BY <2>1, PathThree
<1> QED BY <1>1, <1>2, <1>3, <1>4

LEMMA CloseItems ==
    ASSUME NEW x \in Opening
    PROVE  /\ \A t : ItemCloses(t, x) => Close(<<t>>, x)
           /\ \A t, u : ItemKeeps(t) /\ ItemCloses(u, x) => Close(<<t, u>>, x)
           /\ \A t, u : ItemCloses(t, x) /\ ItemKeeps(u) => Close(<<t, u>>, x)
           /\ \A t, u, v : ItemKeeps(t) /\ ItemCloses(u, x) /\ ItemKeeps(v) => Close(<<t, u, v>>, x)
           /\ \A t, u, v : ItemKeeps(t) /\ ItemKeeps(u) /\ ItemCloses(v, x) => Close(<<t, u, v>>, x)
<1>1. ASSUME NEW t, ItemCloses(t, x) PROVE Close(<<t>>, x)
  <2> SUFFICES ASSUME NEW a \in Stacks, NEW k, NEW ah PROVE Path(<<t>>, Append(a, x), a, k, ah)
    BY DEF Close
  <2>1. Runs(t, Append(a, x), a, k, ah)
    BY <1>1 DEF ItemCloses
  <2>2. PICK o \in Stacks : o = Append(a, x)
    BY OpenStacks
  <2> QED BY <2>1, <2>2, PathOne
<1>2. ASSUME NEW t, NEW u, ItemKeeps(t), ItemCloses(u, x) PROVE Close(<<t, u>>, x)
  <2> SUFFICES ASSUME NEW a \in Stacks, NEW k, NEW ah PROVE Path(<<t, u>>, Append(a, x), a, k, ah)
    BY DEF Close
  <2>1. PICK o \in Stacks : o = Append(a, x)
    BY OpenStacks
  <2>2. Runs(t, o, o, k, ah) /\ Runs(u, o, a, k, ah) /\ u[1] \notin Immediate
    BY <1>2, <2>1 DEF ItemKeeps, ItemCloses
  <2>3. Path(<<t, u>>, o, a, k, ah)
    BY <2>2, PathTwo
  <2> QED BY <2>1, <2>3
<1>3. ASSUME NEW t, NEW u, ItemCloses(t, x), ItemKeeps(u) PROVE Close(<<t, u>>, x)
  <2> SUFFICES ASSUME NEW a \in Stacks, NEW k, NEW ah PROVE Path(<<t, u>>, Append(a, x), a, k, ah)
    BY DEF Close
  <2>1. PICK o \in Stacks : o = Append(a, x)
    BY OpenStacks
  <2>2. Runs(t, o, a, k, ah) /\ Runs(u, a, a, k, ah) /\ u[1] \notin Immediate
    BY <1>3, <2>1 DEF ItemKeeps, ItemCloses
  <2>3. Path(<<t, u>>, o, a, k, ah)
    BY <2>2, PathTwo
  <2> QED BY <2>1, <2>3
<1>4. ASSUME NEW t, NEW u, NEW v, ItemKeeps(t), ItemCloses(u, x), ItemKeeps(v) PROVE Close(<<t, u, v>>, x)
  <2> SUFFICES ASSUME NEW a \in Stacks, NEW k, NEW ah PROVE Path(<<t, u, v>>, Append(a, x), a, k, ah)
    BY DEF Close
  <2>1. PICK o \in Stacks : o = Append(a, x)
    BY OpenStacks
  <2>2. /\ Runs(t, o, o, k, ah) /\ Runs(u, o, a, k, ah) /\ Runs(v, a, a, k, ah)
        /\ u[1] \notin Immediate /\ v[1] \notin Immediate
    BY <1>4, <2>1 DEF ItemKeeps, ItemCloses
  <2>3. Path(<<t, u, v>>, o, a, k, ah)
    BY <2>2, PathThree
  <2> QED BY <2>1, <2>3
<1>5. ASSUME NEW t, NEW u, NEW v, ItemKeeps(t), ItemKeeps(u), ItemCloses(v, x) PROVE Close(<<t, u, v>>, x)
  <2> SUFFICES ASSUME NEW a \in Stacks, NEW k, NEW ah PROVE Path(<<t, u, v>>, Append(a, x), a, k, ah)
    BY DEF Close
  <2>1. PICK o \in Stacks : o = Append(a, x)
    BY OpenStacks
  <2>2. /\ Runs(t, o, o, k, ah) /\ Runs(u, o, o, k, ah) /\ Runs(v, o, a, k, ah)
        /\ u[1] \notin Immediate /\ v[1] \notin Immediate
    BY <1>5, <2>1 DEF ItemKeeps, ItemCloses
  <2>3. Path(<<t, u, v>>, o, a, k, ah)
    BY <2>2, PathThree
  <2> QED BY <2>1, <2>3
<1> QED BY <1>1, <1>2, <1>3, <1>4, <1>5

LEMMA KeepJoin ==
    ASSUME NEW s, NEW t, Keep(s), Keep(t), Free(t)
    PROVE  Keep(s \o t)
<1> SUFFICES ASSUME NEW a \in Stacks, NEW k, NEW ah PROVE Path(s \o t, a, a, k, ah)
  BY DEF Keep
<1>1. Path(s, a, a, k, ah) /\ Path(t, a, a, k, ah)
  BY DEF Keep
<1> QED BY <1>1, PathJoin

\* Calls that end with the brackets they begin with.
Ordinary == {
    "external_definition", "translation_unit", "expression", "initializer", "more_initializers",
    "initializer_list", "postfix_expression", "primary_expression", "unary_expression", "unary_build",
    "member", "binary_build", "constant_expression", "constant_build", "type_specifier", "const", "typedef",
    "typedef_name", "typedef_end", "struct", "struct_name", "enum", "enum_name", "enum_end", "member_star",
    "member_name", "bounds", "init_declarator", "declarator_name", "init", "init_end", "declaration",
    "declarators", "more_declarators", "in_loop", "in_switch", "leave_block", "condition", "case",
    "case_label", "default", "expression_statement", "end_of_expression", "if", "else", "switch",
    "switch_body", "while", "while_body", "do", "do_while", "for", "for_body", "continue", "break", "return",
    "statement", "func_def", "function_rest", "group", "external", "external_name", "more_externals"}

LEMMA OrdinaryPlain == Ordinary \cap Special = {}
BY DEF Ordinary, Special, ParenClosers, SquareClosers, BraceClosers, Recovering, Immediate, Levels

LEMMA ClosersFree ==
    (ParenClosers \cup SquareClosers \cup BraceClosers \cup Levels
     \cup {"expect_and_consume", "try_consume_token"}) \cap Immediate = {}
BY DEF ParenClosers, SquareClosers, BraceClosers, Immediate, Levels

LEMMA ItemsRun ==
    ASSUME NEW t
    PROVE  /\ t[1] \in Ordinary => ItemKeeps(t)
           /\ t[1] \in Levels /\ LevelRuns(t) => ItemKeeps(t)
           /\ t[1] = "expect_and_consume" /\ t[2] \in {";", "*", ":", ","} => ItemKeeps(t)
           /\ t[1] = "try_consume_token" /\ t[2] = "const" => ItemKeeps(t)
           /\ t[1] \in ParenClosers => ItemCloses(t, "(")
           /\ t[1] = "expect_and_consume" /\ t[2] = ")" => ItemCloses(t, "(")
           /\ t[1] \in SquareClosers => ItemCloses(t, "[")
           /\ t[1] \in BraceClosers => ItemCloses(t, "{")
<1>1. t[1] \in Ordinary => ItemKeeps(t)
  <2>1. t[1] \in Ordinary => t[1] \notin Special /\ t[1] \notin Immediate
    BY OrdinaryPlain DEF Special
  <2> QED BY <2>1, PlainRuns DEF ItemKeeps
<1>2. t[1] \in Levels /\ LevelRuns(t) => ItemKeeps(t)
  BY LevelsRuns, ClosersFree DEF ItemKeeps
<1>3. t[1] = "expect_and_consume" /\ t[2] \in {";", "*", ":", ","} => ItemKeeps(t)
  BY OtherRuns, ClosersFree DEF ItemKeeps, ExpectRuns
<1>4. t[1] = "try_consume_token" /\ t[2] = "const" => ItemKeeps(t)
  BY OtherRuns, ClosersFree DEF ItemKeeps
<1>5. t[1] \in ParenClosers => ItemCloses(t, "(")
  BY ParenRuns, ClosersFree DEF ItemCloses
<1>6. t[1] = "expect_and_consume" /\ t[2] = ")" => ItemCloses(t, "(")
  BY OtherRuns, ClosersFree DEF ItemCloses, ExpectRuns
<1>7. t[1] \in SquareClosers => ItemCloses(t, "[")
  BY SquareRuns, ClosersFree DEF ItemCloses
<1>8. t[1] \in BraceClosers => ItemCloses(t, "{")
  BY BraceRuns, ClosersFree DEF ItemCloses
<1> QED BY <1>1, <1>2, <1>3, <1>4, <1>5, <1>6, <1>7, <1>8

\* The same of the items as the actions write them.
LEMMA NamedItems ==
    /\ \A f \in Ordinary : ItemKeeps(Call(f)) /\ \A x : ItemKeeps(<<f, x>>)
    /\ \A n \in Nat \ {0} : ItemKeeps(<<"RHS", n>>)
    /\ ItemKeeps(<<"RHS", 1>>) /\ ItemKeeps(<<"RHS", 2>>) /\ ItemKeeps(<<"RHS", 3>>)
    /\ \A t \in {";", "*", ":", ","} : ItemKeeps(Expect(t))
    /\ ItemKeeps(Try("const")) /\ ItemCloses(Expect(")"), "(")
    /\ \A f \in ParenClosers :
          /\ ItemCloses(Call(f), "(") /\ \A x : ItemCloses(<<f, x>>, "(")
          /\ \A x, y : ItemCloses(<<f, x, y>>, "(")
          /\ \A x, y, z : ItemCloses(<<f, x, y, z>>, "(")
          /\ \A x, y, z, u : ItemCloses(<<f, x, y, z, u>>, "(")
    /\ \A f \in SquareClosers : ItemCloses(Call(f), "[") /\ \A x : ItemCloses(<<f, x>>, "[")
    /\ \A f \in BraceClosers : ItemCloses(Call(f), "{")
<1>1. \A f \in Ordinary : ItemKeeps(Call(f)) /\ \A x : ItemKeeps(<<f, x>>)
  <2>1. \A f, x : Call(f)[1] = f /\ <<f, x>>[1] = f
    BY DEF Call
  <2> QED BY <2>1, ItemsRun
<1>2. \A n \in Nat \ {0} : ItemKeeps(<<"RHS", n>>)
  <2> SUFFICES ASSUME NEW n \in Nat \ {0} PROVE ItemKeeps(<<"RHS", n>>)
    OBVIOUS
  <2>1. <<"RHS", n>>[1] \in Levels /\ LevelRuns(<<"RHS", n>>)
    BY DEF Levels, LevelRuns
  <2> QED BY <2>1, ItemsRun
<1>3. /\ \A t \in {";", "*", ":", ","} : ItemKeeps(Expect(t))
      /\ ItemKeeps(Try("const")) /\ ItemCloses(Expect(")"), "(")
  <2>1. /\ \A t : Expect(t)[1] = "expect_and_consume" /\ Expect(t)[2] = t
        /\ \A t : Try(t)[1] = "try_consume_token" /\ Try(t)[2] = t
    BY DEF Expect, Try
  <2> QED BY <2>1, ItemsRun
<1>4. \A f \in ParenClosers :
          /\ ItemCloses(Call(f), "(") /\ \A x : ItemCloses(<<f, x>>, "(")
          /\ \A x, y : ItemCloses(<<f, x, y>>, "(")
          /\ \A x, y, z : ItemCloses(<<f, x, y, z>>, "(")
          /\ \A x, y, z, u : ItemCloses(<<f, x, y, z, u>>, "(")
  <2>1. /\ \A f : Call(f)[1] = f /\ \A x : <<f, x>>[1] = f
        /\ \A f, x, y : <<f, x, y>>[1] = f
        /\ \A f, x, y, z : <<f, x, y, z>>[1] = f
        /\ \A f, x, y, z, u : <<f, x, y, z, u>>[1] = f
    BY DEF Call
  <2> QED BY <2>1, ItemsRun
<1>5. \A f \in SquareClosers : ItemCloses(Call(f), "[") /\ \A x : ItemCloses(<<f, x>>, "[")
  <2>1. \A f, x : Call(f)[1] = f /\ <<f, x>>[1] = f
    BY DEF Call
  <2> QED BY <2>1, ItemsRun
<1>6. \A f \in BraceClosers : ItemCloses(Call(f), "{")
  <2>1. \A f : Call(f)[1] = f
    BY DEF Call
  <2> QED BY <2>1, ItemsRun
<1>7. ItemKeeps(<<"RHS", 1>>) /\ ItemKeeps(<<"RHS", 2>>) /\ ItemKeeps(<<"RHS", 3>>)
  <2>1. 1 \in Nat \ {0} /\ 2 \in Nat \ {0} /\ 3 \in Nat \ {0}
    OBVIOUS
  <2> QED BY ONLY <1>2, <2>1
<1> QED BY <1>1, <1>2, <1>3, <1>4, <1>5, <1>6, <1>7

\* Where the first call begins.
LEMMA HeadRuns ==
    ASSUME NEW c, Ready(c)
    PROVE  /\ Head(todo)[1] \in Ordinary => open = c
           /\ Head(todo)[1] \in ParenClosers => open = Append(c, "(")
           /\ Head(todo)[1] \in SquareClosers => open = Append(c, "[")
           /\ Head(todo)[1] \in BraceClosers => open = Append(c, "{")
           /\ Head(todo)[1] \in Levels => open = c /\ LevelRuns(Head(todo))
           /\ Head(todo)[1] \notin Recovering
<1>1. PICK t : t = Head(todo)
  OBVIOUS
<1>2. Runs(t, open, c, tk, ahead) /\ open # Unreached
  BY <1>1, OpenedStacks DEF Ready
<1>3. t[1] \in Ordinary => t[1] \notin Special
  BY OrdinaryPlain
<1> QED BY <1>1, <1>2, <1>3, PlainRuns, ParenRuns, SquareRuns, BraceRuns, LevelsRuns, RecoveringRuns

\* What the ways an action can end come to, as long as no error is reported.
LEMMA StepKinds ==
    ASSUME NEW c, Ready(c), type' # "undefined" \/ errors' = TRUE
    PROVE  /\ \A items : Stay(items) => errors' = TRUE \/ Waits(items)
           /\ \A items : Consume(items) => errors' = TRUE \/ Takes(items)
           /\ \A items : Fail(items) \/ FailAndConsume(items) => errors' = TRUE
           /\ \A b, items : Build(b) /\ Push(items) /\ consume_token => errors' = TRUE \/ Takes(items)
           /\ \A b, items : Build(b) /\ Push(items) /\ UNCHANGED lexer => errors' = TRUE \/ Waits(items)
<1>1. errors = FALSE
  BY DEF Ready
<1>2. \A items : Stay(items) => errors' = TRUE \/ Waits(items)
  BY <1>1 DEF Stay, Waits, lexer
<1>3. \A items : Consume(items) => errors' = TRUE \/ Takes(items)
  BY <1>1 DEF Consume, Takes, consume_token
<1>4. \A items : Fail(items) \/ FailAndConsume(items) => errors' = TRUE
  BY DEF Fail, FailAndConsume
<1>5. \A b, items : Build(b) /\ Push(items) /\ consume_token => errors' = TRUE \/ Takes(items)
  BY <1>1 DEF Build, Built, SemanticError, Takes, consume_token
<1>6. \A b, items : Build(b) /\ Push(items) /\ UNCHANGED lexer => errors' = TRUE \/ Waits(items)
  BY <1>1 DEF Build, Built, SemanticError, Waits, lexer
<1> QED BY <1>2, <1>3, <1>4, <1>5, <1>6

-----------------------------------------------------------------------------
(* The tokens *)

LEMMA TokensBalanced ==
    ASSUME NEW c, Ready(c), try_consume_token \/ expect_and_consume \/ ConsumeToken \/ skip_until
    PROVE  Arrives(c)
<1>1. type' = type /\ type # "undefined" /\ open \in Seq(Opening)
  BY DEF Ready, try_consume_token, expect_and_consume, ConsumeToken, skip_until
<1>2. Keep(<<>>)
  BY KeepItems
<1>3. CASE try_consume_token
  <2>1. Head(todo)[1] = "try_consume_token" /\ Arg(1) = Head(todo)[2]
    BY <1>3 DEF try_consume_token, At, Arg
  <2>2. errors' = TRUE \/ Waits(<<>>) \/ (tk = Arg(1) /\ Takes(<<>>))
    BY <1>1, <1>3, StepKinds DEF try_consume_token
  <2>3. Arg(1) = "const" /\ open = c
    BY <2>1, OtherRuns, OpenedStacks DEF Ready
  <2>4. "const" \notin Brackets
    BY DEF Brackets, Opening, Closing
  <2> QED BY <1>2, <2>2, <2>3, <2>4, KeepingStep DEF Arrives
<1>4. CASE expect_and_consume
  <2>1. Head(todo)[1] = "expect_and_consume" /\ Arg(1) = Head(todo)[2]
    <3>1. Arg(1) = Head(todo)[2]
      BY DEF Arg
    <3> QED BY <1>4, <3>1 DEF expect_and_consume, At
  <2>2. errors' = TRUE \/ (tk = Arg(1) /\ Takes(<<>>))
    <3>1. (tk = Arg(1) /\ Consume(<<>>)) \/ FailAndConsume(<<Call("consume_token")>>) \/ Fail(<<>>)
      BY <1>4 DEF expect_and_consume, Missing
    <3> QED BY <1>1, <3>1, StepKinds
  <2>3. ExpectRuns(Arg(1), open, c) /\ c \in Stacks
    BY <2>1, OtherRuns DEF Ready
  <2>4. CASE errors' = TRUE
    BY <2>4 DEF Arrives
  <2>5. CASE tk = Arg(1) /\ Takes(<<>>)
    <3>1. CASE tk = ")" /\ open = Append(c, "(")
      <4>1. "(" \in Opening /\ Closer["("] = ")"
        BY DEF Opening, Closer, Openers
      <4> QED BY <1>2, <2>5, <3>1, <4>1, ClosingStep
    <3>2. CASE tk = "(" /\ c = Append(open, "(")
      <4>1. Track(tk) = c /\ Track(tk) \in Seq(Opening)
        BY <1>1, <3>2, TrackedBrackets DEF Opening
      <4>2. \A k, ah : Path(<<>>, Track(tk), c, k, ah)
        BY <2>3, <4>1, PathNone
      <4> QED BY <2>5, <4>1, <4>2, TakenToken
    <3>3. CASE tk \in {";", "*", ":", ","} /\ open = c
      <4>1. tk \notin Brackets
        BY <3>3 DEF Brackets, Opening, Closing
      <4> QED BY <1>2, <2>5, <3>3, <4>1, KeepingStep
    <3> QED BY <2>3, <2>5, <3>1, <3>2, <3>3 DEF ExpectRuns
  <2> QED BY <2>2, <2>4, <2>5
<1>5. CASE ConsumeToken
  <2>1. Head(todo)[1] = "consume_token" /\ (errors' = TRUE \/ Takes(<<>>))
    BY <1>1, <1>5, StepKinds DEF ConsumeToken, At
  <2>2. "consume_token" \in Immediate
    BY DEF Immediate
  <2>3. ImmediateRuns("consume_token", open, c, tk, ahead) /\ c \in Stacks
    BY <2>1, <2>2, ImmediatelyRuns DEF Ready
  <2>4. CASE errors' = TRUE
    BY <2>4 DEF Arrives
  <2>5. CASE Takes(<<>>) /\ tk \in Identifiers /\ open = c
    <3>1. tk \notin Brackets
      BY <2>5 DEF Identifiers, Brackets, Opening, Closing
    <3> QED BY <1>2, <2>5, <3>1, KeepingStep
  <2>6. CASE Takes(<<>>) /\ tk = "(" /\ c = Append(open, "(")
    <3>1. Track(tk) = c /\ Track(tk) \in Seq(Opening)
      BY <1>1, <2>6, TrackedBrackets DEF Opening
    <3>2. \A k, ah : Path(<<>>, Track(tk), c, k, ah)
      BY <2>3, <3>1, PathNone
    <3> QED BY <2>6, <3>1, <3>2, TakenToken
  <2> QED BY <2>1, <2>3, <2>4, <2>5, <2>6 DEF ImmediateRuns
<1>6. CASE skip_until
  <2>1. Head(todo)[1] \in Recovering
    BY <1>6 DEF skip_until, At, Recovering
  <2> QED BY <2>1, HeadRuns
<1> QED BY <1>3, <1>4, <1>5, <1>6

-----------------------------------------------------------------------------
(* Expressions *)

\* Tokens that are not brackets.
LEMMA PlainTokens ==
    /\ Brackets \cap (Identifiers \cup Basic \cup UnaryOperators \cup Keywords \cup {"literal", ",", ".", "=", "?", ":", ";",
                       "else", "const", "struct", "enum", "typedef", Eof}) = {}
    /\ Opening = {"(", "[", "{"} /\ Closer["("] = ")" /\ Closer["["] = "]" /\ Closer["{"] = "}"
<1>1. Brackets \cap (Identifiers \cup Basic \cup UnaryOperators \cup Keywords \cup {"literal", ",", ".", "=", "?", ":", ";",
                       "else", "const", "struct", "enum", "typedef", Eof}) = {}
  BY DEF Brackets, Opening, Closing, Identifiers, Basic, UnaryOperators, Keywords, Eof
<1>2. Closer["("] = ")" /\ Closer["["] = "]" /\ Closer["{"] = "}"
  BY DEF Closer, Openers
<1> QED BY <1>1, <1>2 DEF Opening

LEMMA PrimaryBalanced ==
    ASSUME NEW c, Ready(c), parse_primary_expression \/ ClosePrimary
    PROVE  Arrives(c)
<1>1. type' = type /\ type # "undefined"
  BY DEF Ready, parse_primary_expression, ClosePrimary
<1>2. CASE parse_primary_expression
  <2>1. Head(todo)[1] = "primary_expression"
    BY <1>2 DEF parse_primary_expression, At
  <2>2. open = c
    BY <2>1, HeadRuns DEF Ordinary
  <2>3. \/ errors' = TRUE \/ (tk \in Identifiers \cup {"literal"} /\ Takes(<<>>))
        \/ (tk = "(" /\ Takes(<<Call("expression"), Call("close_paren")>>))
    BY <1>1, <1>2, StepKinds DEF parse_primary_expression
  <2>4. Close(<<Call("expression"), Call("close_paren")>>, "(")
    BY PlainTokens, NamedItems, CloseItems DEF Ordinary, ParenClosers
  <2> QED BY <2>2, <2>3, <2>4, KeepItems, PlainTokens, KeepingStep DEF Arrives
<1>3. CASE ClosePrimary
  <2>1. Head(todo)[1] = "close_paren"
    BY <1>3 DEF ClosePrimary, At
  <2>2. open = Append(c, "(")
    BY <2>1, HeadRuns DEF ParenClosers
  <2>3. errors' = TRUE \/ (tk = ")" /\ Takes(<<>>))
    BY <1>1, <1>3, StepKinds DEF ClosePrimary
  <2> QED BY <2>2, <2>3, KeepItems, PlainTokens, ClosingStep DEF Arrives
<1> QED BY <1>2, <1>3

LEMMA InitializerListBalanced ==
    ASSUME NEW c, Ready(c), parse_initializer_list
    PROVE  Arrives(c)
<1>1. type' = type /\ type # "undefined" /\ Head(todo)[1] \in {"initializer_list", "more_initializers"}
  BY DEF Ready, parse_initializer_list, At
<1>2. open = c
  BY <1>1, HeadRuns DEF Ordinary
<1>3. \/ errors' = TRUE \/ Waits(<<Call("initializer"), Call("more_initializers")>>) \/ Waits(<<>>)
      \/ (tk = "," /\ Takes(<<Call("initializer_list")>>))
  BY <1>1, StepKinds DEF parse_initializer_list
<1>4. Keep(<<Call("initializer"), Call("more_initializers")>>) /\ Keep(<<Call("initializer_list")>>)
  BY NamedItems, KeepItems DEF Ordinary
<1> QED BY <1>2, <1>3, <1>4, KeepItems, PlainTokens, KeepingStep DEF Arrives

LEMMA PostfixBalanced ==
    ASSUME NEW c, Ready(c), parse_postfix_expression
    PROVE  Arrives(c)
<1>1. type' = type /\ type # "undefined" /\ Head(todo)[1] = "postfix_expression"
  BY DEF Ready, parse_postfix_expression, At
<1>2. open = c
  BY <1>1, HeadRuns DEF Ordinary
<1>3. \/ errors' = TRUE \/ Waits(<<>>)
      \/ (tk = "[" /\ Takes(<<Call("expression"), <<"index", correct>>, Head(todo)>>))
      \/ (tk = "(" /\ Takes(<<<<"call", correct>>, Head(todo)>>))
      \/ (tk = "." /\ Takes(<<<<"member", correct>>, Head(todo)>>))
      \/ (tk = "++" /\ Takes(<<Head(todo)>>))
  BY <1>1, StepKinds DEF parse_postfix_expression
<1>4. ItemKeeps(Head(todo)) /\ ItemKeeps(Call("expression")) /\ ItemKeeps(<<"member", correct>>)
      /\ ItemCloses(<<"index", correct>>, "[") /\ ItemCloses(<<"call", correct>>, "(")
  BY <1>1, NamedItems, ItemsRun DEF Ordinary, SquareClosers, ParenClosers
<1>5. /\ Close(<<Call("expression"), <<"index", correct>>, Head(todo)>>, "[")
      /\ Close(<<<<"call", correct>>, Head(todo)>>, "(")
      /\ Keep(<<<<"member", correct>>, Head(todo)>>) /\ Keep(<<Head(todo)>>) /\ Keep(<<>>)
  BY <1>4, PlainTokens, CloseItems, KeepItems
<1>6. "++" \in UnaryOperators
  BY DEF UnaryOperators
<1> QED BY <1>2, <1>3, <1>5, <1>6, PlainTokens, KeepingStep DEF Arrives

LEMMA PostfixOperandBalanced ==
    ASSUME NEW c, Ready(c), parse_postfix_operand
    PROVE  Arrives(c)
<1>1. type' = type /\ type # "undefined" /\ Head(todo)[1] \in {"index", "call", "arguments", "member"}
  BY DEF Ready, parse_postfix_operand, At
<1>2. \/ errors' = TRUE
      \/ (Head(todo)[1] = "index" /\ tk = "]" /\ Takes(<<>>))
      \/ (Head(todo)[1] = "call" /\ Waits(<<Call("initializer_list"), <<"arguments", Arg(1)>>>>))
      \/ (Head(todo)[1] \in {"call", "arguments"} /\ tk = ")" /\ Takes(<<>>))
      \/ (Head(todo)[1] = "member" /\ tk \in Identifiers /\ Takes(<<>>))
  BY <1>1, StepKinds DEF parse_postfix_operand, At
<1>3. /\ Head(todo)[1] = "index" => open = Append(c, "[")
      /\ Head(todo)[1] \in {"call", "arguments"} => open = Append(c, "(")
      /\ Head(todo)[1] = "member" => open = c
  BY HeadRuns DEF Ordinary, SquareClosers, ParenClosers
<1>4. Close(<<Call("initializer_list"), <<"arguments", Arg(1)>>>>, "(")
  BY PlainTokens, NamedItems, CloseItems DEF Ordinary, ParenClosers
<1>5. Keep(<<>>)
  BY KeepItems
<1>6. /\ open = Append(c, "(") => /\ \A items : Waits(items) /\ Close(items, "(") => Arrives(c)
                                  /\ tk = ")" /\ Takes(<<>>) => Arrives(c)
      /\ open = Append(c, "[") => (tk = "]" /\ Takes(<<>>) => Arrives(c))
      /\ open = c => (tk \in Identifiers /\ Takes(<<>>) => Arrives(c))
  BY <1>5, PlainTokens, ClosingStep, KeepingStep
<1> QED BY <1>2, <1>3, <1>4, <1>6 DEF Arrives

LEMMA UnaryBalanced ==
    ASSUME NEW c, Ready(c), parse_unary_expression
    PROVE  Arrives(c)
<1>1. type' = type /\ type # "undefined" /\ Head(todo)[1] \in {"unary_expression", "unary_build"}
  BY DEF Ready, parse_unary_expression, At
<1>2. open = c
  BY <1>1, HeadRuns DEF Ordinary
<1>3. \/ errors' = TRUE \/ Waits(<<>>) \/ Waits(<<Call("primary_expression"), Call("postfix_expression")>>)
      \/ (tk \in UnaryOperators /\ Takes(<<Call("unary_expression"), Call("unary_build")>>))
  BY <1>1, StepKinds DEF parse_unary_expression
<1>4. /\ Keep(<<Call("primary_expression"), Call("postfix_expression")>>)
      /\ Keep(<<Call("unary_expression"), Call("unary_build")>>)
  BY NamedItems, KeepItems DEF Ordinary
<1> QED BY <1>2, <1>3, <1>4, KeepItems, PlainTokens, KeepingStep DEF Arrives

LEMMA AssignmentKeeps == Keep(Assignment) /\ Free(<<<<"RHS", 1>>>>) /\ Keep(<<<<"RHS", 1>>>>)
<1>1. ItemKeeps(Call("unary_expression")) /\ ItemKeeps(<<"RHS", 2>>) /\ ItemKeeps(<<"RHS", 1>>)
  BY NamedItems DEF Ordinary
<1>2. PICK t : t = <<"RHS", 1>>
  OBVIOUS
<1>3. ItemKeeps(t)
  BY <1>1, <1>2
<1>4. Free(<<t>>)
  <2>1. Len(<<t>>) = 1 /\ <<t>>[1] = t /\ \A i \in 1..1 : i = 1
    OBVIOUS
  <2> QED BY <1>3, <2>1 DEF Free, ItemKeeps
<1> QED BY <1>1, <1>2, <1>4, KeepItems DEF Assignment

LEMMA ExpressionBalanced ==
    ASSUME NEW c, Ready(c), parse_expression \/ parse_constant_expression \/ parse_initializer \/ Broken
    PROVE  Arrives(c)
<1>1. type' = type /\ type # "undefined"
  BY DEF Ready, parse_expression, parse_constant_expression, parse_initializer, Broken
<1>2. CASE parse_expression
  <2>1. Head(todo)[1] = "expression"
    BY <1>2 DEF parse_expression, At
  <2>2. open = c
    BY <2>1, HeadRuns DEF Ordinary
  <2>3. PICK items : items = Assignment \o <<<<"RHS", 1>>>>
    OBVIOUS
  <2>4. Keep(items)
    BY <2>3, AssignmentKeeps, KeepJoin
  <2>5. errors' = TRUE \/ Waits(items)
    BY <1>1, <1>2, <2>3, StepKinds DEF parse_expression
  <2> QED BY <2>2, <2>4, <2>5, KeepingStep DEF Arrives
<1>3. CASE parse_constant_expression
  <2>1. Head(todo)[1] \in {"constant_expression", "constant_build"}
    BY <1>3 DEF parse_constant_expression, At
  <2>2. open = c
    BY <2>1, HeadRuns DEF Ordinary
  <2>3. \/ errors' = TRUE \/ Waits(<<>>)
        \/ Waits(<<Call("unary_expression"), <<"RHS", 3>>, Call("constant_build")>>)
    BY <1>1, <1>3, StepKinds DEF parse_constant_expression
  <2>4. Keep(<<Call("unary_expression"), <<"RHS", 3>>, Call("constant_build")>>)
    BY NamedItems, KeepItems DEF Ordinary
  <2> QED BY <2>2, <2>3, <2>4, KeepItems, KeepingStep DEF Arrives
<1>4. CASE parse_initializer /\ At("initializer")
  <2>1. Head(todo)[1] = "initializer"
    BY <1>4 DEF At
  <2>2. open = c
    BY <2>1, HeadRuns DEF Ordinary
  <2>3. errors' = TRUE \/ Waits(Assignment) \/ (tk = "{" /\ Takes(<<Call("initializers")>>))
    BY <1>1, <1>4, StepKinds DEF parse_initializer, At
  <2>4. Close(<<Call("initializers")>>, "{")
    BY PlainTokens, NamedItems, CloseItems DEF BraceClosers
  <2> QED BY <2>2, <2>3, <2>4, AssignmentKeeps, PlainTokens, KeepingStep DEF Arrives
<1>5. CASE parse_initializer /\ ~At("initializer")
  <2>1. Head(todo)[1] \in {"initializers", "close_initializer"}
    BY <1>5 DEF parse_initializer, At
  <2>2. open = Append(c, "{")
    BY <2>1, HeadRuns DEF BraceClosers
  <2>3. \/ errors' = TRUE \/ Waits(<<Call("initializer_list"), Call("close_initializer")>>)
        \/ (tk = "}" /\ Takes(<<>>))
    BY <1>1, <1>5, StepKinds DEF parse_initializer
  <2>4. Close(<<Call("initializer_list"), Call("close_initializer")>>, "{")
    BY PlainTokens, NamedItems, CloseItems DEF Ordinary, BraceClosers
  <2> QED BY <2>2, <2>3, <2>4, KeepItems, PlainTokens, ClosingStep DEF Arrives
<1>6. CASE Broken
  <2>1. Head(todo)[1] \in Recovering
    BY <1>6 DEF Broken, At, Recovering
  <2> QED BY <2>1, HeadRuns
<1> QED BY <1>2, <1>3, <1>4, <1>5, <1>6

\* A list all of whose calls keep the brackets, however long.
LEMMA KeepAll ==
    ASSUME NEW items, IsStack(items), \A i \in 1..Len(items) : ItemKeeps(items[i])
    PROVE  Keep(items)
<1> SUFFICES ASSUME NEW a \in Stacks, NEW k, NEW ah PROVE Path(items, a, a, k, ah)
  BY DEF Keep
<1>1. PICK n : n = Len(items)
  OBVIOUS
<1>2. n \in Nat
  BY <1>1 DEF IsStack
<1>3. PICK W : W = [i \in 0..n |-> a]
  OBVIOUS
<1>4. W \in [0..n -> Stacks] /\ W[0] = a /\ W[n] = a /\ \A i \in 1..n : W[i - 1] = a /\ W[i] = a
  BY <1>2, <1>3
<1>5. \A i \in 1..n : Runs(items[i], W[i - 1], W[i], k, ah)
  BY <1>1, <1>4 DEF ItemKeeps
<1>6. \A i \in 2..n : items[i][1] \notin Immediate
  BY <1>1, <1>2 DEF ItemKeeps
<1> QED BY <1>1, <1>4, <1>5, <1>6 DEF Path

LEMMA KeepFour ==
    ASSUME NEW a, NEW b, NEW d, NEW e, ItemKeeps(a), ItemKeeps(b), ItemKeeps(d), ItemKeeps(e)
    PROVE  Keep(<<a, b, d, e>>)
<1>1. <<a, b, d, e>> \in Seq({a, b, d, e})
  OBVIOUS
<1>2. /\ Len(<<a, b, d, e>>) = 4
      /\ <<a, b, d, e>>[1] = a /\ <<a, b, d, e>>[2] = b /\ <<a, b, d, e>>[3] = d /\ <<a, b, d, e>>[4] = e
  OBVIOUS
<1>3. \A i \in 1..4 : i = 1 \/ i = 2 \/ i = 3 \/ i = 4
  OBVIOUS
<1>4. \A i \in 1..4 : ItemKeeps(<<a, b, d, e>>[i])
  BY <1>2, <1>3
<1>5. IsStack(<<a, b, d, e>>)
  BY <1>1 DEF IsStack
<1> QED BY <1>2, <1>4, <1>5, KeepAll

\* A token of a positive precedence is an operator.
LEMMA OperatorsPlain ==
    ASSUME NEW t
    PROVE  /\ get_operator_precedence(t) \in Nat
           /\ get_operator_precedence(t) # 0 => t \notin Brackets
<1>1. CASE t \in {",", "=", "?", "*"}
  BY <1>1 DEF get_operator_precedence, Brackets, Opening, Closing
<1>2. CASE t \notin {",", "=", "?", "*"}
  BY <1>2 DEF get_operator_precedence
<1> QED BY <1>1, <1>2

LEMMA LevelItems ==
    ASSUME NEW n \in Nat \ {0}
    PROVE  /\ \A x : ItemKeeps(<<"colon", x, n>>)
           /\ \A p \in Nat : \A x : ItemKeeps(<<"operand", p, x, n>>)
           /\ \A p \in Nat : ItemKeeps(<<"tail", p>>)
<1>1. ASSUME NEW x PROVE ItemKeeps(<<"colon", x, n>>)
  <2>1. <<"colon", x, n>>[1] = "colon" /\ <<"colon", x, n>>[3] = n
    OBVIOUS
  <2>2. <<"colon", x, n>>[1] \in Levels /\ LevelRuns(<<"colon", x, n>>)
    BY <2>1 DEF Levels, LevelRuns
  <2> QED BY <2>2, ItemsRun
<1>2. ASSUME NEW p \in Nat, NEW x PROVE ItemKeeps(<<"operand", p, x, n>>)
  <2>1. PICK t : t = <<"operand", p, x, n>>
    OBVIOUS
  <2>2. t[1] = "operand" /\ t[2] = p /\ t[4] = n
    BY <2>1
  <2>3. t[1] \in Levels /\ LevelRuns(t)
    BY <2>2 DEF Levels, LevelRuns
  <2> QED BY <2>1, <2>3, ItemsRun
<1>3. ASSUME NEW p \in Nat PROVE ItemKeeps(<<"tail", p>>)
  <2>1. <<"tail", p>>[1] = "tail" /\ <<"tail", p>>[2] = p
    OBVIOUS
  <2>2. <<"tail", p>>[1] \in Levels /\ LevelRuns(<<"tail", p>>)
    BY <2>1 DEF Levels, LevelRuns
  <2> QED BY <2>2, ItemsRun
<1> QED BY <1>1, <1>2, <1>3

LEMMA BinaryBalanced ==
    ASSUME NEW c, Ready(c), parse_RHS_of_binary_expression
    PROVE  Arrives(c)
<1>1. type' = type /\ type # "undefined"
  BY DEF Ready, parse_RHS_of_binary_expression
<1>2. Head(todo)[1] \in {"RHS", "colon", "operand", "tail", "binary_build"}
  BY DEF parse_RHS_of_binary_expression, At
<1>3. open = c /\ (Head(todo)[1] # "binary_build" => LevelRuns(Head(todo)))
  BY <1>2, HeadRuns DEF Levels, Ordinary
<1>4. Arg(1) = Head(todo)[2] /\ Arg(2) = Head(todo)[3] /\ Arg(3) = Head(todo)[4]
  BY DEF Arg
<1>5. PICK p : p = get_operator_precedence(tk)
  OBVIOUS
<1>6. p \in Nat /\ (p # 0 => tk \notin Brackets)
  BY <1>5, OperatorsPlain
<1>7. CASE At("RHS")
  <2>1. PICK n : n = Arg(1)
    OBVIOUS
  <2>2. n \in Nat \ {0}
    BY <1>3, <1>4, <1>7, <2>1 DEF LevelRuns, At
  <2>3. \/ Stay(<<>>)
        \/ p >= n /\ Consume(<<Call("initializer"), <<"colon", correct, n>>>>)
        \/ p >= n /\ Consume(<<<<"operand", p, correct, n>>>>)
    BY <1>5, <1>6, <1>7, <2>1, <2>2 DEF parse_RHS_of_binary_expression, At
  <2>4. p >= n => tk \notin Brackets
    BY <1>6, <2>2
  <2>5. \/ errors' = TRUE \/ Waits(<<>>)
        \/ tk \notin Brackets /\ Takes(<<Call("initializer"), <<"colon", correct, n>>>>)
        \/ tk \notin Brackets /\ Takes(<<<<"operand", p, correct, n>>>>)
    BY <1>1, <2>3, <2>4, StepKinds
  <2>6. Keep(<<Call("initializer"), <<"colon", correct, n>>>>) /\ Keep(<<<<"operand", p, correct, n>>>>)
    BY <1>6, <2>2, LevelItems, NamedItems, KeepItems DEF Ordinary
  <2> QED BY <1>3, <2>5, <2>6, KeepItems, KeepingStep DEF Arrives
<1>8. CASE At("colon")
  <2>1. PICK n, left : n = Arg(2) /\ left = (correct /\ Arg(1))
    OBVIOUS
  <2>2. n \in Nat \ {0}
    BY <1>3, <1>4, <1>8, <2>1 DEF LevelRuns, At
  <2>3. PICK rest : rest = <<<<"operand", 3, left, n>>>>
    OBVIOUS
  <2>4. (tk = ":" /\ Consume(rest)) \/ Fail(rest)
    BY <1>8, <2>1, <2>3 DEF parse_RHS_of_binary_expression, At
  <2>5. errors' = TRUE \/ (tk = ":" /\ Takes(rest))
    BY <1>1, <2>4, StepKinds
  <2>6. Keep(rest)
    <3>1. ItemKeeps(<<"operand", 3, left, n>>)
      BY <2>2, LevelItems
    <3> QED BY <2>3, <3>1, KeepItems
  <2> QED BY <1>3, <2>5, <2>6, PlainTokens, KeepingStep DEF Arrives
<1>9. CASE At("operand")
  <2>1. PICK first, q, left, n : /\ first = IF tk = "{" THEN Call("initializer") ELSE Call("unary_expression")
                                 /\ q = Arg(1) /\ left = Arg(2) /\ n = Arg(3)
    OBVIOUS
  <2>2. q \in Nat /\ n \in Nat \ {0}
    BY <1>3, <1>4, <1>9, <2>1 DEF LevelRuns, At
  <2>3. PICK items : items = <<first, <<"tail", q>>, <<"binary_build", left>>, <<"RHS", n>>>>
    OBVIOUS
  <2>4. Stay(items)
    <3>1. Stay(Operand(q, left, n))
      BY <1>9, <2>1 DEF parse_RHS_of_binary_expression, At
    <3>2. Operand(q, left, n) = items
      BY <2>1, <2>3 DEF Operand
    <3> QED BY <3>1, <3>2
  <2>5. ItemKeeps(first)
    BY <2>1, NamedItems DEF Ordinary
  <2>6. ItemKeeps(<<"tail", q>>) /\ ItemKeeps(<<"binary_build", left>>) /\ ItemKeeps(<<"RHS", n>>)
    BY <2>2, LevelItems, NamedItems DEF Ordinary
  <2>7. Keep(items)
    BY <2>3, <2>5, <2>6, KeepFour
  <2> QED BY <1>1, <1>3, <2>4, <2>7, StepKinds, KeepingStep DEF Arrives
<1>10. CASE At("tail")
  <2>1. PICK n : n = IF RightAssociative(Arg(1)) THEN Arg(1) ELSE Arg(1) + 1
    OBVIOUS
  <2>2. n \in Nat \ {0}
    BY <1>3, <1>4, <1>10, <2>1 DEF LevelRuns, At, RightAssociative
  <2>3. Stay(<<>>) \/ Stay(<<<<"RHS", n>>>>)
    BY <1>10, <2>1 DEF parse_RHS_of_binary_expression, At
  <2>4. Keep(<<>>) /\ Keep(<<<<"RHS", n>>>>)
    BY <2>2, NamedItems, KeepItems
  <2> QED BY <1>1, <1>3, <2>3, <2>4, StepKinds, KeepingStep DEF Arrives
<1>11. CASE At("binary_build")
  <2>1. Build(correct /\ Arg(1)) /\ Push(<<>>) /\ UNCHANGED lexer
    BY <1>11 DEF parse_RHS_of_binary_expression, At
  <2>2. errors' = TRUE \/ Waits(<<>>)
    BY <1>1, <2>1, StepKinds
  <2> QED BY <1>3, <2>2, KeepItems, KeepingStep DEF Arrives
<1> QED BY <1>7, <1>8, <1>9, <1>10, <1>11 DEF parse_RHS_of_binary_expression

LEMMA ExpressionsBalanced ==
    ASSUME NEW c, Ready(c), Expressions
    PROVE  Arrives(c)
BY PrimaryBalanced, InitializerListBalanced, PostfixBalanced, PostfixOperandBalanced, UnaryBalanced,
   BinaryBalanced, ExpressionBalanced DEF Expressions

-----------------------------------------------------------------------------
(* Declarations *)

LEMMA TypeSpecifierBalanced ==
    ASSUME NEW c, Ready(c), parse_type_specifier \/ Qualify
    PROVE  Arrives(c)
<1>1. type # "undefined" /\ Head(todo)[1] \in {"type_specifier", "const"}
  BY DEF Ready, parse_type_specifier, Qualify, At
<1>2. open = c
  BY <1>1, HeadRuns DEF Ordinary
<1>3. CASE parse_type_specifier
  <2>1. type' # "undefined" \/ errors' = TRUE
    BY <1>1, <1>3 DEF parse_type_specifier, Fail, FailAndConsume, Types
  <2>2. \/ errors' = TRUE
        \/ tk \in Basic \cup {"typename"} /\ Takes(<<>>)
        \/ \E f \in {"const", "typedef"} : tk = f /\ Takes(<<Call("type_specifier"), Call(f)>>)
        \/ \E f \in {"struct", "enum"} : tk = f /\ Takes(<<Call(f)>>)
    BY <1>3, <2>1, StepKinds DEF parse_type_specifier
  <2>3. /\ \A f \in {"const", "typedef"} : Keep(<<Call("type_specifier"), Call(f)>>)
        /\ \A f \in {"struct", "enum"} : Keep(<<Call(f)>>)
    <3>1. {"type_specifier", "const", "typedef", "struct", "enum"} \subseteq Ordinary
      BY DEF Ordinary
    <3>2. \A f \in Ordinary : ItemKeeps(Call(f))
      BY NamedItems
    <3> QED BY <3>1, <3>2, KeepItems
  <2>4. tk \in Basic \cup {"typename", "const", "typedef", "struct", "enum"} => tk \notin Brackets
    BY PlainTokens DEF Identifiers
  <2> QED BY <1>2, <2>2, <2>3, <2>4, KeepItems, KeepingStep DEF Arrives
<1>4. CASE Qualify
  <2>1. errors' = TRUE \/ (type' # "undefined" /\ Stay(<<>>))
    BY <1>1, <1>4 DEF Qualify, Fail
  <2> QED BY <1>2, <2>1, KeepItems, StepKinds, KeepingStep DEF Arrives
<1> QED BY <1>3, <1>4

LEMMA TypedefBalanced ==
    ASSUME NEW c, Ready(c), Typedef
    PROVE  Arrives(c)
<1>1. type # "undefined" /\ Head(todo)[1] \in {"typedef", "typedef_name", "typedef_end"}
  BY DEF Ready, Typedef, At
<1>2. open = c
  BY <1>1, HeadRuns DEF Ordinary
<1>3. type' # "undefined" \/ errors' = TRUE
  BY <1>1 DEF Typedef, Fail
<1>4. \/ errors' = TRUE \/ Waits(<<>>) \/ Waits(<<Call("typedef_name")>>)
      \/ tk = "*" /\ Takes(<<Call("typedef_name")>>)
      \/ tk \in Identifiers /\ Takes(<<Call("typedef_end")>>)
  BY <1>1, <1>3, StepKinds DEF Typedef
<1>5. Keep(<<Call("typedef_name")>>) /\ Keep(<<Call("typedef_end")>>)
  BY NamedItems, KeepItems DEF Ordinary
<1>6. "*" \in UnaryOperators
  BY DEF UnaryOperators
<1> QED BY <1>2, <1>4, <1>5, <1>6, PlainTokens, KeepItems, KeepingStep DEF Arrives

LEMMA StructBalanced ==
    ASSUME NEW c, Ready(c), parse_struct_specifier \/ parse_struct_declaration
    PROVE  Arrives(c)
<1>1. type # "undefined"
  BY DEF Ready
<1>2. CASE parse_struct_specifier
  <2>1. Head(todo)[1] \in {"struct", "struct_name"}
    BY <1>2 DEF parse_struct_specifier, At
  <2>2. open = c
    BY <2>1, HeadRuns DEF Ordinary
  <2>3. type' # "undefined" \/ errors' = TRUE
    BY <1>1, <1>2 DEF parse_struct_specifier, Reference, Fail
  <2>4. \/ errors' = TRUE \/ Waits(<<>>)
        \/ tk = "{" /\ Takes(<<Call("members")>>)
        \/ tk \in Identifiers /\ Takes(<<Call("struct_name")>>)
    BY <1>2, <2>3, StepKinds DEF parse_struct_specifier, Reference
  <2>5. Close(<<Call("members")>>, "{") /\ Keep(<<Call("struct_name")>>)
    BY PlainTokens, NamedItems, KeepItems, CloseItems DEF Ordinary, BraceClosers
  <2> QED BY <2>2, <2>4, <2>5, KeepItems, PlainTokens, KeepingStep DEF Arrives
<1>3. CASE parse_struct_declaration
  <2>1. Head(todo)[1] = "members"
    BY <1>3 DEF parse_struct_declaration, At
  <2>2. open = Append(c, "{")
    BY <2>1, HeadRuns DEF BraceClosers
  <2>3. type' # "undefined" \/ errors' = TRUE
    BY <1>1, <1>3 DEF parse_struct_declaration
  <2>4. \/ errors' = TRUE \/ (tk = "}" /\ Takes(<<>>))
        \/ Waits(<<Call("type_specifier"), Call("member_star"), Head(todo)>>)
    BY <1>3, <2>3, StepKinds DEF parse_struct_declaration
  <2>5. ItemCloses(Head(todo), "{")
    BY <2>1, ItemsRun DEF BraceClosers
  <2>6. Close(<<Call("type_specifier"), Call("member_star"), Head(todo)>>, "{")
    BY <2>5, PlainTokens, NamedItems, CloseItems DEF Ordinary
  <2> QED BY <2>2, <2>4, <2>6, KeepItems, PlainTokens, ClosingStep DEF Arrives
<1> QED BY <1>2, <1>3

LEMMA StarBalanced ==
    ASSUME NEW c, Ready(c), NEW at \in Ordinary, NEW name \in Ordinary, Star(at, name)
    PROVE  Arrives(c)
<1>1. type' = type /\ type # "undefined" /\ Head(todo)[1] = at
  BY DEF Ready, Star, At
<1>2. open = c
  BY <1>1, HeadRuns
<1>3. \/ errors' = TRUE \/ Waits(<<Call(name)>>)
      \/ tk = "*" /\ Takes(<<Try("const"), Call(name)>>)
  BY <1>1, StepKinds DEF Star
<1>4. Keep(<<Call(name)>>) /\ Keep(<<Try("const"), Call(name)>>)
  BY NamedItems, KeepItems
<1>5. "*" \in UnaryOperators
  BY DEF UnaryOperators
<1> QED BY <1>2, <1>3, <1>4, <1>5, PlainTokens, KeepingStep DEF Arrives

LEMMA MemberBalanced ==
    ASSUME NEW c, Ready(c), parse_member_declaration
    PROVE  Arrives(c)
<1>1. CASE Star("member_star", "member_name")
  BY <1>1, StarBalanced DEF Ordinary
<1>2. CASE ~Star("member_star", "member_name")
  <2>1. type' = type /\ type # "undefined" /\ Head(todo)[1] = "member_name"
    BY <1>2 DEF Ready, parse_member_declaration, At
  <2>2. open = c
    BY <2>1, HeadRuns DEF Ordinary
  <2>3. errors' = TRUE \/ (tk \in Identifiers /\ Takes(<<<<"bounds", MemberStops>>, Expect(";")>>))
    BY <1>2, <2>1, StepKinds DEF parse_member_declaration
  <2>4. Keep(<<<<"bounds", MemberStops>>, Expect(";")>>)
    BY NamedItems, KeepItems DEF Ordinary
  <2> QED BY <2>2, <2>3, <2>4, PlainTokens, KeepingStep DEF Arrives
<1> QED BY <1>1, <1>2

LEMMA BoundsBalanced ==
    ASSUME NEW c, Ready(c), parse_bounds
    PROVE  Arrives(c)
<1>1. type' = type /\ type # "undefined" /\ Head(todo)[1] \in {"bounds", "bound_start", "bound"} /\ correct = TRUE
  BY DEF Ready, parse_bounds, At
<1>2. PICK x : x = Arg(1)
  OBVIOUS
<1>3. CASE At("bounds")
  <2>1. open = c
    BY <1>3, HeadRuns DEF Ordinary, At
  <2>2. errors' = TRUE \/ Waits(<<>>) \/ (tk = "[" /\ Takes(<<<<"bound_start", x>>, Head(todo)>>))
    BY <1>1, <1>2, <1>3, StepKinds DEF parse_bounds, At
  <2>3. ItemKeeps(Head(todo))
    BY <1>3, ItemsRun DEF At, Ordinary
  <2>4. Close(<<<<"bound_start", x>>, Head(todo)>>, "[")
    BY <2>3, PlainTokens, NamedItems, CloseItems DEF SquareClosers
  <2> QED BY <2>1, <2>2, <2>4, KeepItems, PlainTokens, KeepingStep DEF Arrives
<1>4. CASE At("bound_start") \/ At("bound")
  <2>1. open = Append(c, "[")
    BY <1>4, HeadRuns DEF SquareClosers, At
  <2>2. \/ errors' = TRUE \/ Waits(<<Call("expression"), <<"bound", x>>>>)
        \/ (tk = "]" /\ Takes(<<>>))
    BY <1>1, <1>2, <1>4, StepKinds DEF parse_bounds, At
  <2>3. Close(<<Call("expression"), <<"bound", x>>>>, "[")
    BY PlainTokens, NamedItems, CloseItems DEF Ordinary, SquareClosers
  <2> QED BY <2>1, <2>2, <2>3, KeepItems, PlainTokens, ClosingStep DEF Arrives
<1> QED BY <1>3, <1>4 DEF parse_bounds

LEMMA EnumBalanced ==
    ASSUME NEW c, Ready(c), parse_enum_specifier
    PROVE  Arrives(c)
<1>1. type # "undefined" /\ Head(todo)[1] \in {"enum", "enum_name", "enum_end"}
  BY DEF Ready, parse_enum_specifier, At
<1>2. open = c
  BY <1>1, HeadRuns DEF Ordinary
<1>3. type' # "undefined" \/ errors' = TRUE
  BY <1>1 DEF parse_enum_specifier, Reference, Fail
<1>4. \/ errors' = TRUE \/ Waits(<<>>)
      \/ tk = "{" /\ Takes(<<Call("enum_first"), Call("enum_end")>>)
      \/ tk \in Identifiers /\ Takes(<<Call("enum_name")>>)
  BY <1>3, StepKinds DEF parse_enum_specifier, Reference
<1>5. Close(<<Call("enum_first"), Call("enum_end")>>, "{") /\ Keep(<<Call("enum_name")>>)
  BY PlainTokens, NamedItems, KeepItems, CloseItems DEF Ordinary, BraceClosers
<1> QED BY <1>2, <1>4, <1>5, KeepItems, PlainTokens, KeepingStep DEF Arrives

LEMMA EnumeratorBalanced ==
    ASSUME NEW c, Ready(c), parse_enum_declaration_list
    PROVE  Arrives(c)
<1>1. /\ type # "undefined" /\ correct = TRUE /\ c \in Stacks
      /\ Head(todo)[1] \in {"enum_first", "enumerator", "enum_value", "enum_constant", "enum_comma", "enum_more"}
  BY DEF Ready, parse_enum_declaration_list, At
<1>2. open = Append(c, "{") /\ open \in Stacks
  BY <1>1, HeadRuns, OpenedStacks DEF BraceClosers, Ready
<1>3. type' # "undefined" \/ errors' = TRUE
  BY <1>1 DEF parse_enum_declaration_list, Fail, FailAndConsume
<1>4. CASE At("enumerator")
  <2>1. PICK items : items = <<Call("consume_token"), Call("enum_value")>>
    OBVIOUS
  <2>2. (tk \in Identifiers /\ Stay(items)) \/ \E rest : Fail(rest)
    BY <1>4, <2>1 DEF parse_enum_declaration_list, At
  <2>3. errors' = TRUE \/ (tk \in Identifiers /\ Waits(items))
    BY <1>3, <2>2, StepKinds
  <2>4. ASSUME tk \in Identifiers PROVE Path(items, open, c, tk, ahead)
    <3>1. Runs(Call("consume_token"), open, open, tk, ahead)
      <4>1. Call("consume_token")[1] = "consume_token" /\ "consume_token" \in Immediate
        BY DEF Call, Immediate
      <4>2. ImmediateRuns("consume_token", open, open, tk, ahead)
        BY <2>4 DEF ImmediateRuns
      <4> QED BY <4>1, <4>2, ImmediatelyRuns
    <3>2. Runs(Call("enum_value"), open, c, tk, ahead) /\ Call("enum_value")[1] \notin Immediate
      BY <1>2, NamedItems DEF ItemCloses, BraceClosers
    <3> QED BY <1>1, <1>2, <2>1, <3>1, <3>2, PathTwo
  <2> QED BY <2>3, <2>4, LeftToken DEF Arrives
<1>5. CASE ~At("enumerator")
  <2>1. \/ errors' = TRUE
        \/ \E f \in {"enumerator", "enum_comma", "enum_more"} : Waits(<<Call(f)>>)
        \/ Waits(<<Expect(","), Call("enum_more")>>)
        \/ tk = "=" /\ Takes(<<Call("constant_expression"), Call("enum_constant")>>)
        \/ tk = "}" /\ Takes(<<>>)
    BY <1>1, <1>3, <1>5, StepKinds DEF parse_enum_declaration_list
  <2>2. /\ \A f \in {"enumerator", "enum_comma", "enum_more"} : Close(<<Call(f)>>, "{")
        /\ Close(<<Expect(","), Call("enum_more")>>, "{")
        /\ Close(<<Call("constant_expression"), Call("enum_constant")>>, "{")
    BY PlainTokens, NamedItems, CloseItems DEF Ordinary, BraceClosers
  <2> QED BY <1>2, <2>1, <2>2, KeepItems, PlainTokens, ClosingStep DEF Arrives
<1> QED BY <1>4, <1>5

LEMMA DeclaratorBalanced ==
    ASSUME NEW c, Ready(c), parse_init_declarator \/ parse_declaration
    PROVE  Arrives(c)
<1>1. CASE parse_init_declarator /\ Star("init_declarator", "declarator_name")
  BY <1>1, StarBalanced DEF Ordinary
<1>2. CASE parse_init_declarator /\ ~Star("init_declarator", "declarator_name")
  <2>1. type' = type /\ type # "undefined" /\ Head(todo)[1] \in {"declarator_name", "init", "init_end"} /\ correct = TRUE
    BY <1>2 DEF Ready, parse_init_declarator, At
  <2>2. open = c
    BY <2>1, HeadRuns DEF Ordinary
  <2>3. \/ errors' = TRUE \/ Waits(<<>>)
        \/ tk \in Identifiers /\ Takes(<<<<"bounds", DeclaratorStops>>, Call("init")>>)
        \/ tk = "=" /\ Takes(<<Call("initializer"), Call("init_end")>>)
    BY <1>2, <2>1, StepKinds DEF parse_init_declarator
  <2>4. Keep(<<<<"bounds", DeclaratorStops>>, Call("init")>>) /\ Keep(<<Call("initializer"), Call("init_end")>>)
    BY NamedItems, KeepItems DEF Ordinary
  <2> QED BY <2>2, <2>3, <2>4, KeepItems, PlainTokens, KeepingStep DEF Arrives
<1>3. CASE parse_declaration
  <2>1. type' = type /\ type # "undefined" /\ Head(todo)[1] \in {"declaration", "declarators", "more_declarators"}
    BY <1>3 DEF Ready, parse_declaration, At
  <2>2. open = c
    BY <2>1, HeadRuns DEF Ordinary
  <2>3. \/ errors' = TRUE \/ Waits(<<Call("type_specifier"), Call("declarators")>>) \/ Waits(<<Expect(";")>>)
        \/ Waits(<<Call("init_declarator"), Call("more_declarators")>>)
        \/ tk = "," /\ Takes(<<Call("init_declarator"), Head(todo)>>)
    BY <1>3, <2>1, StepKinds DEF parse_declaration
  <2>4. ItemKeeps(Head(todo))
    BY <2>1, ItemsRun DEF Ordinary
  <2>5. /\ Keep(<<Call("type_specifier"), Call("declarators")>>) /\ Keep(<<Expect(";")>>)
        /\ Keep(<<Call("init_declarator"), Call("more_declarators")>>) /\ Keep(<<Call("init_declarator"), Head(todo)>>)
    BY <2>4, NamedItems, KeepItems DEF Ordinary
  <2> QED BY <2>2, <2>3, <2>5, PlainTokens, KeepingStep DEF Arrives
<1> QED BY <1>1, <1>2, <1>3

LEMMA DeclarationsBalanced ==
    ASSUME NEW c, Ready(c), Declarations
    PROVE  Arrives(c)
BY TypeSpecifierBalanced, TypedefBalanced, StructBalanced, MemberBalanced, BoundsBalanced, EnumBalanced,
   EnumeratorBalanced, DeclaratorBalanced DEF Declarations

-----------------------------------------------------------------------------
(* Statements *)

LEMMA LoopBodyBalanced ==
    ASSUME NEW c, Ready(c), open = c, type' = type, NEW rest, LoopBody(rest), Keep(rest), Free(rest)
    PROVE  Arrives(c)
<1>1. PICK first : first = <<Call("statement"), <<"in_loop", is_in_loop>>>>
  OBVIOUS
<1>2. Keep(first)
  BY <1>1, NamedItems, KeepItems DEF Ordinary
<1>3. PICK items : items = first \o rest
  OBVIOUS
<1>4. Keep(items)
  BY <1>2, <1>3, KeepJoin
<1>5. Stay(items)
  BY <1>1, <1>3 DEF LoopBody
<1>6. type' # "undefined"
  BY DEF Ready
<1> QED BY <1>4, <1>5, <1>6, StepKinds, KeepingStep DEF Arrives

LEMMA LoopRests ==
    /\ Keep(<<>>) /\ Free(<<>>)
    /\ \A f \in Ordinary : Keep(<<Call(f)>>) /\ Free(<<Call(f)>>)
<1>1. Len(<<>>) = 0 /\ 1..0 = {}
  OBVIOUS
<1>2. ASSUME NEW f \in Ordinary PROVE Keep(<<Call(f)>>) /\ Free(<<Call(f)>>)
  <2>1. PICK t : t = Call(f)
    OBVIOUS
  <2>2. ItemKeeps(t)
    BY <2>1, NamedItems
  <2>3. Len(<<t>>) = 1 /\ <<t>>[1] = t /\ \A i \in 1..1 : i = 1
    OBVIOUS
  <2>4. Free(<<t>>)
    BY <2>2, <2>3 DEF Free, ItemKeeps
  <2> QED BY <2>1, <2>2, <2>4, KeepItems
<1> QED BY <1>1, <1>2, KeepItems DEF Free

LEMMA RestoreBalanced ==
    ASSUME NEW c, Ready(c), RestoreLoop \/ RestoreSwitch \/ LeaveBlock
    PROVE  Arrives(c)
<1>1. type' = type /\ type # "undefined" /\ Head(todo)[1] \in {"in_loop", "in_switch", "leave_block"}
  BY DEF Ready, RestoreLoop, RestoreSwitch, LeaveBlock, At
<1>2. open = c
  BY <1>1, HeadRuns DEF Ordinary
<1>3. Stay(<<>>)
  BY DEF RestoreLoop, RestoreSwitch, LeaveBlock
<1> QED BY <1>1, <1>2, <1>3, StepKinds, KeepItems, KeepingStep DEF Arrives

LEMMA ConditionBalanced ==
    ASSUME NEW c, Ready(c), parse_condition
    PROVE  Arrives(c)
<1>1. type' = type /\ type # "undefined" /\ correct = TRUE /\ Head(todo)[1] \in {"condition", "close_condition"}
  BY DEF Ready, parse_condition, At
<1>2. CASE At("condition")
  <2>1. open = c
    BY <1>2, HeadRuns DEF Ordinary, At
  <2>2. errors' = TRUE \/ (tk = "(" /\ Takes(<<Call("expression"), Call("close_condition")>>))
    BY <1>1, <1>2, StepKinds DEF parse_condition, At
  <2>3. Close(<<Call("expression"), Call("close_condition")>>, "(")
    BY PlainTokens, NamedItems, CloseItems DEF Ordinary, ParenClosers
  <2> QED BY <2>1, <2>2, <2>3, PlainTokens, KeepingStep DEF Arrives
<1>3. CASE At("close_condition")
  <2>1. open = Append(c, "(")
    BY <1>3, HeadRuns DEF ParenClosers, At
  <2>2. errors' = TRUE \/ (tk = ")" /\ Takes(<<>>))
    BY <1>1, <1>3, StepKinds DEF parse_condition, At
  <2> QED BY <2>1, <2>2, KeepItems, PlainTokens, ClosingStep DEF Arrives
<1> QED BY <1>2, <1>3 DEF parse_condition

LEMMA CompoundBalanced ==
    ASSUME NEW c, Ready(c), parse_compound_statement_body \/ parse_compound_statement
    PROVE  Arrives(c)
<1>1. type' = type /\ type # "undefined"
  BY DEF Ready, parse_compound_statement_body, parse_compound_statement
<1>2. CASE parse_compound_statement_body
  <2>1. Head(todo)[1] = "compound_body"
    BY <1>2 DEF parse_compound_statement_body, At
  <2>2. open = Append(c, "{")
    BY <2>1, HeadRuns DEF BraceClosers
  <2>3. \/ Fail(<<>>) \/ (tk = "}" /\ Consume(<<>>))
        \/ \E f \in {"declaration", "statement"} : Stay(<<Call(f), Head(todo)>>)
    BY <1>2 DEF parse_compound_statement_body, UnclosedBody
  <2>4. \/ errors' = TRUE \/ (tk = "}" /\ Takes(<<>>))
        \/ \E f \in {"declaration", "statement"} : Waits(<<Call(f), Head(todo)>>)
    BY <1>1, <2>3, StepKinds
  <2>5. ItemCloses(Head(todo), "{")
    BY <2>1, ItemsRun DEF BraceClosers
  <2>6. \A f \in {"declaration", "statement"} : Close(<<Call(f), Head(todo)>>, "{")
    BY <2>5, PlainTokens, NamedItems, CloseItems DEF Ordinary
  <2> QED BY <2>2, <2>4, <2>6, KeepItems, PlainTokens, ClosingStep DEF Arrives
<1>3. CASE parse_compound_statement
  <2>1. Head(todo)[1] = "compound" /\ "compound" \in Immediate
    BY <1>3 DEF parse_compound_statement, At, Immediate
  <2>2. ImmediateRuns("compound", open, c, tk, ahead)
    BY <2>1, ImmediatelyRuns DEF Ready
  <2>3. tk = "{" /\ open = c
    BY <2>2 DEF ImmediateRuns
  <2>4. errors' = TRUE \/ Takes(<<Call("compound_body"), Call("leave_block")>>)
    BY <1>1, <1>3, StepKinds DEF parse_compound_statement
  <2>5. Close(<<Call("compound_body"), Call("leave_block")>>, "{")
    BY PlainTokens, NamedItems, CloseItems DEF Ordinary, BraceClosers
  <2> QED BY <2>3, <2>4, <2>5, PlainTokens, KeepingStep DEF Arrives
<1> QED BY <1>2, <1>3

LEMMA LabelBalanced ==
    ASSUME NEW c, Ready(c), parse_case_statement \/ parse_default_statement
    PROVE  Arrives(c)
<1>1. type' = type /\ type # "undefined" /\ correct = TRUE /\ Head(todo)[1] \in {"case", "case_label", "default"}
  BY DEF Ready, parse_case_statement, parse_default_statement, At
<1>2. open = c
  BY <1>1, HeadRuns DEF Ordinary
<1>3. \/ errors' = TRUE \/ Waits(<<Call("constant_expression"), Call("case_label")>>)
      \/ Waits(<<Expect(":"), Call("statement")>>)
  BY <1>1, StepKinds DEF parse_case_statement, parse_default_statement
<1>4. Keep(<<Call("constant_expression"), Call("case_label")>>) /\ Keep(<<Expect(":"), Call("statement")>>)
  BY NamedItems, KeepItems DEF Ordinary
<1> QED BY <1>2, <1>3, <1>4, KeepingStep DEF Arrives

LEMMA SimpleBalanced ==
    ASSUME NEW c, Ready(c),
           parse_expression_statement \/ parse_if_statement \/ parse_continue_statement
           \/ parse_break_statement \/ parse_return_statement
    PROVE  Arrives(c)
<1>1. /\ type' = type /\ type # "undefined" /\ correct = TRUE
      /\ Head(todo)[1] \in {"expression_statement", "end_of_expression", "if", "else", "continue", "break", "return"}
  BY DEF Ready, parse_expression_statement, parse_if_statement, parse_continue_statement,
         parse_break_statement, parse_return_statement, At
<1>2. open = c
  <2>1. Head(todo)[1] \in Ordinary
    BY <1>1 DEF Ordinary
  <2> QED BY <2>1, HeadRuns
<1>3. \/ errors' = TRUE \/ Waits(<<>>) \/ Waits(<<Expect(";")>>)
      \/ Waits(<<Call("expression"), Call("end_of_expression")>>)
      \/ Waits(<<Call("condition"), Call("statement"), Call("else")>>)
      \/ tk = "else" /\ Takes(<<Call("statement")>>)
      \/ tk = ";" /\ Takes(<<>>)
  <2>1. CASE parse_expression_statement
    BY <1>1, <2>1, StepKinds DEF parse_expression_statement
  <2>2. CASE parse_if_statement
    BY <1>1, <2>2, StepKinds DEF parse_if_statement
  <2>3. CASE parse_continue_statement \/ parse_break_statement \/ parse_return_statement
    BY <1>1, <2>3, StepKinds DEF parse_continue_statement, parse_break_statement, parse_return_statement
  <2> QED BY <2>1, <2>2, <2>3
<1>4. /\ Keep(<<Call("expression"), Call("end_of_expression")>>) /\ Keep(<<Expect(";")>>)
      /\ Keep(<<Call("condition"), Call("statement"), Call("else")>>) /\ Keep(<<Call("statement")>>)
  <2>1. {"expression", "end_of_expression", "condition", "statement", "else"} \subseteq Ordinary
    BY DEF Ordinary
  <2>2. (\A f \in Ordinary : ItemKeeps(Call(f))) /\ ItemKeeps(Expect(";"))
    BY NamedItems
  <2> QED BY <2>1, <2>2, KeepItems
<1> QED BY <1>2, <1>3, <1>4, KeepItems, PlainTokens, KeepingStep DEF Arrives

LEMMA LoopsBalanced ==
    ASSUME NEW c, Ready(c), parse_switch_statement \/ parse_while_statement \/ parse_do_statement
    PROVE  Arrives(c)
<1>1. /\ type' = type /\ type # "undefined"
      /\ Head(todo)[1] \in {"switch", "switch_body", "while", "while_body", "do", "do_while"}
  BY DEF Ready, parse_switch_statement, parse_while_statement, parse_do_statement, At
<1>2. open = c
  <2>1. Head(todo)[1] \in Ordinary
    BY <1>1 DEF Ordinary
  <2> QED BY <2>1, HeadRuns
<1>3. CASE parse_switch_statement
  <2>1. \/ errors' = TRUE \/ Waits(<<Call("condition"), Call("switch_body")>>)
        \/ Waits(<<Call("statement"), <<"in_switch", is_in_switch>>>>)
    BY <1>1, <1>3, StepKinds DEF parse_switch_statement
  <2>2. /\ Keep(<<Call("condition"), Call("switch_body")>>)
        /\ Keep(<<Call("statement"), <<"in_switch", is_in_switch>>>>)
    BY NamedItems, KeepItems DEF Ordinary
  <2> QED BY <1>2, <2>1, <2>2, KeepingStep DEF Arrives
<1>4. CASE parse_while_statement
  <2>1. errors' = TRUE \/ Waits(<<Call("condition"), Call("while_body")>>) \/ LoopBody(<<>>)
    BY <1>1, <1>4, StepKinds DEF parse_while_statement
  <2>2. Keep(<<Call("condition"), Call("while_body")>>)
    BY NamedItems, KeepItems DEF Ordinary
  <2> QED BY <1>1, <1>2, <2>1, <2>2, KeepingStep, LoopRests, LoopBodyBalanced DEF Arrives
<1>5. CASE parse_do_statement
  <2>1. \/ errors' = TRUE \/ LoopBody(<<Call("do_while")>>)
        \/ tk = "while" /\ Takes(<<Call("condition"), Expect(";")>>)
    BY <1>1, <1>5, StepKinds DEF parse_do_statement
  <2>2. Keep(<<Call("condition"), Expect(";")>>) /\ "do_while" \in Ordinary
    BY NamedItems, KeepItems DEF Ordinary
  <2>3. tk = "while" => tk \notin Brackets
    BY PlainTokens DEF Keywords
  <2> QED BY <1>1, <1>2, <2>1, <2>2, <2>3, KeepingStep, LoopRests, LoopBodyBalanced DEF Arrives
<1> QED BY <1>3, <1>4, <1>5

LEMMA ForBalanced ==
    ASSUME NEW c, Ready(c), parse_for_statement
    PROVE  Arrives(c)
<1>1. /\ type' = type /\ type # "undefined" /\ correct = TRUE
      /\ Head(todo)[1] \in {"for", "for_init", "for_init_end", "for_condition", "for_condition_end",
                            "for_increment", "for_close", "for_body"}
  BY DEF Ready, parse_for_statement, At
<1>2. CASE At("for")
  <2>1. open = c
    BY <1>2, HeadRuns DEF Ordinary, At
  <2>2. errors' = TRUE \/ (tk = "(" /\ Takes(<<Call("for_init")>>))
    BY <1>1, <1>2, StepKinds DEF parse_for_statement, At
  <2>3. Close(<<Call("for_init")>>, "(")
    BY PlainTokens, NamedItems, CloseItems DEF ParenClosers
  <2> QED BY <2>1, <2>2, <2>3, PlainTokens, KeepingStep DEF Arrives
<1>3. CASE At("for_body")
  <2>1. open = c
    BY <1>3, HeadRuns DEF Ordinary, At
  <2>2. LoopBody(<<Call("leave_block")>>) /\ "leave_block" \in Ordinary
    BY <1>3 DEF parse_for_statement, At, ForBody, Ordinary
  <2> QED BY <1>1, <2>1, <2>2, LoopRests, LoopBodyBalanced
<1>4. CASE ~At("for") /\ ~At("for_body")
  <2>1. Head(todo)[1] \in {"for_init", "for_init_end", "for_condition", "for_condition_end",
                           "for_increment", "for_close"}
    BY <1>4 DEF parse_for_statement, At
  <2>2. open = Append(c, "(")
    BY <2>1, HeadRuns DEF ParenClosers
  <2>3. \/ errors' = TRUE
        \/ \E f \in {"for_condition", "for_increment"} : tk = ";" /\ Takes(<<Call(f)>>)
        \/ tk = ")" /\ Takes(<<Call("for_body")>>)
        \/ \E f \in {"declaration", "expression"},
              g \in {"for_condition", "for_init_end", "for_condition_end", "for_close"} : Waits(<<Call(f), Call(g)>>)
    BY <1>1, <1>4, StepKinds DEF parse_for_statement, Header
  <2>4. /\ \A f \in {"for_condition", "for_increment"} : Close(<<Call(f)>>, "(")
        /\ \A f \in {"declaration", "expression"},
              g \in {"for_condition", "for_init_end", "for_condition_end", "for_close"} : Close(<<Call(f), Call(g)>>, "(")
        /\ Keep(<<Call("for_body")>>)
    BY PlainTokens, NamedItems, CloseItems, KeepItems DEF Ordinary, ParenClosers
  <2> QED BY <2>2, <2>3, <2>4, PlainTokens, ClosingStep DEF Arrives
<1> QED BY <1>2, <1>3, <1>4

LEMMA StatementBalanced ==
    ASSUME NEW c, Ready(c), parse_statement
    PROVE  Arrives(c)
<1>1. type' = type /\ type # "undefined" /\ Head(todo)[1] = "statement" /\ c \in Stacks
  BY DEF Ready, parse_statement, At
<1>2. open = c
  BY <1>1, HeadRuns DEF Ordinary
<1>3. \/ tk = "{" /\ Stay(<<Call("compound")>>)
      \/ tk = ";" /\ Consume(<<>>)
      \/ tk \in Keywords /\ Consume(<<Call(tk)>>)
      \/ Stay(<<Call("expression_statement")>>)
  BY DEF parse_statement
<1>4. \/ errors' = TRUE
      \/ tk = "{" /\ Waits(<<Call("compound")>>)
      \/ tk = ";" /\ Takes(<<>>)
      \/ tk \in Keywords /\ Takes(<<Call(tk)>>)
      \/ Waits(<<Call("expression_statement")>>)
  BY <1>1, <1>3, StepKinds
<1>5. CASE tk = "{" /\ Waits(<<Call("compound")>>)
  <2>1. Call("compound")[1] = "compound" /\ "compound" \in Immediate
    BY DEF Call, Immediate
  <2>2. ImmediateRuns("compound", open, c, tk, ahead)
    BY <1>2, <1>5 DEF ImmediateRuns
  <2>3. Runs(Call("compound"), open, c, tk, ahead)
    BY <2>1, <2>2, ImmediatelyRuns
  <2> QED BY <1>1, <1>2, <1>5, <2>3, PathOne, LeftToken
<1>6. CASE ~(tk = "{" /\ Waits(<<Call("compound")>>))
  <2>1. \A f \in Keywords \cup {"expression_statement"} : Keep(<<Call(f)>>)
    <3>1. Keywords \cup {"expression_statement"} \subseteq Ordinary
      BY DEF Ordinary, Keywords
    <3>2. \A f \in Ordinary : ItemKeeps(Call(f))
      BY NamedItems
    <3> QED BY <3>1, <3>2, KeepItems
  <2>2. (tk \in Keywords \/ tk = ";" => tk \notin Brackets) /\ Keep(<<>>)
    BY PlainTokens, KeepItems
  <2>3. CASE tk = ";" /\ Takes(<<>>)
    BY <1>2, <2>2, <2>3, KeepingStep
  <2>4. CASE tk \in Keywords /\ Takes(<<Call(tk)>>)
    <3>1. Keep(<<Call(tk)>>)
      BY <2>1, <2>4
    <3> QED BY <1>2, <2>2, <2>4, <3>1, KeepingStep
  <2>5. CASE Waits(<<Call("expression_statement")>>)
    BY <1>2, <2>1, <2>5, KeepingStep
  <2>6. CASE errors' = TRUE
    BY <2>6 DEF Arrives
  <2> QED BY <1>4, <1>6, <2>3, <2>4, <2>5, <2>6, Zenon
<1> QED BY <1>5, <1>6

LEMMA StatementsBalanced ==
    ASSUME NEW c, Ready(c), Statements
    PROVE  Arrives(c)
BY RestoreBalanced, ConditionBalanced, CompoundBalanced, LabelBalanced, SimpleBalanced, LoopsBalanced, ForBalanced,
   StatementBalanced DEF Statements

-----------------------------------------------------------------------------
(* Functions and external definitions *)

LEMMA DeclaratorListBalanced ==
    ASSUME NEW c, Ready(c), SetFuncDef \/ parse_function_declarator
    PROVE  Arrives(c)
<1>1. type # "undefined" /\ c \in Stacks /\ open \in Seq(Opening)
  BY DEF Ready
<1>2. CASE SetFuncDef
  <2>1. type' = type /\ Head(todo)[1] = "func_def" /\ Stay(<<>>)
    BY <1>2 DEF SetFuncDef, At
  <2>2. open = c
    BY <2>1, HeadRuns DEF Ordinary
  <2> QED BY <1>1, <2>1, <2>2, KeepItems, StepKinds, KeepingStep DEF Arrives
<1>3. CASE parse_function_declarator
  <2>1. type' # "undefined" \/ errors' = TRUE
    BY <1>1, <1>3 DEF parse_function_declarator
  <2>2. Head(todo)[1] \in {"function_declarator", "parameter", "parameter_star", "parameter_name", "parameter_void",
                           "parameter_array", "array_close"}
    BY <1>3 DEF parse_function_declarator, At
  <2>3. CASE At("array_close")
    <3>1. open = Append(c, "[")
      BY <2>3, HeadRuns DEF SquareClosers, At
    <3>2. errors' = TRUE \/ (tk = "]" /\ Takes(<<>>))
      BY <1>3, <2>1, <2>3, StepKinds DEF parse_function_declarator, At
    <3> QED BY <3>1, <3>2, KeepItems, PlainTokens, ClosingStep DEF Arrives
  <2>4. CASE ~At("array_close")
    <3>1. open = Append(c, "(")
      BY <1>3, <2>2, <2>4, HeadRuns DEF ParenClosers, At, parse_function_declarator
    <3>2. CASE At("function_declarator") \/ At("parameter") \/ At("parameter_star")
      <4>1. \/ errors' = TRUE
            \/ tk = ")" /\ Takes(<<<<"func_def", 0>>>>)
            \/ \E x, y : Waits(<<<<"parameter", x, y>>>>)
            \/ \E x, y : Waits(<<Call("type_specifier"), <<"parameter_star", x, y>>>>)
            \/ \E x, y : tk = "*" /\ Takes(<<Try("const"), <<"parameter_name", x, y, 1>>>>)
            \/ \E x, y : Waits(<<<<"parameter_name", x, y, 0>>>>)
        BY <1>3, <2>1, <3>2, StepKinds DEF parse_function_declarator, At
      <4>2. /\ Keep(<<<<"func_def", 0>>>>)
            /\ \A x, y : /\ Close(<<<<"parameter", x, y>>>>, "(")
                         /\ Close(<<Call("type_specifier"), <<"parameter_star", x, y>>>>, "(")
                         /\ Close(<<Try("const"), <<"parameter_name", x, y, 1>>>>, "(")
                         /\ Close(<<<<"parameter_name", x, y, 0>>>>, "(")
        BY PlainTokens, NamedItems, KeepItems, CloseItems DEF Ordinary, ParenClosers
      <4>3. tk = "*" => tk \notin Brackets
        BY PlainTokens DEF UnaryOperators
      <4> QED BY <3>1, <4>1, <4>2, <4>3, PlainTokens, ClosingStep DEF Arrives
    <3>3. CASE At("parameter_name") \/ At("parameter_void")
      <4>1. \/ errors' = TRUE
            \/ \E x, y, z, u : \/ tk \in Identifiers /\ Takes(<<<<"parameter_void", x, y, z, u>>>>)
                               \/ Waits(<<<<"parameter_void", x, y, z, u>>>>)
                               \/ Waits(<<<<"parameter_array", x, y, z, u>>>>)
        BY <1>3, <2>1, <3>3, StepKinds DEF parse_function_declarator, At
      <4>2. \A x, y, z, u : /\ Close(<<<<"parameter_void", x, y, z, u>>>>, "(")
                            /\ Close(<<<<"parameter_array", x, y, z, u>>>>, "(")
        BY PlainTokens, NamedItems, CloseItems DEF ParenClosers
      <4> QED BY <3>1, <4>1, <4>2, PlainTokens, ClosingStep DEF Arrives
    <3>4. CASE At("parameter_array")
      <4>1. PICK again : again = <<"parameter_array", Arg(1), Arg(2), 2, Arg(4)>>
        OBVIOUS
      <4>2. PICK items : items = <<Call("array_close")>> \o <<again>>
        OBVIOUS
      <4>3. \/ errors' = TRUE
            \/ tk = "[" /\ Takes(items)
            \/ \E x, y, z, u : Waits(<<<<"parameter_function", x, y, z, u>>>>)
        BY <1>3, <2>1, <3>4, <4>1, <4>2, StepKinds DEF parse_function_declarator, At
      <4>4. \A x, y, z, u : Close(<<<<"parameter_function", x, y, z, u>>>>, "(")
        BY PlainTokens, NamedItems, CloseItems DEF ParenClosers
      <4>5. CASE tk = "[" /\ Takes(items)
        <5>1. Track(tk) = Append(open, "[") /\ Track(tk) \in Seq(Opening) /\ open \in Stacks
          BY <1>1, <4>5, TrackedBrackets, OpenedStacks DEF Opening
        <5>2. ItemCloses(again, "(") /\ ItemCloses(Call("array_close"), "[")
          BY <4>1, NamedItems DEF ParenClosers, SquareClosers
        <5>3. ASSUME NEW k, NEW ah PROVE Path(items, Track(tk), c, k, ah)
          <6>1. Path(<<Call("array_close")>>, Append(open, "["), open, k, ah)
            BY <5>1, <5>2, PlainTokens, CloseItems DEF Close
          <6>2. Path(<<again>>, open, c, k, ah)
            BY <1>1, <3>1, <5>2, PlainTokens, CloseItems DEF Close
          <6>3. Free(<<again>>)
            <7>1. Len(<<again>>) = 1 /\ <<again>>[1] = again /\ \A i \in 1..1 : i = 1
              OBVIOUS
            <7> QED BY <5>2, <7>1 DEF Free, ItemCloses
          <6> QED BY <4>2, <5>1, <6>1, <6>2, <6>3, PathJoin
        <5> QED BY <4>5, <5>1, <5>3, TakenToken
      <4> QED BY <3>1, <4>3, <4>4, <4>5, PlainTokens, ClosingStep DEF Arrives
    <3> QED BY <2>2, <2>4, <3>2, <3>3, <3>4, <1>3 DEF At, parse_function_declarator
  <2> QED BY <2>3, <2>4
<1> QED BY <1>2, <1>3

LEMMA FreeItems ==
    ASSUME NEW t, NEW u, NEW v, t[1] \notin Immediate, u[1] \notin Immediate, v[1] \notin Immediate
    PROVE  Free(<<t, u>>) /\ Free(<<t, u, v>>)
<1>1. Len(<<t, u>>) = 2 /\ <<t, u>>[1] = t /\ <<t, u>>[2] = u
  OBVIOUS
<1>2. Len(<<t, u, v>>) = 3 /\ <<t, u, v>>[1] = t /\ <<t, u, v>>[2] = u /\ <<t, u, v>>[3] = v
  OBVIOUS
<1>3. (\A i \in 1..2 : i = 1 \/ i = 2) /\ (\A i \in 1..3 : i = 1 \/ i = 2 \/ i = 3)
  OBVIOUS
<1>4. Free(<<t, u>>)
  BY <1>1, <1>3 DEF Free
<1>5. Free(<<t, u, v>>)
  BY <1>2, <1>3 DEF Free
<1> QED BY <1>4, <1>5

LEMMA UnreachedStack == Unreached \in Stacks
<1>1. PICK U : U = Opening \cup {"none"}
  OBVIOUS
<1>2. "none" \in U
  BY <1>1
<1>3. <<"none">> \in Seq(U)
  BY ONLY <1>2
<1> QED BY <1>1, <1>3 DEF Unreached, Stacks

\* The rest of a parameter that is a function: two parentheses are open.
LEMMA FunctionRest ==
    ASSUME NEW c \in Stacks, NEW one, one = Append(c, "("), NEW two, two = Append(one, "("), two \in Stacks,
           NEW x, NEW y, NEW named, NEW k, NEW ah, NEW saved, NEW recovery,
           recovery = <<>> \/ recovery = <<Call("parameter_error"), Skip({",", ")", ";"})>>
    PROVE  Path(<<Expect(")"), Expect("(")>> \o recovery
                    \o << <<"function_declarator", 0, 2>>, <<"func_def", saved>>,
                          <<"parameter_end", x, y, named>> >>, two, c, k, ah)
<1>1. one \in Stacks
  BY OpenStacks DEF Opening
<1>2. Path(<<Expect(")"), Expect("(")>>, two, two, k, ah)
  <2>1. Runs(Expect(")"), two, one, k, ah)
    BY NamedItems DEF ItemCloses
  <2>2. Expect("(")[1] = "expect_and_consume" /\ Expect("(")[2] = "("
    BY DEF Expect
  <2>3. Runs(Expect("("), one, two, k, ah)
    BY <2>2, OtherRuns DEF ExpectRuns
  <2>4. Expect("(")[1] \notin Immediate
    BY <2>2 DEF Immediate
  <2> QED BY <1>1, <2>1, <2>3, <2>4, PathTwo
<1>3. Path(recovery, two, two, k, ah) /\ Free(recovery)
  <2>1. CASE recovery = <<>>
    <3>1. Free(<<>>)
      BY LoopRests
    <3> QED BY <2>1, <3>1, PathNone
  <2>2. CASE recovery # <<>>
    <3>1. PICK u, v : u = Call("parameter_error") /\ v = Skip({",", ")", ";"})
      OBVIOUS
    <3>2. u[1] = "parameter_error" /\ v[1] = "skip_until"
      BY <3>1 DEF Call, Skip
    <3>3. u[1] \notin Immediate /\ v[1] \notin Immediate /\ v[1] \in Recovering
      BY <3>2 DEF Immediate, Recovering
    <3>4. Unreached \in Stacks
      BY UnreachedStack
    <3>5. Runs(u, two, Unreached, k, ah)
      BY <3>2, OtherRuns
    <3>6. Runs(v, Unreached, two, k, ah)
      BY <3>3, RecoveringRuns
    <3>7. Path(<<u, v>>, two, two, k, ah)
      BY <3>3, <3>4, <3>5, <3>6, PathTwo
    <3>8. Free(<<u, v>>)
      BY <3>3, FreeItems
    <3> QED BY <2>2, <3>1, <3>7, <3>8
  <2> QED BY <2>1, <2>2
<1>4. PICK d, e, g : /\ d = <<"function_declarator", 0, 2>> /\ e = <<"func_def", saved>>
                     /\ g = <<"parameter_end", x, y, named>>
  OBVIOUS
<1>5. ItemCloses(d, "(") /\ ItemKeeps(e) /\ ItemCloses(g, "(")
  BY <1>4, NamedItems DEF Ordinary, ParenClosers
<1>6. Path(<<d, e, g>>, two, c, k, ah)
  <2>1. Runs(d, two, one, k, ah) /\ Runs(e, one, one, k, ah) /\ Runs(g, one, c, k, ah)
    BY <1>5 DEF ItemCloses, ItemKeeps
  <2>2. e[1] \notin Immediate /\ g[1] \notin Immediate
    BY <1>5 DEF ItemCloses, ItemKeeps
  <2> QED BY <1>1, <2>1, <2>2, PathThree
<1>7. Free(<<d, e, g>>)
  <2>1. d[1] \notin Immediate /\ e[1] \notin Immediate /\ g[1] \notin Immediate
    BY <1>5 DEF ItemCloses, ItemKeeps
  <2> QED BY <2>1, FreeItems
<1>8. PICK first, last : first = <<Expect(")"), Expect("(")>> /\ last = <<d, e, g>>
  OBVIOUS
<1>9. Path(first \o recovery, two, two, k, ah)
  BY <1>2, <1>3, <1>8, PathJoin
<1>10. Path((first \o recovery) \o last, two, c, k, ah)
  BY <1>6, <1>7, <1>8, <1>9, PathJoin
<1> QED BY <1>4, <1>8, <1>10

LEMMA FunctionParameterBalanced ==
    ASSUME NEW c, Ready(c), parse_function_parameter
    PROVE  Arrives(c)
<1>1. type # "undefined" /\ c \in Stacks /\ open \in Seq(Opening)
  BY DEF Ready
<1>2. type' # "undefined" \/ errors' = TRUE
  BY <1>1 DEF parse_function_parameter, Fail
<1>3. CASE At("parameter_function")
  <2>1. open = Append(c, "(")
    BY <1>3, HeadRuns DEF ParenClosers, At
  <2>2. PICK name : name = <<"function_name", Arg(1), Arg(2), Arg(3), Arg(4)>>
    OBVIOUS
  <2>3. \/ errors' = TRUE
        \/ tk = "(" /\ Takes(<<Expect("*"), name>>)
        \/ \E x, y, z : Waits(<<<<"parameter_end", x, y, z>>>>)
    BY <1>2, <1>3, <2>2, StepKinds DEF parse_function_parameter, At
  <2>4. \A x, y, z : Close(<<<<"parameter_end", x, y, z>>>>, "(")
    BY PlainTokens, NamedItems, CloseItems DEF ParenClosers
  <2>5. CASE tk = "(" /\ Takes(<<Expect("*"), name>>)
    <3>1. Track(tk) = Append(open, "(") /\ Track(tk) \in Seq(Opening) /\ Track(tk) \in Stacks
      BY <1>1, <2>5, TrackedBrackets, OpenedStacks DEF Opening
    <3>2. name[1] = "function_name" /\ name[1] \notin Immediate
      BY <2>2 DEF Immediate
    <3>3. ASSUME NEW k, NEW ah PROVE Path(<<Expect("*"), name>>, Track(tk), c, k, ah)
      <4>1. Runs(name, Track(tk), c, k, ah)
        BY <2>1, <3>1, <3>2, OtherRuns
      <4>2. Runs(Expect("*"), Track(tk), Track(tk), k, ah)
        BY NamedItems DEF ItemKeeps
      <4> QED BY <1>1, <3>1, <3>2, <4>1, <4>2, PathTwo
    <3> QED BY <2>5, <3>1, <3>3, TakenToken
  <2> QED BY <2>1, <2>3, <2>4, <2>5, PlainTokens, ClosingStep DEF Arrives
<1>4. CASE At("function_name")
  <2> DEFINE recovery == IF Arg(3) = 0 THEN <<>> ELSE <<Call("parameter_error"), Skip({",", ")", ";"})>>
  <2> DEFINE rest(named) == <<Expect(")"), Expect("(")>> \o recovery
                 \o << <<"function_declarator", 0, 2>>, <<"func_def", func_def>>,
                       <<"parameter_end", Arg(1), Arg(2), named>> >>
  <2>1. \/ \E named : tk \in Identifiers /\ Consume(rest(named))
        \/ Fail(<<>>)
        \/ \E named : Stay(rest(named))
    BY <1>4 DEF parse_function_parameter, At
  <2>2. PICK one : one = Append(c, "(")
    OBVIOUS
  <2>3. open = Append(one, "(")
    BY <1>4, <2>2, OtherRuns DEF At, Ready
  <2>4. open \in Stacks
    BY <1>1, OpenedStacks
  <2>5. recovery = <<>> \/ recovery = <<Call("parameter_error"), Skip({",", ")", ";"})>>
    OBVIOUS
  <2> HIDE DEF recovery
  <2>6. \A named, k, ah : Path(rest(named), open, c, k, ah)
    BY <1>1, <2>2, <2>3, <2>4, <2>5, FunctionRest
  <2> HIDE DEF rest
  <2>7. tk \in Identifiers => Track(tk) = open
    BY <1>1, PlainTokens, TrackedBrackets
  <2>8. CASE \E named : tk \in Identifiers /\ Consume(rest(named))
    <3>1. PICK named : tk \in Identifiers /\ Consume(rest(named))
      BY <2>8
    <3>2. errors' = TRUE \/ Takes(rest(named))
      BY <1>2, <3>1, StepKinds
    <3> QED BY <1>1, <2>6, <2>7, <3>1, <3>2, TakenToken DEF Arrives
  <2>9. CASE \E named : Stay(rest(named))
    <3>1. PICK named : Stay(rest(named))
      BY <2>9
    <3>2. errors' = TRUE \/ Waits(rest(named))
      BY <1>2, <3>1, StepKinds
    <3> QED BY <2>6, <3>2, LeftToken DEF Arrives
  <2> QED BY <2>1, <2>8, <2>9 DEF Fail, Arrives
<1>5. CASE At("parameter_error")
  BY <1>5 DEF parse_function_parameter, At, Fail, Arrives
<1> QED BY <1>3, <1>4, <1>5 DEF parse_function_parameter

LEMMA ParameterEndBalanced ==
    ASSUME NEW c, Ready(c), parse_parameter_end
    PROVE  Arrives(c)
<1>1. type' = type /\ type # "undefined" /\ Head(todo)[1] \in {"parameter_end", "skip_braces", "more_parameters"}
  BY DEF Ready, parse_parameter_end, At
<1>2. Head(todo)[1] # "skip_braces"
  BY HeadRuns DEF Recovering
<1>3. open = Append(c, "(")
  BY <1>1, <1>2, HeadRuns DEF ParenClosers
<1>4. \/ errors' = TRUE
      \/ \E x, y : Waits(<<<<"more_parameters", x, y>>>>)
      \/ \E x, y : tk = "," /\ Takes(<<<<"parameter", x, y>>>>)
      \/ \E x : Waits(<<Expect(")"), <<"func_def", x>>>>)
  BY <1>1, <1>2, StepKinds DEF parse_parameter_end, At
<1>5. /\ \A x, y : Close(<<<<"more_parameters", x, y>>>>, "(") /\ Close(<<<<"parameter", x, y>>>>, "(")
      /\ \A x : Close(<<Expect(")"), <<"func_def", x>>>>, "(")
  BY PlainTokens, NamedItems, CloseItems DEF Ordinary, ParenClosers
<1> QED BY <1>3, <1>4, <1>5, PlainTokens, ClosingStep DEF Arrives

LEMMA FunctionDefinitionBalanced ==
    ASSUME NEW c, Ready(c), parse_function_definition
    PROVE  Arrives(c)
<1>1. type' = type /\ type # "undefined" /\ Head(todo)[1] = "function_definition"
  BY DEF Ready, parse_function_definition, At
<1>2. "function_definition" \in Immediate
  BY DEF Immediate
<1>3. ImmediateRuns("function_definition", open, c, tk, ahead)
  BY <1>1, <1>2, ImmediatelyRuns DEF Ready
<1>4. tk = "{" /\ open = c
  BY <1>3 DEF ImmediateRuns
<1>5. errors' = TRUE \/ Takes(<<Call("compound_body"), Call("leave_block")>>)
  BY <1>1, StepKinds DEF parse_function_definition
<1>6. Close(<<Call("compound_body"), Call("leave_block")>>, "{")
  BY PlainTokens, NamedItems, CloseItems DEF Ordinary, BraceClosers
<1> QED BY <1>4, <1>5, <1>6, PlainTokens, KeepingStep DEF Arrives

LEMMA FunctionDeclarationBalanced ==
    ASSUME NEW c, Ready(c), parse_function_declaration
    PROVE  Arrives(c)
<1>1. /\ type' = type /\ type # "undefined" /\ c \in Stacks /\ open \in Seq(Opening) /\ errors = FALSE
      /\ Head(todo)[1] \in {"function_declaration", "function_rest"}
  BY DEF Ready, parse_function_declaration, At
<1>2. CASE At("function_declaration")
  <2>1. Head(todo)[1] = "function_declaration" /\ "function_declaration" \in Immediate
    BY <1>2 DEF At, Immediate
  <2>2. ImmediateRuns("function_declaration", open, c, tk, ahead)
    BY <2>1, ImmediatelyRuns DEF Ready
  <2>3. tk \in Identifiers /\ ahead = "(" /\ open = c
    BY <2>2 DEF ImmediateRuns
  <2>4. PICK t, u, v : /\ t = Call("consume_token") /\ u = <<"function_declarator", 1, 3>>
                       /\ v = Call("function_rest")
    OBVIOUS
  <2>5. Consume(<<t, u, v>>)
    BY <1>2, <2>4 DEF parse_function_declaration, At
  <2>6. tk' = "("
    BY <2>3, <2>5 DEF Consume, consume_token, Identifiers, Eof, Unseen
  <2>7. errors' = FALSE /\ Push(<<t, u, v>>) /\ open' = Track(tk)
    BY <1>1, <2>5 DEF Consume, consume_token
  <2>8. open' = c
    BY <1>1, <2>3, <2>7, PlainTokens, TrackedBrackets
  <2>9. PICK k, ah, one : k = tk' /\ ah = ahead' /\ one = Append(c, "(")
    OBVIOUS
  <2>10. Path(<<t, u, v>>, c, c, k, ah)
    <3>1. t[1] = "consume_token" /\ t[1] \in Immediate
      BY <2>4 DEF Call, Immediate
    <3>2. ImmediateRuns("consume_token", c, one, k, ah)
      BY <2>6, <2>9 DEF ImmediateRuns
    <3>3. Runs(t, c, one, k, ah)
      BY <3>1, <3>2, ImmediatelyRuns
    <3>4. ItemCloses(u, "(") /\ ItemKeeps(v)
      BY <2>4, NamedItems DEF ParenClosers, Ordinary
    <3>5. Runs(u, one, c, k, ah) /\ Runs(v, c, c, k, ah) /\ u[1] \notin Immediate /\ v[1] \notin Immediate
      BY <2>9, <3>4 DEF ItemCloses, ItemKeeps
    <3>6. one \in Stacks
      BY <1>1, <2>9, OpenStacks DEF Opening
    <3> QED BY <1>1, <3>3, <3>5, <3>6, PathThree
  <2> QED BY <1>1, <2>3, <2>7, <2>8, <2>9, <2>10 DEF Arrives
<1>3. CASE At("function_rest")
  <2>1. open = c
    BY <1>3, HeadRuns DEF Ordinary, At
  <2>2. \/ tk = "{" /\ Stay(<<Call("function_definition")>>)
        \/ \E items : Fail(items)
        \/ Stay(<<>>)
    BY <1>3 DEF parse_function_declaration, At
  <2>3. \/ errors' = TRUE \/ Waits(<<>>)
        \/ tk = "{" /\ Waits(<<Call("function_definition")>>)
    BY <1>1, <2>2, StepKinds
  <2>4. ASSUME tk = "{" PROVE Path(<<Call("function_definition")>>, open, c, tk, ahead)
    <3>1. Call("function_definition")[1] = "function_definition" /\ "function_definition" \in Immediate
      BY DEF Call, Immediate
    <3>2. ImmediateRuns("function_definition", open, c, tk, ahead)
      BY <2>1, <2>4 DEF ImmediateRuns
    <3>3. Runs(Call("function_definition"), open, c, tk, ahead)
      BY <3>1, <3>2, ImmediatelyRuns
    <3> QED BY <1>1, <2>1, <3>3, PathOne
  <2> QED BY <2>1, <2>3, <2>4, LeftToken, KeepItems, KeepingStep DEF Arrives
<1> QED BY <1>2, <1>3 DEF parse_function_declaration

LEMMA ExternalBalanced ==
    ASSUME NEW c, Ready(c), parse_external_definition \/ parse_translation_unit
    PROVE  Arrives(c)
<1>1. /\ type' = type /\ type # "undefined" /\ c \in Stacks
      /\ Head(todo)[1] \in {"external_definition", "group", "external", "external_name", "more_externals",
                            "translation_unit"}
  BY DEF Ready, parse_external_definition, parse_translation_unit, At
<1>2. Head(todo)[1] \in Ordinary
  BY <1>1 DEF Ordinary
<1>3. open = c /\ ItemKeeps(Head(todo))
  BY <1>2, HeadRuns, ItemsRun
<1>4. CASE parse_external_definition /\ At("external_name")
  <2>1. \/ tk \in Identifiers /\ ahead = "(" /\ Stay(<<Call("function_declaration")>>)
        \/ \E items : Fail(items)
        \/ Stay(<<Call("init_declarator")>>)
    BY <1>4 DEF parse_external_definition, At, NoDeclarator
  <2>2. \/ errors' = TRUE \/ Waits(<<Call("init_declarator")>>)
        \/ tk \in Identifiers /\ ahead = "(" /\ Waits(<<Call("function_declaration")>>)
    BY <1>1, <2>1, StepKinds
  <2>3. ASSUME tk \in Identifiers, ahead = "(" PROVE Path(<<Call("function_declaration")>>, open, c, tk, ahead)
    <3>1. Call("function_declaration")[1] = "function_declaration" /\ "function_declaration" \in Immediate
      BY DEF Call, Immediate
    <3>2. ImmediateRuns("function_declaration", open, c, tk, ahead)
      BY <1>3, <2>3 DEF ImmediateRuns
    <3>3. Runs(Call("function_declaration"), open, c, tk, ahead)
      BY <3>1, <3>2, ImmediatelyRuns
    <3> QED BY <1>1, <1>3, <3>3, PathOne
  <2>4. Keep(<<Call("init_declarator")>>)
    BY NamedItems, KeepItems DEF Ordinary
  <2> QED BY <1>3, <2>2, <2>3, <2>4, LeftToken, KeepingStep DEF Arrives
<1>5. CASE parse_external_definition /\ ~At("external_name")
  <2>1. \/ errors' = TRUE \/ Waits(<<>>) \/ (tk = ";" /\ Takes(<<>>))
        \/ Waits(<<Call("type_specifier"), Call("group")>>)
        \/ \E x : Waits(<<<<"external", x>>, <<"more_externals", x>>>>)
        \/ \E x : Waits(<<<<"external_name", x>>>>) \/ (tk = "*" /\ Takes(<<<<"external_name", x>>>>))
        \/ \E x : tk = "," /\ Takes(<<<<"external", x>>, Head(todo)>>)
        \/ Waits(<<Expect(";")>>)
    BY <1>1, <1>5, StepKinds DEF parse_external_definition
  <2>2. /\ Keep(<<Call("type_specifier"), Call("group")>>) /\ Keep(<<Expect(";")>>)
        /\ \A x : /\ Keep(<<<<"external", x>>, <<"more_externals", x>>>>) /\ Keep(<<<<"external_name", x>>>>)
                  /\ Keep(<<<<"external", x>>, Head(todo)>>)
    <3>1. ItemKeeps(Call("type_specifier")) /\ ItemKeeps(Call("group")) /\ ItemKeeps(Expect(";"))
      BY NamedItems DEF Ordinary
    <3>2. \A x : /\ ItemKeeps(<<"external", x>>) /\ ItemKeeps(<<"more_externals", x>>)
                 /\ ItemKeeps(<<"external_name", x>>)
      BY NamedItems DEF Ordinary
    <3> QED BY <1>3, <3>1, <3>2, KeepItems
  <2>3. tk \in {";", "*", ","} => tk \notin Brackets
    BY PlainTokens DEF UnaryOperators
  <2> QED BY <1>3, <2>1, <2>2, <2>3, KeepItems, KeepingStep DEF Arrives
<1>6. CASE parse_translation_unit
  <2>1. errors' = TRUE \/ Waits(<<>>) \/ Waits(<<Call("external_definition"), Head(todo)>>)
    BY <1>1, <1>6, StepKinds DEF parse_translation_unit
  <2>2. Keep(<<Call("external_definition"), Head(todo)>>)
    BY <1>3, NamedItems, KeepItems DEF Ordinary
  <2> QED BY <1>3, <2>1, <2>2, KeepItems, KeepingStep DEF Arrives
<1> QED BY <1>4, <1>5, <1>6

LEMMA DefinitionsBalanced ==
    ASSUME NEW c, Ready(c), Definitions
    PROVE  Arrives(c)
BY DeclaratorListBalanced, FunctionParameterBalanced, ParameterEndBalanced, FunctionDefinitionBalanced,
   FunctionDeclarationBalanced, ExternalBalanced DEF Definitions

-----------------------------------------------------------------------------
(* The specification *)

LEMMA ErrorsStay ==
    ASSUME Next, ~peek_token
    PROVE  todo # <<>> /\ (errors = TRUE => errors' = TRUE)
<1>1. /\ \A items : Stay(items) \/ Consume(items) => errors' = errors
      /\ \A items : Fail(items) \/ FailAndConsume(items) => errors' = TRUE
      /\ \A b : Build(b) => errors' = errors \/ errors' = TRUE
  BY DEF Stay, Consume, Fail, FailAndConsume, Build, Built, SemanticError
<1>2. CASE Tokens
  BY <1>1, <1>2 DEF Tokens, try_consume_token, expect_and_consume, Missing, ConsumeToken, skip_until, At
<1>3. CASE Expressions
  BY <1>1, <1>3 DEF Expressions, parse_primary_expression, ClosePrimary, parse_initializer_list, parse_postfix_expression,
     parse_postfix_operand, parse_unary_expression, parse_RHS_of_binary_expression, parse_expression,
     parse_constant_expression, parse_initializer, Broken, At
<1>4. CASE Declarations
  BY <1>1, <1>4 DEF Declarations, parse_type_specifier, Qualify, Typedef, parse_struct_specifier, Reference,
     parse_struct_declaration, parse_member_declaration, parse_bounds, parse_enum_specifier, parse_enum_declaration_list,
     parse_init_declarator, parse_declaration, Star, At
<1>5. CASE Statements
  BY <1>1, <1>5 DEF Statements, RestoreLoop, RestoreSwitch, LeaveBlock, parse_condition, parse_case_statement,
     parse_default_statement, parse_compound_statement_body, UnclosedBody, parse_compound_statement,
     parse_expression_statement, parse_if_statement, parse_switch_statement, parse_while_statement, parse_do_statement,
     parse_for_statement, ForBody, LoopBody, Header, parse_continue_statement, parse_break_statement,
     parse_return_statement, parse_statement, At
<1>6. CASE Definitions
  BY <1>1, <1>6 DEF Definitions, SetFuncDef, parse_function_declarator, parse_function_parameter, parse_parameter_end,
     parse_function_definition, parse_function_declaration, parse_external_definition, NoDeclarator,
     parse_translation_unit, At
<1> QED BY <1>2, <1>3, <1>4, <1>5, <1>6 DEF Next

\* A token that is looked up ahead of a call that is not made at once.
LEMMA PathAhead ==
    ASSUME NEW s, s # <<>>, Head(s)[1] \notin Immediate, NEW a, NEW b, NEW k, NEW ah, Path(s, a, b, k, ah), NEW ah2
    PROVE  Path(s, a, b, k, ah2)
<1>1. PICK S : s \in Seq(S)
  BY DEF Path, IsStack
<1>2. PICK n : n = Len(s)
  OBVIOUS
<1>3. n \in Nat /\ Head(s) = s[1]
  BY <1>1, <1>2
<1>4. PICK W \in [0..n -> Stacks] :
          /\ W[0] = a /\ W[n] = b /\ \A i \in 1..n : Runs(s[i], W[i - 1], W[i], k, ah)
  BY <1>2 DEF Path
<1>5. \A i \in 1..n : i = 1 \/ i \in 2..n
  BY <1>3
<1>6. \A i \in 1..n : s[i][1] \notin Immediate
  BY <1>2, <1>3, <1>5 DEF Path
<1>7. \A i \in 1..n : Runs(s[i], W[i - 1], W[i], k, ah2)
  BY <1>4, <1>6, RunsFree
<1> QED BY <1>2, <1>4, <1>7 DEF Path

LEMMA PeekBalanced ==
    ASSUME BalanceInv, peek_token, ParserInv'
    PROVE  BalanceInv'
<1>1. todo' = todo /\ open' = open /\ type' = type /\ errors' = errors /\ tk' = tk /\ todo # <<>>
  BY DEF peek_token, Peeking
<1>2. Head(todo)[1] \notin Immediate
  BY DEF peek_token, Peeking, At, Immediate
<1>3. CASE errors = TRUE
  BY <1>1, <1>3 DEF BalanceInv
<1>4. CASE Balanced
  <2>1. Path(todo, open, <<>>, tk, ahead')
    BY <1>1, <1>2, <1>4, PathAhead DEF Balanced
  <2>2. Balanced'
    BY <1>1, <1>4, <2>1 DEF Balanced
  <2> QED BY <2>2 DEF BalanceInv
<1> QED BY <1>3, <1>4 DEF BalanceInv

LEMMA InitBalanced ==
    ASSUME Init
    PROVE  BalanceInv
<1>1. PICK a, b : a = Call("external_definition") /\ b = Call("translation_unit")
  OBVIOUS
<1>2. todo = <<a, b>> /\ open = <<>> /\ type = "plain"
  BY <1>1 DEF Init
<1>3. ItemKeeps(a) /\ ItemKeeps(b)
  BY <1>1, NamedItems DEF Ordinary
<1>4. <<>> \in Stacks /\ <<>> \in Seq(Opening)
  BY DEF Stacks
<1>5. Keep(<<a, b>>)
  BY <1>3, KeepItems
<1>6. Path(<<a, b>>, <<>>, <<>>, tk, ahead)
  BY <1>4, <1>5 DEF Keep
<1>7. Balanced
  BY <1>2, <1>4, <1>6 DEF Balanced
<1> QED BY <1>7, InitParserInv DEF BalanceInv

LEMMA NextBalanced ==
    ASSUME BalanceInv, [Next]_vars
    PROVE  BalanceInv'
<1>1. ParserInv'
  BY NextParserInv DEF BalanceInv
<1>2. CASE peek_token
  BY <1>1, <1>2, PeekBalanced
<1>3. CASE Next /\ ~peek_token
  <2>1. todo # <<>> /\ (errors = TRUE => errors' = TRUE)
    BY <1>3, ErrorsStay
  <2>2. \A c : Ready(c) => Arrives(c)
    BY <1>3, TokensBalanced, ExpressionsBalanced, DeclarationsBalanced, StatementsBalanced, DefinitionsBalanced
       DEF Next, Tokens
  <2> QED BY <1>1, <2>1, <2>2, BalancedStep
<1>4. CASE UNCHANGED vars
  BY <1>1, <1>4 DEF vars, BalanceInv, Balanced
<1> QED BY <1>2, <1>3, <1>4 DEF Next

LEMMA BalancedAtEnd ==
    ASSUME BalanceInv
    PROVE  AcceptedIsBalanced
<1> SUFFICES ASSUME todo = <<>>, ~errors PROVE open = <<>>
  BY DEF AcceptedIsBalanced
<1>1. Path(<<>>, open, <<>>, tk, ahead)
  BY DEF BalanceInv, Balanced
<1>2. Len(<<>>) = 0
  OBVIOUS
<1>3. PICK W : W[0] = open /\ W[Len(<<>>)] = <<>>
  BY <1>1 DEF Path
<1> QED BY <1>2, <1>3

\* A source that parse() accepts has its brackets matched: each waiting call
\* closes the bracket its caller has taken, though another function takes it,
\* and a recovery that skips brackets unchecked has reported an error.
THEOREM AcceptedSourcesAreBalanced == Spec => []AcceptedIsBalanced
<1>1. Init => BalanceInv
  BY InitBalanced
<1>2. BalanceInv /\ [Next]_vars => BalanceInv'
  BY NextBalanced
<1>3. BalanceInv => AcceptedIsBalanced
  BY BalancedAtEnd
<1> QED BY <1>1, <1>2, <1>3, PTL DEF Spec

===============================================================================
