------------------------------- MODULE Tree -------------------------------
(***************************************************************************)
(* The tree of nodes in one flat vector (tree.c).  A node is the index of  *)
(* its third cell: before it stand the reference to the next sibling (or,  *)
(* negated, to the parent) and the type, from it on the number of          *)
(* children, the reference to the first child, the number of arguments and *)
(* the arguments.  The root is node 0 and has no cells before it.          *)
(***************************************************************************)
EXTENDS Integers, Sequences, SequencesExt

ITEM_MAX == 99999
node_broken == -1

vector_get(v, i) == IF i \in 0..Len(v) - 1 THEN v[i + 1] ELSE ITEM_MAX
vector_set(v, i, value) == IF i \in 0..Len(v) - 1 THEN [v EXCEPT ![i + 1] = value] ELSE v
vector_swap(v, i, j) == vector_set(vector_set(v, i, vector_get(v, j)), j, vector_get(v, i))

ref_get_next(nd) == nd - 2
ref_get_amount(nd) == nd
ref_get_children(nd) == nd + 1
ref_get_argc(nd) == nd + 2
node_is_correct(nd) == nd # node_broken

node_get_type(t, nd) == IF nd > 0 THEN vector_get(t, nd - 1) ELSE ITEM_MAX
node_get_argc(t, nd) == IF node_is_correct(nd) THEN vector_get(t, ref_get_argc(nd)) ELSE 0
node_get_arg(t, nd, i) == IF i < node_get_argc(t, nd) THEN vector_get(t, ref_get_argc(nd) + 1 + i) ELSE ITEM_MAX
node_get_amount(t, nd) == IF node_is_correct(nd) THEN vector_get(t, ref_get_amount(nd)) ELSE 0

\* From sibling to sibling up to the reference to the parent: <<the parent, the siblings passed>>.
RECURSIVE UpFrom(_, _, _)
UpFrom(t, index, passed) == IF index > 0 THEN UpFrom(t, vector_get(t, index - 2), passed + 1) ELSE <<-index, passed>>
\* The parent and the number of the node among its children.
node_search_parent(t, nd) ==
  LET up == UpFrom(t, vector_get(t, ref_get_next(nd)), 1)
  IN IF nd <= 0 THEN <<node_broken, 0>> ELSE <<up[1], node_get_amount(t, up[1]) - up[2]>>

node_get_root == <<0, 0, 0>>
RECURSIVE Along(_, _, _)
Along(t, nd, steps) == IF steps = 0 THEN nd ELSE Along(t, vector_get(t, nd - 2), steps - 1)
node_get_child(t, nd, i) ==
  IF ~node_is_correct(nd) \/ i >= node_get_amount(t, nd) THEN node_broken
  ELSE Along(t, vector_get(t, ref_get_children(nd)), i)
Children(t, nd) == [i \in 1..node_get_amount(t, nd) |-> node_get_child(t, nd, i - 1)]

\* Only one level is gone up.
NextFrom_Once(t, index) == IF index < 0 THEN vector_get(t, -index - 2) ELSE index
\* The next node in the order of the text.
RECURSIVE NextFrom(_, _)
NextFrom(t, index) == IF index < 0 THEN NextFrom(t, vector_get(t, -index - 2)) ELSE index
node_get_next(t, nd) ==
  LET next == IF node_get_amount(t, nd) = 0 THEN NextFrom(t, vector_get(t, ref_get_next(nd)))
              ELSE vector_get(t, ref_get_children(nd))
  IN IF next # 0 THEN next ELSE node_broken

----------------------------------------------------------------------------
\* Operations that make a node return <<the vector, the node>>.
node_add_child(t, nd, type) ==
  LET child == Len(t) + 2
      amount == node_get_amount(t, nd)
      added == vector_set(t \o <<-nd, type, 0, 0, 0>>, ref_get_amount(nd), amount + 1)
      reference == IF amount = 0 THEN ref_get_children(nd) ELSE ref_get_next(node_get_child(t, nd, amount - 1))
  IN <<vector_set(added, reference, child), child>>

\* The arguments are the cells at the end of the vector: nothing may be added in between.
node_add_arg(t, nd, arg) ==
  IF node_get_amount(t, nd) # 0 THEN t
  ELSE vector_set(Append(t, arg), ref_get_argc(nd), node_get_argc(t, nd) + 1)
node_set_arg(t, nd, i, arg) == IF i >= node_get_argc(t, nd) THEN t ELSE vector_set(t, ref_get_argc(nd) + 1 + i, arg)

\* The reference that leads to the i-th child.
Reference(t, parent, i) == IF i = 0 THEN ref_get_children(parent) ELSE ref_get_next(node_get_child(t, parent, i - 1))

\* The node still refers to its former sibling or parent.
node_insert_Detached(t, nd, type, argc) ==
  LET up == node_search_parent(t, nd)
      child == Len(t) + 2
      added == t \o <<vector_get(t, ref_get_next(nd)), type, 1, nd, argc>> \o [i \in 1..argc |-> 0]
  IN <<vector_set(added, Reference(t, up[1], up[2]), child), child>>
\* A new node takes the place of nd, and nd becomes its only child.
node_insert(t, nd, type, argc) ==
  LET up == node_search_parent(t, nd)
      child == Len(t) + 2
      added == t \o <<vector_get(t, ref_get_next(nd)), type, 1, nd, argc>> \o [i \in 1..argc |-> 0]
      linked == vector_set(added, Reference(t, up[1], up[2]), child)
  IN <<vector_set(linked, ref_get_next(nd), -child), child>>

\* Two nodes change places: the references to them, then the references from them.
node_swap_references(t, fst, snd) == vector_swap(t, ref_get_next(fst), ref_get_next(snd))
node_swap(t, fst, snd) ==
  LET up1 == node_search_parent(t, fst)
      up2 == node_search_parent(t, snd)
  IN node_swap_references(vector_swap(t, Reference(t, up1[1], up1[2]), Reference(t, up2[1], up2[2])), fst, snd)

IsLast(t, nd) == node_get_amount(t, nd) = 0 /\ ref_get_argc(nd) + node_get_argc(t, nd) = Len(t) - 1
\* One cell too many is given back.
Truncated_More(t, nd) == SubSeq(t, 1, ref_get_next(nd) - 1)
Truncated(t, nd) == SubSeq(t, 1, ref_get_next(nd))
\* The node is unlinked, and its cells are given back when they are the last.
node_remove(t, nd) ==
  LET up == node_search_parent(t, nd)
      fewer == vector_set(t, ref_get_amount(up[1]), node_get_amount(t, up[1]) - 1)
      next == vector_get(t, ref_get_next(nd))
      unlinked == IF up[2] = 0 /\ node_get_amount(fewer, up[1]) = 0 THEN fewer
                  ELSE vector_set(fewer, Reference(t, up[1], up[2]), next)
  IN IF IsLast(unlinked, nd) THEN Truncated(unlinked, nd) ELSE unlinked
=============================================================================
