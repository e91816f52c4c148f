----------------------------- MODULE MacroTable -----------------------------
(***************************************************************************)
(* The macro storage as the preprocessor can tell it apart: which names    *)
(* are macros, with how many arguments, and the texts, which macros hold   *)
(* by number.  Macro is written over such a table; Storage implements it.  *)
(*                                                                         *)
(* Texts are kept in one row and only the last of them is ever taken back. *)
(* A macro with a text that is set to the empty one gives up its text but  *)
(* keeps the number, which may then become another macro's.                *)
(***************************************************************************)
LOCAL INSTANCE Naturals
LOCAL INSTANCE Sequences
LOCAL INSTANCE SequencesExt
LOCAL INSTANCE Functions

CONSTANT NoValue          \* no text, and the empty one

NoMacros == [macros |-> <<>>, texts |-> <<>>]
Fresh == [text |-> 0, args |-> 0]

Names(t) == DOMAIN t.macros
ArgsOf(t, n) == t.macros[n].args
TextOf(t, n) == LET k == t.macros[n].text IN IF k \in DOMAIN t.texts THEN t.texts[k] ELSE NoValue

\* Whether the macro holds the last text, which it takes away when it changes or goes.
HoldsLast(t, n) == n \in Names(t) /\ t.texts # <<>> /\ t.macros[n].text = Len(t.texts)
Others(t, n) == IF HoldsLast(t, n) THEN Front(t.texts) ELSE t.texts

\* A name that is defined already keeps what it has.
Added(t, n) == IF n \in Names(t) THEN t
               ELSE [t EXCEPT !.macros = [m \in Names(t) \cup {n} |-> IF m = n THEN Fresh ELSE t.macros[m]]]
WithArgs(t, n, k) == [t EXCEPT !.macros[n].args = k]
WithText(t, n, v) ==
    LET left == Others(t, n)
    IN  IF v = NoValue THEN [t EXCEPT !.texts = left]
        ELSE [t EXCEPT !.texts = Append(left, v), !.macros[n].text = Len(left) + 1]
Removed(t, n) == [macros |-> Restrict(t.macros, Names(t) \ {n}), texts |-> Others(t, n)]
=============================================================================
