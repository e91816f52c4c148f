---------------------------- MODULE LexicalScope ----------------------------
(***************************************************************************)
(* What the identifier table of RuC promises: lexical scoping.             *)
(*                                                                         *)
(* Every open scope has its own environment, a map from names to           *)
(* declarations, and the set of the names it declares itself.  Opening a   *)
(* scope copies the environment, closing it discards the copy, so a name   *)
(* means again what it meant before.  A name is declared at most once per  *)
(* scope; the one exception is a function that is first announced by a     *)
(* prototype and then defined, in the outermost scope.                     *)
(*                                                                         *)
(* Once an error has been reported the compilation is lost and nothing is  *)
(* promised any more.                                                      *)
(***************************************************************************)
EXTENDS Integers, Sequences

CONSTANTS
    Names,          \* the spellings of a program
    Start,          \* Start[n]: what n means before the first declaration
    Undeclared      \* the meaning of a name that has no declaration

VARIABLES
    env,            \* env[k]: the environment of the k-th open scope
    own,            \* own[k]: the names declared in the k-th open scope
    announced,      \* functions that have a prototype and no definition yet
    failed          \* an error was reported

absVars == <<env, own, announced, failed>>

top == Len(env)

AbsInit ==
    /\ env = <<Start>>
    /\ own = <<{n \in Names : Start[n] # Undeclared}>>
    /\ announced = {}
    /\ failed = FALSE

\* A declaration gives the name a new meaning in the innermost scope only.
Bind(n) ==
    /\ Len(env') = top
    /\ env' = [env EXCEPT ![top] = [@ EXCEPT ![n] = env'[top][n]]]
    /\ env'[top][n] \notin {Undeclared, env[top][n]}
    /\ own' = [own EXCEPT ![top] = @ \cup {n}]
    /\ UNCHANGED failed

Declare(n) == n \notin own[top] /\ Bind(n) /\ UNCHANGED announced

Announce(n) ==
    /\ top = 1 /\ n \notin own[1]
    /\ Bind(n)
    /\ announced' = announced \cup {n}

\* The definition of a function replaces its prototype and opens its scope.
Define(n) ==
    /\ top = 1
    /\ n \in own[1] => n \in announced
    /\ Len(env') = 2
    /\ env' = LET bound == [env[1] EXCEPT ![n] = env'[1][n]] IN <<bound, bound>>
    /\ env'[1][n] \notin {Undeclared, env[1][n]}
    /\ own' = <<own[1] \cup {n}, {}>>
    /\ announced' = announced \ {n}
    /\ UNCHANGED failed

Open ==
    /\ env' = Append(env, env[top])
    /\ own' = Append(own, {})
    /\ UNCHANGED <<announced, failed>>

Close ==
    /\ top > 1
    /\ env' = SubSeq(env, 1, top - 1)
    /\ own' = SubSeq(own, 1, top - 1)
    /\ UNCHANGED <<announced, failed>>

Fail == failed' = TRUE

AbsNext ==
    \/ \E n \in Names : Declare(n) \/ Announce(n) \/ Define(n)
    \/ Open
    \/ Close
    \/ Fail

AbsSpec == AbsInit /\ [][AbsNext]_absVars
=============================================================================
