------------------------------ MODULE MCMacro ------------------------------
(* Programs for the preprocessor, in families that each stress one part.   *)
EXTENDS Macro

Nm(s) == <<s>>
Id(s) == <<"id", Nm(s)>>
Num(k) == <<"num", k>>
T(words) == [kind |-> "TEXT", words |-> words]
D(k, n, params, words) == [kind |-> k, name |-> Nm(n), params |-> [i \in DOMAIN params |-> Nm(params[i])], words |-> words]
M(n, params) == [kind |-> "MACRO", name |-> Nm(n), params |-> [i \in DOMAIN params |-> Nm(params[i])]]
N(k, n) == [kind |-> k, name |-> Nm(n)]
E(k, e) == [kind |-> k, expr |-> e]
K(k) == [kind |-> k]
Bin(o, a, b) == <<"bin", o, a, b>>
Call(n, args) == <<"call", Nm(n), args>>

One(lines) == [files |-> <<[dir |-> "d", name |-> "s", lines |-> lines]>>, sources |-> 1, dirs |-> <<>>, flags |-> <<>>, wno |-> FALSE]

Seqs(S, n) == UNION {[1..k -> S] : k \in 1..n}

\* Blocks: every sequence of a few lines, closed or not.
Step == D("SET", "X", <<>>, <<<<"eval", Bin("+", Id("X"), Num(1))>>>>)
BlockLines == {E("IF", Num(1)), E("IF", Num(0)), E("ELIF", Num(1)), K("ELSE"), K("ENDIF"),
               E("WHILE", Bin("<", Id("X"), Num(2))), K("ENDW"), T(<<Id("a"), Id("X")>>), Step}
Skipping(s) == \E k \in DOMAIN s : s[k] \in {E("IF", Num(0)), E("ELIF", Num(1)), K("ELSE")}
\* An error in a block that is skipped is left out: was_error is written back there.
Blocks == {One(<<D("DEFINE", "X", <<>>, <<Num(0)>>)>> \o s) :
           s \in {q \in Seqs(BlockLines, 4) : Reference!Nested(q) = <<"wrong">> => ~Skipping(q)}}


\* Blocks that are closed, one line longer.
Closed == {One(<<D("DEFINE", "X", <<>>, <<Num(0)>>)>> \o s \o <<T(<<Id("z")>>)>>) :
           s \in {q \in [1..5 -> BlockLines \ {T(<<Id("a"), Id("X")>>)}] : Reference!WellFormed(q)}}

\* Calls: a macro A, a macro F with arguments, a line of words, a line after it.
As == {D("DEFINE", "A", <<>>, <<Id("b")>>), D("DEFINE", "A", <<>>, <<>>), D("DEFINE", "A", <<>>, <<Id("A")>>),
       D("DEFINE", "A", <<>>, <<Id("b"), Call("F", <<<<Id("c")>>>>)>>)}
Fs == {D("DEFINE", "F", <<"x">>, <<Id("x"), Id("x")>>), D("DEFINE", "F", <<"x">>, <<<<"str", Nm("x")>>, Id("x")>>),
       D("DEFINE", "F", <<"x">>, <<<<"paste", Nm("p"), Nm("x")>>>>), D("DEFINE", "F", <<"x">>, <<Call("G", <<<<Id("x"), Id("A")>>>>)>>),
       D("DEFINE", "F", <<"x", "y">>, <<Id("y"), <<"paste", Nm("x"), Nm("y")>>>>)}
Phrases == {<<Id("A")>>, <<Id("d"), Id("A"), Id("e")>>, <<Id("F")>>, <<Call("F", <<<<Id("b")>>>>)>>, <<Call("F", <<<<Id("A")>>>>)>>,
          <<Call("F", <<<<Call("F", <<<<Id("A")>>>>)>>>>), Id("e")>>, <<Call("F", <<<<Id("b")>>, <<Id("A")>>>>), Id("e")>>,
          <<Call("A", <<>>), Id("e")>>, <<Call("F", <<<<Id("b"), <<"nl">>, Id("c")>>>>), Id("e")>>,
          <<<<"string", Nm("A")>>, <<"cont">>, Id("A"), <<"comment">>, Id("e")>>, <<Id("c"), <<"cont">>, Id("d"), <<"remark">>>>,
          <<Id("e"), Call("F", <<<<Id("b")>>, <<Id("c")>>>>), <<"comment">>, Id("A"), Id("e")>>}
\* An argument that comes out empty is left out.
Full(a, w) == a.words # <<>> \/ w \notin {<<Call("F", <<<<Id("A")>>>>)>>, <<Call("F", <<<<Call("F", <<<<Id("A")>>>>)>>>>), Id("e")>>,
                                        <<Call("F", <<<<Id("b")>>, <<Id("A")>>>>), Id("e")>>}
Calls == {One(<<c[1], c[2], T(c[3]), T(c[4]), T(<<Id("z")>>)>>) : c \in {d \in As \X Fs \X Phrases \X Phrases : Full(d[1], d[3]) /\ Full(d[1], d[4])}}

\* A macro that is set to the empty text while its own is the last one and no text follows: the storage
\* then has none for it (Storage says what becomes of it otherwise).
Emptied == {One(<<f, D("DEFINE", "A", <<>>, <<Id("b")>>), D(k, "A", <<>>, <<>>), T(v), T(w), T(<<Id("z")>>)>>) :
            f \in Fs, k \in {"DEFINE", "SET"}, v \in {q \in Phrases : Full([words |-> <<>>], q)}, w \in {q \in Phrases : Full([words |-> <<>>], q)}}

\* Macros of several lines, called on a line of their own.
BodyLines == {T(<<Id("x"), <<"comment">>, Id("c")>>), E("IF", Id("x")), N("IFDEF", "x"), K("ELSE"), K("ENDIF"),
              D("SET", "X", <<>>, <<<<"eval", Bin("+", Id("X"), Num(1))>>>>), E("WHILE", Bin("<", Id("X"), Id("x"))), K("ENDW"),
              N("UNDEF", "x"), E("EVAL", Bin("*", Id("x"), Num(2)))}
Bodies == {One(<<D("DEFINE", "X", <<>>, <<Num(0)>>), M("F", <<"x">>)>> \o b \o <<K("ENDM"), T(<<Id("d"), Call("F", <<<<a>>>>), Id("e")>>), T(<<Id("X")>>)>>) :
           b \in {q \in Seqs(BodyLines, 3) : Reference!WellFormed(q)}, a \in {Num(1), Id("X"), Id("b")}}

\* Expressions: two operators with every pair of levels, three with some.
RECURSIVE Value(_), Safe(_)
Value(e) == CASE e[1] = "num" -> e[2] [] e[1] = "un" -> -Value(e[3]) [] e[1] = "bin" -> Reference!Binary(e[2], Value(e[3]), Value(e[4]))
Safe(e) == e[1] = "bin" => /\ Safe(e[3]) /\ Safe(e[4])
                           /\ e[2] \in {"/", "%"} => Value(e[4]) > 0
                           /\ e[2] \in {"/", "%", "<<", ">>", "&", "^", "|"} => Value(e[3]) >= 0 /\ Value(e[4]) \in 0..8
Ops == UNION {Reference!Levels[k] : k \in DOMAIN Reference!Levels}
Some == {"*", "-", "<<", "<", "&", "||"}
Twice(o, p) == {Bin(o, Bin(p, Num(7), Num(2)), Num(3)), Bin(o, Num(7), Bin(p, Num(2), Num(3))), Bin(o, <<"un", "-", Num(1)>>, Bin(p, Num(2), Num(0)))}
Thrice(o, p, q) == UNION {{Bin(q, e, Num(2)), Bin(q, Num(2), e)} : e \in Twice(o, p)}
Trees == UNION {Twice(o, p) : o \in Ops, p \in Ops} \cup UNION {Thrice(o, p, q) : o \in Some, p \in Some, q \in Some}
Expressions == {One(<<E("EVAL", e)>>) : e \in {t \in Trees : Safe(t)}}

\* Files: headers beside the source and in a directory given.
Inc(n, w) == [kind |-> "INCLUDE", name |-> n, where |-> w]
HeaderLines == {T(<<Id("A"), Id("h")>>), Inc("b", "internal"), Inc("s", "internal"), D("DEFINE", "A", <<>>, <<Id("b")>>), K("ENDIF")}
SourceLines == {T(<<Id("A"), Id("e")>>), Inc("a", "internal"), Inc("b", "external"), Inc("n", "internal"), N("IFNDEF", "A"), K("ENDIF")}
File(d, n, lines) == [dir |-> d, name |-> n, lines |-> lines]
\* After a file of another directory nothing is sought beside the source.
Straight(s) == \A i, j \in DOMAIN s : i < j /\ s[i].kind = "INCLUDE" /\ s[i].where = "external" => s[j].kind # "INCLUDE"
Included == {[One(<<>>) EXCEPT !.files = <<File("d", "s", s), File("d", "a", h), File("d", "b", <<T(<<Id("d")>>)>>), File("g", "b", <<Inc("c", "external"), T(<<Id("g")>>)>>),
                                          File("g", "c", <<T(<<Id("c")>>), K("LINE")>>)>>, !.dirs = <<"f", "g">>] :
             s \in {q \in Seqs(SourceLines, 3) : Straight(q)}, h \in {q \in Seqs(HeaderLines, 2) : Straight(q)}}

\* Flags, two sources, and no recovery after an error.
FlagSet == {[name |-> Nm("A"), words |-> <<Id("b")>>], [name |-> Nm("A"), words |-> <<>>], [name |-> Nm("B"), words |-> <<Num(1)>>]}
Sources == {NoValue, <<T(<<Id("A")>>), T(<<Call("A", <<<<Id("b")>>>>)>>)>>, <<K("BAD"), T(<<Id("B")>>)>>, <<E("IF", Id("B")), K("BAD"), K("ELSE"), T(<<Id("c")>>), K("ENDIF")>>,
            <<E("IF", Id("B")), T(<<Id("c")>>), K("ELSE"), K("BAD"), K("ENDIF")>>}
Invoked == {[files |-> <<File("d", "s", s), File("d", "t", t)>>, sources |-> 2, dirs |-> <<>>, flags |-> f, wno |-> w] :
            s \in Sources, t \in Sources, f \in Seqs(FlagSet, 2) \cup {<<>>}, w \in BOOLEAN}

MCPrograms == Blocks \cup Closed \cup Calls \cup Emptied \cup Bodies \cup Expressions \cup Included \cup Invoked
=============================================================================
