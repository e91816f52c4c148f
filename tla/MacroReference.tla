--------------------------- MODULE MacroReference ---------------------------
(***************************************************************************)
(* What a file of the macro language means, apart from how the             *)
(* preprocessor reads it.  A file is a sequence of lines, each a directive *)
(* with its parts or a line of words; Text gives the tokens the            *)
(* preprocessor reads, Meaning the tokens it should write.  Blocks are     *)
(* found by counting, expressions are trees, macros keep their lines.      *)
(*                                                                         *)
(* A word is <<"id", n>>, <<"num", k>>, <<"call", n, arguments>>,          *)
(* <<"string", n>>, <<"nl">>, <<"cont">>, <<"remark">>, <<"comment">> or,  *)
(* in the text of a macro, <<"str", n>> for #n, <<"paste", n, m>> for      *)
(* n ## m and <<"eval", e>>.                                               *)
(***************************************************************************)
LOCAL INSTANCE Integers
LOCAL INSTANCE Sequences
LOCAL INSTANCE SequencesExt
LOCAL INSTANCE FiniteSetsExt
LOCAL INSTANCE Bitwise

CONSTANTS MAX_CALL_DEPTH, MAX_ITERATION, MAX_INCLUDE_DEPTH, NoValue

Space == <<"sp">>
LineBreak == <<"nl">>
Sign(s) == <<"op", s>>

-----------------------------------------------------------------------------

(* How a file is written. *)

Levels == << {"*", "/", "%"}, {"+", "-"}, {"<<", ">>"}, {"<", ">", "<=", ">="}, {"==", "!="},
             {"&"}, {"^"}, {"|"}, {"&&"}, {"||"} >>
Level(o) == CHOOSE k \in DOMAIN Levels : o \in Levels[k]

\* An expression with no more brackets than it needs.
RECURSIVE Formula(_)
Formula(e) ==
    LET side(s, bracketed) == IF s[1] = "bin" /\ bracketed THEN <<Sign("(")>> \o Formula(s) \o <<Sign(")")>> ELSE Formula(s)
    IN  CASE e[1] \in {"num", "id"} -> <<e>>
          [] e[1] = "un" -> <<Sign(e[2])>> \o Formula(e[3])
          [] e[1] = "bin" -> side(e[3], e[3][1] = "bin" /\ Level(e[3][2]) > Level(e[2])) \o <<Space, Sign(e[2]), Space>>
                             \o side(e[4], e[4][1] = "bin" /\ Level(e[4][2]) >= Level(e[2]))

Separated(parts, by) == FoldLeft(LAMBDA acc, part : IF acc = <<>> THEN part ELSE acc \o by \o part, <<>>, parts)

RECURSIVE Spelled(_)
Spelled(words) ==
    LET token(w) == CASE w[1] = "call" -> <<<<"id", w[2]>>, Sign("(")>>
                                         \o Separated([k \in DOMAIN w[3] |-> Spelled(w[3][k])], <<Sign(","), Space>>) \o <<Sign(")")>>
                      [] w[1] = "string" -> <<<<"quote">>, <<"id", w[2]>>, <<"quote">>>>
                      [] w[1] = "remark" -> <<<<"//">>, Space, <<"id", <<"remark">>>>>>
                      [] w[1] = "comment" -> <<<<"/*">>, LineBreak, <<"id", <<"comment">>>>, <<"*/">>>>
                      [] w[1] = "str" -> <<<<"hash">>, <<"id", w[2]>>>>
                      [] w[1] = "paste" -> <<<<"id", w[2]>>, Space, Sign("##"), Space, <<"id", w[3]>>>>
                      [] w[1] = "eval" -> <<<<"dir", "EVAL">>, Space>> \o Formula(w[2])
                      [] OTHER -> <<w>>
    IN  Separated([k \in DOMAIN words |-> token(words[k])], <<Space>>)

Params(names) ==
    IF names = <<>> THEN <<>>
    ELSE <<Sign("(")>> \o Separated([k \in DOMAIN names |-> <<<<"id", names[k]>>>>], <<Sign(","), Space>>) \o <<Sign(")")>>

Written(l) ==
    CASE l.kind = "TEXT" -> Spelled(l.words)
      [] l.kind \in {"DEFINE", "SET"} ->
             <<<<"dir", l.kind>>, Space, <<"id", l.name>>>> \o Params(l.params)
             \o (IF l.words = <<>> THEN <<>> ELSE <<Space>>) \o Spelled(l.words)
      [] l.kind = "MACRO" -> <<<<"dir", "MACRO">>, Space, <<"id", l.name>>>> \o Params(l.params)
      [] l.kind \in {"UNDEF", "IFDEF", "IFNDEF"} -> <<<<"dir", l.kind>>, Space, <<"id", l.name>>>>
      [] l.kind = "INCLUDE" -> <<<<"dir", "INCLUDE">>, Space, <<"path", l.name, l.where>>>>
      [] l.kind \in {"IF", "ELIF", "WHILE", "EVAL"} -> <<<<"dir", l.kind>>, Space>> \o Formula(l.expr)
      [] OTHER -> <<<<"dir", l.kind>>>>

\* The tokens of file f; its names know the file and the line they stand on.
Text(f, lines) ==
    LET add(acc, t) == [line |-> acc.line + (IF t[1] \in {"nl", "cont"} THEN 1 ELSE 0),
                        text |-> Append(acc.text, IF t[1] = "id" THEN <<"id", t[2], f, acc.line>> ELSE t)]
    IN  FoldLeft(add, [line |-> 1, text |-> <<>>],
                 FoldLeft(LAMBDA acc, l : acc \o Written(l) \o <<LineBreak>>, <<>>, lines)).text

-----------------------------------------------------------------------------

(* Blocks. *)

Opens(l) == l.kind \in {"IF", "IFDEF", "IFNDEF", "WHILE", "MACRO"}
Closes(l) == l.kind \in {"ENDIF", "ENDW", "ENDM"}
Divides(l) == l.kind \in {"ELIF", "ELSE"}

\* The kind that ends a block; "LAST" is a chain that had its #else.
End(kind) == CASE kind = "WHILE" -> "ENDW" [] kind = "MACRO" -> "ENDM" [] OTHER -> "ENDIF"

Nested(lines) ==
    LET next(stack, l) ==
            CASE stack = <<"wrong">> -> stack
              [] Opens(l) -> <<l.kind>> \o stack
              [] Closes(l) -> IF stack # <<>> /\ End(Head(stack)) = l.kind THEN Tail(stack) ELSE <<"wrong">>
              [] Divides(l) -> IF stack # <<>> /\ Head(stack) \in {"IF", "IFDEF", "IFNDEF"}
                               THEN <<IF l.kind = "ELSE" THEN "LAST" ELSE Head(stack)>> \o Tail(stack) ELSE <<"wrong">>
              [] OTHER -> stack
    IN  FoldLeft(next, <<>>, lines)

WellFormed(lines) == Nested(lines) = <<>>

Depth(lines, i, j) == Len(SelectSeq(SubSeq(lines, i, j), Opens)) - Len(SelectSeq(SubSeq(lines, i, j), Closes))
Match(lines, i) == Min({j \in i + 1..Len(lines) : Depth(lines, i, j) = 0})

\* Where the branches of the block at i begin, and where it ends.
Branches(lines, i) ==
    SetToSortSeq({j \in i..Match(lines, i) : j = i \/ j = Match(lines, i) \/ (Divides(lines[j]) /\ Depth(lines, i, j) = 1)},
                 LAMBDA a, b : a < b)

-----------------------------------------------------------------------------

(* Meaning.  env holds the macros, what was written, the files that were   *)
(* included, whether an error was met, and the depth of calls and files.   *)

Wrong(env) == [env EXCEPT !.err = TRUE]
Puts(env, tokens) == [env EXCEPT !.out = @ \o tokens]

\* Does(what, env): what a piece of a program does, or what an expression is.
RECURSIVE Does(_, _)

\* What some words become, on their own.
Expanded(env, words) == Does(<<"words", words>>, [env EXCEPT !.out = <<>>])

Remainder(a, b) == a - b * (a \div b)
Bit(b) == IF b THEN 1 ELSE 0
Binary(o, a, b) ==
    CASE o = "*" -> a * b [] o = "/" -> a \div b [] o = "%" -> Remainder(a, b) [] o = "+" -> a + b [] o = "-" -> a - b
      [] o = "<<" -> a * 2 ^ b [] o = ">>" -> a \div 2 ^ b
      [] o = "<" -> Bit(a < b) [] o = ">" -> Bit(a > b) [] o = "<=" -> Bit(~(a > b)) [] o = ">=" -> Bit(~(a < b))
      [] o = "==" -> Bit(a = b) [] o = "!=" -> Bit(a # b) [] o = "&" -> a & b [] o = "^" -> a ^^ b [] o = "|" -> a | b
      [] o = "&&" -> Bit(0 \notin {a, b}) [] o = "||" -> Bit({a, b} # {0})

\* A macro counts as the number it is replaced by, another name as zero.
RECURSIVE Eval(_, _)
Eval(env, e) ==
    CASE e[1] = "num" -> e[2]
      [] e[1] = "un" -> IF e[2] = "-" THEN -Eval(env, e[3]) ELSE IF e[2] = "~" THEN -Eval(env, e[3]) - 1 ELSE Eval(env, e[3])
      [] e[1] = "id" -> LET out == Expanded(env, <<e>>).out
                        IN  IF Len(out) = 1 /\ out[1][1] = "num" THEN out[1][2] ELSE 0
      [] e[1] = "bin" -> Binary(e[2], Eval(env, e[3]), Eval(env, e[4]))

\* The last name of left and the first of right become one.
Pasted(left, right) ==
    LET name == Last(left)[2]
        first == Head(right)
        both == CASE first[1] = "id" -> <<"id", name \o first[2]>>
                  [] first[1] = "num" -> <<"id", Append(name, first[2])>>
                  [] first[1] = "call" -> <<"call", name \o first[2], first[3]>>
    IN  IF Last(left)[1] = "id" THEN Front(left) \o <<both>> \o Tail(right) ELSE left \o right

\* The lines of a macro with the arguments in place of their names.
Replaced(lines, params, raw, expanded) ==
    LET index(n) == CHOOSE k \in DOMAIN params : params[k] = n
        known(n) == n \in Range(params)
        late(n) == IF known(n) THEN expanded[index(n)] ELSE <<<<"id", n>>>>
        soon(n) == IF known(n) THEN raw[index(n)] ELSE <<<<"id", n>>>>
        named(ws) == IF ws[1][1] = "id" THEN ws[1][2] ELSE <<>>
        RECURSIVE words(_), tree(_)
        words(ws) == FoldLeft(LAMBDA acc, w :
            acc \o CASE w[1] = "id" -> late(w[2])
                     [] w[1] = "str" -> <<<<"str", Spelled(soon(w[2]))>>>>
                     [] w[1] = "paste" -> Pasted(late(w[2]), soon(w[3]))
                     [] w[1] = "call" -> <<<<"call", w[2], [k \in DOMAIN w[3] |-> words(w[3][k])]>>>>
                     [] w[1] = "eval" -> <<<<"eval", tree(w[2])>>>>
                     [] OTHER -> <<w>>, <<>>, ws)
        tree(e) == CASE e[1] = "id" -> late(e[2])[1]
                     [] e[1] = "un" -> <<"un", e[2], tree(e[3])>>
                     [] e[1] = "bin" -> <<"bin", e[2], tree(e[3]), tree(e[4])>>
                     [] OTHER -> e
        line(l) == CASE l.kind \in {"TEXT", "DEFINE", "SET"} -> [l EXCEPT !.words = words(@)]
                     [] l.kind \in {"IF", "ELIF", "WHILE", "EVAL"} -> [l EXCEPT !.expr = tree(@)]
                     [] l.kind \in {"IFDEF", "IFNDEF"} -> [l EXCEPT !.name = named(soon(@))]
                     [] l.kind = "UNDEF" -> [l EXCEPT !.name = named(late(@))]
                     [] OTHER -> l
    IN  [k \in DOMAIN lines |-> line(lines[k])]

Call(env, name, args) ==
    LET macro == env.tab[name]
        values == [k \in DOMAIN args |-> Expanded([env EXCEPT !.calls = @ + 1], args[k])]
        body == Replaced(macro.lines, macro.params, args, [k \in DOMAIN args |-> values[k].out])
        called == Does(<<"lines", body, 1, Len(body)>>, [env EXCEPT !.calls = @ + 1])
    IN  IF env.calls > MAX_CALL_DEPTH \/ Len(args) # Len(macro.params) \/ \E k \in DOMAIN args : values[k].err
        THEN Wrong(env) ELSE [called EXCEPT !.calls = env.calls]

Silent(w) == w[1] \in {"nl", "cont", "remark", "comment"}
\* A macro without arguments leaves the bracket behind it alone, unless it is ().
Reads(env, words) ==
    LET read(acc, w) ==
            CASE w[1] = "id" -> IF w[2] \in DOMAIN acc.tab THEN Does(<<"call", w[2], <<>>>>, acc) ELSE Puts(acc, <<w>>)
              [] w[1] = "call" -> IF w[2] \in DOMAIN acc.tab /\ (acc.tab[w[2]].params = <<>> => w[3] = <<>>)
                                  THEN Does(<<"call", w[2], [k \in DOMAIN w[3] |-> SelectSeq(w[3][k], LAMBDA x : ~Silent(x))]>>, acc)
                                  ELSE Does(<<"words", <<<<"id", w[2]>>, Sign("(")>> \o Separated(w[3], <<Sign(",")>>) \o <<Sign(")")>>>>, acc)
              [] w[1] = "string" -> Puts(acc, <<<<"quote">>, <<"id", w[2]>>, <<"quote">>>>)
              [] Silent(w) -> acc
              [] OTHER -> Puts(acc, <<w>>)
    IN  FoldLeft(read, env, words)

\* In the text of a macro the names of arguments stay; #eval is computed.
Kept(env, words) == [k \in DOMAIN words |-> IF words[k][1] = "eval" THEN <<"num", Does(<<"value", words[k][2]>>, env)>> ELSE words[k]]

Defines(env, name, params, lines) ==
    [env EXCEPT !.tab = [n \in DOMAIN @ \cup {name} |-> IF n = name THEN [params |-> params, lines |-> lines] ELSE @[n]]]

Chosen(env, l) ==
    CASE l.kind \in {"IF", "ELIF", "WHILE"} -> Does(<<"value", l.expr>>, env) # 0
      [] l.kind = "IFDEF" -> l.name \in DOMAIN env.tab
      [] l.kind = "IFNDEF" -> l.name \notin DOMAIN env.tab
      [] l.kind = "ELSE" -> TRUE

Loop(lines, i, turn, env) ==
    IF env.err \/ Does(<<"value", lines[i].expr>>, env) = 0 THEN env
    ELSE IF turn > MAX_ITERATION THEN Wrong(env)
    ELSE Does(<<"loop", lines, i, turn + 1>>, Does(<<"lines", lines, i + 1, Match(lines, i) - 1>>, env))

\* The file an #include names: beside the file it stands in, or in the
\* directories given, in their order; <file> the other way round.
Beside(env, name) == {f \in DOMAIN env.files : env.files[f].dir = env.files[env.at].dir /\ env.files[f].name = name}
Given(env, name) ==
    LET ds == {d \in DOMAIN env.dirs : \E f \in DOMAIN env.files : env.files[f].dir = env.dirs[d] /\ env.files[f].name = name}
    IN  {f \in DOMAIN env.files : env.files[f].name = name /\ ds # {} /\ env.files[f].dir = env.dirs[Min(ds)]}
Included(env, l) ==
    LET near == Beside(env, l.name)
        far == Given(env, l.name)
        found == IF l.where = "internal" THEN IF near # {} THEN near ELSE far ELSE IF far # {} THEN far ELSE near
    IN  found

Exec(lines, lo, hi, env) ==
    LET l == lines[lo]
        heads == Branches(lines, lo)
        end == Last(heads)
        taken == {k \in 1..Len(heads) - 1 : Chosen(env, lines[heads[k]])}
        found == Included(env, l)
        file == CHOOSE f \in found : TRUE
        inner == [env EXCEPT !.at = file, !.inc = @ \cup {file}, !.depth = @ + 1]
        outer == Does(<<"lines", env.files[file].lines, 1, Len(env.files[file].lines)>>, inner)
        next(e) == Does(<<"lines", lines, lo + 1, hi>>, e)
        after(e) == Does(<<"lines", lines, end + 1, hi>>, e)
    IN  IF lo > hi \/ env.err THEN env
        ELSE IF l.kind \in {"UNDEF", "IFDEF", "IFNDEF"} /\ l.name = <<>> THEN Wrong(env)
        ELSE CASE l.kind = "TEXT" -> next(Does(<<"words", l.words>>, env))
               [] l.kind \in {"DEFINE", "SET"} ->
                      next(Defines(env, l.name, l.params, IF l.words = <<>> THEN <<>> ELSE <<[kind |-> "TEXT", words |-> Kept(env, l.words)]>>))
               [] l.kind = "LINE" -> next(env)
               [] l.kind = "UNDEF" -> next([env EXCEPT !.tab = [n \in DOMAIN @ \ {l.name} |-> @[n]]])
               [] l.kind = "EVAL" -> next(Puts(env, <<<<"num", Does(<<"value", l.expr>>, env)>>>>))
               [] l.kind = "MACRO" -> after(Defines(env, l.name, l.params, SubSeq(lines, lo + 1, end - 1)))
               [] l.kind \in {"IF", "IFDEF", "IFNDEF"} ->
                      after(IF taken = {} THEN env ELSE Does(<<"lines", lines, heads[Min(taken)] + 1, heads[Min(taken) + 1] - 1>>, env))
               [] l.kind = "WHILE" -> after(Does(<<"loop", lines, lo, 0>>, env))
               [] l.kind = "INCLUDE" ->
                      IF found = {} \/ env.depth >= MAX_INCLUDE_DEPTH THEN Wrong(env)
                      ELSE IF file \in env.inc THEN next(env)
                      ELSE IF ~WellFormed(env.files[file].lines) THEN Wrong(env)
                      ELSE next([outer EXCEPT !.at = env.at, !.depth = env.depth])
               [] OTHER -> Wrong(env)

Does(what, env) ==
    CASE what[1] = "lines" -> Exec(what[2], what[3], what[4], env)
      [] what[1] = "words" -> Reads(env, what[2])
      [] what[1] = "call" -> Call(env, what[2], what[3])
      [] what[1] = "loop" -> Loop(what[2], what[3], what[4], env)
      [] what[1] = "value" -> Eval(env, what[2])

\* What the sources of a program give, one after another; flags define names.
Meaning(program) ==
    LET known(flags) == {flags[k].name : k \in DOMAIN flags}
        value(n) == LET k == CHOOSE j \in DOMAIN program.flags : program.flags[j].name = n
                    IN  [params |-> <<>>, lines |-> IF program.flags[k].words = <<>> THEN <<>>
                                                    ELSE <<[kind |-> "TEXT", words |-> program.flags[k].words]>>]
        start == [tab |-> [n \in known(program.flags) |-> value(n)], out |-> <<>>, inc |-> {}, calls |-> 0, depth |-> 0,
                  at |-> 1, files |-> program.files, dirs |-> program.dirs,
                  err |-> \E j, k \in DOMAIN program.flags : j < k /\ program.flags[j].name = program.flags[k].name]
        readable(i) == program.files[i].lines # NoValue
        source(env, i) == IF ~readable(i) \/ ~WellFormed(program.files[i].lines) THEN Wrong(env)
                          ELSE Does(<<"lines", program.files[i].lines, 1, Len(program.files[i].lines)>>, [env EXCEPT !.at = i, !.inc = @ \cup {i}])
        all == FoldLeft(source, start, [i \in 1..program.sources |-> i])
    IN  [out |-> all.out, err |-> all.err]

=============================================================================
