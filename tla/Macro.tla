------------------------------- MODULE Macro -------------------------------
(***************************************************************************)
(* The macro preprocessor (libs/macro): directives, conditional blocks,    *)
(* loops, included files, macro definitions and their expansion.  The      *)
(* functions of parser.c are operators on the parser record p that call    *)
(* each other through Do; every turn of the outermost parse_block is a     *)
(* step.                                                                   *)
(*                                                                         *)
(* Streams are sequences of tokens: a name is <<"id", n>> with n a tuple   *)
(* of parts that ## may join, a number <<"num", k>>, an operator           *)
(* <<"op", s>>, a directive <<"dir", keyword>>, a path <<"path", n, kind>>.*)
(* A name of a file also carries the line it stands on.  The wording of    *)
(* messages and columns are left out, the storage is a MacroTable.         *)
(***************************************************************************)
EXTENDS Integers, Sequences, SequencesExt, Computer, MacroTable

CONSTANTS
    Programs,          \* what may be preprocessed, see MacroReference
    MAX_INCLUDE_DEPTH, MAX_CALL_DEPTH, MAX_ITERATION

VARIABLES
    program,   \* the workspace: files, how many of them are sources, the
               \* directories searched for <file>, -D flags, whether -Wno is given
    stage,     \* the loop of macro_form_io that is running, its index, and ret
    prs        \* the parser, with the linker, the storage and the streams

vars == <<program, stage, prs>>

Reference == INSTANCE MacroReference

EOF == <<"eof">>
NL == <<"nl">>
SP == <<"sp">>
CONT == <<"cont">>        \* a backslash before a line break
HASH == <<"hash">>
QUOTE == <<"quote">>
Op(s) == <<"op", s>>
IsName(t) == t[1] = "id"
IsHash(t) == t[1] \in {"hash", "dir"} \/ t = Op("##")
LineEnd(t) == t \in {NL, EOF}

NON_KEYWORD == "NON"
ERROR_KEYWORD == "ERROR"
SIZE_MAX == -1
Openers == {"IFDEF", "IFNDEF", "IF", "ELIF", "ELSE", "WHILE", "MACRO"}
Closers == {"ELIF", "ELSE", "ENDIF", "ENDW", "ENDM"}

RECURSIVE Do(_, _)

-----------------------------------------------------------------------------

(* Streams: p.in and p.out are stacks, the current stream in front. *)

Off == [on |-> FALSE, text |-> <<>>]
Buffer == [on |-> TRUE, text |-> <<>>]

Stream(file, text) == [file |-> file, text |-> text, pos |-> 0, line |-> 1, code |-> 0]
Here(p) == Head(p.in)
Peek(p) == LET s == Here(p) IN IF s.pos < Len(s.text) THEN s.text[s.pos + 1] ELSE EOF
Scan(p) == IF Peek(p) = EOF THEN p ELSE [p EXCEPT !.in[1].pos = @ + 1]
in_is_file(p) == Here(p).file # 0

\* A name that is written right after a name makes one name.
Joined(text, t) ==
    IF text # <<>> /\ IsName(Last(text)) /\ t[1] \in {"id", "num"}
    THEN Append(Front(text), <<"id", Last(text)[2] \o (IF IsName(t) THEN t[2] ELSE <<t[2]>>)>>)
    ELSE Append(text, t)

Emit(p, tokens) == IF p.out[1].on THEN [p EXCEPT !.out[1].text = FoldLeft(Joined, @, tokens)] ELSE p
Copy(p) == IF Peek(p) = EOF THEN p ELSE Emit(Scan(p), <<Peek(p)>>)
Gap(b) == IF b THEN <<SP>> ELSE <<>>

out_swap(p, out) == [p EXCEPT !.out = <<out>> \o @]
out_back(p) == [p EXCEPT !.out = Tail(@)]
out_clear(p) == [p EXCEPT !.out[1] = Off]

\* What was written to a buffer, as the text of a macro or an argument.
Bare(t) == IF IsName(t) THEN <<"id", t[2]>> ELSE t
out_extract_buffer(p) == [k \in DOMAIN p.out[1].text |-> Bare(p.out[1].text[k])]

-----------------------------------------------------------------------------

(* Locations (locator.c): a line and where its text begins. *)

Breaks(t) == t[1] \in {"nl", "cont"}
LinesIn(text, from, to) == Len(SelectSeq(SubSeq(text, from + 1, to), Breaks))
line_to_begin(text, pos) ==
    CHOOSE k \in 0..pos : (k = 0 \/ Breaks(text[k])) /\ \A j \in (k + 1)..pos : ~Breaks(text[j])

loc_line_break(p) == [p EXCEPT !.in[1].line = @ + 1, !.in[1].code = Here(p).pos]

\* Lines are counted back to the last known beginning, or to the first one.
loc_search_from(p) ==
    LET s == Here(p)
        code == line_to_begin(s.text, s.pos)
        line == IF s.code = 0 \/ code < s.code THEN 1 + LinesIn(s.text, 0, code)
                ELSE s.line + LinesIn(s.text, s.code, code)
    IN  [p EXCEPT !.in[1].line = line, !.in[1].code = code]

\* The marks a reader of the output counts from; a buffer has no path.
Mark(p, kind) ==
    LET q == loc_search_from(p)
    IN  IF in_is_file(q) THEN Emit(q, <<<<kind, Here(q).file, Here(q).line>>>>) ELSE q
loc_update(p) == Mark(p, "line")
loc_update_begin(p) == Mark(p, "begin")
loc_update_end(p) == Mark(p, "end")

parser_error(p) ==
    IF p.is_recovery_disabled /\ p.was_error THEN p ELSE [p EXCEPT !.was_error = TRUE]

-----------------------------------------------------------------------------

(* Blanks, comments, strings and whole directives. *)

\* A comment to the end of the line, which a backslash continues.
RECURSIVE skip_comment(_)
skip_comment(p) ==
    IF LineEnd(Peek(p)) THEN p
    ELSE IF Peek(p) = CONT THEN skip_comment(Emit(loc_line_break(Scan(p)), <<NL>>))
    ELSE skip_comment(Scan(p))

RECURSIVE skip_multi_comment(_)
skip_multi_comment(p) ==
    CASE Peek(p) = EOF -> parser_error(p)
      [] Peek(p) = <<"*/">> -> Emit(Scan(p), <<SP>>)
      [] Breaks(Peek(p)) -> skip_multi_comment(Emit(loc_line_break(Scan(p)), <<NL>>))
      [] OTHER -> skip_multi_comment(Scan(p))

RECURSIVE Blanks(_)
Blanks(p) ==
    CASE Peek(p) = SP -> Blanks(Copy(p))
      [] Peek(p) = CONT -> Blanks(loc_line_break(Copy(p)))
      [] Peek(p) = <<"//">> -> Blanks(skip_comment(Scan(p)))
      [] Peek(p) = <<"/*">> -> Blanks(skip_multi_comment(Scan(p)))
      [] OTHER -> p

skip_until(p, fill) == IF fill THEN Do(<<"Blanks">>, p) ELSE out_back(Do(<<"Blanks">>, out_swap(p, Off)))

RECURSIVE skip_lines(_)
skip_lines(p) ==
    LET q == skip_until(p, FALSE)
    IN  IF Peek(q) = NL THEN skip_lines(loc_line_break(Scan(q))) ELSE q

\* The text of a string; p.char is what ended it, a line break is an error.
RECURSIVE skip_string(_)
skip_string(p) ==
    CASE Peek(p) = QUOTE -> [Scan(p) EXCEPT !.char = QUOTE]
      [] Peek(p) = EOF -> [parser_error(p) EXCEPT !.char = EOF]
      [] Peek(p) = NL -> [parser_error(loc_line_break(Scan(p))) EXCEPT !.char = NL]
      [] Peek(p) = CONT -> skip_string(loc_line_break(Copy(p)))
      [] OTHER -> skip_string(Copy(p))

\* The rest of a directive; the strings in it are not looked at.
RECURSIVE skip_expression(_)
skip_expression(p) ==
    LET q == skip_until(p, FALSE)
        s == Do(<<"skip_string">>, out_swap([Scan(q) EXCEPT !.is_recovery_disabled = TRUE, !.was_error = TRUE], Off))
    IN  IF LineEnd(Peek(q)) THEN q
        ELSE IF Peek(q) = QUOTE
             THEN skip_expression([out_back(s) EXCEPT !.is_recovery_disabled = q.is_recovery_disabled,
                                                      !.was_error = q.was_error])
        ELSE skip_expression(Scan(q))

\* Mutant: the text after a directive is not marked with its line.
skip_directive_Unmarked(p) ==
    LET q == skip_expression(p)
    IN  [(IF Peek(q) = EOF THEN q ELSE loc_line_break(Scan(q))) EXCEPT !.char = Peek(q)]

skip_directive(p) ==
    LET q == skip_expression(p)
    IN  [(IF Peek(q) = EOF THEN q ELSE loc_line_break(Scan(q))) EXCEPT !.char = Peek(q), !.is_line_required = TRUE]

parse_location(p) == loc_search_from(p)

parse_line(p) == Do(<<"skip_directive">>, parse_location(p))

\* What follows a whole directive draws a warning, and the location is sought.
parse_extra(p) == LET q == skip_until(p, FALSE) IN IF LineEnd(Peek(q)) THEN q ELSE loc_search_from(q)

\* Whether a name follows; a missing one is reported.
Named(p) == IsName(Peek(skip_until(p, FALSE)))
parse_name(p) == LET q == skip_until(parse_location(p), FALSE) IN IF Named(p) THEN q ELSE parser_error(loc_search_from(q))
Name(p) == Peek(p)[2]

-----------------------------------------------------------------------------

(* Directives. *)

\* The text before the next directive is held back: it is written when there
\* is none, and lost when there is one, so that marks must follow.
RECURSIVE parse_hash(_)
parse_hash(p) ==
    LET q == skip_until(IF p.is_line_required THEN loc_update([p EXCEPT !.out[1] = Buffer]) ELSE p, TRUE)
    IN  IF Peek(q) = NL THEN parse_hash(loc_line_break(Copy(q))) ELSE q

\* p.ret is the keyword, after which the stream stands.
parse_directive(p) ==
    LET h == Do(<<"parse_hash">>, out_swap(p, Buffer))
        text == h.out[1].text
        q == [out_back(h) EXCEPT !.is_line_required = FALSE]
        t == Peek(q)
    IN  CASE ~IsHash(t) -> [Emit(q, IF t = EOF THEN <<>> ELSE text) EXCEPT !.ret = NON_KEYWORD]
          [] t[1] = "dir" /\ t[2] # "BAD" -> [Scan(loc_search_from(q)) EXCEPT !.ret = t[2]]
          [] OTHER -> [Emit(parser_error(Scan(loc_search_from(q))), Append(text, t)) EXCEPT !.ret = ERROR_KEYWORD]

\* Which directive may end or divide a block.
Follows(begin, next) ==
    \/ begin \in {"IFDEF", "IFNDEF", "IF", "ELIF"} /\ next \in {"ELIF", "ELSE", "ENDIF"}
    \/ begin = "ELSE" /\ next = "ENDIF"
    \/ begin = "WHILE" /\ next = "ENDW"
    \/ begin = "MACRO" /\ next = "ENDM"

parse_next(p, begin, next) == IF Follows(begin, next) THEN p ELSE parser_error(parse_location(p))

-----------------------------------------------------------------------------

(* Blocks that are not processed: skipped, or kept as the text of a macro. *)

\* An argument of the macro that is defined, or just a name.
Masked(p, kind, name) ==
    IF name \in Range(p.params) THEN <<"mask", kind, p.owner, CHOOSE i \in DOMAIN p.params : p.params[i] = name>>
    ELSE <<"id", name>>

Abandoned(p) == Do(<<"skip_directive">>, out_clear(p))

RECURSIVE KeepTokens(_, _, _)
KeepTokens(p, keyword, gap) ==
    LET q == Emit(p, Gap(gap))
        string == Do(<<"skip_string">>, Copy(q))
        next(r) == LET s == skip_until(r, FALSE) IN KeepTokens(s, keyword, Here(s).pos # Here(r).pos)
    IN  CASE LineEnd(Peek(p)) -> Do(<<"skip_directive">>, p)
          [] IsName(Peek(p)) ->
                 next(Emit(Scan(q), <<Masked(p, IF keyword \in {"IFDEF", "IFNDEF"} THEN "TKP" ELSE "ARG", Name(p))>>))
          [] Peek(p) = QUOTE -> IF string.char = QUOTE THEN next(Emit(string, <<QUOTE>>)) ELSE Abandoned(string)
          [] IsHash(Peek(p)) /\ keyword \notin {"DEFINE", "SET", "IF", "ELIF", "WHILE", "EVAL"} ->
                 Abandoned(parser_error(loc_search_from(out_clear(q))))
          [] OTHER -> next(Copy(q))

skip_macro(p, keyword) ==
    LET q == IF keyword = NON_KEYWORD THEN p ELSE Emit(parse_location(p), <<<<"dir", keyword>>>>)
        r == skip_until(q, FALSE)
    IN  CASE keyword = "LINE" -> parse_line(p)
          [] keyword = ERROR_KEYWORD -> Abandoned(p)
          [] keyword = "INCLUDE" -> Abandoned(parser_error(q))
          [] keyword \in {"IF", "ELIF", "WHILE", "EVAL"} /\ LineEnd(Peek(r)) -> Abandoned(parser_error(r))
          [] keyword \in {"MACRO", "DEFINE", "SET", "UNDEF", "IFDEF", "IFNDEF"} /\ ~Named(q) ->
                 Abandoned(Do(<<"parse_name">>, r))
          [] OTHER -> KeepTokens(r, keyword, Here(r).pos # Here(q).pos)

RECURSIVE skip_block(_, _)

\* One directive with the blocks that belong to it.
RECURSIVE SkipNested(_, _, _)
SkipNested(p, keyword, first) ==
    LET q == Emit(p, IF first THEN <<>> ELSE <<NL>>)
        r == IF p.is_macro_processed THEN Do(<<"skip_macro", keyword>>, q) ELSE Do(<<"skip_directive">>, q)
        s == Do(<<"skip_block", keyword>>, r)
    IN  IF keyword \notin Openers THEN r
        ELSE IF s.ret = NON_KEYWORD THEN [parser_error(s) EXCEPT !.char = r.char]
        ELSE SkipNested(s, s.ret, FALSE)

\* Mutant: an error that was reported before the block is forgotten in it.
Restored_Clean(p, was_error, disabled) ==
    IF p.is_macro_processed THEN p ELSE [p EXCEPT !.is_recovery_disabled = disabled, !.was_error = FALSE]

Restored(p, was_error, disabled) ==
    IF p.is_macro_processed THEN p ELSE [p EXCEPT !.is_recovery_disabled = disabled, !.was_error = was_error]

RECURSIVE SkipDirectives(_, _, _, _, _, _)
SkipDirectives(p, begin, root, first, was_error, disabled) ==
    LET silent == IF p.is_macro_processed THEN p ELSE [p EXCEPT !.is_recovery_disabled = TRUE, !.was_error = TRUE]
        d == Restored(out_back(Do(<<"parse_directive">>, out_swap(silent, Off))), was_error, disabled)
        keyword == d.ret
        n == parse_next(d, begin, keyword)
        over == IF keyword \in Closers THEN Abandoned(n)
                ELSE SkipNested(IF keyword = NON_KEYWORD THEN d ELSE parse_location(d), keyword, root /\ first)
    IN  IF keyword \in Closers /\ Follows(begin, keyword)
        THEN [n EXCEPT !.is_macro_processed = ~root /\ @, !.ret = keyword]
        ELSE IF over.char = EOF
        THEN [out_clear(over) EXCEPT !.is_macro_processed = ~root /\ @, !.ret = NON_KEYWORD]
        ELSE SkipDirectives(over, begin, root, FALSE, was_error, disabled)

skip_block(p, begin) ==
    LET root == begin = "MACRO" /\ ~p.is_macro_processed /\ p.out[1].on
    IN  SkipDirectives([p EXCEPT !.is_macro_processed = root \/ @], begin, root, TRUE, p.was_error, p.is_recovery_disabled)

\* A block that is skipped altogether.
SkippedBlock(p, begin) == out_back(Do(<<"skip_block", begin>>, out_swap(p, Off)))

-----------------------------------------------------------------------------

(* Expansion. *)

parser_preprocess(p, file, text) ==
    IF text = NoValue THEN p
    ELSE LET q == Do(<<"parse_block", NON_KEYWORD>>,
                     [p EXCEPT !.in = <<Stream(file, text)>> \o @, !.is_line_required = TRUE])
         IN  [q EXCEPT !.in = Tail(@)]

\* The three values of an argument: as written, expanded, and as a string.
parse_values(p, raw) ==
    LET q == parser_preprocess(out_swap(p, Buffer), 0, raw)
    IN  [p |-> out_back(q), raw |-> raw, expanded |-> out_extract_buffer(q), string |-> <<<<"str", raw>>>>]

\* An argument up to the comma or bracket behind it.  Inside brackets the end
\* of the file never ends the loop.
RECURSIVE Argument(_, _, _, _)
Argument(p, brackets, ok, gap) ==
    LET t == Peek(p)
        first == Copy(Emit(p, Gap(gap)))
        q == IF t = QUOTE THEN Emit(Do(<<"skip_string">>, first), <<QUOTE>>) ELSE first
        next == skip_lines(q)
        depth == brackets + (IF t = Op("(") THEN 1 ELSE IF t = Op(")") THEN -1 ELSE 0)
        closed == ok /\ (t = QUOTE => q.char = QUOTE)
        apart == Here(next).pos # Here(q).pos
    IN  IF brackets = 0 /\ t \in {Op(","), Op(")"), EOF} THEN [p |-> p, ok |-> ok]
        ELSE IF t = EOF THEN [p |-> [p EXCEPT !.hung = TRUE], ok |-> FALSE]
        ELSE IF Peek(next) = EOF THEN Argument(parser_error(next), depth, FALSE, apart)
        ELSE Argument(next, depth, closed, apart)

\* The arguments of a call; args is SIZE_MAX when one of them has no end.
RECURSIVE Arguments(_, _, _)
Arguments(p, args, ok) ==
    LET a == Do(<<"Argument", ok>>, [skip_lines(Scan(p)) EXCEPT !.out[1] = Buffer])
        v == parse_values(a.p, out_extract_buffer(a.p))
        q == IF a.ok THEN v.p ELSE a.p
        all == IF a.ok THEN Append(args, v) ELSE args
    IN  IF Peek(q) \in {Op(")"), EOF} THEN [p |-> q, args |-> all, ok |-> a.ok] ELSE Arguments(q, all, a.ok)

parse_brackets(p) == LET a == Arguments(out_swap(loc_search_from(p), Off), <<>>, TRUE) IN [a EXCEPT !.p = out_back(a.p)]

\* Mutant: # and ## take the expanded argument.
ValueOf_Expanded(kind, v) == IF kind = "STR" THEN <<<<"str", v.expanded>>>> ELSE v.expanded

ValueOf(kind, v) ==
    CASE kind = "ARG" -> v.expanded
      [] kind = "TKP" -> v.raw
      [] kind = "STR" -> v.string

\* An empty argument has no value, and none is printed as (null).
Written(value) == IF value = <<>> THEN <<<<"null">>>> ELSE value

Substituted(text, index, args) ==
    FoldLeft(LAMBDA acc, t : IF t[1] = "mask" /\ t[3] = index /\ t[4] \in DOMAIN args
                             THEN FoldLeft(Joined, acc, Written(ValueOf(t[2], args[t[4]]))) ELSE Joined(acc, t),
             <<>>, text)

parse_observation(p, index, args) ==
    parser_preprocess(p, 0, IF TextOf(p.stg, index) = NoValue THEN <<>> ELSE Substituted(TextOf(p.stg, index), index, args))

\* The optional () after a macro without arguments.
Unbracketed(p) ==
    LET q == skip_lines(p)
        r == skip_lines(Scan(q))
    IN  IF Peek(q) = Op("(") /\ Peek(r) = Op(")") THEN Scan(r) ELSE loc_search_from(p)

\* p.val is 1 when the macro was replaced.
parse_replacement(p, index) ==
    LET expected == ArgsOf(p.stg, index)
        b == Do(<<"parse_brackets">>, p)
        actual == Len(b.args)
        matches == b.ok /\ expected = actual
        q == IF matches THEN parse_observation(b.p, index, b.args)
             ELSE IF b.ok THEN parser_error(loc_search_from(b.p)) ELSE b.p
    IN  IF expected = 0 THEN [parser_preprocess(Unbracketed(p), 0, TextOf(p.stg, index)) EXCEPT !.val = 1]
        ELSE IF Peek(skip_lines(p)) # Op("(") THEN [parser_error(loc_search_from(p)) EXCEPT !.val = 0]
        ELSE [Scan(q) EXCEPT !.val = Truth(matches)]

\* What follows a macro in a file starts a line of the output.
AfterMacro(p) ==
    LET q == skip_until(p, TRUE)
    IN  IF LineEnd(Peek(q)) THEN [q EXCEPT !.is_line_required = TRUE] ELSE loc_update_end(Emit(q, <<NL>>))

\* Mutant: the depth of calls is not counted back after an error.
Called_Kept(p) == IF p.val = 1 THEN [p EXCEPT !.call = @ - 1] ELSE p

Called(p) == [p EXCEPT !.call = @ - 1]

parse_identifier(p) ==
    LET name == Name(p)
        q == Scan(p)
        begun == [loc_update_begin(Emit(p, <<NL>>)) EXCEPT !.in[1].pos = Here(q).pos, !.prev = TRUE, !.call = @ + 1]
    IN  IF name \notin Names(p.stg) THEN Copy(p)
        ELSE IF p.call > MAX_CALL_DEPTH THEN Copy(parser_error(p))
        ELSE IF in_is_file(p) THEN Called(AfterMacro([Do(<<"parse_replacement", name>>, begun) EXCEPT !.prev = FALSE]))
        ELSE Called(Do(<<"parse_replacement", name>>, [q EXCEPT !.call = @ + 1]))

\* A line of text.
RECURSIVE Words(_)
Words(p) ==
    LET q == skip_until(p, TRUE)
        t == Peek(q)
        string == Do(<<"skip_string">>, Copy(q))
    IN  CASE t = NL -> [loc_line_break(Copy(q)) EXCEPT !.char = NL]
          [] t = EOF -> [q EXCEPT !.char = EOF]
          [] IsName(t) -> Words(parse_identifier(q))
          [] IsHash(t) -> Words(Copy(parser_error(loc_search_from(q))))
          [] t = QUOTE -> Words(IF string.char = EOF THEN string ELSE Emit(string, <<string.char>>))
          [] OTHER -> Words(Copy(q))

parse_until(p) ==
    LET q == Words(p)
    IN  IF q.char = EOF /\ ~q.prev /\ Here(q).pos # Here(p).pos THEN Emit(q, <<NL>>) ELSE q

-----------------------------------------------------------------------------

(* Expressions: the computer is fed until the end of the line; the text of *)
(* a macro is read instead of its name, names in it count as zero.         *)

BinaryTokens == {"(", ")", "~", "!", "*", "/", "%", "+", "-", "<<", ">>", "<", ">", "<=", ">=", "==", "!=",
                 "&", "^", "|", "&&", "||"}

Computed(p, failed) == [p EXCEPT !.was_error = failed \/ @]

\* Leaves the text of a macro, and with it the location of the macro.
Left(p, buffer, prev) == [p EXCEPT !.in = IF buffer THEN Tail(@) ELSE @, !.prev = prev]

Broken(p, comp, buffer, prev) ==
    [skip_expression(Computed(Left(p, buffer, prev), comp.failed)) EXCEPT !.val = 0]

RECURSIVE Operands(_, _, _, _)
Operands(p, comp, buffer, prev) ==
    LET q == IF buffer THEN skip_lines(p) ELSE skip_until(p, FALSE)
        t == Peek(q)
        result == computer_pop_result(comp)
        zero == computer_const_number(comp, 0).comp
        called == Do(<<"parse_replacement", Name(q)>>,
                     out_swap([Scan(loc_search_from(q)) EXCEPT !.prev = TRUE, !.call = @ + 1], Buffer))
        back == out_back(Called(called))
        pushed == [back EXCEPT !.in = <<Stream(0, out_extract_buffer(called))>> \o @]
        fed == IF t[1] = "num" THEN computer_const_number(comp, t[2]) ELSE computer_push_token(comp, t[2])
    IN  CASE t = EOF /\ buffer -> Operands(Left(q, TRUE, prev), comp, FALSE, prev)
          [] LineEnd(t) /\ ~buffer -> [Computed(q, result.comp.failed) EXCEPT !.val = result.value, !.prev = prev]
          [] IsName(t) /\ (buffer \/ Name(q) \notin Names(p.stg)) -> Operands(Scan(q), zero, buffer, prev)
          [] IsName(t) /\ ~buffer /\ Name(q) \in Names(p.stg) ->
                 IF p.call > MAX_CALL_DEPTH THEN Broken(parser_error(q), comp, FALSE, prev)
                 ELSE IF called.val = 1 THEN Operands(pushed, comp, TRUE, prev)
                 ELSE Broken(back, comp, FALSE, prev)
          [] IsHash(t) -> IF t = <<"dir", "EVAL">> THEN Operands(Scan(q), comp, buffer, prev)
                          ELSE Broken(parser_error(q), comp, buffer, prev)
          [] t[1] = "num" \/ (t[1] = "op" /\ t[2] \in BinaryTokens) ->
                 IF fed.ok THEN Operands(Scan(q), fed.comp, buffer, prev) ELSE Broken(Scan(q), fed.comp, buffer, prev)
          [] OTHER -> Broken(parser_error(q), comp, buffer, prev)

parse_expression(p) ==
    LET q == skip_until(parse_location(p), FALSE)
    IN  IF LineEnd(Peek(q)) THEN [parser_error(q) EXCEPT !.val = 0] ELSE Operands(q, computer_create, FALSE, q.prev)

parse_eval(p) ==
    LET e == Do(<<"parse_expression">>, loc_update_begin(Emit(p, <<NL>>)))
    IN  Do(<<"skip_directive">>, Emit(e, <<<<"num", e.val>>, NL>>))

-----------------------------------------------------------------------------

(* Definitions. *)

\* The names of the arguments; p.val is their number.
RECURSIVE Params(_, _)
Params(p, seen) ==
    LET q == skip_until(Scan(p), FALSE)
        names == Append(seen, Name(p))
        refused == [parser_error(p) EXCEPT !.val = SIZE_MAX]
    IN  CASE Peek(p) = Op(")") -> [Scan(p) EXCEPT !.params = seen, !.val = Len(seen)]
          [] Peek(p) # Op(")") /\ ~IsName(Peek(p)) -> refused
          [] IsName(Peek(p)) -> IF Name(p) \in Range(seen) THEN refused
                                ELSE IF Peek(q) = Op(",") THEN Params(skip_until(Scan(q), FALSE), names)
                                ELSE IF Peek(q) = Op(")") \/ LineEnd(Peek(q)) THEN Params(q, names)
                                ELSE [parser_error(q) EXCEPT !.val = SIZE_MAX]

\* Arguments are what an opening bracket right behind the name begins.
parse_args(p) ==
    IF Peek(p) = Op("(") THEN Params(skip_until(Scan(p), FALSE), <<>>) ELSE [p EXCEPT !.params = <<>>, !.val = 0]

\* # and ## in the text of a macro.
parse_operator(p, gap) ==
    LET q == skip_until(Scan(p), FALSE)
        argument == IsName(Peek(q)) /\ Name(q) \in Range(p.params)
        e == Do(<<"parse_expression">>, Scan(p))
        failed == [p |-> parser_error(q), ok |-> FALSE]
        written(kind, space) == [p |-> Emit(Scan(q), space \o <<Masked(p, kind, Name(q))>>), ok |-> TRUE]
    IN  CASE Peek(p) = Op("##") -> IF argument THEN written("TKP", <<>>) ELSE failed
          [] Peek(p) = HASH -> IF argument THEN written("STR", Gap(gap)) ELSE failed
          [] Peek(p) = <<"dir", "EVAL">> -> [p |-> Emit(e, Gap(gap) \o <<<<"num", e.val>>>>), ok |-> TRUE]
          [] OTHER -> failed

RECURSIVE Content(_, _)
Content(p, gap) ==
    LET q == Emit(p, Gap(gap))
        o == parse_operator(p, gap)
        string == Do(<<"skip_string">>, Copy(q))
        next(r) == LET s == skip_until(r, FALSE) IN Content(s, Here(s).pos # Here(r).pos)
    IN  CASE LineEnd(Peek(p)) -> [p |-> p, ok |-> TRUE]
          [] IsHash(Peek(p)) -> IF o.ok THEN next(o.p) ELSE o
          [] IsName(Peek(p)) -> next(Emit(Scan(q), <<Masked(p, "ARG", Name(p))>>))
          [] Peek(p) = QUOTE -> IF string.char = QUOTE THEN next(Emit(string, <<QUOTE>>)) ELSE [p |-> string, ok |-> FALSE]
          [] OTHER -> next(Copy(q))

\* The answer holds the text, NoValue when it is empty.
parse_content(p) ==
    LET c == Content(skip_until(out_swap(p, Buffer), FALSE), FALSE)
        text == out_extract_buffer(c.p)
    IN  [p |-> out_back(c.p), ok |-> c.ok, text |-> IF text = <<>> THEN NoValue ELSE text]

SetText(p, index, args, text) ==
    [p EXCEPT !.stg = WithText(WithArgs(@, index, args), index, text), !.params = <<>>]

Forgotten(p, index) == [p EXCEPT !.stg = Removed(@, index), !.params = <<>>]

parse_context(p, index) ==
    LET q == Do(<<"parse_args">>, [p EXCEPT !.owner = index])
        c == Do(<<"parse_content">>, skip_until(q, FALSE))
    IN  CASE q.val = SIZE_MAX -> Forgotten(q, index)
          [] q.val # SIZE_MAX /\ Peek(skip_until(q, FALSE)) = Op("##") -> Forgotten(parser_error(skip_until(q, FALSE)), index)
          [] OTHER -> IF c.ok THEN SetText(c.p, index, q.val, c.text) ELSE Forgotten(c.p, index)

Declared(p) == [Scan(p) EXCEPT !.stg = Added(@, Name(p))]

parse_define(p) ==
    LET q == Do(<<"parse_name">>, p)
    IN  Do(<<"skip_directive">>, IF Named(p) THEN parse_context(Declared(q), Name(q)) ELSE q)

parse_set(p) == parse_define(p)

parse_undef(p) ==
    LET q == Do(<<"parse_name">>, p)
    IN  Do(<<"skip_directive">>, parse_extra(IF Named(p) THEN Forgotten(Scan(q), Name(q)) ELSE q))

\* A macro of several lines; its text is the block up to #endm.
parse_macro(p) ==
    LET q == Do(<<"parse_name">>, parse_location(p))
        index == Name(q)
        a == IF Named(p) THEN Do(<<"parse_args">>, skip_until([Declared(q) EXCEPT !.owner = index], FALSE))
             ELSE [q EXCEPT !.val = SIZE_MAX]
        b == Do(<<"skip_block", "MACRO">>,
                IF a.val = SIZE_MAX THEN out_swap(Do(<<"skip_directive">>, a), Off)
                ELSE out_swap(Do(<<"skip_directive">>, parse_extra(a)), Buffer))
        c == IF b.ret = "ENDM" THEN b ELSE parser_error(b)
        text == out_extract_buffer(c)
        d == Do(<<"skip_directive">>, parse_extra(out_back(c)))
    IN  IF ~Named(p) THEN d
        ELSE IF c.out[1].on THEN SetText(d, index, a.val, IF text = <<>> THEN NoValue ELSE text)
        ELSE Forgotten(d, index)

-----------------------------------------------------------------------------

(* Blocks. *)

\* The rest of a chain of #elif and #else after the branch that was taken.
RECURSIVE SkipBranches(_)
SkipBranches(p) ==
    IF p.ret \in {"ENDIF", NON_KEYWORD} THEN p
    ELSE SkipBranches(SkippedBlock(Do(<<"skip_directive">>, IF p.ret = "ELSE" THEN parse_extra(p) ELSE p), p.ret))

RECURSIVE parse_elif(_)
parse_elif(p) ==
    LET e == Do(<<"parse_expression">>, p)
        s == SkippedBlock(Do(<<"skip_directive">>, e), "ELIF")
    IN  IF e.val # 0 THEN SkipBranches(Do(<<"parse_block", "ELIF">>, Do(<<"skip_directive">>, e)))
        ELSE IF s.ret = "ELSE" THEN Do(<<"parse_block", "ELSE">>, Do(<<"skip_directive">>, parse_extra(s)))
        ELSE IF s.ret \in {"ENDIF", NON_KEYWORD} THEN s
        ELSE parse_elif(s)

Ended(p) == Do(<<"skip_directive">>, parse_extra(IF p.ret = "ENDIF" THEN p ELSE parser_error(p)))

parse_if(p) == Ended(parse_elif(parse_location(p)))

parse_ifdef_ifndef(p, keyword) ==
    LET q == Do(<<"parse_name">>, parse_location(p))
        defined == Name(q) \in Names(q.stg)
        r == Do(<<"skip_directive">>, parse_extra(Scan(q)))
        s == SkippedBlock(r, keyword)
        chosen == CASE (keyword = "IFDEF") = defined -> Do(<<"parse_block", keyword>>, r)
                    [] s.ret = "ELIF" -> parse_elif(s)
                    [] s.ret = "ELSE" -> Do(<<"parse_block", "ELSE">>, Do(<<"skip_directive">>, parse_extra(s)))
                    [] OTHER -> s
    IN  Ended(SkipBranches(IF Named(p) THEN chosen ELSE [q EXCEPT !.ret = keyword]))

\* The turns of a loop: the condition is read again at its place.
RECURSIVE Turns(_, _, _, _)
Turns(p, begin, was_error, iteration) ==
    LET b == Do(<<"parse_block", "WHILE">>, Do(<<"skip_directive">>, p))
        end == loc_search_from(b)
        again == Do(<<"parse_expression">>,
                    [end EXCEPT !.in[1] = [Here(b) EXCEPT !.pos = begin.pos, !.line = begin.line, !.code = begin.code]])
        over == [(IF b.was_error THEN end ELSE again) EXCEPT !.in[1] = Here(end)]
        left == parse_extra(over)
    IN  IF b.ret # "ENDW" THEN [parser_error(b) EXCEPT !.char = EOF]
        ELSE IF iteration = MAX_ITERATION THEN Do(<<"skip_directive">>, parse_extra(parser_error(b)))
        ELSE IF b.was_error \/ again.val = 0 THEN Do(<<"skip_directive">>, [left EXCEPT !.was_error = @ \/ was_error])
        ELSE Turns(again, begin, was_error, iteration + 1)

parse_while(p) ==
    LET q == parse_location(p)
        e == Do(<<"parse_expression">>, q)
        s == SkippedBlock(Do(<<"skip_directive">>, e), "WHILE")
    IN  IF e.val = 0 THEN Do(<<"skip_directive">>, parse_extra(IF s.ret = "ENDW" THEN s ELSE parser_error(s)))
        ELSE Turns([e EXCEPT !.was_error = e.is_recovery_disabled /\ @], Here(q), e.was_error, 0)

-----------------------------------------------------------------------------

(* Included files (linker.c). *)

Files == program.files
Located(dir, name) == {f \in DOMAIN Files : Files[f].dir = dir /\ Files[f].name = name}

linker_internal_path(p, name) == Located(Files[p.current].dir, name)

linker_external_path(name) ==
    LET dirs == {d \in DOMAIN program.dirs : Located(program.dirs[d], name) # {}}
    IN  IF dirs = {} THEN {} ELSE Located(program.dirs[CHOOSE d \in dirs : \A e \in dirs : d <= e], name)

First(files, others) == IF files # {} THEN files ELSE others

\* A header that was included before is not read again.
linker_add_header(p, file) ==
    IF file \in p.included THEN p
    ELSE parser_preprocess([p EXCEPT !.included = @ \cup {file}, !.current = file], file, Reference!Text(file, Files[file].lines))

parse_path(p, name, kind) ==
    LET found == IF kind = "internal" THEN First(linker_internal_path(p, name), linker_external_path(name))
                 ELSE First(linker_external_path(name), linker_internal_path(p, name))
    IN  IF found = {} THEN parser_error(Scan(p)) ELSE linker_add_header(parse_extra(Scan(p)), CHOOSE f \in found : TRUE)

parse_include(p) ==
    LET q == skip_until([parse_location(p) EXCEPT !.include = @ + 1], FALSE)
        t == Peek(q)
        r == IF t[1] = "path" THEN parse_path(q, t[2], t[3]) ELSE parser_error(loc_search_from(q))
    IN  IF p.include >= MAX_INCLUDE_DEPTH THEN Do(<<"skip_directive">>, parser_error(parse_location(p)))
        ELSE Do(<<"skip_directive">>, [r EXCEPT !.include = @ - 1])

-----------------------------------------------------------------------------

(* A turn of parse_block; p.char is EOF after the last one. *)

Handled(p, begin) ==
    CASE p.ret = "LINE" -> parse_line(p)
      [] p.ret = "INCLUDE" -> parse_include(p)
      [] p.ret = "DEFINE" -> parse_define(p)
      [] p.ret = "SET" -> parse_set(p)
      [] p.ret = "UNDEF" -> parse_undef(p)
      [] p.ret = "MACRO" -> parse_macro(p)
      [] p.ret \in {"IFDEF", "IFNDEF"} -> parse_ifdef_ifndef(p, p.ret)
      [] p.ret = "IF" -> parse_if(p)
      [] p.ret = "WHILE" -> parse_while(p)
      [] p.ret = "EVAL" -> parse_eval(p)
      [] p.ret \in {NON_KEYWORD, ERROR_KEYWORD} -> parse_until(p)
      [] p.ret \in Closers -> Do(<<"skip_directive">>, parse_next(p, begin, p.ret))

parse_block(p, begin) ==
    LET d == Do(<<"parse_directive">>, p)
        h == Do(<<"Handled", begin>>, d)
    IN  IF d.ret \in Closers /\ Follows(begin, d.ret) THEN d
        ELSE IF h.char = EOF THEN [h EXCEPT !.ret = NON_KEYWORD]
        ELSE Do(<<"parse_block", begin>>, h)

\* The functions that call each other; f is a name with the arguments after p.
Do(f, p) ==
    CASE f[1] = "Blanks" -> Blanks(p)
      [] f[1] = "skip_string" -> skip_string(p)
      [] f[1] = "skip_directive" -> skip_directive(p)
      [] f[1] = "skip_macro" -> skip_macro(p, f[2])
      [] f[1] = "skip_block" -> skip_block(p, f[2])
      [] f[1] = "parse_name" -> parse_name(p)
      [] f[1] = "parse_hash" -> parse_hash(p)
      [] f[1] = "parse_directive" -> parse_directive(p)
      [] f[1] = "Argument" -> Argument(p, 0, f[2], FALSE)
      [] f[1] = "parse_brackets" -> parse_brackets(p)
      [] f[1] = "parse_replacement" -> parse_replacement(p, f[2])
      [] f[1] = "parse_expression" -> parse_expression(p)
      [] f[1] = "parse_args" -> parse_args(p)
      [] f[1] = "parse_content" -> parse_content(p)
      [] f[1] = "Handled" -> Handled(p, f[2])
      [] f[1] = "parse_block" -> parse_block(p, f[2])

-----------------------------------------------------------------------------

(* The preprocessor (macro.c): the -D flags, then one source after another; *)
(* each turn of the outermost parse_block is a step.                        *)

parser_create ==
    [in |-> <<>>, out |-> <<Buffer>>, stg |-> NoMacros, params |-> <<>>, owner |-> NoValue, include |-> 0, call |-> 0,
     prev |-> FALSE, is_recovery_disabled |-> FALSE, is_line_required |-> FALSE, is_macro_processed |-> FALSE,
     was_error |-> FALSE, hung |-> FALSE, char |-> NL, ret |-> NON_KEYWORD, val |-> 0,
     current |-> SIZE_MAX, included |-> {}]

Init ==
    /\ program \in Programs
    /\ stage = [at |-> "flags", i |-> 1, ret |-> FALSE]
    /\ prs = parser_create

\* ws_parse: a name that is defined already ends it with an error; its text is stored
\* all the same, for no macro.
ParseFlag ==
    /\ stage.at = "flags" /\ stage.i <= Len(program.flags)
    /\ LET f == program.flags[stage.i]
           table == Added(prs.stg, f.name)
           value == Reference!Spelled(f.words)
       IN  IF f.name \in Names(prs.stg)
           THEN /\ stage' = [at |-> "sources", i |-> 1, ret |-> TRUE]
                /\ prs' = [prs EXCEPT !.is_recovery_disabled = program.wno,
                                      !.stg.texts = IF value = <<>> THEN @ ELSE Append(@, value)]
           ELSE /\ stage' = [stage EXCEPT !.i = @ + 1]
                /\ prs' = [prs EXCEPT !.stg = IF value = <<>> THEN table ELSE WithText(table, f.name, value)]
    /\ UNCHANGED program

FlagsParsed ==
    /\ stage.at = "flags" /\ stage.i > Len(program.flags)
    /\ stage' = [stage EXCEPT !.at = "sources", !.i = 1]
    /\ prs' = [prs EXCEPT !.is_recovery_disabled = program.wno]
    /\ UNCHANGED program

More == stage.i <= program.sources /\ ~(stage.ret /\ program.wno)

\* linker_add_source and the beginning of parser_preprocess.
OpenSource ==
    /\ stage.at = "sources" /\ More
    /\ IF Files[stage.i].lines = NoValue
       THEN stage' = [stage EXCEPT !.i = @ + 1, !.ret = TRUE] /\ UNCHANGED prs
       ELSE /\ stage' = [stage EXCEPT !.at = "block"]
            /\ prs' = [prs EXCEPT !.in = <<Stream(stage.i, Reference!Text(stage.i, Files[stage.i].lines))>>,
                                  !.is_line_required = TRUE, !.current = stage.i, !.included = @ \cup {stage.i}]
    /\ UNCHANGED program

\* A turn of parse_block; the source is closed after the last one.
Turned(p) ==
    /\ prs' = IF p.char = EOF THEN [p EXCEPT !.in = <<>>] ELSE p
    /\ stage' = IF p.char = EOF THEN [at |-> "sources", i |-> stage.i + 1, ret |-> stage.ret \/ p.was_error] ELSE stage
    /\ UNCHANGED program

Turn == stage.at = "block" /\ Turned(Do(<<"Handled", NON_KEYWORD>>, Do(<<"parse_directive">>, prs)))

Finish ==
    /\ stage.at = "sources" /\ ~More
    /\ stage' = [stage EXCEPT !.at = "done"]
    /\ UNCHANGED <<program, prs>>

Next == ParseFlag \/ FlagsParsed \/ OpenSource \/ Turn \/ Finish

Spec == Init /\ [][Next]_vars

-----------------------------------------------------------------------------

(* Properties. *)

Over == stage.at = "done"
Output == prs.out[1].text
Meaning == Reference!Meaning(program)

\* What a reader of the output sees: blanks, line breaks and marks aside.
Seen(t) == t[1] \in {"id", "num", "str", "op", "quote", "null"}
Shown(t) == CASE t[1] = "id" -> <<"id", t[2]>>
              [] t[1] = "str" -> <<"str", SelectSeq(t[2], Seen)>>
              [] OTHER -> t
Visible(text) == LET kept == SelectSeq(text, Seen) IN [k \in DOMAIN kept |-> Shown(kept[k])]

\* Between two turns of the outermost block the parser is back at the outermost level:
\* streams, modes and depths are what they were.  A call or a header that fails half-way (a
\* wrong number of arguments, an argument that calls another macro) leaves no level behind.
CallsUnwound ==
    /\ Len(prs.in) = (IF stage.at = "block" THEN 1 ELSE 0) /\ Len(prs.out) = 1 /\ prs.out[1].on
    /\ prs.include = 0 /\ prs.call = 0 /\ ~prs.prev /\ prs.params = <<>>
    /\ ~prs.is_macro_processed /\ ~prs.hung

\* What macro() gives for a program without errors is what the program
\* means: the branches that hold, loops, definitions at their time, arguments
\* expanded for the text, as written for # and behind ##, each file once.
OutputExact == Over /\ ~stage.ret /\ ~Meaning.err => Visible(Output) = Visible(Meaning.out)

\* macro() fails exactly for the programs that have an error.
ErrorsExact == Over => stage.ret = Meaning.err

\* Counting from the marks in the output, every name that is copied from a
\* file stands on the line it has there.
Counted(text) ==
    LET step(acc, t) ==
            CASE t[1] \in {"line", "end"} -> [acc EXCEPT !.file = t[2], !.line = t[3], !.inside = FALSE]
              [] t[1] = "begin" -> [acc EXCEPT !.file = t[2], !.line = t[3], !.inside = TRUE]
              [] t[1] \in {"nl", "cont"} -> IF acc.inside THEN acc ELSE [acc EXCEPT !.line = @ + 1]
              [] t[1] = "id" /\ Len(t) = 4 -> IF t[3] = acc.file /\ t[4] = acc.line THEN acc ELSE [acc EXCEPT !.right = FALSE]
              [] OTHER -> acc
    IN  FoldLeft(step, [file |-> 0, line |-> 1, inside |-> FALSE, right |-> TRUE], text)
LinesMarked == Over /\ ~stage.ret => Counted(Output).right

=============================================================================
