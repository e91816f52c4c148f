------------------------------- MODULE Lexer -------------------------------
(***************************************************************************)
(* The lexer (lexer.c): characters to tokens, one of lookahead always      *)
(* read.  A character is a string of one, a position the number of         *)
(* characters taken.  The lexer is a record that each function takes and   *)
(* gives back; a function that lexes gives <<the lexer, the token>>.       *)
(* Integers have IntWidth bits; a floating value is <<m, e>>, m * 10^e.    *)
(***************************************************************************)
EXTENDS Integers, Sequences, SequencesExt

CONSTANTS Sources,      \* the texts: [text, recovery, peeks]
          Keywords,     \* spelling -> kind
          IntWidth      \* bits of an integer literal
ASSUME WidthAssumption == IntWidth \in Nat /\ IntWidth > 4

VARIABLES source,       \* the text of this behaviour
          lxr,          \* the lexer, with the tables of syntax.c it adds to
          tokens,       \* the tokens the parser took
          ahead,        \* the kind that peek told of the next one, or <<>>
          peeks         \* how often the parser may still peek
vars == <<source, lxr, tokens, ahead, peeks>>

EOF == "eof"
NL == "nl"
Digits == {"0", "1", "2", "3", "4", "5", "6", "7", "8", "9"}
HexaDigits == Digits \cup {"a", "b", "c", "d", "e", "f"}
Powers == {"e"}
Letters == {"a", "b", "c", "d", "e", "f", "i", "l", "n", "o", "x"}
Blank == {NL, " "}
utf8_to_number ==
  [c \in HexaDigits |-> CHOOSE k \in 0..15 :
     c = <<"0", "1", "2", "3", "4", "5", "6", "7", "8", "9", "a", "b", "c", "d", "e", "f">>[k + 1]]

----------------------------------------------------------------------------
Text == source.text
scan(l) == IF l.pos < Len(Text) THEN [l EXCEPT !.pos = @ + 1, !.character = Text[l.pos + 1]]
           ELSE [l EXCEPT !.character = EOF]
lookahead(l) == scan(l).character
lexer_error(l) == IF ~source.recovery /\ l.errors # 0 THEN l ELSE [l EXCEPT !.errors = @ + 1]

RECURSIVE SkipWhile(_, _)
SkipWhile(l, set) == IF l.character \in set THEN SkipWhile(scan(l), set) ELSE l
skip_whitespace(l) == SkipWhile(l, Blank)
RECURSIVE skip_line_comment(_)
skip_line_comment(l) == IF l.character \in {NL, EOF} THEN l ELSE skip_line_comment(scan(l))
\* The star that was read last, the opening one at first, is tried with the character after it.
RECURSIVE skip_block_comment(_)
skip_block_comment(l) ==
  LET next == IF l.character = "*" THEN scan(l) ELSE l
  IN CASE l.character = "*" /\ next.character = "/" -> scan(next)
       [] next.character = EOF -> lexer_error(next)
       [] OTHER -> skip_block_comment(scan(next))

Token(kind, begin, end, data) == [kind |-> kind, begin |-> begin, end |-> end, data |-> data]
\* The kind of a punctuator is its spelling.
Kind(token) == IF token.kind = "punctuator" THEN <<token.kind>> \o token.data ELSE <<token.kind>>

----------------------------------------------------------------------------
RECURSIVE Spelled(_, _)
Spelled(l, name) == IF l.character \in Letters \cup Digits THEN Spelled(scan(l), Append(name, l.character)) ELSE <<l, name>>
\* The keywords are in the table from the beginning.
repr_reserve(l, name) == IF name \in DOMAIN Keywords \cup Range(l.reprs) THEN l ELSE [l EXCEPT !.reprs = Append(@, name)]
lex_identifier_or_keyword(l) ==
  LET read == Spelled(scan(l), <<l.character>>)
      name == read[2]
      reserved == repr_reserve(read[1], name)
      repr == CHOOSE k \in DOMAIN reserved.reprs : reserved.reprs[k] = name
  IN <<reserved, IF name \in DOMAIN Keywords THEN Token(Keywords[name], l.pos, reserved.pos, 0)
                 ELSE Token("identifier", l.pos, reserved.pos, repr)>>

\* The value so far of a literal that is being read.
NoNumber == [base |-> 10, was_modifier |-> FALSE, int_value |-> 0, float_value |-> <<0, 0>>,
             is_integer |-> TRUE, wrong |-> FALSE]
\* Mutant: nobody looks whether a literal is too long.
IsFull_Never(n) == FALSE
\* At this value one more digit might not fit.
IsFull(n) == \/ n.base = 2 /\ n.int_value >= 2^(IntWidth - 1)
             \/ n.base = 8 /\ n.int_value >= 2^(IntWidth - 3)
             \/ n.int_value >= 2^(IntWidth - 4)
ToFloat(n) == [n EXCEPT !.float_value = <<n.int_value, 0>>, !.is_integer = FALSE]
AddDigit(n, digit) ==
  LET m == IF IsFull(n) THEN ToFloat(n) ELSE n
  IN IF m.is_integer THEN [m EXCEPT !.int_value = (@ * m.base + digit) % 2^IntWidth]
     ELSE [m EXCEPT !.float_value = <<@[1] * m.base + digit, 0>>]

Modifier == [x |-> 16, d |-> 10, o |-> 8, b |-> 2]
lex_modifier(l) ==
  LET next == scan(l)
  IN IF l.character # "0" THEN <<l, NoNumber>>
     ELSE IF next.character \in DOMAIN Modifier
     THEN <<scan(next), [NoNumber EXCEPT !.base = Modifier[next.character], !.was_modifier = TRUE]>>
     ELSE <<next, NoNumber>>
RECURSIVE lex_digits(_, _)
lex_digits(l, n) ==
  IF l.character \notin (IF n.was_modifier THEN HexaDigits ELSE HexaDigits \ Powers) THEN <<l, n>>
  ELSE IF utf8_to_number[l.character] < n.base
  THEN lex_digits(scan(l), AddDigit(n, utf8_to_number[l.character]))
  ELSE <<SkipWhile(lexer_error(l), HexaDigits), [n EXCEPT !.wrong = TRUE]>>
RECURSIVE FractionDigits(_, _)
FractionDigits(l, n) ==
  IF l.character \notin Digits THEN <<l, n>>
  ELSE FractionDigits(scan(l), [n EXCEPT !.float_value = <<@[1] * 10 + utf8_to_number[l.character], @[2] - 1>>])
lex_fraction(l, n) ==
  IF l.character # "." \/ n.was_modifier \/ n.wrong THEN <<l, n>>
  ELSE FractionDigits(scan(l), IF n.is_integer THEN ToFloat(n) ELSE n)
RECURSIVE PowerDigits(_, _)
PowerDigits(l, power) ==
  IF l.character \notin Digits THEN <<l, power>> ELSE PowerDigits(scan(l), power * 10 + utf8_to_number[l.character])
\* value * 10^power in IntWidth bits: after IntWidth tens no bit is left.
RECURSIVE TimesTen(_, _)
TimesTen(value, power) ==
  IF power = 0 THEN value
  ELSE IF power >= IntWidth THEN 0
  ELSE TimesTen((value * 10) % 2^IntWidth, power - 1)
lex_exponent(l, n) ==
  LET first == scan(l)
      signed == IF first.character \in {"-", "+"} THEN scan(first) ELSE first
      m == IF first.character = "-" /\ n.is_integer THEN ToFloat(n) ELSE n
      read == PowerDigits(signed, 0)
      power == IF first.character = "-" THEN -read[2] ELSE read[2]
  IN CASE l.character \notin Powers \/ n.was_modifier \/ n.wrong -> <<l, n>>
       [] l.character \in Powers /\ signed.character \notin Digits
          -> <<SkipWhile(lexer_error(signed), Letters \cup Digits \cup {"+", "-"}),
               [m EXCEPT !.is_integer = FALSE, !.float_value = <<"max">>]>>
       [] OTHER -> <<read[1], IF m.is_integer THEN [m EXCEPT !.int_value = TimesTen(@, power)]
                              ELSE [m EXCEPT !.float_value = <<@[1], @[2] + power>>]>>
lex_numeric_literal(l) ==
  LET begun == lex_modifier(l)
      whole == lex_digits(begun[1], begun[2])
      fraction == lex_fraction(whole[1], whole[2])
      read == lex_exponent(fraction[1], fraction[2])
      n == read[2]
  IN <<read[1], IF n.is_integer \/ n.wrong THEN Token("integer", l.pos, read[1].pos, n.int_value)
                ELSE Token("floating", l.pos, read[1].pos, n.float_value)>>

Escapes == {"n", "0", "\\", "'", "\""}
EscapeValue(c) == CASE c = "n" -> NL [] c = "0" -> "end" [] OTHER -> c
\* Mutant: an unknown escape sequence is the character itself.
get_next_string_elem_Any(l) ==
  LET next == IF l.character = "\\" THEN scan(l) ELSE l
  IN <<next, IF l.character = "\\" THEN EscapeValue(next.character) ELSE l.character>>
\* A character or an escape sequence, as <<the lexer, the value>>.
get_next_string_elem(l) ==
  LET next == scan(l)
  IN IF l.character # "\\" THEN <<l, l.character>>
     ELSE IF next.character \in Escapes THEN <<next, EscapeValue(next.character)>>
     ELSE <<lexer_error(next), next.character>>
lex_char_literal(l) ==
  LET first == scan(l)
      empty == scan(lexer_error(first))
      elem == get_next_string_elem(first)
      next == scan(elem[1])
      last == IF next.character = "'" THEN scan(next) ELSE lexer_error(next)
  IN IF first.character = "'" THEN <<empty, Token("character", l.pos, empty.pos, "end")>>
     ELSE <<last, Token("character", l.pos, last.pos, elem[2])>>

RECURSIVE StringElems(_)
StringElems(l) ==
  LET elem == get_next_string_elem(l)
  IN IF l.character \in {"\"", NL} THEN l
     ELSE StringElems(scan([elem[1] EXCEPT !.lexstr = Append(@, elem[2])]))
\* The literals that follow each other are one.
RECURSIVE StringParts(_)
StringParts(l) ==
  LET read == StringElems(scan(l))
  IN IF l.character # "\"" THEN l
     ELSE StringParts(skip_whitespace(IF read.character = "\"" THEN scan(read) ELSE lexer_error(read)))
\* The string is added to the table and the place where it was put together is emptied.
string_add(l) == [l EXCEPT !.strings = Append(@, l.lexstr), !.lexstr = <<>>]
lex_string_literal(l) ==
  LET read == StringParts(l)
  IN <<string_add(read), Token("string", l.pos, read.pos, Len(read.strings) + 1)>>

----------------------------------------------------------------------------
Single == {"?", "[", "]", "(", ")", "{", "}", "~", ":", ";", ","}
WithEqual == {"*", "!", "%", "^", "="}
Doubled == {"+", "|", "&", "-"}
Shifted == {"<", ">"}
\* What may follow the first character, and a shift, in a punctuator.
Second(c) == CASE c \in Single \cup {"."} -> {} [] c \in WithEqual \cup {"/"} -> {"="}
               [] c = "-" -> {"=", "-", ">"} [] c \in Doubled \cup Shifted -> {"=", c}
Third(c, d) == IF c \in Shifted /\ d = c THEN {"="} ELSE {}
Punctuators == Single \cup WithEqual \cup Doubled \cup Shifted \cup {".", "/"}
lex_punctuator(l) ==
  LET second == scan(l)
      third == scan(second)
      c == l.character
      end == CASE second.character \notin Second(c) -> <<second, <<c>>>>
               [] third.character \in Third(c, second.character) -> <<scan(third), <<c, second.character, third.character>>>>
               [] OTHER -> <<third, <<c, second.character>>>>
  IN <<end[1], Token("punctuator", l.pos, end[1].pos, end[2])>>

RECURSIVE lex(_)
lex(lexer) ==
  LET l == skip_whitespace(lexer)
      c == l.character
      next == lookahead(l)
      word == lex_identifier_or_keyword(l)
  IN CASE c = EOF -> <<l, Token(EOF, -1, -1, 0)>>
       [] c \in Letters \cup {"#"} -> IF word[2].kind = "line" THEN lex(skip_line_comment(word[1])) ELSE word
       [] c \in Digits \/ (c = "." /\ next \in Digits) -> lex_numeric_literal(l)
       [] c = "'" -> lex_char_literal(l)
       [] c = "\"" -> lex_string_literal(l)
       [] c = "/" /\ next = "/" -> lex(skip_line_comment(scan(l)))
       [] c = "/" /\ next = "*" -> lex(skip_block_comment(scan(l)))
       [] c \in Punctuators /\ ~(c = "." /\ next \in Digits) /\ ~(c = "/" /\ next \in {"/", "*"}) -> lex_punctuator(l)
       [] OTHER -> lex(scan(lexer_error(l)))

lexer_create == scan([pos |-> 0, character |-> EOF, lexstr |-> <<>>, strings |-> <<>>, reprs |-> <<>>, errors |-> 0])

\* Mutant: the character that was read last is not put back.
Back_Position(l, read) == [read EXCEPT !.pos = l.pos]
\* After peek the position and the character are the former ones; what was stored and reported remains.
Back(l, read) == [read EXCEPT !.pos = l.pos, !.character = l.character]

----------------------------------------------------------------------------
AtEnd == tokens # <<>> /\ Last(tokens).kind = EOF

\* The lexer is created with the parser, which takes the first token.
Init == /\ source \in Sources
        /\ lxr = lexer_create
        /\ tokens = <<>> /\ ahead = <<>> /\ peeks = source.peeks
consume_token ==
  /\ ~AtEnd
  /\ LET read == lex(lxr) IN lxr' = read[1] /\ tokens' = Append(tokens, read[2])
  /\ ahead' = <<>> /\ UNCHANGED <<source, peeks>>
peek ==
  /\ tokens # <<>> /\ ~AtEnd /\ peeks > 0
  /\ LET read == lex(lxr) IN lxr' = Back(lxr, read[1]) /\ ahead' = Kind(read[2])
  /\ peeks' = peeks - 1 /\ UNCHANGED <<source, tokens>>
Next == consume_token \/ peek
Spec == Init /\ [][Next]_vars
=============================================================================
