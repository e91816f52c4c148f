--------------------------- MODULE LexicalGrammar ---------------------------
(***************************************************************************)
(* What the lexer must read: at every place the longest word of the        *)
(* lexical grammar of docs/Language.md, stated over the positions of the   *)
(* text and without reading a character after another.                     *)
(***************************************************************************)
EXTENDS Lexer

AllIn(i, j, set) == \A k \in i..j : Text[k] \in set
Piece(i, j) == SubSeq(Text, i, j)
After(j) == IF j < Len(Text) THEN Text[j + 1] ELSE EOF
Places(i) == i..Len(Text)

IsWord(i, j) == Text[i] \in Letters \cup {"#"} /\ AllIn(i + 1, j, Letters \cup Digits)

IsWhole(i, j) == i <= j /\ AllIn(i, j, Digits)
IsBased(i, j) ==
  /\ i < j /\ Text[i] = "0" /\ Text[i + 1] \in DOMAIN Modifier
  /\ \A k \in i + 2..j : Text[k] \in HexaDigits /\ utf8_to_number[Text[k]] < Modifier[Text[i + 1]]
IsFraction(i, j) == i < j /\ \E p \in i..j : Text[p] = "." /\ AllIn(i, p - 1, Digits) /\ AllIn(p + 1, j, Digits)
IsPower(i, j) ==
  /\ i < j /\ Text[i] \in Powers
  /\ IsWhole(i + 1, j) \/ (Text[i + 1] \in {"+", "-"} /\ IsWhole(i + 2, j))
IsScaled(i, j) == \E p \in i + 1..j : (IsWhole(i, p - 1) \/ IsFraction(i, p - 1)) /\ IsPower(p, j)
IsNumber(i, j) == IsWhole(i, j) \/ IsBased(i, j) \/ IsFraction(i, j) \/ IsScaled(i, j)

RECURSIVE IsElements(_, _, _)
IsElements(i, j, quote) ==
  \/ i > j
  \/ i <= j /\ Text[i] \notin {"\\", NL, quote} /\ IsElements(i + 1, j, quote)
  \/ i < j /\ Text[i] = "\\" /\ Text[i + 1] \in Escapes /\ IsElements(i + 2, j, quote)
RECURSIVE Elements(_, _)
Elements(i, j) == CASE i > j -> <<>>
                    [] i <= j /\ Text[i] = "\\" -> <<EscapeValue(Text[i + 1])>> \o Elements(i + 2, j)
                    [] OTHER -> <<Text[i]>> \o Elements(i + 1, j)
IsQuoted(i, j, quote) == i < j /\ Text[i] = quote /\ Text[j] = quote /\ IsElements(i + 1, j - 1, quote)
IsChar(i, j) == IsQuoted(i, j, "'") /\ Len(Elements(i + 1, j - 1)) = 1
RECURSIVE IsString(_, _)
IsString(i, j) ==
  \/ IsQuoted(i, j, "\"")
  \/ \E k, n \in i..j : k < n /\ IsQuoted(i, k, "\"") /\ AllIn(k + 1, n - 1, Blank) /\ IsString(n, j)
RECURSIVE StringValue(_, _)
StringValue(i, j) ==
  LET k == CHOOSE e \in i..j : IsQuoted(i, e, "\"")
      n == CHOOSE b \in k + 1..j : Text[b] = "\"" /\ AllIn(k + 1, b - 1, Blank)
  IN Elements(i + 1, k - 1) \o IF k = j THEN <<>> ELSE StringValue(n, j)

Spellings ==
  {<<c>> : c \in Punctuators}
  \cup {<<c, "=">> : c \in {"*", "!", "%", "^", "=", "+", "|", "&", "-", "<", ">", "/"}}
  \cup {<<"+", "+">>, <<"|", "|">>, <<"&", "&">>, <<"-", "-">>, <<"-", ">">>, <<"<", "<">>, <<">", ">">>,
        <<"<", "<", "=">>, <<">", ">", "=">>}
IsPunctuator(i, j) == j - i <= 2 /\ Piece(i, j) \in Spellings

IsLexeme(i, j) == IsWord(i, j) \/ IsNumber(i, j) \/ IsChar(i, j) \/ IsString(i, j) \/ IsPunctuator(i, j)
\* A lexeme that is followed by what cannot follow it.
IsCutOff(i, j) ==
  \/ (IsWhole(i, j) \/ IsBased(i, j)) /\ After(j) \in HexaDigits
  \/ IsFraction(i, j) /\ After(j) \in Powers
  \/ IsString(i, j) /\ \E n \in Places(j + 1) : Text[n] = "\"" /\ AllIn(j + 1, n - 1, Blank)

----------------------------------------------------------------------------
DigitsValue(digits, base) == FoldLeft(LAMBDA value, c : value * base + utf8_to_number[c], 0, digits)
NumberToken(i, j) ==
  LET base == IF IsBased(i, j) THEN Modifier[Text[i + 1]] ELSE 10
      p == IF IsScaled(i, j) THEN CHOOSE k \in i..j : Text[k] \in Powers ELSE j + 1
      point == IF IsBased(i, j) \/ AllIn(i, p - 1, Digits) THEN p ELSE CHOOSE k \in i..j : Text[k] = "."
      whole == Piece(IF IsBased(i, j) THEN i + 2 ELSE i, point - 1)
      fraction == Piece(point + 1, p - 1)
      negative == p < j /\ Text[p + 1] = "-"
      power == DigitsValue(SelectSeq(Piece(p + 1, j), LAMBDA c : c \in Digits), 10)
      \* a literal that might not fit into IntWidth bits is a floating one
      isTooLong == DigitsValue(whole, base) \div base >= 2^(IntWidth - 4)
  IN IF point = p /\ ~negative /\ ~isTooLong
     THEN Token("integer", i, j, TimesTen(DigitsValue(whole, base), power))
     ELSE Token("floating", i, j, <<DigitsValue(whole \o fraction, base),
                                    (IF negative THEN -power ELSE power) - Len(fraction)>>)
Lexeme(i, j) ==
  CASE IsNumber(i, j) -> NumberToken(i, j)
    [] IsWord(i, j) /\ Piece(i, j) \in DOMAIN Keywords -> Token(Keywords[Piece(i, j)], i, j, 0)
    [] IsWord(i, j) /\ Piece(i, j) \notin DOMAIN Keywords -> Token("identifier", i, j, Piece(i, j))
    [] IsChar(i, j) -> Token("character", i, j, Head(Elements(i + 1, j - 1)))
    [] IsString(i, j) -> Token("string", i, j, StringValue(i, j))
    [] OTHER -> Token("punctuator", i, j, Piece(i, j))

LineEnd(i) == Min({k \in Places(i) : Text[k] = NL})
IsCommented(i, second) == Text[i] = "/" /\ After(i) = second
CommentEnds(i) == {k \in Places(i + 3) : Text[k - 1] = "*" /\ Text[k] = "/"}
Mistake(i) == <<Token("mistake", i, i, 0)>>
\* The tokens of the text from i on, up to the first mistake.
RECURSIVE TokensFrom(_)
TokensFrom(i) ==
  LET ends == {j \in Places(i) : IsLexeme(i, j)}
      j == Max(ends)
      token == Lexeme(i, j)
  IN CASE i > Len(Text) -> <<Token(EOF, i, i, 0)>>
       [] i <= Len(Text) /\ Text[i] \in Blank -> TokensFrom(i + 1)
       [] i <= Len(Text) /\ IsCommented(i, "/") -> TokensFrom(LineEnd(i))
       [] i <= Len(Text) /\ IsCommented(i, "*")
          -> IF CommentEnds(i) = {} THEN Mistake(i) ELSE TokensFrom(Min(CommentEnds(i)) + 1)
       [] OTHER -> IF ends = {} THEN Mistake(i)
                   ELSE IF IsCutOff(i, j) THEN Mistake(i)
                   ELSE IF token.kind = "line" THEN TokensFrom(LineEnd(j))
                   ELSE <<token>> \o TokensFrom(j + 1)

----------------------------------------------------------------------------

Value(token) == CASE token.kind = "identifier" -> lxr.reprs[token.data]
                  [] token.kind = "string" -> lxr.strings[token.data]
                  [] OTHER -> token.data
\* The parser gets the tokens of the lexical grammar, with their places and values, wherever it peeked: each the longest
\* lexeme, up to the first mistake, and none more (lex and all that it calls).
TokensExact ==
  AtEnd => LET right == TokensFrom(1)
               sure == IF Last(right).kind = "mistake" THEN Front(right) ELSE right
           IN /\ IF sure = right THEN Len(tokens) = Len(right) ELSE Len(tokens) >= Len(sure)
              /\ \A k \in DOMAIN sure :
                   /\ tokens[k].kind = sure[k].kind
                   /\ tokens[k].kind # EOF => tokens[k].begin = sure[k].begin /\ Value(tokens[k]) = sure[k].data

\* A text is refused exactly when it breaks the lexical grammar, whatever the parser peeked at (lexer_error).
MistakesReported == AtEnd => (lxr.errors # 0 <=> Last(TokensFrom(1)).kind = "mistake")

\* What peek told of the next token is what the parser then takes, though peek has read it and put it back (peek).
PeekExact == [][ahead # <<>> /\ tokens' # tokens => Kind(Last(tokens')) = ahead]_vars
=============================================================================
