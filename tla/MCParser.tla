------------------------------ MODULE MCParser ------------------------------
(* The sources the parser is checked with: the first tokens, the tokens that  *)
(* may follow, and the bound on their number.                                 *)
EXTENDS Parser

Source(start, alphabet, free) ==
    [start |-> start, alphabet |-> alphabet, length |-> Len(start) + free]

Brackets == {"(", ")", "[", "]", "{", "}"}

\* Bodies of functions, initializers, external declarations, parameter lists, structures and enumerations.
MCSources == {
    Source(<<"type", "name", "(", ")", "{">>,
           Keywords \cup {"else", "type", "name", "literal", "(", ")", "{", "}", ";", ":"}, 6),
    Source(<<"type", "name", "=">>,
           Brackets \cup {"name", "literal", ",", ";", "?", ":", "*", "=", "++", "."}, 5),
    Source(<<>>, Brackets \cup Basic \cup Identifiers
                 \cup {"const", "typedef", "literal", ",", ";", "*", "="}, 6),
    Source(<<"type", "name", "(">>,
           Brackets \cup Basic \cup {"const", "name", ",", ";", "*"}, 6),
    Source(<<>>, {"struct", "enum", "type", "name", "literal", "[", "]", "{", "}", "(",
                  ",", ";", "*", "="}, 7) }
=============================================================================
