------------------------------ MODULE MCLexer ------------------------------
EXTENDS LexicalGrammar

\* "if" and "#line".
MCKeywords == [word \in {<<"i", "f">>, <<"#", "l">>} |-> IF word = <<"i", "f">> THEN "if" ELSE "line"]

\* The texts of a length over an alphabet, each as the last line but one of a file.
Texts(alphabet, length) == {text \o <<NL, NL>> : text \in [1..length -> alphabet]}
Includes(text, part) == \E k \in 0..Len(text) - Len(part) : SubSeq(text, k + 1, k + Len(part)) = part

Numbers == Texts({"0", "8", "x", "b", "e", ".", "-"}, 5) \cup Texts({"1", "9", "o", "+", "e"}, 4) \cup Texts({"8"}, 5)
Operators == Texts({"<", ">", "=", "-", "&", "/", ".", "("}, 4) \cup Texts({"*", "!", "%", "|", "+", "$", "="}, 3)
Literals == Texts({"\"", "'", "\\", "n", " "}, 6)
\* skip_block_comment overlooks the end after an even number of stars and takes the star that begins the comment for one
\* that ends it: without these.
Comments == {text \in Texts({"/", "*", "a", NL}, 6) : ~Includes(text, <<"*", "*">>) /\ ~Includes(text, <<"/", "*", "/">>)}
Words == Texts({"i", "f", "#", "l", "1", NL}, 4)
MCSources == [text : Numbers \cup Operators \cup Literals \cup Comments \cup Words, recovery : {TRUE}, peeks : {1}]
             \cup [text : Texts({"0", "b", "8", "'", "\\", " "}, 4), recovery : {FALSE}, peeks : {2}]
=============================================================================
