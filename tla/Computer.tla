------------------------------ MODULE Computer ------------------------------
(***************************************************************************)
(* The expression computer of the macro preprocessor (libs/macro/          *)
(* computer.c): a shift-reduce evaluator with one stack of numbers and one *)
(* of operators, fed token by token by parse_expression.  The positions    *)
(* kept beside the operators serve messages only and are left out; an      *)
(* error is remembered as the cleared location of comp, `failed` here.     *)
(***************************************************************************)
LOCAL INSTANCE Integers
LOCAL INSTANCE Sequences
LOCAL INSTANCE SequencesExt
LOCAL INSTANCE Bitwise

ITEM_MAX == 2147483647

\* The operators in the order of token_t; "u-" and "u+" are unary.
Tokens == <<"(", ")", "~", "!", "u-", "u+", "*", "/", "%", "+", "-", "<<", ">>",
            "<", ">", "<=", ">=", "==", "!=", "&", "^", "|", "&&", "||">>
Order(tk) == CHOOSE k \in DOMAIN Tokens : Tokens[k] = tk
Groups == {{"*", "/", "%"}, {"+", "-"}, {"<<", ">>"}, {"<", ">", "<=", ">="}, {"==", "!="}}
Unary == {"~", "!", "u-", "u+"}

NoOperator == "none"
stack_peek(s, bottom) == IF s = <<>> THEN bottom ELSE Head(s)
stack_pop(s) == IF s = <<>> THEN s ELSE Tail(s)

computer_create == [numbers |-> <<>>, operators |-> <<>>, was_number |-> FALSE, failed |-> FALSE]

computer_error(comp) == [comp EXCEPT !.failed = TRUE]

\* Whether an operation of the computer succeeded is the answer of the call.
Done(comp) == [comp |-> comp, ok |-> TRUE]
Refused(comp) == [comp |-> computer_error(comp), ok |-> FALSE]

Truth(b) == IF b THEN 1 ELSE 0
Sign(a) == IF a < 0 THEN -1 ELSE 1
Quotient(a, b) == Sign(a) * Sign(b) * ((a * Sign(a)) \div (b * Sign(b)))

Apply(operator, first, second) ==
    CASE operator = "*" -> first * second
      [] operator = "/" -> Quotient(first, second)
      [] operator = "%" -> first - second * Quotient(first, second)
      [] operator = "+" -> first + second
      [] operator = "-" -> first - second
      [] operator = "<<" -> first * 2 ^ second
      [] operator = ">>" -> first \div 2 ^ second
      [] operator = "<" -> Truth(first < second)
      [] operator = ">" -> Truth(first > second)
      [] operator = "<=" -> Truth(first <= second)
      [] operator = ">=" -> Truth(first >= second)
      [] operator = "==" -> Truth(first = second)
      [] operator = "!=" -> Truth(first # second)
      [] operator = "&" -> first & second
      [] operator = "^" -> first ^^ second
      [] operator = "|" -> first | second
      [] operator = "&&" -> Truth(first # 0 /\ second # 0)
      [] operator = "||" -> Truth(first # 0 \/ second # 0)

\* A unary operator left before a bracket takes two numbers and gives none.
computer_select_three(comp) ==
    LET operator == Head(comp.operators)
        second == stack_peek(comp.numbers, ITEM_MAX)
        first == stack_peek(stack_pop(comp.numbers), ITEM_MAX)
        rest == stack_pop(stack_pop(comp.numbers))
    IN  [comp EXCEPT !.operators = Tail(@),
                     !.numbers = IF operator \in Unary THEN rest ELSE <<Apply(operator, first, second)>> \o rest]

computer_compare_priority(fst, snd) ==
    IF snd = ")" THEN 1
    ELSE IF fst \in {NoOperator, "("} THEN -1
    ELSE IF fst = snd \/ \E g \in Groups : {fst, snd} \subseteq g THEN 0
    ELSE IF Order(fst) < Order(snd) THEN 1
    ELSE -1

computer_token_without_number(comp, tk) ==
    CASE tk \in {"(", "~", "!"} -> Done([comp EXCEPT !.operators = <<tk>> \o @])
      [] tk \in {"+", "-"} -> Done([comp EXCEPT !.operators = <<IF tk = "+" THEN "u+" ELSE "u-">> \o @])
      [] OTHER -> Refused([comp EXCEPT !.operators = IF stack_peek(@, NoOperator) \in {"(", NoOperator} THEN @ ELSE Tail(@)])

RECURSIVE computer_push_token(_, _)
computer_push_token(comp, tk) ==
    LET previous == stack_peek(comp.operators, NoOperator)
        priority == computer_compare_priority(previous, tk)
        shifted(c) == Done([c EXCEPT !.operators = <<tk>> \o @, !.was_number = FALSE])
    IN  CASE ~comp.was_number -> computer_token_without_number(comp, tk)
          [] comp.was_number /\ tk \in {"~", "!", "("} -> Refused(comp)
          [] comp.was_number /\ previous = NoOperator /\ tk = ")" -> Refused(comp)
          [] comp.was_number /\ previous = "(" /\ tk = ")" -> Done([comp EXCEPT !.operators = Tail(@)])
          [] OTHER -> IF priority > 0 THEN computer_push_token(computer_select_three(comp), tk)
                      ELSE shifted(IF priority = 0 THEN computer_select_three(comp) ELSE comp)

\* ! answers whether the number is not zero, as the code does.
Prefixed(operator, num) ==
    CASE operator = "~" -> -num - 1
      [] operator = "!" -> Truth(num # 0)
      [] operator = "u-" -> -num
      [] operator = "u+" -> num

\* The unary operators in front of a number are applied at once.
computer_const_number(comp, num) ==
    LET n == Len(comp.operators)
        prefixes == CHOOSE k \in 0..n : /\ \A j \in 1..k : comp.operators[j] \in Unary
                                        /\ k = n \/ comp.operators[k + 1] \notin Unary
        value == FoldLeft(LAMBDA v, o : Prefixed(o, v), num, SubSeq(comp.operators, 1, prefixes))
    IN  IF comp.was_number THEN Refused(comp)
        ELSE Done([comp EXCEPT !.was_number = TRUE, !.numbers = <<value>> \o @,
                               !.operators = SubSeq(@, prefixes + 1, n)])

RECURSIVE Reduced(_)
Reduced(comp) ==
    IF comp.operators = <<>> \/ Head(comp.operators) = "(" THEN comp ELSE Reduced(computer_select_three(comp))

computer_pop_result(comp) ==
    LET last == Reduced(comp)
    IN  CASE comp.numbers = <<>> -> [comp |-> computer_error(comp), value |-> 0]
          [] comp.numbers # <<>> /\ ~comp.was_number -> [comp |-> computer_error(comp), value |-> 0]
          [] OTHER -> IF last.operators # <<>> THEN [comp |-> computer_error(last), value |-> 0]
                      ELSE [comp |-> last, value |-> stack_peek(last.numbers, ITEM_MAX)]

=============================================================================
