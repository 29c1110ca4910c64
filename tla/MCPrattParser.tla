---------------------------- MODULE MCPrattParser ----------------------------
(***************************************************************************)
(* Short texts over the operators, longer ones from the forms of the       *)
(* grammar and what one wrong token makes of them.                         *)
(***************************************************************************)
EXTENDS ExpressionReference

CONSTANT MaxLength   (* bound: the longest text of operators               *)

(* The standard table, and "@" as strong as a prefix operator.             *)
McPrecedence == [o \in Operators |->
  CASE o = "=" -> 2 [] o = "-" -> 20 [] o = "*" -> 40 [] o = "@" -> 100 [] OTHER -> 0]

Short == UNION {[1 .. n -> {"a", "-", "*", "@", "(", ")"}] : n \in 0 .. MaxLength}

Parts == {<<"a">>, <<"a", "-", "1">>, <<"<=", "a">>}
Few == {<<"a">>, <<"<=", "a">>}

Forms1 ==
  {<<"a", "(">> \o p \o <<",">> \o q \o <<")">> : p, q \in Parts} \union
  {<<"if">> \o p \o <<"then">> \o q \o <<"else">> \o r : p, q, r \in Parts} \union
  {<<"for", "a", "=">> \o p \o <<",">> \o q \o <<"in">> \o r : p, q, r \in Few} \union
  {<<"for", "a", "=", "1", ",">> \o p \o <<",">> \o q \o <<"in", "a">> : p, q \in Few} \union
  {<<"var", "a", "=">> \o p \o <<",", "a", "in">> \o q : p, q \in Parts} \union
  {<<"a", "(", ")">>}

InOperators == {<<"a", "*">> \o f \o <<"-", "a">> : f \in Forms1}

Wrong == {"a", ")", ",", "in", "if"}

McInputs == Short \union Forms1 \union InOperators
            \union UNION {{[f EXCEPT ![i] = t] : i \in 1 .. Len(f), t \in Wrong} : f \in Forms1}
            \union UNION {{SubSeq(f, 1, n) : n \in 0 .. Len(f)} : f \in Forms1}
=============================================================================
