------------------------------ MODULE MCLexer ------------------------------
(***************************************************************************)
(* The lexer on the rules of Athens with one or two representatives of     *)
(* each class of characters.                                               *)
(***************************************************************************)
EXTENDS LexicalReference

CONSTANT MaxLength   (* bound: the longest buffer                          *)

Buffers(alphabet) == UNION {[1 .. n -> alphabet] : n \in 0 .. MaxLength}

(* Bound: 19 stands for the largest long long, so that 91 does not fit.    *)
McMaxInteger == 19
McDigits == {"1", "9"}
McDigitValue == [d \in McDigits |-> IF d = "1" THEN 1 ELSE 9]

(* athens_lex_rules.cpp: "if" is a keyword, "<=", "<" and "=" punctuators,  *)
(* "#" opens a line comment, "@" is no punctuator.                         *)
AthensAlphabet == {"i", "f", "_", "9", ".", "<", "=", "#", "LF", " "}
AthensInputs == Buffers(AthensAlphabet)
AthensIdentStart == {"i", "f"}
AthensIdentContinue == {"i", "f", "1", "9", "_"}
AthensAlnum == {"i", "f", "1", "9"}
AthensKeywords == {<<"i", "f">>}
AthensPunctuators == {<<"<">>, <<"=">>, <<"<", "=">>}
AthensComments == <<[kind |-> "Line", open |-> <<"#">>, close |-> <<>>]>>

(* The same language on files that hold a NUL.                             *)
NulAlphabet == {"i", "1", "#", "LF", "NUL"}
NulInputs == Buffers(NulAlphabet)

=============================================================================
