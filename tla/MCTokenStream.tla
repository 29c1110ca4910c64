--------------------------- MODULE MCTokenStream ---------------------------
(***************************************************************************)
(* The token stream over the lexer, on a language with every form of       *)
(* comment delimiter that ILexLanguageRules allows: the "//" of Dublin,    *)
(* an empty opening delimiter (skipped), a block comment that closes and   *)
(* one that does not.  "_" may start a name and "/" is no punctuator, as   *)
(* in dublin_lex_rules.cpp; "*" is no identifier and "==" the one two      *)
(* character punctuator.                                                   *)
(***************************************************************************)
EXTENDS TokenStream

CONSTANT MaxLength   (* bound: the longest buffer                          *)

Buffers(alphabet) == UNION {[1 .. n -> alphabet] : n \in 0 .. MaxLength}

McAlphabet == {"_", "/", "*", "=", "LF"}
McInputs == Buffers(McAlphabet)
McPunctuators == {<<"*">>, <<"=", "=">>}
McComments == <<[kind |-> "Line", open |-> <<>>, close |-> <<>>],
                [kind |-> "Line", open |-> <<"/", "/">>, close |-> <<>>],
                [kind |-> "Block", open |-> <<"/", "*">>, close |-> <<"*", "/">>],
                [kind |-> "Block", open |-> <<"*", "*">>, close |-> <<>>]>>
McExpected == {{"Eof"}, {"Identifier", "Punctuator"}}
=============================================================================
