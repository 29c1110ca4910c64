---------------------------- MODULE DublinParser ----------------------------
(***************************************************************************)
(* Dublin reads one verify block from a file (parseFile, parseVerify,      *)
(* parseAssert):                                                           *)
(*                                                                         *)
(*      verify name ( arg type, ... )  assert condition ; ...              *)
(*                                                                         *)
(* Errors in the header end the parse, errors in a statement are reported  *)
(* and the loop goes on; either way the file is rejected at the end.       *)
(* Expressions are the business of PrattParser: a condition of more than   *)
(* one token is one token of kind "expression" here that carries its tree, *)
(* and its first token is none that could continue an expression.          *)
(***************************************************************************)
EXTENDS Integers, Sequences

CONSTANTS
  Files,       (* token sequences [kind, lexeme, tree], Eof left out       *)
  TypeWidth,   (* the width of each type name: i1, i8, i16, i32, i64       *)
  NoTree,      (* the null expression                                      *)
  Null

ASSUME ParserAssumption == \A f \in Files : f \in Seq({f[i] : i \in DOMAIN f})

VARIABLES
  tokens,      (* the file                                                 *)
  pos,         (* of the current token; behind the last one: Eof           *)
  args,        (* the arguments read, [name, width]                        *)
  assertions,  (* the conditions read; NoTree where there is none          *)
  hadError,    (* StderrDiagnostics has reported an error                  *)
  block,       (* the block parseFile returns, or Null                     *)
  pc           (* where the parser (and behind it main) stands             *)

parserVars == <<tokens, pos, args, assertions, hadError, block, pc>>

Eof == [kind |-> "eof", lexeme |-> Null, tree |-> NoTree]
Tok(n) == IF pos + n > Len(tokens) THEN Eof ELSE tokens[pos + n]
Is(n, kind) == Tok(n).kind = kind
(* Eof is not consumed, whatever is asked for.                             *)
Past(n) == IF pos + n > Len(tokens) THEN Len(tokens) + 1 ELSE pos + n

(* Any identifier can name an argument, five can name a type.              *)
IsType(tok) == tok.kind = "identifier" /\ tok.lexeme \in DOMAIN TypeWidth

-----------------------------------------------------------------------------
(* The header of the block.                                                *)

Reject ==
  /\ pc' = "rejected"
  /\ UNCHANGED <<tokens, pos, args, assertions, hadError, block>>

CannotOpen == pc = "item" /\ Reject

StartsVerify == Is(0, "verify") /\ Is(1, "identifier") /\ Is(2, "lparen")

ParseVerify ==
  /\ pc = "item"
  /\ \/ ~StartsVerify /\ Reject
     \/ /\ StartsVerify
        /\ IF Is(3, "rparen")
           THEN pos' = Past(4) /\ pc' = "statement"
           ELSE pos' = Past(3) /\ pc' = "argument"
        /\ UNCHANGED <<tokens, args, assertions, hadError, block>>

(* Mutant of IsArgument: what follows the type is not looked at.           *)
IsArgumentUnended == Is(0, "identifier") /\ IsType(Tok(1))
IsArgument == Is(0, "identifier") /\ IsType(Tok(1)) /\ (Is(2, "comma") \/ Is(2, "rparen"))

ParseArgument ==
  /\ pc = "argument"
  /\ \/ ~IsArgument /\ Reject
     \/ /\ IsArgument
        /\ args' = Append(args, [name |-> Tok(0).lexeme, width |-> TypeWidth[Tok(1).lexeme]])
        /\ pos' = Past(3)
        /\ pc' = IF Is(2, "rparen") THEN "statement" ELSE "argument"
        /\ UNCHANGED <<tokens, assertions, hadError, block>>

-----------------------------------------------------------------------------
(* The assertions.  parseExpression consumes its first token before it     *)
(* knows whether an expression can start there; a missing condition takes  *)
(* the semicolon with it.                                                  *)

StartsExpression(tok) == tok.kind \in {"identifier", "expression"}
Condition(tok) ==
  IF tok.kind = "identifier"
  THEN [node |-> "variable", name |-> tok.lexeme, kids |-> <<>>]
  ELSE tok.tree

ParseAssert ==
  LET ended == Is(2, "semicolon")
  IN  /\ pc = "statement" /\ Is(0, "assert")
      /\ assertions' = Append(assertions, Condition(Tok(1)))
      /\ pos' = IF ended THEN Past(3) ELSE Past(2)
      /\ hadError' = (hadError \/ ~StartsExpression(Tok(1)) \/ ~ended)
      /\ UNCHANGED <<tokens, args, block, pc>>

NoStatement ==
  /\ pc = "statement" /\ ~Is(0, "assert") /\ ~Is(0, "eof")
  /\ assertions' = Append(assertions, NoTree)
  /\ pos' = Past(1)
  /\ hadError' = TRUE
  /\ UNCHANGED <<tokens, args, block, pc>>

(* Mutant of Acceptable: errors in statements are only reported.           *)
AcceptableDespiteErrors == assertions # <<>>
Acceptable == ~hadError /\ assertions # <<>>

EndOfFile ==
  /\ pc = "statement" /\ Is(0, "eof")
  /\ IF Acceptable
     THEN block' = [args |-> args, assertions |-> assertions] /\ pc' = "emit"
     ELSE pc' = "rejected" /\ UNCHANGED block
  /\ UNCHANGED <<tokens, pos, args, assertions, hadError>>

ParserInit ==
  /\ tokens \in Files
  /\ pos = 1
  /\ args = <<>> /\ assertions = <<>>
  /\ hadError = FALSE
  /\ block = Null
  /\ pc = "item"

ParserNext ==
  \/ CannotOpen \/ ParseVerify \/ ParseArgument
  \/ ParseAssert \/ NoStatement \/ EndOfFile
=============================================================================
