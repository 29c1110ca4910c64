----------------------------- MODULE PrattParser -----------------------------
(***************************************************************************)
(* The expression parser of Athens: frontend::parse::ParserEngine with the *)
(* handlers of AthensGrammarPack.  Engine and handlers call each other, so *)
(* the model is a machine with an explicit stack: a frame "expression" is  *)
(* a running parseExpression(min), any other frame the handler that called *)
(* it and what that handler has parsed so far.  One step is what happens   *)
(* between two calls: consuming the tokens of a construct up to its next   *)
(* expression, an infix operator, the end of an expression, an error.      *)
(*                                                                         *)
(* A token is its lexeme.  A tree is [node, name, kids]; Null is the empty *)
(* pointer a builder or makeErrorExpr returns, and an absent initializer   *)
(* or step.  The operator table does not change inside an expression.      *)
(***************************************************************************)
EXTENDS Integers, Sequences

CONSTANTS
  Inputs,        (* token sequences without the Eof token                  *)
  Names,         (* identifiers                                            *)
  Numbers,       (* Integer and Float tokens                               *)
  Operators,     (* tokens of isAthensOperatorToken                        *)
  TwoChar,       (* those of two characters, <= and >=                     *)
  Precedence,    (* BinopPrecedence; 0: not in the table                   *)
  Null

Keywords == {"if", "then", "else", "for", "in", "var"}
Delimiters == {"(", ")", ","}
Eof == "Eof"
Tokens == Names \union Numbers \union Operators \union Keywords \union Delimiters

ASSUME GrammarAssumption ==
  /\ Names \intersect (Numbers \union Operators \union Keywords \union Delimiters \union {Eof}) = {}
  /\ Numbers \intersect (Operators \union Keywords \union Delimiters \union {Eof}) = {}
  /\ Operators \intersect (Keywords \union Delimiters \union {Eof}) = {}
  /\ "=" \in Operators
  /\ TwoChar \subseteq Operators
  /\ Precedence \in [Operators -> 0 .. 100]
  /\ \A o \in TwoChar : Precedence[o] = 0
  /\ \A s \in Inputs : s \in Seq(Tokens)

VARIABLES
  input,    (* the tokens                                                  *)
  pos,      (* how many of them are consumed                               *)
  stack,    (* the running calls of engine and handlers                    *)
  mode,     (* "call": parseExpression begins; "lhs": its loop has a tree; *)
            (* "result": it returned a tree to the frame on top; "done"    *)
  tree,     (* that tree                                                   *)
  errors,   (* StderrDiagnostics::hadError_                                *)
  silent    (* history: a builder returned null without a diagnostic       *)

vars == <<input, pos, stack, mode, tree, errors, silent>>

(* The k-th token that is not consumed; past the end Eof again and again.  *)
Tok(k) == IF pos + k <= Len(input) THEN input[pos + k] ELSE Eof

(* athensOperatorPrecedence: -1 for what is no active infix operator.      *)
Binding(t) == IF t \in Operators /\ Precedence[t] > 0 THEN Precedence[t] ELSE -1

Tree(node, name, kids) == [node |-> node, name |-> name, kids |-> kids]
Frame(form, name, kids) == [form |-> form, name |-> name, kids |-> kids, min |-> 0]
Expression(m) == [form |-> "expression", name |-> Null, kids |-> <<>>, min |-> m]

Top   == stack[Len(stack)]
Below == SubSeq(stack, 1, Len(stack) - 1)

(* Mutant of Consume: the end of the input is passed.                      *)
ConsumePast(n) == pos' = pos + n
Consume(n) == pos' = IF pos + n <= Len(input) THEN pos + n ELSE Len(input)

(* A handler that is frame f calls parseExpression(m).                     *)
Call(frames, f, m) ==
  /\ stack' = frames \o <<f, Expression(m)>>
  /\ mode' = "call"
  /\ UNCHANGED <<input, tree, errors, silent>>

(* A handler returns t to the parseExpression whose frame is then on top.  *)
Return(frames, t) ==
  /\ stack' = frames /\ tree' = t /\ mode' = "lhs"
  /\ UNCHANGED <<input, errors>>

Build(frames, t) == Return(frames, t) /\ UNCHANGED silent

(* IDiagnostics::error and makeErrorExpr.                                  *)
Fail(frames) ==
  /\ stack' = frames /\ tree' = Null /\ mode' = "lhs"
  /\ errors' = TRUE
  /\ UNCHANGED <<input, silent>>

-----------------------------------------------------------------------------
(* parseExpression consumes a token and calls its prefix handler.          *)

Starting(tokens) == mode = "call" /\ Tok(1) \in tokens

Literal ==
  /\ Starting(Numbers)
  /\ Consume(1) /\ Build(stack, Tree("number", Tok(1), <<>>))

Identifier ==
  /\ Starting(Names) /\ Tok(2) # "("
  /\ Consume(1) /\ Build(stack, Tree("variable", Tok(1), <<>>))

CallWithoutArguments ==
  /\ Starting(Names) /\ Tok(2) = "(" /\ Tok(3) = ")"
  /\ Consume(3) /\ Build(stack, Tree("call", Tok(1), <<>>))

CallWithArguments ==
  /\ Starting(Names) /\ Tok(2) = "(" /\ Tok(3) # ")"
  /\ Consume(2) /\ Call(stack, Frame("call", Tok(1), <<>>), 0)

Paren ==
  /\ Starting({"("})
  /\ Consume(1) /\ Call(stack, Frame("paren", Null, <<>>), 0)

(* Mutant of Unary: the operator is looked at and not consumed.            *)
UnaryInPlace ==
  /\ Starting(Operators)
  /\ Consume(0) /\ Call(stack, Frame("unary", Tok(1), <<>>), 100)

(* Mutant of Unary: the operand extends over weaker operators.             *)
UnaryLoose ==
  /\ Starting(Operators)
  /\ Consume(1) /\ Call(stack, Frame("unary", Tok(1), <<>>), 0)

Unary ==
  /\ Starting(Operators)
  /\ Consume(1) /\ Call(stack, Frame("unary", Tok(1), <<>>), 100)

If ==
  /\ Starting({"if"})
  /\ Consume(1) /\ Call(stack, Frame("if", Null, <<>>), 0)

For ==
  /\ Starting({"for"})
  /\ \/ /\ Tok(2) \in Names /\ Tok(3) = "="
        /\ Consume(3) /\ Call(stack, Frame("for", Tok(2), <<>>), 0)
     \/ /\ Tok(2) \in Names /\ Tok(3) # "="
        /\ Consume(2) /\ Fail(stack)
     \/ /\ Tok(2) \notin Names
        /\ Consume(1) /\ Fail(stack)

(* One turn of the loop of parseVar: after n tokens (var, a comma) comes a *)
(* name; without an initializer the binding is complete.                   *)
Bound(f, init) == Append(f.kids, Tree("binding", f.name, <<init>>))
Binding1(frames, kids, n) ==
  \/ /\ Tok(n + 1) \in Names /\ Tok(n + 2) = "="
     /\ Consume(n + 2) /\ Call(frames, Frame("var", Tok(n + 1), kids), 0)
  \/ /\ Tok(n + 1) \in Names /\ Tok(n + 2) # "="
     /\ Consume(n + 1)
     /\ stack' = frames \o <<Frame("bound", Tok(n + 1), kids)>>
     /\ tree' = Null /\ mode' = "result"
     /\ UNCHANGED <<input, errors, silent>>
  \/ /\ Tok(n + 1) \notin Names
     /\ Consume(n) /\ Fail(frames)

Var == Starting({"var"}) /\ Binding1(stack, <<>>, 1)

(* "unexpected token at expression start": parseExpression returns at once. *)
NoPrefix ==
  /\ mode = "call"
  /\ Tok(1) \notin Names \union Numbers \union Operators \union {"(", "if", "for", "var"}
  /\ Consume(1)
  /\ stack' = Below /\ tree' = Null /\ mode' = "result" /\ errors' = TRUE
  /\ UNCHANGED <<input, silent>>

-----------------------------------------------------------------------------
(* The loop of parseExpression.                                            *)

(* Mutant of RightMin: operators associate to the right.                   *)
RightMinSame(o) == Binding(o)
RightMin(o) == Binding(o) + 1

InfixOperator ==
  /\ mode = "lhs" /\ Tok(1) \in Operators /\ Binding(Tok(1)) >= Top.min
  /\ Consume(1)
  /\ Call(stack, Frame("binary", Tok(1), <<tree>>), RightMin(Tok(1)))

EndExpression ==
  /\ mode = "lhs"
  /\ Tok(1) \notin Operators \/ Binding(Tok(1)) < Top.min
  /\ stack' = Below /\ mode' = "result"
  /\ UNCHANGED <<input, pos, tree, errors, silent>>

-----------------------------------------------------------------------------
(* A handler goes on with the tree parseExpression returned to it.         *)

Resumed(form) == mode = "result" /\ stack # <<>> /\ Top.form = form

(* makeBinary, makeUnary, makeIf and makeFor return null for a null part   *)
(* or an operator of two characters, and say nothing.                      *)
Make(node, name, required, kids) ==
  IF name \in TwoChar \/ \E i \in 1 .. Len(required) : required[i] = Null
  THEN Return(Below, Null) /\ silent' = TRUE
  ELSE Build(Below, Tree(node, name, kids))

BinaryEnds ==
  /\ Resumed("binary") /\ UNCHANGED pos
  /\ Make("binary", Top.name, Append(Top.kids, tree), Append(Top.kids, tree))

UnaryEnds ==
  /\ Resumed("unary") /\ UNCHANGED pos
  /\ Make("unary", Top.name, <<tree>>, <<tree>>)

(* Mutant of ParenEnds: parses on until the parenthesis comes.             *)
ParenRetries ==
  /\ Resumed("paren")
  /\ \/ Tok(1) = ")" /\ Consume(1) /\ Build(Below, tree)
     \/ Tok(1) # ")" /\ UNCHANGED pos /\ Call(Below, Frame("paren", Null, <<>>), 0)

ParenEnds ==
  /\ Resumed("paren")
  /\ \/ Tok(1) = ")" /\ Consume(1) /\ Build(Below, tree)
     \/ Tok(1) # ")" /\ UNCHANGED pos /\ Fail(Below)

Argument ==
  LET args == Append(Top.kids, tree)
  IN  /\ Resumed("call")
      /\ \/ Tok(1) = ")" /\ Consume(1) /\ Build(Below, Tree("call", Top.name, args))
         \/ Tok(1) = "," /\ Consume(1) /\ Call(Below, Frame("call", Top.name, args), 0)
         \/ Tok(1) \notin {")", ","} /\ UNCHANGED pos /\ Fail(Below)

(* if: then after the condition, else after the first arm.                 *)
IfContinues ==
  LET parts == Append(Top.kids, tree)
      keyword == IF Len(parts) = 1 THEN "then" ELSE "else"
  IN  /\ Resumed("if") /\ Len(parts) < 3
      /\ \/ Tok(1) = keyword /\ Consume(1) /\ Call(Below, Frame("if", Null, parts), 0)
         \/ Tok(1) # keyword /\ UNCHANGED pos /\ Fail(Below)

IfEnds ==
  /\ Resumed("if") /\ Len(Top.kids) = 2 /\ UNCHANGED pos
  /\ Make("if", Null, Append(Top.kids, tree), Append(Top.kids, tree))

(* for: a comma after the start, a comma or in after the end, in after the *)
(* step; without a step the third part is null.                            *)
ForContinues ==
  LET parts == Append(Top.kids, tree)
      go(token, kids) ==
        Tok(1) = token /\ Consume(1) /\ Call(Below, Frame("for", Top.name, kids), 0)
      expected == CASE Len(parts) = 1 -> {","} [] Len(parts) = 2 -> {",", "in"}
                    [] OTHER -> {"in"}
  IN  /\ Resumed("for") /\ Len(parts) < 4
      /\ \/ Len(parts) < 3 /\ go(",", parts)
         \/ Len(parts) = 2 /\ go("in", Append(parts, Null))
         \/ Len(parts) = 3 /\ go("in", parts)
         \/ Tok(1) \notin expected /\ UNCHANGED pos /\ Fail(Below)

ForEnds ==
  /\ Resumed("for") /\ Len(Top.kids) = 3 /\ UNCHANGED pos
  /\ Make("for", Top.name, <<Top.kids[1], Top.kids[2], tree>>, Append(Top.kids, tree))

(* var: a comma leads to the next binding, in to the body.                 *)
VarContinues ==
  /\ mode = "result" /\ stack # <<>> /\ Top.form \in {"var", "bound"}
  /\ \/ Tok(1) = "," /\ Binding1(Below, Bound(Top, tree), 1)
     \/ Tok(1) = "in" /\ Consume(1) /\ Call(Below, Frame("body", Null, Bound(Top, tree)), 0)
     \/ Tok(1) \notin {",", "in"} /\ UNCHANGED pos /\ Fail(Below)

VarEnds ==
  /\ Resumed("body") /\ UNCHANGED pos
  /\ Make("var", Null, <<tree>>, Append(Top.kids, tree))

(* The outermost parseExpression has returned.                             *)
Finish ==
  /\ mode = "result" /\ stack = <<>>
  /\ mode' = "done"
  /\ UNCHANGED <<input, pos, stack, tree, errors, silent>>

-----------------------------------------------------------------------------
Init ==
  /\ input \in Inputs
  /\ pos = 0 /\ stack = <<Expression(0)>> /\ mode = "call" /\ tree = Null
  /\ errors = FALSE /\ silent = FALSE

Next ==
  \/ Literal \/ Identifier \/ CallWithoutArguments \/ CallWithArguments \/ Paren
  \/ Unary \/ If \/ For \/ Var \/ NoPrefix
  \/ InfixOperator \/ EndExpression
  \/ BinaryEnds \/ UnaryEnds \/ ParenEnds \/ Argument
  \/ IfContinues \/ IfEnds \/ ForContinues \/ ForEnds \/ VarContinues \/ VarEnds
  \/ Finish

Spec == Init /\ [][Next]_vars

(* The parser is one sequential call.                                      *)
FairSpec == Spec /\ WF_vars(Next)

-----------------------------------------------------------------------------
Forms == {"expression", "binary", "unary", "paren", "call", "if", "for", "var", "bound", "body"}

TypeOK ==
  /\ input \in Seq(Tokens)
  /\ pos \in 0 .. Len(input)
  /\ \A i \in 1 .. Len(stack) : stack[i].form \in Forms /\ stack[i].min \in 0 .. 101
  /\ mode \in {"call", "lhs", "result", "done"}
  /\ mode \in {"call", "lhs"} => stack # <<>> /\ Top.form = "expression"
  /\ errors \in BOOLEAN /\ silent \in BOOLEAN

(* Engine and handlers recurse only after a token was consumed, so that    *)
(* the depth of the recursion is bounded by the text and not by how the    *)
(* handlers call each other.                                               *)
RecursionConsumes == Len(stack) <= 2 * pos + 1

(* parseExpression returns for every text, well-formed or not.             *)
Terminates == <>(mode = "done")
=============================================================================
