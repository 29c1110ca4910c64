-------------------------- MODULE PrattParserProofs --------------------------
(***************************************************************************)
(* For every grammar and every text: the parser keeps its stack in shape,  *)
(* and engine and handlers recurse only over consumed tokens.              *)
(***************************************************************************)
EXTENDS PrattParser, SequenceTheorems, TLAPS

(* The stack is a sequence of whatever its frames are.                     *)
IsStack(s) == s \in Seq({s[i] : i \in DOMAIN s})

(* Engine and handlers call each other in turn, the engine is outermost.   *)
Shape(s) ==
  /\ IsStack(s)
  /\ \A i \in 1 .. Len(s) :
       /\ s[i].form \in Forms /\ s[i].min \in 0 .. 101
       /\ s[i].form = "expression" <=> i % 2 = 1

(* TypeOK is not inductive: that a handler returns to the engine, and the  *)
(* engine to a handler, follows from the alternation of the frames.        *)
InTurn ==
  /\ Shape(stack)
  /\ mode \in {"call", "lhs"} <=> Len(stack) % 2 = 1

IInv == TypeOK /\ InTurn /\ RecursionConsumes

-----------------------------------------------------------------------------
(* A sequence over any set is one over its own elements.                   *)
LEMMA OwnElements ==
  ASSUME NEW S, NEW s \in Seq(S)
  PROVE  IsStack(s)
<1>1. /\ DOMAIN s = 1 .. Len(s) /\ Len(s) \in Nat
      /\ s = [i \in 1 .. Len(s) |-> s[i]]
  OBVIOUS
<1>2. \A i \in 1 .. Len(s) : s[i] \in {s[j] : j \in DOMAIN s}
  BY <1>1
<1> QED
  BY <1>1, <1>2 DEF IsStack

LEMMA HasLength ==
  ASSUME NEW s, Shape(s)
  PROVE  Len(s) \in Nat
<1> DEFINE S == {s[i] : i \in DOMAIN s}
<1>1. s \in Seq(S)
  BY DEF Shape, IsStack
<1> HIDE DEF S
<1> QED
  BY <1>1

(* Calling a handler, which calls the engine.                              *)
LEMMA PushTwo ==
  ASSUME NEW s, NEW f, NEW g, Shape(s), Len(s) % 2 = 1,
         f.form \in Forms \ {"expression"}, f.min \in 0 .. 101,
         g.form = "expression", g.min \in 0 .. 101
  PROVE  /\ Shape(s \o <<f, g>>)
         /\ Len(s \o <<f, g>>) = Len(s) + 2
         /\ (s \o <<f, g>>)[Len(s) + 2] = g
<1> DEFINE S == {s[i] : i \in DOMAIN s} \union {f, g}
           t == s \o <<f, g>>
<1>1. s \in Seq(S)
  <2>1. s \in Seq({s[i] : i \in DOMAIN s})
    BY DEF Shape, IsStack
  <2> QED
    BY <2>1
<1>2. <<f, g>> \in Seq(S) /\ Len(<<f, g>>) = 2
  OBVIOUS
<1>3. t \in Seq(S) /\ Len(t) = Len(s) + 2 /\ Len(s) \in Nat
  BY <1>1, <1>2
<1>4. /\ \A i \in 1 .. Len(s) : t[i] = s[i]
      /\ t[Len(s) + 1] = f /\ t[Len(s) + 2] = g
  BY <1>1, <1>2
<1>5. IsStack(t)
  BY <1>3, OwnElements
<1> HIDE DEF t, S
<1>6. \A i \in 1 .. Len(s) + 2 :
        /\ t[i].form \in Forms /\ t[i].min \in 0 .. 101
        /\ t[i].form = "expression" <=> i % 2 = 1
  <2> TAKE i \in 1 .. Len(s) + 2
  <2>1. CASE i \in 1 .. Len(s)
    BY <2>1, <1>4 DEF Shape
  <2>2. CASE i = Len(s) + 1
    BY <2>2, <1>3, <1>4
  <2>3. CASE i = Len(s) + 2
    BY <2>3, <1>3, <1>4 DEF Forms
  <2> QED
    BY <2>1, <2>2, <2>3, <1>3
<1>7. Shape(t)
  BY <1>3, <1>5, <1>6 DEF Shape
<1> QED
  BY <1>3, <1>4, <1>7 DEF t

(* A handler that goes on without the engine (a name without initializer). *)
LEMMA PushOne ==
  ASSUME NEW s, NEW f, Shape(s), Len(s) % 2 = 1,
         f.form \in Forms \ {"expression"}, f.min \in 0 .. 101
  PROVE  Shape(s \o <<f>>) /\ Len(s \o <<f>>) = Len(s) + 1
<1> DEFINE S == {s[i] : i \in DOMAIN s} \union {f}
           t == s \o <<f>>
<1>1. s \in Seq(S)
  <2>1. s \in Seq({s[i] : i \in DOMAIN s})
    BY DEF Shape, IsStack
  <2> QED
    BY <2>1
<1>2. <<f>> \in Seq(S) /\ Len(<<f>>) = 1
  OBVIOUS
<1>3. t \in Seq(S) /\ Len(t) = Len(s) + 1 /\ Len(s) \in Nat
  BY <1>1, <1>2
<1>4. (\A i \in 1 .. Len(s) : t[i] = s[i]) /\ t[Len(s) + 1] = f
  BY <1>1, <1>2
<1>5. IsStack(t)
  BY <1>3, OwnElements
<1> HIDE DEF t, S
<1>6. \A i \in 1 .. Len(s) + 1 :
        /\ t[i].form \in Forms /\ t[i].min \in 0 .. 101
        /\ t[i].form = "expression" <=> i % 2 = 1
  <2> TAKE i \in 1 .. Len(s) + 1
  <2>1. CASE i \in 1 .. Len(s)
    BY <2>1, <1>4 DEF Shape
  <2>2. CASE i = Len(s) + 1
    BY <2>2, <1>3, <1>4
  <2> QED
    BY <2>1, <2>2, <1>3
<1>7. Shape(t)
  BY <1>3, <1>5, <1>6 DEF Shape
<1> QED
  BY <1>3, <1>7 DEF t

(* A return.                                                               *)
LEMMA Pop ==
  ASSUME NEW s, Shape(s), s # <<>>
  PROVE  /\ Shape(SubSeq(s, 1, Len(s) - 1))
         /\ Len(SubSeq(s, 1, Len(s) - 1)) = Len(s) - 1
         /\ Len(s) \in Nat \ {0}
<1> DEFINE S == {s[i] : i \in DOMAIN s}
           t == SubSeq(s, 1, Len(s) - 1)
<1>1. s \in Seq(S)
  BY DEF Shape, IsStack
<1>2. Len(s) \in Nat \ {0}
  BY <1>1
<1> HIDE DEF S
<1>3. \A i \in 1 .. Len(s) - 1 : s[i] \in S
  BY <1>1, <1>2
<1>4. /\ t \in Seq(S) /\ Len(t) = IF 1 <= Len(s) - 1 THEN Len(s) - 1 - 1 + 1 ELSE 0
      /\ \A i \in 1 .. Len(s) - 1 - 1 + 1 : t[i] = s[1 + i - 1]
  BY <1>2, <1>3, SubSeqProperties
<1>5. /\ Len(t) = Len(s) - 1
      /\ \A i \in 1 .. Len(s) - 1 : i \in 1 .. Len(s) /\ t[i] = s[i]
  <2> HIDE DEF t
  <2>1. PICK n \in Nat \ {0} : n = Len(s)
    BY <1>2
  <2>2. /\ (IF 1 <= n - 1 THEN n - 1 - 1 + 1 ELSE 0) = n - 1
        /\ n - 1 - 1 + 1 = n - 1
        /\ \A i \in 1 .. n - 1 : 1 + i - 1 = i /\ i \in 1 .. n
    BY <2>1
  <2>3. Len(t) = n - 1 /\ \A i \in 1 .. n - 1 : t[i] = s[1 + i - 1]
    BY <1>4, <2>1, <2>2
  <2>4. \A i \in 1 .. n - 1 : i \in 1 .. n /\ t[i] = s[i]
    BY <2>2, <2>3
  <2> QED
    BY <2>1, <2>3, <2>4
<1>6. IsStack(t)
  BY <1>4, OwnElements
<1> HIDE DEF t
<1>7. \A i \in 1 .. Len(t) :
        /\ t[i].form \in Forms /\ t[i].min \in 0 .. 101
        /\ t[i].form = "expression" <=> i % 2 = 1
  BY <1>5 DEF Shape
<1>8. Shape(t)
  BY <1>6, <1>7 DEF Shape
<1> QED
  BY <1>2, <1>5, <1>8 DEF t

-----------------------------------------------------------------------------
(* What was looked at and is not Eof is there to be consumed.              *)
LEMMA Consuming ==
  ASSUME TypeOK, NEW n \in Nat, Consume(n)
  PROVE  /\ pos' \in 0 .. Len(input) /\ pos <= pos'
         /\ Tok(n) # Eof => pos' = pos + n
BY DEF TypeOK, Consume, Tok

LEMMA EofIsNoToken == Eof \notin Tokens
BY GrammarAssumption DEF Tokens, Keywords, Delimiters, Eof

(* Three ways of ending a step, by what is left on the stack.              *)
LEMMA Calls ==
  ASSUME IInv, NEW frames, NEW f, NEW m \in 0 .. 101,
         Call(frames, f, m), Shape(frames), Len(frames) % 2 = 1,
         f.form \in Forms \ {"expression"}, f.min = 0,
         pos' \in 0 .. Len(input), Len(frames) + 1 <= 2 * pos'
  PROVE  IInv'
<1> DEFINE g == Expression(m)
<1>1. g.form = "expression" /\ g.min \in 0 .. 101
  BY DEF Expression
<1>2. /\ Shape(stack') /\ Len(stack') = Len(frames) + 2
      /\ stack'[Len(frames) + 2] = g
  <2>1. stack' = frames \o <<f, g>>
    BY DEF Call
  <2> HIDE DEF g
  <2> QED
    BY <1>1, <2>1, PushTwo
<1>3. Len(frames) \in Nat
  BY HasLength
<1>4. /\ mode' = "call" /\ input' = input
      /\ errors' = errors /\ silent' = silent
  BY DEF Call
<1>5. Len(stack') % 2 = 1 /\ stack' # <<>>
  BY <1>2, <1>3
<1>6. TypeOK'
  <2>1. \A i \in 1 .. Len(stack') : stack'[i].form \in Forms /\ stack'[i].min \in 0 .. 101
    BY <1>2 DEF Shape
  <2>2. stack'[Len(stack')].form = "expression"
    BY <1>1, <1>2
  <2> QED
    BY <1>4, <1>5, <2>1, <2>2 DEF IInv, TypeOK, Top
<1>7. InTurn'
  BY <1>2, <1>4, <1>5 DEF InTurn
<1>8. RecursionConsumes'
  BY <1>2, <1>3 DEF RecursionConsumes
<1> QED
  BY <1>6, <1>7, <1>8 DEF IInv

LEMMA Returns ==
  ASSUME IInv, NEW frames, stack' = frames, Shape(frames), Len(frames) % 2 = 1,
         mode' = "lhs", input' = input, errors' \in BOOLEAN, silent' \in BOOLEAN,
         pos' \in 0 .. Len(input), Len(frames) <= 2 * pos' + 1
  PROVE  IInv'
<1>1. Len(frames) \in Nat /\ frames # <<>> /\ Len(frames) \in 1 .. Len(frames)
  <2>1. Len(frames) \in Nat
    BY HasLength
  <2>2. Len(frames) # 0
    BY <2>1
  <2> QED
    BY <2>1, <2>2
<1>2. frames[Len(frames)].form = "expression"
  BY <1>1 DEF Shape
<1>3. TypeOK'
  <2>1. \A i \in 1 .. Len(frames) : frames[i].form \in Forms /\ frames[i].min \in 0 .. 101
    BY DEF Shape
  <2> QED
    BY <1>1, <1>2, <2>1 DEF IInv, TypeOK, Top
<1>4. InTurn'
  BY DEF InTurn
<1>5. RecursionConsumes'
  BY DEF RecursionConsumes
<1> QED
  BY <1>3, <1>4, <1>5 DEF IInv

LEMMA Results ==
  ASSUME IInv, NEW frames, stack' = frames, Shape(frames), Len(frames) % 2 = 0,
         mode' \in {"result", "done"}, input' = input,
         errors' \in BOOLEAN, silent' \in BOOLEAN,
         pos' \in 0 .. Len(input), Len(frames) <= 2 * pos' + 1
  PROVE  IInv'
<1>1. TypeOK'
  <2>1. \A i \in 1 .. Len(frames) : frames[i].form \in Forms /\ frames[i].min \in 0 .. 101
    BY DEF Shape
  <2> QED
    BY <2>1 DEF IInv, TypeOK
<1>2. InTurn'
  BY DEF InTurn
<1>3. RecursionConsumes'
  BY DEF RecursionConsumes
<1> QED
  BY <1>1, <1>2, <1>3 DEF IInv

(* Where the engine runs and where a handler has its tree.                 *)
LEMMA EngineRuns ==
  ASSUME IInv, mode \in {"call", "lhs"}
  PROVE  /\ Shape(stack) /\ Len(stack) % 2 = 1 /\ Len(stack) \in Nat
         /\ Len(stack) <= 2 * pos + 1 /\ pos \in Nat /\ Top.min \in 0 .. 101
         /\ Shape(Below) /\ Len(Below) = Len(stack) - 1 /\ Len(Below) % 2 = 0
<1>1. Shape(stack) /\ Len(stack) % 2 = 1 /\ stack # <<>>
  BY DEF IInv, InTurn, TypeOK
<1>2. Shape(Below) /\ Len(Below) = Len(stack) - 1 /\ Len(stack) \in Nat \ {0}
  BY <1>1, Pop DEF Below
<1>3. Len(Below) % 2 = 0
  BY <1>1, <1>2
<1>4. Top.min \in 0 .. 101
  <2>1. Len(stack) \in 1 .. Len(stack)
    BY <1>2
  <2> QED
    BY <1>1, <2>1 DEF Shape, Top
<1> QED
  BY <1>1, <1>2, <1>3, <1>4 DEF IInv, TypeOK, RecursionConsumes

LEMMA HandlerRuns ==
  ASSUME IInv, mode = "result", stack # <<>>
  PROVE  /\ Shape(Below) /\ Len(Below) % 2 = 1
         /\ Len(Below) \in Nat /\ Len(Below) <= 2 * pos /\ pos \in Nat
<1>1. Shape(stack) /\ Len(stack) % 2 # 1
  BY DEF IInv, InTurn
<1>2. Shape(Below) /\ Len(Below) = Len(stack) - 1 /\ Len(stack) \in Nat \ {0}
  BY <1>1, Pop DEF Below
<1>3. Len(Below) % 2 = 1
  BY <1>1, <1>2
<1> QED
  BY <1>2, <1>3 DEF IInv, TypeOK, RecursionConsumes

-----------------------------------------------------------------------------
LEMMA Initially == Init => IInv
<1> SUFFICES ASSUME Init PROVE IInv
  OBVIOUS
<1> DEFINE f == Expression(0)
<1>1. f.form = "expression" /\ f.min = 0
  BY DEF Expression
<1>2. stack = <<f>> /\ Len(stack) = 1 /\ stack[1] = f
  BY DEF Init
<1>3. IsStack(stack)
  <2>1. <<f>> \in Seq({f})
    OBVIOUS
  <2> QED
    BY <1>2, <2>1, OwnElements
<1> HIDE DEF f
<1>4. TypeOK
  <2>1. input \in Seq(Tokens)
    BY GrammarAssumption DEF Init
  <2>2. pos \in 0 .. Len(input)
    <3>1. pos = 0 /\ Len(input) \in Nat
      BY <2>1 DEF Init
    <3> QED
      BY <3>1
  <2>5. mode = "call" /\ errors \in BOOLEAN /\ silent \in BOOLEAN
    BY DEF Init
  <2>3. Top.form = "expression" /\ stack # <<>>
    BY <1>1, <1>2 DEF Top
  <2>4. \A i \in 1 .. Len(stack) : stack[i].form \in Forms /\ stack[i].min \in 0 .. 101
    BY <1>1, <1>2 DEF Forms
  <2> QED
    BY <2>1, <2>2, <2>3, <2>4, <2>5 DEF TypeOK
<1>5. InTurn
  BY <1>1, <1>2, <1>3 DEF Init, InTurn, Shape, Forms
<1> QED
  BY <1>2, <1>4, <1>5 DEF Init, IInv, RecursionConsumes

(* A prefix handler starts: it took at least its first token.              *)
LEMMA PrefixSteps ==
  ASSUME IInv, mode = "call",
         Literal \/ Identifier \/ CallWithoutArguments \/ CallWithArguments \/ Paren
           \/ Unary \/ If \/ For
  PROVE  IInv'
<1> USE EngineRuns
<1>1. TypeOK /\ errors \in BOOLEAN /\ silent \in BOOLEAN
  BY DEF IInv, TypeOK
<1>2. ASSUME NEW n \in Nat, Consume(n), NEW t, Build(stack, t)
      PROVE  IInv'
  BY <1>1, <1>2, Consuming, Returns DEF Build, Return
<1>3. ASSUME NEW n \in Nat, Consume(n), Fail(stack)
      PROVE  IInv'
  BY <1>1, <1>3, Consuming, Returns DEF Fail
<1>4. ASSUME NEW n \in 1 .. 3, Consume(n), Tok(n) # Eof,
             NEW form \in Forms \ {"expression"}, NEW name, NEW m \in {0, 100},
             Call(stack, Frame(form, name, <<>>), m)
      PROVE  IInv'
  <2>1. pos' \in 0 .. Len(input) /\ pos' = pos + n
    BY <1>1, <1>4, Consuming
  <2>2. Frame(form, name, <<>>).form = form /\ Frame(form, name, <<>>).min = 0
    BY DEF Frame
  <2>3. Len(stack) + 1 <= 2 * pos'
    BY <2>1
  <2> QED
    BY <1>4, <2>1, <2>2, <2>3, Calls
<1>5. CASE Literal
  BY <1>2, <1>5 DEF Literal
<1>6. CASE Identifier
  BY <1>2, <1>6 DEF Identifier
<1>7. CASE CallWithoutArguments
  BY <1>2, <1>7 DEF CallWithoutArguments
<1>8. CASE CallWithArguments
  <2>1. Consume(2) /\ Tok(2) # Eof /\ Call(stack, Frame("call", Tok(1), <<>>), 0)
    BY <1>8 DEF CallWithArguments, Eof
  <2> QED
    BY <1>4, <2>1 DEF Forms
<1>9. CASE Paren
  <2>1. Consume(1) /\ Tok(1) # Eof /\ Call(stack, Frame("paren", Null, <<>>), 0)
    BY <1>9 DEF Paren, Starting, Eof
  <2> QED
    BY <1>4, <2>1 DEF Forms
<1>10. CASE Unary
  <2>1. Consume(1) /\ Tok(1) # Eof /\ Call(stack, Frame("unary", Tok(1), <<>>), 100)
    BY <1>10, EofIsNoToken DEF Unary, Starting, Tokens
  <2> QED
    BY <1>4, <2>1 DEF Forms
<1>11. CASE If
  <2>1. Consume(1) /\ Tok(1) # Eof /\ Call(stack, Frame("if", Null, <<>>), 0)
    BY <1>11 DEF If, Starting, Eof
  <2> QED
    BY <1>4, <2>1 DEF Forms
<1>12. CASE For
  <2>1. \/ Consume(3) /\ Tok(3) # Eof /\ Call(stack, Frame("for", Tok(2), <<>>), 0)
        \/ Consume(2) /\ Fail(stack)
        \/ Consume(1) /\ Fail(stack)
    BY <1>12 DEF For, Eof
  <2> QED
    BY <1>3, <1>4, <2>1 DEF Forms
<1> QED
  BY <1>5, <1>6, <1>7, <1>8, <1>9, <1>10, <1>11, <1>12

(* The next binding of a var, from the engine or from a var handler.       *)
LEMMA BindingSteps ==
  ASSUME IInv, NEW frames, NEW kids, Binding1(frames, kids, 1),
         Shape(frames), Len(frames) % 2 = 1, Len(frames) \in Nat,
         pos \in Nat, Len(frames) <= 2 * pos + 1
  PROVE  IInv'
<1>1. TypeOK /\ errors \in BOOLEAN /\ silent \in BOOLEAN
  BY DEF IInv, TypeOK
<1>2. CASE /\ Tok(2) \in Names /\ Tok(3) = "=" /\ Consume(3)
           /\ Call(frames, Frame("var", Tok(2), kids), 0)
  <2>1. pos' \in 0 .. Len(input) /\ pos' = pos + 3
    BY <1>1, <1>2, Consuming DEF Eof
  <2>2. Frame("var", Tok(2), kids).form = "var" /\ Frame("var", Tok(2), kids).min = 0
    BY DEF Frame
  <2>3. Len(frames) + 1 <= 2 * pos'
    BY <2>1
  <2> QED
    BY <1>2, <2>1, <2>2, <2>3, Calls DEF Forms
<1>3. CASE /\ Tok(2) \in Names /\ Consume(2)
           /\ stack' = frames \o <<Frame("bound", Tok(2), kids)>>
           /\ mode' = "result" /\ UNCHANGED <<input, errors, silent>>
  <2>1. pos' \in 0 .. Len(input) /\ pos' = pos + 2
    BY <1>1, <1>3, Consuming, EofIsNoToken DEF Tokens
  <2>2. Frame("bound", Tok(2), kids).form = "bound" /\ Frame("bound", Tok(2), kids).min = 0
    BY DEF Frame
  <2>3. Shape(stack') /\ Len(stack') = Len(frames) + 1
    BY <1>3, <2>2, PushOne DEF Forms
  <2>4. Len(stack') % 2 = 0 /\ Len(stack') <= 2 * pos' + 1
    BY <2>1, <2>3
  <2> QED
    BY <1>1, <1>3, <2>1, <2>3, <2>4, Results
<1>4. CASE Consume(1) /\ Fail(frames)
  <2>1. pos' \in 0 .. Len(input) /\ pos <= pos'
    BY <1>1, <1>4, Consuming
  <2> QED
    BY <1>1, <1>4, <2>1, Returns DEF Fail
<1> QED
  BY <1>2, <1>3, <1>4 DEF Binding1

(* The rest of the engine: a var, an error, the loop.                      *)
LEMMA EngineSteps ==
  ASSUME IInv, Var \/ NoPrefix \/ InfixOperator \/ EndExpression
  PROVE  IInv'
<1>1. TypeOK /\ errors \in BOOLEAN /\ silent \in BOOLEAN
  BY DEF IInv, TypeOK
<1>2. CASE Var
  BY <1>2, EngineRuns, BindingSteps DEF Var, Starting
<1>3. CASE NoPrefix
  <2>1. pos' \in 0 .. Len(input) /\ pos <= pos'
    BY <1>1, <1>3, Consuming DEF NoPrefix
  <2> QED
    BY <1>1, <1>3, <2>1, EngineRuns, Results DEF NoPrefix
<1>4. CASE InfixOperator
  <2>1. /\ mode = "lhs" /\ Tok(1) \in Operators /\ Binding(Tok(1)) >= Top.min
        /\ Consume(1) /\ Call(stack, Frame("binary", Tok(1), <<tree>>), RightMin(Tok(1)))
    BY <1>4 DEF InfixOperator
  <2>2. pos' \in 0 .. Len(input) /\ pos' = pos + 1
    BY <1>1, <2>1, Consuming, EofIsNoToken DEF Tokens
  <2>3. RightMin(Tok(1)) \in 0 .. 101
    <3>1. Precedence[Tok(1)] \in 0 .. 100
      BY <2>1, GrammarAssumption
    <3>2. Binding(Tok(1)) \in -1 .. 100
      BY <3>1 DEF Binding
    <3> QED
      BY <3>2 DEF RightMin
  <2>4. Frame("binary", Tok(1), <<tree>>).form = "binary"
        /\ Frame("binary", Tok(1), <<tree>>).min = 0
    BY DEF Frame
  <2>5. /\ Shape(stack) /\ Len(stack) % 2 = 1
        /\ Len(stack) + 1 <= 2 * pos'
    BY <2>1, <2>2, EngineRuns
  <2> QED
    BY <2>1, <2>2, <2>3, <2>4, <2>5, Calls DEF Forms
<1>5. CASE EndExpression
  <2>1. pos' \in 0 .. Len(input) /\ Len(Below) <= 2 * pos' + 1
    BY <1>1, <1>5, EngineRuns DEF EndExpression, TypeOK
  <2> QED
    BY <1>1, <1>5, <2>1, EngineRuns, Results DEF EndExpression
<1> QED
  BY <1>2, <1>3, <1>4, <1>5

(* A handler goes on: it returns, fails, or calls the engine again after   *)
(* the token that separates the parts.                                     *)
LEMMA HandlerSteps ==
  ASSUME IInv, mode = "result", stack # <<>>,
         BinaryEnds \/ UnaryEnds \/ ParenEnds \/ Argument \/ IfContinues \/ IfEnds
           \/ ForContinues \/ ForEnds \/ VarContinues \/ VarEnds
  PROVE  IInv'
<1> USE HandlerRuns
<1>1. TypeOK /\ errors \in BOOLEAN /\ silent \in BOOLEAN /\ pos \in 0 .. Len(input)
  BY DEF IInv, TypeOK
<1>2. ASSUME NEW n \in Nat, Consume(n) \/ UNCHANGED pos, NEW t,
             Return(Below, t), silent' \in BOOLEAN
      PROVE  IInv'
  <2>1. pos' \in 0 .. Len(input) /\ pos <= pos'
    BY <1>1, <1>2, Consuming
  <2> QED
    BY <1>1, <1>2, <2>1, Returns DEF Return
<1>3. ASSUME UNCHANGED pos, Fail(Below)
      PROVE  IInv'
  BY <1>1, <1>3, Returns DEF Fail
<1>4. ASSUME Consume(1), Tok(1) # Eof,
             NEW form \in Forms \ {"expression"}, NEW name, NEW kids,
             Call(Below, Frame(form, name, kids), 0)
      PROVE  IInv'
  <2>1. pos' \in 0 .. Len(input) /\ pos' = pos + 1
    BY <1>1, <1>4, Consuming
  <2>2. Frame(form, name, kids).form = form /\ Frame(form, name, kids).min = 0
    BY DEF Frame
  <2>3. Len(Below) + 1 <= 2 * pos'
    BY <2>1
  <2> QED
    BY <1>4, <2>1, <2>2, <2>3, Calls
<1>5. ASSUME NEW node, NEW name, NEW required, NEW kids,
             Make(node, name, required, kids), UNCHANGED pos
      PROVE  IInv'
  <2>1. \/ Return(Below, Null) /\ silent' = TRUE
        \/ Return(Below, Tree(node, name, kids)) /\ silent' = silent
    BY <1>5 DEF Make, Build
  <2> QED
    BY <1>1, <1>2, <1>5, <2>1
<1>6. ASSUME NEW t, Consume(1), Build(Below, t)
      PROVE  IInv'
  BY <1>1, <1>2, <1>6 DEF Build
<1>7. CASE BinaryEnds
  BY <1>5, <1>7 DEF BinaryEnds
<1>8. CASE UnaryEnds
  BY <1>5, <1>8 DEF UnaryEnds
<1>9. CASE IfEnds
  BY <1>5, <1>9 DEF IfEnds
<1>10. CASE ForEnds
  BY <1>5, <1>10 DEF ForEnds
<1>11. CASE VarEnds
  BY <1>5, <1>11 DEF VarEnds
<1>12. CASE ParenEnds
  BY <1>3, <1>6, <1>12 DEF ParenEnds
<1>13. CASE Argument
  <2> DEFINE args == Append(Top.kids, tree)
  <2>1. \/ Consume(1) /\ Build(Below, Tree("call", Top.name, args))
        \/ Tok(1) # Eof /\ Consume(1) /\ Call(Below, Frame("call", Top.name, args), 0)
        \/ UNCHANGED pos /\ Fail(Below)
    BY <1>13 DEF Argument, Eof
  <2> QED
    BY <1>3, <1>4, <1>6, <2>1 DEF Forms
<1>14. CASE IfContinues
  <2>1. \/ Tok(1) # Eof /\ Consume(1) /\ Call(Below, Frame("if", Null, Append(Top.kids, tree)), 0)
        \/ UNCHANGED pos /\ Fail(Below)
    BY <1>14 DEF IfContinues, Eof
  <2> QED
    BY <1>3, <1>4, <2>1 DEF Forms
<1>15. CASE ForContinues
  <2>1. \/ /\ Tok(1) # Eof /\ Consume(1)
           /\ \E kids \in {Append(Top.kids, tree), Append(Append(Top.kids, tree), Null)} :
                Call(Below, Frame("for", Top.name, kids), 0)
        \/ UNCHANGED pos /\ Fail(Below)
    BY <1>15 DEF ForContinues, Eof
  <2> QED
    BY <1>3, <1>4, <2>1 DEF Forms
<1>16. CASE VarContinues
  <2>1. \/ Binding1(Below, Bound(Top, tree), 1)
        \/ /\ Tok(1) # Eof /\ Consume(1)
           /\ Call(Below, Frame("body", Null, Bound(Top, tree)), 0)
        \/ UNCHANGED pos /\ Fail(Below)
    BY <1>16 DEF VarContinues, Eof
  <2> QED
    BY <1>3, <1>4, <2>1, BindingSteps DEF Forms
<1> QED
  BY <1>7, <1>8, <1>9, <1>10, <1>11, <1>12, <1>13, <1>14, <1>15, <1>16

-----------------------------------------------------------------------------
LEMMA Inductive == Init /\ [][Next]_vars => []IInv
<1>1. IInv /\ [Next]_vars => IInv'
  <2> SUFFICES ASSUME IInv, [Next]_vars PROVE IInv'
    OBVIOUS
  <2>1. CASE UNCHANGED vars
    BY <2>1 DEF vars, IInv, TypeOK, InTurn, RecursionConsumes, Top
  <2>2. CASE Literal \/ Identifier \/ CallWithoutArguments \/ CallWithArguments
               \/ Paren \/ Unary \/ If \/ For
    <3>1. mode = "call"
      BY <2>2 DEF Starting, Literal, Identifier, CallWithoutArguments,
                  CallWithArguments, Paren, Unary, If, For
    <3> QED
      BY <2>2, <3>1, PrefixSteps
  <2>3. CASE Var \/ NoPrefix \/ InfixOperator \/ EndExpression
    BY <2>3, EngineSteps
  <2>4. CASE BinaryEnds \/ UnaryEnds \/ ParenEnds \/ Argument \/ IfContinues \/ IfEnds
               \/ ForContinues \/ ForEnds \/ VarContinues \/ VarEnds
    <3>1. mode = "result" /\ stack # <<>>
      BY <2>4 DEF Resumed, BinaryEnds, UnaryEnds, ParenEnds, Argument, IfContinues,
                  IfEnds, ForContinues, ForEnds, VarContinues, VarEnds
    <3> QED
      BY <2>4, <3>1, HandlerSteps
  <2>5. CASE Finish
    <3>1. Shape(stack) /\ Len(stack) % 2 = 0 /\ pos \in 0 .. Len(input) /\ Len(stack) <= 2 * pos + 1
      BY <2>5 DEF Finish, IInv, InTurn, TypeOK, RecursionConsumes
    <3>2. errors' \in BOOLEAN /\ silent' \in BOOLEAN
      BY <2>5 DEF Finish, IInv, TypeOK
    <3> QED
      BY <2>5, <3>1, <3>2, Results DEF Finish
  <2> QED
    BY <2>1, <2>2, <2>3, <2>4, <2>5 DEF Next
<1> QED
  BY <1>1, Initially, PTL

(* Types: the cursor of the token stream stays inside the text whatever    *)
(* the handlers look at and consume.                                       *)
THEOREM TypeCorrect == Spec => []TypeOK
<1>1. IInv => TypeOK
  BY DEF IInv
<1> QED
  BY <1>1, Inductive, PTL DEF Spec

(* The recursion of ParserEngine and its handlers is no deeper than twice  *)
(* the tokens consumed: no handler calls the engine on the same token.     *)
THEOREM RecursionIsBounded == Spec => []RecursionConsumes
<1>1. IInv => RecursionConsumes
  BY DEF IInv
<1> QED
  BY <1>1, Inductive, PTL DEF Spec
=============================================================================
