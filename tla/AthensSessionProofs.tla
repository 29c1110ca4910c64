------------------------ MODULE AthensSessionProofs ------------------------
(***************************************************************************)
(* What holds of an Athens session for every set of functions, operators   *)
(* and items, for every runtime library and for sessions of any length.    *)
(* The sequence facts come first, then type correctness, which carries the *)
(* shape of the item in hand, and then one invariant per table.            *)
(***************************************************************************)
EXTENDS AthensSession, SequenceTheorems, TLAPS

(* An item cut after a prefix of its body is an item.                      *)
LEMMA CutItem ==
  ASSUME NEW text \in ItemOf, NEW cut \in 1 .. Len(text.body) + 1
  PROVE  LET rest == [text EXCEPT !.body = SubSeq(@, 1, cut - 1)]
         IN  /\ rest \in ItemOf
             /\ Len(rest.body) = cut - 1
             /\ \A i \in 1 .. cut - 1 : rest.body[i] = text.body[i]
             /\ rest.kind = text.kind /\ rest.symbol = text.symbol
             /\ rest.params = text.params /\ rest.prec = text.prec
             /\ rest.syntax = text.syntax
<1> DEFINE body == SubSeq(text.body, 1, cut - 1)
<1>1. text.body \in Seq(UseOf) /\ Len(text.body) \in Nat
  BY LenProperties DEF ItemOf
<1>2. \A i \in 1 .. cut - 1 : text.body[i] \in UseOf
  BY <1>1, ElementOfSeq
<1>3. /\ body \in Seq(UseOf)
      /\ Len(body) = cut - 1
      /\ \A i \in 1 .. cut - 1 : body[i] = text.body[i]
  <2>1. cut - 1 \in Int /\ 1 \in Int
    BY <1>1
  <2>2. /\ body \in Seq(UseOf)
        /\ Len(body) = IF 1 <= cut - 1 THEN cut - 1 - 1 + 1 ELSE 0
        /\ \A i \in 1 .. cut - 1 - 1 + 1 : body[i] = text.body[1 + i - 1]
    BY <1>2, <2>1, SubSeqProperties
  <2> QED
    BY <1>1, <2>2
<1> QED
  BY <1>3 DEF ItemOf

(* A sequence of uses is the body of a top-level expression.               *)
LEMMA ExpressionIsItem ==
  ASSUME NEW b \in Seq(UseOf)
  PROVE  WellFormed(Expression(b))
<1>1. <<>> \in Params
  BY EmptySeq DEF Params
<1>2. Expression(b) \in ItemOf
  BY <1>1 DEF Expression, ItemOf
<1>3. None \notin Operators
  BY SessionAssumption DEF Symbols
<1> QED
  BY <1>2, <1>3 DEF WellFormed, Expression

(* What is left of the text after the cut is an expression of its own.     *)
LEMMA RestIsItems ==
  ASSUME NEW text \in ItemOf, NEW cut \in 1 .. Len(text.body) + 1,
         cut <= Len(text.body) => text.body[cut].kind = "op"
  PROVE  /\ Rest(text.body, cut) \in Seq(ItemOf)
         /\ \A i \in 1 .. Len(Rest(text.body, cut)) : WellFormed(Rest(text.body, cut)[i])
<1>1. text.body \in Seq(UseOf) /\ Len(text.body) \in Nat
  BY LenProperties DEF ItemOf
<1>2. CASE cut > Len(text.body)
  BY <1>2, EmptySeq DEF Rest
<1>3. CASE cut <= Len(text.body)
  <2> DEFINE first == [text.body[cut] EXCEPT !.kind = "unary"]
             left  == SubSeq(text.body, cut + 1, Len(text.body))
  <2>1. text.body[cut] \in [kind : {"op", "unary"}, symbol : Operators, args : {2}]
    BY <1>1, <1>3, ElementOfSeq DEF UseOf
  <2>2. <<first>> \in Seq(UseOf)
    BY <2>1 DEF UseOf
  <2>3. left \in Seq(UseOf)
    BY <1>1, ElementOfSeq, SubSeqProperties
  <2>4. <<first>> \o left \in Seq(UseOf)
    BY <2>2, <2>3, ConcatProperties
  <2>5. WellFormed(Expression(<<first>> \o left)) /\ Expression(<<first>> \o left) \in ItemOf
    BY <2>4, ExpressionIsItem DEF WellFormed
  <2>6. Rest(text.body, cut) = <<Expression(<<first>> \o left)>>
    BY <1>1, <1>3 DEF Rest
  <2> HIDE DEF first, left
  <2> QED
    BY <2>5, <2>6
<1> QED
  BY <1>1, <1>2, <1>3

-----------------------------------------------------------------------------
(* The inductive invariants.  The item under construction has a            *)
(* declaration in the module, and it is a definition or an expression.     *)
UnderConstruction ==
  /\ gen # "none" => item # None /\ item.kind # "extern"
  /\ gen # "none" /\ item.symbol # None => module[item.symbol] # None

(* At most the function under construction has a body.                     *)
OnlyItsBody ==
  Running => bodies \subseteq IF gen = "none" THEN {} ELSE {item.symbol}

(* What is known by a prototype has code, or never will, or is being       *)
(* generated.                                                              *)
HasCode ==
  Running => \A s \in Symbols :
    protos[s] # None =>
      jit[s] # None \/ s \in failed \union externs \/ (gen # "none" /\ item.symbol = s)

(* An operator is in the table because it has a function, because its      *)
(* definition is about to be generated, or by accident; the operators left *)
(* in a body that is generated are in the table.                           *)
ActiveOperators ==
  /\ Running => \A o \in Operators \ Native :
       prec[o] > 0 /\ protos[o] = None =>
         o \in leaked \/ (item # None /\ gen = "none" /\ item.symbol = o)
  /\ Running /\ item # None =>
       \A i \in 1 .. Len(item.body) :
         item.body[i].kind = "op" => prec[item.body[i].symbol] > 0
  /\ status = "crashed" => leaked # {}

(* A definition keeps its operator in the table until it fails.            *)
OperatorsKept ==
  /\ gen # "none" /\ item.symbol \in Operators => prec[item.symbol] > 0
  /\ OperatorLostOnlyByFailure

(* A function known by one prototype only is declared, compiled and called *)
(* by it.                                                                  *)
OnePrototype ==
  /\ \A o \in Operators : protos[o] # None => Len(protos[o]) = 2
  /\ \A s \in Symbols \ redeclared :
       /\ module[s] # None => module[s] = protos[s]
       /\ jit[s] # None => jit[s].params = protos[s]
       /\ gen # "none" => \A c \in calls :
            c.to = s => protos[s] # None /\ c.args = Len(protos[s])
       /\ \A t \in Symbols : jit[t] # None => \A c \in jit[t].calls :
            c.to = s => protos[s] # None /\ c.args = Len(protos[s])

-----------------------------------------------------------------------------
(* What a parsing step does to the variables it may change.                *)
LEMMA ParseStep ==
  ASSUME TypeOK, Idle, NEW text, WellFormed(text),
         NEW following \in Seq(ItemOf),
         \A i \in 1 .. Len(following) : WellFormed(following[i]),
         Parse(text, following)
  PROVE  /\ prec' \in [Operators -> 0 .. 100]
         /\ item' \in ItemOf \union {None}
         /\ item' # None => WellFormed(item') /\ item'.syntax = "ok" /\ item'.symbol = text.symbol
         /\ pending' \in Seq(ItemOf)
         /\ \A i \in 1 .. Len(pending') : WellFormed(pending'[i])
         /\ leaked' \in SUBSET Operators
         /\ status' \in {"running", "exited"}
<1>1. text \in ItemOf
  BY DEF WellFormed
<1>2. prec' \in [Operators -> 0 .. 100]
  BY <1>1 DEF Parse, Installed, TypeOK, ItemOf
<1>3. CASE SyntaxError(text)
  <2>1. item' = None /\ pending' = <<>> /\ status' \in {"running", "exited"}
    BY <1>3 DEF SyntaxError, Abandon
  <2>2. leaked' \in SUBSET Operators
    BY <1>3 DEF SyntaxError, TypeOK
  <2>3. pending' \in Seq(ItemOf) /\ Len(pending') = 0
    BY <2>1, EmptySeq
  <2> QED
    BY <1>2, <2>1, <2>2, <2>3
<1>4. CASE Parsed(text, following)
  <2>1. PICK cut \in 1 .. Len(text.body) + 1 :
          /\ EndsAt(text.body, cut, prec')
          /\ item' = [text EXCEPT !.body = SubSeq(@, 1, cut - 1)]
          /\ pending' = Rest(text.body, cut) \o following
    BY <1>4 DEF Parsed
  <2>2. text.syntax = "ok" /\ UNCHANGED <<leaked, status>>
    BY <1>4 DEF Parsed
  <2>3. cut <= Len(text.body) => text.body[cut].kind = "op"
    BY <2>1 DEF EndsAt, Inactive
  <2>4. /\ item' \in ItemOf
        /\ item'.kind = text.kind /\ item'.symbol = text.symbol
        /\ item'.params = text.params /\ item'.prec = text.prec
        /\ item'.syntax = text.syntax
    BY <1>1, <2>1, CutItem
  <2>5. WellFormed(item')
    BY <2>4 DEF WellFormed
  <2>6. /\ Rest(text.body, cut) \in Seq(ItemOf)
        /\ \A i \in 1 .. Len(Rest(text.body, cut)) : WellFormed(Rest(text.body, cut)[i])
    BY <1>1, <2>3, RestIsItems
  <2> DEFINE rest == Rest(text.body, cut)
  <2>7. /\ rest \o following \in Seq(ItemOf)
        /\ Len(rest \o following) = Len(rest) + Len(following)
        /\ \A i \in 1 .. Len(rest) + Len(following) :
             (rest \o following)[i] = IF i <= Len(rest) THEN rest[i] ELSE following[i - Len(rest)]
    BY <2>6, ConcatProperties
  <2>8. Len(rest) \in Nat /\ Len(following) \in Nat
    BY <2>6, LenProperties
  <2>9. \A i \in 1 .. Len(rest \o following) : WellFormed((rest \o following)[i])
    <3> HIDE DEF rest
    <3>1. \A i \in 1 .. Len(rest) : WellFormed(rest[i])
      BY <2>6 DEF rest
    <3> TAKE i \in 1 .. Len(rest \o following)
    <3>2. CASE i <= Len(rest)
      BY <2>7, <2>8, <3>1, <3>2
    <3>3. CASE i > Len(rest)
      <4>1. i - Len(rest) \in 1 .. Len(following)
        BY <2>7, <2>8, <3>3
      <4>2. (rest \o following)[i] = following[i - Len(rest)]
        BY <2>7, <2>8, <3>3
      <4> QED
        BY <4>1, <4>2
    <3> QED
      BY <2>7, <2>8, <3>2, <3>3
  <2> QED
    BY <1>2, <2>1, <2>2, <2>4, <2>5, <2>7, <2>9 DEF TypeOK, Idle, Running
<1> QED
  BY <1>2, <1>3, <1>4 DEF Parse

(* Consuming a use leaves an item.                                         *)
LEMMA UsedItem ==
  ASSUME TypeOK, item # None, item.body # <<>>,
         item' = [item EXCEPT !.body = Tail(@)]
  PROVE  /\ item' \in ItemOf
         /\ WellFormed(item') /\ item'.syntax = "ok"
         /\ item'.kind = item.kind /\ item'.symbol = item.symbol
         /\ item'.params = item.params /\ item'.prec = item.prec
         /\ Len(item'.body) = Len(item.body) - 1
         /\ \A i \in 1 .. Len(item'.body) : item'.body[i] = item.body[i + 1]
         /\ Head(item.body) \in UseOf /\ Head(item.body) = item.body[1]
         /\ Len(item.body) \in Nat \ {0}
<1>1. item \in ItemOf /\ WellFormed(item) /\ item.syntax = "ok"
  BY DEF TypeOK
<1>2. item.body \in Seq(UseOf)
  BY <1>1 DEF ItemOf
<1>3. /\ Head(item.body) \in UseOf
      /\ Tail(item.body) \in Seq(UseOf)
      /\ Len(Tail(item.body)) = Len(item.body) - 1
      /\ \A i \in 1 .. Len(Tail(item.body)) : Tail(item.body)[i] = item.body[i + 1]
  BY <1>2, HeadTailProperties
<1>4. Len(item.body) \in Nat \ {0}
  BY <1>2, EmptySeq
<1>5. /\ item' \in ItemOf /\ item'.body = Tail(item.body)
      /\ item'.kind = item.kind /\ item'.symbol = item.symbol
      /\ item'.params = item.params /\ item'.prec = item.prec
      /\ item'.syntax = item.syntax
  BY <1>1, <1>3 DEF ItemOf
<1>6. WellFormed(item')
  BY <1>1, <1>5 DEF WellFormed
<1> QED
  BY <1>1, <1>2, <1>3, <1>4, <1>5, <1>6

-----------------------------------------------------------------------------
(* Declaring a function keeps the module a table of declarations.          *)
LEMMA DeclaredType ==
  ASSUME NEW table \in [Symbols -> Params \union {None}], NEW s \in Symbols,
         module \in [Symbols -> Params \union {None}]
  PROVE  /\ Declared(table, s) \in [Symbols -> Params \union {None}]
         /\ \A t \in Symbols : t # s => Declared(table, s)[t] = module[t]
         /\ Declared(table, s)[s] = IF module[s] # None THEN module[s] ELSE table[s]
BY DEF Declared

(* Where a use begins, the symbol of an operator or a call is known.       *)
LEMMA UseSymbols ==
  ASSUME NEW use \in UseOf
  PROVE  /\ use.kind = "call" => use.symbol \in Functions /\ use.args \in Nat
         /\ use.kind = "op" => use.symbol \in Operators /\ use.args = 2
         /\ use.kind \in {"call", "op"} => [to |-> use.symbol, args |-> use.args] \in CallSite
BY DEF UseOf, CallSite, Symbols

(* Every step keeps the types of the tables.                               *)
LEMMA TypeStep ==
  ASSUME TypeOK, UnderConstruction, [Next]_vars
  PROVE  TypeOK'
<1>0. CASE UNCHANGED vars
  BY <1>0 DEF vars, session, history, TypeOK
<1>1. CASE ParsePending
  <2>1. Head(pending) \in ItemOf /\ Tail(pending) \in Seq(ItemOf)
        /\ Len(Tail(pending)) = Len(pending) - 1
        /\ \A i \in 1 .. Len(Tail(pending)) : Tail(pending)[i] = pending[i + 1]
    BY <1>1, HeadTailProperties DEF ParsePending, TypeOK
  <2>2. Len(pending) \in Nat \ {0} /\ Head(pending) = pending[1]
    BY <1>1, EmptySeq DEF ParsePending, TypeOK
  <2>3. WellFormed(Head(pending)) /\ \A i \in 1 .. Len(Tail(pending)) : WellFormed(Tail(pending)[i])
    BY <2>1, <2>2 DEF TypeOK
  <2>4. Idle /\ Parse(Head(pending), Tail(pending)) /\ UNCHANGED count
    BY <1>1 DEF ParsePending
  <2>5. /\ prec' \in [Operators -> 0 .. 100]
        /\ item' \in ItemOf \union {None}
        /\ item' # None => WellFormed(item') /\ item'.syntax = "ok"
        /\ pending' \in Seq(ItemOf)
        /\ \A i \in 1 .. Len(pending') : WellFormed(pending'[i])
        /\ leaked' \in SUBSET Operators
        /\ status' \in {"running", "exited"}
    BY <2>1, <2>3, <2>4, ParseStep
  <2> QED
    BY <2>4, <2>5 DEF Parse, TypeOK
<1>2. CASE ParseNext
  <2>1. PICK text \in Items : Idle /\ Parse(text, <<>>)
    BY <1>2 DEF ParseNext
  <2>2. /\ WellFormed(text) /\ <<>> \in Seq(ItemOf)
        /\ \A i \in 1 .. Len(<<>>) : WellFormed(<<>>[i])
    <3>1. Len(<<>>) = 0 /\ <<>> \in Seq(ItemOf)
      BY EmptySeq
    <3> QED
      BY <3>1, SessionAssumption
  <2>3. /\ prec' \in [Operators -> 0 .. 100]
        /\ item' \in ItemOf \union {None}
        /\ item' # None => WellFormed(item') /\ item'.syntax = "ok"
        /\ pending' \in Seq(ItemOf)
        /\ \A i \in 1 .. Len(pending') : WellFormed(pending'[i])
        /\ leaked' \in SUBSET Operators
        /\ status' \in {"running", "exited"}
    BY <2>1, <2>2, ParseStep
  <2>4. count' \in 0 .. MaxItems
    BY <1>2, SessionAssumption DEF ParseNext, TypeOK
  <2> QED
    BY <2>1, <2>3, <2>4 DEF Parse, TypeOK
<1>3. CASE RuntimeLoaded
  BY <1>3 DEF RuntimeLoaded, AllButSession, history, TypeOK
<1>4. CASE EndOfInput
  BY <1>4 DEF EndOfInput, AllButSession, history, TypeOK
<1>5. CASE BeginDefinition
  <2>1. item \in ItemOf /\ WellFormed(item) /\ item.kind = "def"
    BY <1>5 DEF BeginDefinition, TypeOK
  <2>2. item.symbol \in Symbols /\ item.params \in Params /\ item.prec \in 0 .. 100
    BY <2>1 DEF ItemOf, WellFormed
  <2>3. protos' \in [Symbols -> Params \union {None}]
    BY <1>5, <2>2 DEF BeginDefinition, TypeOK
  <2>4. module' \in [Symbols -> Params \union {None}]
    BY <1>5, <2>2, <2>3, DeclaredType DEF BeginDefinition, TypeOK
  <2>5. redeclared' \in SUBSET Symbols
    BY <1>5, <2>2 DEF BeginDefinition, NoteRedeclared, TypeOK
  <2>6. prec' \in [Operators -> 0 .. 100]
    BY <1>5, <2>2 DEF BeginDefinition, TypeOK
  <2> QED
    BY <1>5, <2>2, <2>3, <2>4, <2>5, <2>6 DEF BeginDefinition, Start, session, TypeOK
<1>6. CASE BeginExpression
  BY <1>6 DEF BeginExpression, Start, session, history, TypeOK
<1>7. ASSUME Used, item # None, item.body # <<>>,
             module' \in [Symbols -> Params \union {None}],
             gen' \in {"none", "ok", "fails"}, calls' \in SUBSET CallSite
      PROVE  TypeOK'
  <2>1. item' \in ItemOf /\ WellFormed(item') /\ item'.syntax = "ok"
    BY <1>7, UsedItem DEF Used
  <2> QED
    BY <1>7, <2>1 DEF Used, session, history, TypeOK
<1>8. CASE UseVariable
  BY <1>7, <1>8 DEF UseVariable, Generating, TypeOK
<1>9. CASE UseFunction
  <2>1. item # None /\ item.body # <<>> /\ Used /\ Head(item.body).kind = "call"
    BY <1>9 DEF UseFunction, Generating
  <2>2. Head(item.body) \in UseOf
    BY <2>1, UsedItem DEF Used
  <2>3. NextUse.symbol \in Symbols /\ [to |-> NextUse.symbol, args |-> NextUse.args] \in CallSite
    BY <2>1, <2>2, UseSymbols DEF NextUse, Symbols
  <2>4. module' \in [Symbols -> Params \union {None}]
    BY <1>9, <2>3, DeclaredType DEF UseFunction, TypeOK
  <2>5. gen' \in {"none", "ok", "fails"} /\ calls' \in SUBSET CallSite
    BY <1>9, <2>3 DEF UseFunction, Emit, TypeOK
  <2> QED
    BY <1>7, <2>1, <2>4, <2>5
<1>10. CASE UseOperator
  <2>1. item # None /\ item.body # <<>> /\ Used /\ Head(item.body).kind = "op"
    BY <1>10 DEF UseOperator, Generating
  <2>2. Head(item.body) \in UseOf
    BY <2>1, UsedItem DEF Used
  <2>3. NextUse.symbol \in Symbols /\ [to |-> NextUse.symbol, args |-> NextUse.args] \in CallSite
    BY <2>1, <2>2, UseSymbols DEF NextUse, Symbols
  <2>4. Declared(protos, NextUse.symbol) \in [Symbols -> Params \union {None}]
    BY <2>3, DeclaredType DEF TypeOK
  <2>5. /\ module' \in [Symbols -> Params \union {None}]
        /\ gen' \in {"none", "ok", "fails"} /\ calls' \in SUBSET CallSite
    BY <1>10, <2>3, <2>4 DEF UseOperator, Emit, TypeOK
  <2> QED
    BY <1>7, <2>1, <2>5
<1>11. CASE OperatorMissing
  BY <1>11 DEF OperatorMissing, history, TypeOK
<1>12. CASE UseUnary
  BY <1>7, <1>12 DEF UseUnary, Generating, TypeOK
<1>13. CASE BodyFails
  <2>1. item' = None /\ pending' = <<>> /\ status' \in {"running", "exited"}
    BY <1>13 DEF BodyFails, Abandon
  <2>2. pending' \in Seq(ItemOf) /\ Len(pending') = 0
    BY <2>1, EmptySeq
  <2>3. prec' \in [Operators -> 0 .. 100]
    BY <1>13 DEF BodyFails, Erased, TypeOK
  <2>4. module' \in [Symbols -> Params \union {None}]
    BY <1>13 DEF BodyFails, TypeOK
  <2>5. bodies' \subseteq Symbols \union {None} /\ failed' \in SUBSET Symbols
    BY <1>13 DEF BodyFails, Removed, TypeOK
  <2> QED
    BY <1>13, <2>1, <2>2, <2>3, <2>4, <2>5 DEF BodyFails, TypeOK
<1>14. CASE DefinitionAdded
  <2>1. item \in ItemOf /\ WellFormed(item) /\ item.kind = "def"
    BY <1>14 DEF DefinitionAdded, Generated, TypeOK
  <2>2. item.symbol \in Symbols
    BY <2>1 DEF ItemOf, WellFormed
  <2>3. jit' = [jit EXCEPT ![item.symbol] = [params |-> module[item.symbol], calls |-> calls]]
    BY <1>14 DEF DefinitionAdded, HandedOver
  <2>4. module[item.symbol] # None
    BY <1>14, <2>2, SessionAssumption DEF DefinitionAdded, Generated, UnderConstruction
  <2>5. [params |-> module[item.symbol], calls |-> calls] \in Compiled
    BY <2>2, <2>4 DEF Compiled, TypeOK
  <2>6. jit' \in [Symbols -> Compiled \union {None}]
    BY <2>3, <2>5 DEF TypeOK
  <2> QED
    BY <1>14, <2>6 DEF DefinitionAdded, NewModule, EmptyModule, session, history, TypeOK
<1>15. CASE DefinitionDuplicated
  BY <1>15 DEF DefinitionDuplicated, history, TypeOK
<1>16. CASE HandleExtern
  <2>1. item.symbol \in Symbols /\ item.params \in Params
    BY <1>16 DEF HandleExtern, TypeOK, ItemOf, WellFormed
  <2>2. /\ protos' \in [Symbols -> Params \union {None}]
        /\ module' \in [Symbols -> Params \union {None}]
        /\ redeclared' \in SUBSET Symbols /\ externs' \in SUBSET Symbols
    BY <1>16, <2>1 DEF HandleExtern, NoteRedeclared, TypeOK
  <2> QED
    BY <1>16, <2>2 DEF HandleExtern, session, TypeOK
<1>17. CASE ExpressionRun
  <2>1. resolved' \in SUBSET Process
    BY <1>17 DEF ExpressionRun, Found, TypeOK
  <2> QED
    BY <1>17, <2>1 DEF ExpressionRun, NewModule, EmptyModule, session, history, TypeOK
<1>18. CASE ExpressionUnlinked
  BY <1>18 DEF ExpressionUnlinked, NewModule, EmptyModule, history, TypeOK
<1> QED
  BY <1>0, <1>1, <1>2, <1>3, <1>4, <1>5, <1>6, <1>8, <1>9, <1>10, <1>11, <1>12, <1>13,
     <1>14, <1>15, <1>16, <1>17, <1>18 DEF Next

(* Code generation begins with a declaration and ends with the item.       *)
LEMMA UnderConstructionStep ==
  ASSUME TypeOK, UnderConstruction, [Next]_vars
  PROVE  UnderConstruction'
<1>1. CASE UNCHANGED vars
  BY <1>1 DEF vars, session, UnderConstruction
<1>2. CASE ParsePending \/ ParseNext \/ RuntimeLoaded \/ EndOfInput
  BY <1>2 DEF ParsePending, ParseNext, Parse, RuntimeLoaded, EndOfInput, AllButSession,
              Idle, UnderConstruction
<1>3. CASE BeginDefinition
  <2>1. item.symbol \in Symbols /\ item.params \in Params /\ item.params # None
    BY <1>3, SessionAssumption DEF BeginDefinition, TypeOK, ItemOf, WellFormed
  <2>2. protos' \in [Symbols -> Params \union {None}] /\ protos'[item.symbol] = item.params
    BY <1>3, <2>1 DEF BeginDefinition, TypeOK
  <2>3. module'[item.symbol] # None
    BY <1>3, <2>1, <2>2, DeclaredType DEF BeginDefinition, TypeOK
  <2> QED
    BY <1>3, <2>3 DEF BeginDefinition, UnderConstruction
<1>4. CASE BeginExpression
  BY <1>4 DEF BeginExpression, Start, UnderConstruction, TypeOK, WellFormed
<1>5. ASSUME Running, item # None, gen # "none", item.body # <<>>, Used,
             module' = module \/ \E s \in Symbols : module' = Declared(protos, s)
      PROVE  UnderConstruction'
  <2>1. item'.kind = item.kind /\ item'.symbol = item.symbol /\ item' # None
    BY <1>5, UsedItem, SessionAssumption DEF Used
  <2>2. item.symbol # None => item.symbol \in Symbols
    BY <1>5 DEF TypeOK, ItemOf
  <2>3. item.symbol # None => module'[item.symbol] # None
    BY <1>5, <2>2, DeclaredType DEF TypeOK, UnderConstruction
  <2> QED
    BY <1>5, <2>1, <2>3 DEF UnderConstruction
<1>6. CASE UseVariable \/ UseFunction \/ UseOperator \/ UseUnary
  <2>1. Running /\ item # None /\ gen # "none" /\ item.body # <<>> /\ Used
    BY <1>6 DEF UseVariable, UseFunction, UseOperator, UseUnary, Generating
  <2>2. Head(item.body) \in UseOf
    BY <2>1, UsedItem DEF Used
  <2>3. CASE UseVariable \/ UseUnary
    BY <1>5, <2>1, <2>3 DEF UseVariable, UseUnary
  <2>4. CASE UseFunction \/ UseOperator
    <3>1. NextUse.symbol \in Symbols
      BY <2>2, <2>4, UseSymbols DEF UseFunction, UseOperator, Generating, NextUse, Symbols
    <3>2. module' = module \/ module' = Declared(protos, NextUse.symbol)
      BY <2>4 DEF UseFunction, UseOperator
    <3> QED
      BY <1>5, <2>1, <3>1, <3>2
  <2> QED
    BY <1>6, <2>3, <2>4
<1>7. CASE OperatorMissing \/ DefinitionDuplicated
  BY <1>7 DEF OperatorMissing, DefinitionDuplicated, UnderConstruction
<1>8. CASE BodyFails \/ DefinitionAdded \/ ExpressionRun \/ ExpressionUnlinked
  BY <1>8 DEF BodyFails, DefinitionAdded, ExpressionRun, ExpressionUnlinked, NewModule,
              UnderConstruction
<1>9. CASE HandleExtern
  BY <1>9 DEF HandleExtern, UnderConstruction
<1> QED
  BY <1>1, <1>2, <1>3, <1>4, <1>6, <1>7, <1>8, <1>9 DEF Next

(* Types and the item under construction, together inductive.              *)
LEMMA TypeInvariant == Spec => [](TypeOK /\ UnderConstruction)
<1>1. Init => TypeOK /\ UnderConstruction
  <2> SUFFICES ASSUME Init PROVE TypeOK /\ UnderConstruction
    OBVIOUS
  <2>1. /\ EmptyModule \in [Symbols -> Params \union {None}]
        /\ EmptyModule \in [Symbols -> Compiled \union {None}]
    BY DEF EmptyModule
  <2> QED
    BY <2>1, SessionAssumption DEF Init, TypeOK, UnderConstruction
<1>2. TypeOK /\ UnderConstruction /\ [Next]_vars => (TypeOK /\ UnderConstruction)'
  BY TypeStep, UnderConstructionStep
<1> QED
  BY <1>1, <1>2, PTL DEF Spec

(* The tables keep their types from every item to the next.                *)
THEOREM TypeCorrect == Spec => []TypeOK
BY TypeInvariant, PTL

-----------------------------------------------------------------------------
(* Parsing and the loop of ParseStream leave all but the precedences and   *)
(* the item alone.                                                         *)
LEMMA ParsingFrame ==
  ASSUME ParsePending \/ ParseNext \/ RuntimeLoaded \/ EndOfInput
  PROVE  /\ Idle
         /\ UNCHANGED <<protos, module, bodies, jit, gen, calls, failed, externs, redeclared>>
BY DEF ParsePending, ParseNext, Parse, RuntimeLoaded, EndOfInput, AllButSession, history

(* A use changes the declarations of the module and the calls only.        *)
LEMMA UseFrame ==
  ASSUME TypeOK, UseVariable \/ UseFunction \/ UseOperator \/ UseUnary
  PROVE  /\ Running /\ gen # "none" /\ gen' # "none" /\ item # None /\ item' # None
         /\ item'.symbol = item.symbol /\ item'.kind = item.kind
         /\ UNCHANGED <<prec, protos, bodies, jit, session, history>>
<1>1. Running /\ item # None /\ gen # "none" /\ item.body # <<>> /\ Used
  BY DEF UseVariable, UseFunction, UseOperator, UseUnary, Generating
<1>2. gen' # "none"
  BY <1>1 DEF UseVariable, UseFunction, UseOperator, UseUnary
<1>3. item' # None /\ item'.symbol = item.symbol /\ item'.kind = item.kind
  BY <1>1, UsedItem, SessionAssumption DEF Used
<1> QED
  BY <1>1, <1>2, <1>3 DEF Used

-----------------------------------------------------------------------------
(* A body enters the module with the item and leaves it with the item.     *)
LEMMA OnlyItsBodyStep ==
  ASSUME TypeOK, UnderConstruction, OnlyItsBody, [Next]_vars
  PROVE  OnlyItsBody'
<1>1. CASE UNCHANGED vars
  BY <1>1 DEF vars, session, OnlyItsBody, Running
<1>2. CASE ParsePending \/ ParseNext \/ RuntimeLoaded \/ EndOfInput
  BY <1>2, ParsingFrame DEF Idle, Running, UnderConstruction, OnlyItsBody
<1>3. CASE BeginDefinition \/ BeginExpression
  <2>1. bodies = {} /\ item' = item
    BY <1>3 DEF BeginDefinition, BeginExpression, OnlyItsBody
  <2>2. bodies' = {item.symbol} /\ gen' = "ok"
    <3>1. CASE BeginDefinition
      BY <2>1, <3>1 DEF BeginDefinition, Start
    <3>2. CASE BeginExpression
      BY <2>1, <3>2 DEF BeginExpression, Start, TypeOK, WellFormed
    <3> QED
      BY <1>3, <3>1, <3>2
  <2> QED
    BY <2>1, <2>2 DEF OnlyItsBody
<1>4. CASE UseVariable \/ UseFunction \/ UseOperator \/ UseUnary
  BY <1>4, UseFrame DEF OnlyItsBody
<1>5. CASE OperatorMissing \/ DefinitionDuplicated
  BY <1>5 DEF OperatorMissing, DefinitionDuplicated, OnlyItsBody, Running
<1>6. CASE BodyFails
  <2>1. bodies \subseteq {item.symbol} /\ bodies' = bodies \ {item.symbol} /\ gen' = "none"
    BY <1>6 DEF BodyFails, Removed, Generated, OnlyItsBody
  <2> QED
    BY <2>1 DEF OnlyItsBody
<1>7. CASE DefinitionAdded \/ ExpressionRun \/ ExpressionUnlinked
  BY <1>7 DEF DefinitionAdded, ExpressionRun, ExpressionUnlinked, NewModule, OnlyItsBody
<1>8. CASE HandleExtern
  <2>1. gen = "none" /\ gen' = "none" /\ bodies' = bodies /\ Running
    BY <1>8 DEF HandleExtern, UnderConstruction
  <2> QED
    BY <2>1 DEF OnlyItsBody
<1> QED
  BY <1>1, <1>2, <1>3, <1>4, <1>5, <1>6, <1>7, <1>8 DEF Next

(* codegen.cpp:241: between two items TheModule defines no function.       *)
THEOREM NoBodyBetweenItems == Spec => []ModuleHoldsNoBody
<1>1. Init => OnlyItsBody
  BY DEF Init, OnlyItsBody
<1>2. TypeOK /\ UnderConstruction /\ OnlyItsBody /\ [Next]_vars => OnlyItsBody'
  BY OnlyItsBodyStep
<1>3. UnderConstruction /\ OnlyItsBody => ModuleHoldsNoBody
  BY DEF UnderConstruction, OnlyItsBody, ModuleHoldsNoBody, Idle
<1> QED
  BY <1>1, <1>2, <1>3, TypeInvariant, PTL DEF Spec

-----------------------------------------------------------------------------
(* A prototype is recorded only for what then gets code, or fails.         *)
LEMMA HasCodeStep ==
  ASSUME TypeOK, UnderConstruction, HasCode, [Next]_vars
  PROVE  HasCode'
<1> USE DEF HasCode
<1>1. CASE UNCHANGED vars
  BY <1>1 DEF vars, session, history, Running
<1>2. CASE ParsePending \/ ParseNext \/ RuntimeLoaded \/ EndOfInput
  BY <1>2, ParsingFrame DEF Idle, UnderConstruction
<1>3. CASE BeginDefinition
  <2>1. /\ Running /\ gen = "none" /\ gen' # "none" /\ item' = item
        /\ protos' = [protos EXCEPT ![item.symbol] = item.params]
        /\ UNCHANGED <<jit, failed, externs>>
    BY <1>3 DEF BeginDefinition, Start
  <2>2. \A s \in Symbols : s # item.symbol => protos'[s] = protos[s]
    BY <2>1 DEF TypeOK
  <2> QED
    BY <2>1, <2>2
<1>4. CASE BeginExpression
  BY <1>4 DEF BeginExpression, Start, session, history
<1>5. CASE UseVariable \/ UseFunction \/ UseOperator \/ UseUnary
  BY <1>5, UseFrame DEF history
<1>6. CASE OperatorMissing \/ DefinitionDuplicated \/ ExpressionUnlinked
  BY <1>6 DEF OperatorMissing, DefinitionDuplicated, ExpressionUnlinked, Running
<1>7. CASE BodyFails
  <2>1. /\ Running /\ failed' = failed \union ({item.symbol} \intersect Symbols)
        /\ UNCHANGED <<protos, jit, externs>>
    BY <1>7 DEF BodyFails, Generated
  <2> QED
    BY <2>1
<1>8. CASE DefinitionAdded
  <2>1. /\ Running /\ gen # "none" /\ item # None /\ item.kind = "def"
        /\ jit' = [jit EXCEPT ![item.symbol] = [params |-> module[item.symbol], calls |-> calls]]
        /\ UNCHANGED <<protos, failed, externs>>
    BY <1>8 DEF DefinitionAdded, Generated, HandedOver, history
  <2>2. item.symbol \in Symbols /\ module[item.symbol] \in Params
    BY <2>1 DEF TypeOK, ItemOf, WellFormed, UnderConstruction
  <2>3. [params |-> module[item.symbol], calls |-> calls] # None
    BY <2>2, SessionAssumption DEF Compiled, TypeOK
  <2> QED
    BY <2>1, <2>2, <2>3 DEF TypeOK
<1>9. CASE HandleExtern
  <2>1. /\ Running /\ gen = "none" /\ gen' = gen
        /\ protos' = [protos EXCEPT ![item.symbol] = item.params]
        /\ externs' = externs \union {item.symbol}
        /\ UNCHANGED <<jit, failed>>
    BY <1>9 DEF HandleExtern, UnderConstruction
  <2>2. \A s \in Symbols : s # item.symbol => protos'[s] = protos[s]
    BY <2>1 DEF TypeOK
  <2> QED
    BY <2>1, <2>2
<1>10. CASE ExpressionRun
  <2>1. /\ Running /\ item # None /\ item.kind = "expr"
        /\ UNCHANGED <<protos, jit, failed, externs>>
    BY <1>10 DEF ExpressionRun, Generated, history
  <2>2. item.symbol \notin Symbols
    BY <2>1, SessionAssumption DEF TypeOK, WellFormed
  <2> QED
    BY <2>1, <2>2
<1> QED
  BY <1>1, <1>2, <1>3, <1>4, <1>5, <1>6, <1>7, <1>8, <1>9, <1>10 DEF Next

(* What may be called has code, or was declared extern, or failed.         *)
THEOREM CallableFunctionsHaveCode == Spec => []CallableHasCode
<1>1. Init => HasCode
  BY DEF Init, HasCode, EmptyModule
<1>2. TypeOK /\ UnderConstruction /\ HasCode /\ [Next]_vars => HasCode'
  BY HasCodeStep
<1>3. UnderConstruction /\ HasCode => CallableHasCode
  BY DEF UnderConstruction, HasCode, CallableHasCode, Idle
<1> QED
  BY <1>1, <1>2, <1>3, TypeInvariant, PTL DEF Spec

-----------------------------------------------------------------------------
(* The JIT never forgets and never replaces code, so the closure of a call *)
(* that links stays closed, unless the program defines a function of the   *)
(* host process that no expression was linked with before.                 *)
THEOREM CodeIsKept == Spec => RunnableStaysRunnable
<1> DEFINE Grows == \A s \in Symbols : /\ jit[s] # None => jit'[s] = jit[s]
                                       /\ s \in resolved => jit'[s] = jit[s]
<1>1. TypeOK /\ UnderConstruction /\ [Next]_vars => Grows
  <2> SUFFICES ASSUME TypeOK, UnderConstruction, [Next]_vars PROVE Grows
    OBVIOUS
  <2>1. CASE UNCHANGED jit
    BY <2>1
  <2>2. CASE DefinitionAdded
    BY <2>2 DEF DefinitionAdded, InJit, HandedOver, TypeOK
  <2>3. UNCHANGED jit \/ DefinitionAdded
    <3>1. CASE UNCHANGED vars
      BY <3>1 DEF vars
    <3>2. CASE ParsePending \/ ParseNext \/ RuntimeLoaded \/ EndOfInput
      BY <3>2, ParsingFrame
    <3>3. CASE UseVariable \/ UseFunction \/ UseOperator \/ UseUnary
      BY <3>3, UseFrame
    <3>4. CASE BeginDefinition \/ BeginExpression \/ OperatorMissing \/ BodyFails
      BY <3>4 DEF BeginDefinition, BeginExpression, OperatorMissing, BodyFails
    <3>5. CASE DefinitionDuplicated \/ HandleExtern \/ ExpressionRun \/ ExpressionUnlinked
      BY <3>5 DEF DefinitionDuplicated, HandleExtern, ExpressionRun, ExpressionUnlinked
    <3> QED
      BY <3>1, <3>2, <3>3, <3>4, <3>5 DEF Next
  <2> QED
    BY <2>1, <2>2, <2>3
<1>2. ASSUME Grows, NEW sites, Linkable(sites),
             ~\E p \in Process \ resolved : jit[p] = None /\ jit'[p] # None
      PROVE  Linkable(sites)'
  <2>1. PICK S \in SUBSET Symbols :
          /\ \A c \in sites : c.to \in S
          /\ \A s \in S : jit[s] # None => \A c \in jit[s].calls : c.to \in S
          /\ \A s \in S : jit[s] # None \/ s \in Process
    BY <1>2 DEF Linkable, Closed
  <2>2. ASSUME NEW s \in S
        PROVE  jit'[s] = jit[s]
    <3>1. CASE jit[s] # None \/ s \in resolved
      BY <1>2, <3>1
    <3>2. CASE jit[s] = None /\ s \notin resolved
      <4>1. s \in Process \ resolved
        BY <2>1, <3>2
      <4> QED
        BY <1>2, <3>2, <4>1
    <3> QED
      BY <3>1, <3>2
  <2>3. /\ \A s \in S : jit'[s] # None => \A c \in jit'[s].calls : c.to \in S
        /\ \A s \in S : jit'[s] # None \/ s \in Process
    BY <2>1, <2>2
  <2> QED
    BY <2>1, <2>3 DEF Linkable, Closed
<1>3. Grows => \A s \in Symbols :
        LET call == {[to |-> s, args |-> 0]}
        IN  Linkable(call) =>
              \/ Linkable(call)'
              \/ \E p \in Process \ resolved : jit[p] = None /\ jit'[p] # None
  BY <1>2
<1>4. TypeOK /\ UnderConstruction /\ [Next]_vars =>
        [\A s \in Symbols :
           LET call == {[to |-> s, args |-> 0]}
           IN  Linkable(call) =>
                 \/ Linkable(call)'
                 \/ \E p \in Process \ resolved : jit[p] = None /\ jit'[p] # None]_vars
  BY <1>1, <1>3
<1> QED
  BY <1>4, TypeInvariant, PTL DEF Spec, RunnableStaysRunnable

-----------------------------------------------------------------------------
(* Parsing puts an operator with a precedence into the table, and leaves   *)
(* an item behind it, or a syntax error.                                   *)
LEMMA ParsedOperators ==
  ASSUME TypeOK, UnderConstruction, ParsePending \/ ParseNext
  PROVE  /\ Running /\ item = None
         /\ status' \in {"running", "exited"}
         /\ \E text \in ItemOf :
              /\ WellFormed(text) /\ prec' = Installed(text)
              /\ text.symbol \in Operators /\ text.syntax # "early" =>
                   text.symbol \in leaked' \/ (item' # None /\ item'.symbol = text.symbol)
         /\ leaked \subseteq leaked'
         /\ item' # None => \A i \in 1 .. Len(item'.body) :
              item'.body[i].kind = "op" => prec'[item'.body[i].symbol] > 0
<1>1. PICK text, following : WellFormed(text) /\ Idle /\ Parse(text, following)
  <2>1. CASE ParsePending
    <3>1. pending # <<>> /\ Idle /\ Parse(Head(pending), Tail(pending))
      BY <2>1 DEF ParsePending
    <3>2. Len(pending) \in Nat \ {0} /\ Head(pending) = pending[1]
      BY <3>1, EmptySeq, HeadTailProperties DEF TypeOK
    <3>3. WellFormed(Head(pending))
      BY <3>2 DEF TypeOK
    <3> QED
      BY <3>1, <3>3
  <2>2. CASE ParseNext
    BY <2>2, SessionAssumption DEF ParseNext
  <2> QED
    BY <2>1, <2>2
<1>2. text \in ItemOf
  BY <1>1 DEF WellFormed
<1>3. Running /\ status = "running" /\ item = None /\ prec' = Installed(text)
  BY <1>1 DEF Idle, Running, Parse
<1>4. CASE SyntaxError(text)
  <2>1. /\ item' = None /\ status' \in {"running", "exited"} /\ text.syntax # "ok"
        /\ leaked' = IF text.syntax = "late" THEN leaked \union ({text.symbol} \intersect Operators)
                     ELSE leaked
    BY <1>4 DEF SyntaxError, Abandon
  <2>2. text.syntax # "early" => text.syntax = "late"
    BY <1>2, <2>1 DEF ItemOf
  <2> QED
    BY <1>1, <1>2, <1>3, <2>1, <2>2
<1>5. CASE Parsed(text, following)
  <2>1. PICK cut \in 1 .. Len(text.body) + 1 :
          /\ EndsAt(text.body, cut, prec')
          /\ item' = [text EXCEPT !.body = SubSeq(@, 1, cut - 1)]
    BY <1>5 DEF Parsed
  <2>2. /\ item' \in ItemOf /\ item'.symbol = text.symbol
        /\ Len(item'.body) = cut - 1
        /\ \A i \in 1 .. cut - 1 : item'.body[i] = text.body[i]
    BY <1>2, <2>1, CutItem
  <2>3. leaked' = leaked /\ status' = status
    BY <1>5 DEF Parsed
  <2>4. text.body \in Seq(UseOf) /\ Len(text.body) \in Nat
    BY <1>2, LenProperties DEF ItemOf
  <2>5. prec' \in [Operators -> 0 .. 100]
    BY <1>2, <1>3 DEF Installed, ItemOf, TypeOK
  <2>6. ASSUME NEW i \in 1 .. cut - 1, text.body[i].kind = "op"
        PROVE  prec'[text.body[i].symbol] > 0
    <3>1. text.body[i] \in UseOf
      BY <2>4, ElementOfSeq
    <3>2. prec'[text.body[i].symbol] \in 0 .. 100
      BY <2>5, <2>6, <3>1, UseSymbols
    <3>3. ~(prec'[text.body[i].symbol] <= 0)
      BY <2>1, <2>6 DEF EndsAt, Inactive
    <3>4. \A n \in 0 .. 100 : ~(n <= 0) => n > 0
      OBVIOUS
    <3> QED
      BY <3>2, <3>3, <3>4
  <2>7. item' # None
    BY <2>2, SessionAssumption
  <2> QED
    BY <1>1, <1>2, <1>3, <2>2, <2>3, <2>6, <2>7
<1> QED
  BY <1>1, <1>4, <1>5 DEF Parse

(* No step but a syntax error leaves an operator without a function.       *)
LEMMA ActiveOperatorsStep ==
  ASSUME TypeOK, UnderConstruction, ActiveOperators, [Next]_vars
  PROVE  ActiveOperators'
<1>1. CASE UNCHANGED vars
  BY <1>1 DEF vars, session, history, Running, ActiveOperators
<1>2. CASE ParsePending \/ ParseNext
  <2>1. /\ Running /\ item = None /\ status' \in {"running", "exited"}
        /\ leaked \subseteq leaked'
        /\ item' # None => \A i \in 1 .. Len(item'.body) :
             item'.body[i].kind = "op" => prec'[item'.body[i].symbol] > 0
    BY <1>2, ParsedOperators
  <2>2. PICK text \in ItemOf :
          /\ prec' = Installed(text)
          /\ text.symbol \in Operators /\ text.syntax # "early" =>
               text.symbol \in leaked' \/ (item' # None /\ item'.symbol = text.symbol)
    BY <1>2, ParsedOperators
  <2>3. gen' = "none" /\ protos' = protos
    BY <1>2, <2>1, ParsingFrame DEF UnderConstruction
  <2>4. ASSUME NEW o \in Operators \ Native, prec'[o] > 0, protos'[o] = None
        PROVE  o \in leaked' \/ (item' # None /\ gen' = "none" /\ item'.symbol = o)
    <3>1. CASE text.symbol = o /\ text.syntax # "early"
      BY <2>2, <2>3, <3>1
    <3>2. CASE ~(text.symbol = o /\ text.syntax # "early")
      <4>1. prec'[o] = prec[o]
        BY <2>2, <3>2 DEF Installed, TypeOK
      <4> QED
        BY <2>1, <2>3, <2>4, <4>1 DEF ActiveOperators
    <3> QED
      BY <3>1, <3>2
  <2> QED
    BY <2>1, <2>4 DEF ActiveOperators
<1>3. CASE RuntimeLoaded \/ EndOfInput
  BY <1>3 DEF RuntimeLoaded, EndOfInput, AllButSession, history, Idle, Running, ActiveOperators
<1>4. CASE BeginDefinition
  <2>1. item \in ItemOf /\ WellFormed(item) /\ item.symbol \in Symbols /\ item.params # None
    BY <1>4, SessionAssumption DEF BeginDefinition, TypeOK, ItemOf, WellFormed
  <2>2. /\ Running /\ status' = status /\ item' = item /\ leaked' = leaked
        /\ protos' = [protos EXCEPT ![item.symbol] = item.params]
        /\ prec' = IF item.symbol \in Operators THEN [prec EXCEPT ![item.symbol] = item.prec]
                   ELSE prec
    BY <1>4 DEF BeginDefinition, session
  <2>3. \A o \in Operators : o = item.symbol => item.prec > 0 /\ protos'[o] # None
    BY <2>1, <2>2 DEF WellFormed, TypeOK, Symbols
  <2>4. \A o \in Operators : o # item.symbol => prec'[o] = prec[o] /\ protos'[o] = protos[o]
    BY <2>2 DEF TypeOK, Symbols
  <2>5. \A o \in Operators : prec[o] > 0 => prec'[o] > 0
    BY <2>2, <2>3, <2>4 DEF TypeOK
  <2>6. \A i \in 1 .. Len(item.body) : item.body[i].kind = "op" => item.body[i].symbol \in Operators
    BY <2>1, ElementOfSeq, UseSymbols DEF ItemOf
  <2>7. \A i \in 1 .. Len(item.body) : item.body[i].kind = "op" => prec'[item.body[i].symbol] > 0
    BY <1>4, <2>2, <2>5, <2>6 DEF BeginDefinition, ActiveOperators
  <2>8. \A o \in Operators \ Native : prec'[o] > 0 /\ protos'[o] = None => o \in leaked
    BY <1>4, <2>2, <2>3, <2>4 DEF BeginDefinition, ActiveOperators
  <2>9. status' # "crashed"
    BY <2>2 DEF Running
  <2> QED
    BY <2>2, <2>7, <2>8, <2>9 DEF ActiveOperators
<1>5. CASE BeginExpression
  <2>1. item.symbol \notin Operators
    BY <1>5, SessionAssumption DEF BeginExpression, TypeOK, WellFormed, Symbols
  <2> QED
    BY <1>5, <2>1 DEF BeginExpression, session, history, Running, ActiveOperators
<1>6. CASE UseVariable \/ UseFunction \/ UseOperator \/ UseUnary
  <2>1. item # None /\ item.body # <<>> /\ Used
    BY <1>6 DEF UseVariable, UseFunction, UseOperator, UseUnary, Generating
  <2>2. /\ Len(item.body) \in Nat \ {0} /\ Len(item'.body) = Len(item.body) - 1
        /\ \A i \in 1 .. Len(item'.body) : item'.body[i] = item.body[i + 1]
    BY <2>1, UsedItem DEF Used
  <2>3. \A i \in 1 .. Len(item'.body) : i + 1 \in 1 .. Len(item.body)
    BY <2>2
  <2>4. Running => \A i \in 1 .. Len(item'.body) :
          item'.body[i].kind = "op" => prec[item'.body[i].symbol] > 0
    BY <2>1, <2>2, <2>3 DEF ActiveOperators
  <2>5. /\ Running /\ gen # "none" /\ UNCHANGED <<prec, protos, status, leaked>>
    BY <1>6, UseFrame DEF session, history
  <2> QED
    BY <2>4, <2>5 DEF ActiveOperators, Running
<1>7. CASE OperatorMissing
  <2>1. item # None /\ item.body # <<>> /\ Running /\ gen = "ok" /\ Head(item.body).kind = "op"
    BY <1>7 DEF OperatorMissing, Generating
  <2> DEFINE o == NextUse.symbol
  <2>2. o \in Operators \ Native /\ item.body[1] = NextUse /\ 1 \in 1 .. Len(item.body)
    <3>1. item.body \in Seq(UseOf)
      BY <2>1 DEF TypeOK, ItemOf
    <3>2. Head(item.body) \in UseOf /\ Head(item.body) = item.body[1] /\ Len(item.body) \in Nat \ {0}
      BY <2>1, <3>1, EmptySeq, HeadTailProperties
    <3>3. o \in Operators /\ item.body[1] = NextUse
      BY <2>1, <3>2, UseSymbols DEF NextUse
    <3>4. o \notin Native
      BY <1>7 DEF OperatorMissing
    <3>5. 1 \in 1 .. Len(item.body)
      BY <3>2
    <3> QED
      BY <3>3, <3>4, <3>5
  <2>3. prec[o] > 0
    BY <2>1, <2>2 DEF ActiveOperators, NextUse
  <2>4. protos[o] = None
    BY <1>7, <2>2, DeclaredType DEF OperatorMissing, Callee, TypeOK, Symbols
  <2>5. o \in leaked
    BY <2>1, <2>2, <2>3, <2>4 DEF ActiveOperators
  <2> QED
    BY <1>7, <2>5 DEF OperatorMissing, history, ActiveOperators, Running
<1>8. CASE BodyFails
  <2>1. /\ gen = "fails" /\ gen' = "none" /\ item' = None /\ Running
        /\ status' \in {"running", "exited"} /\ UNCHANGED <<protos, leaked>>
        /\ prec' = IF item.symbol \in Operators THEN [prec EXCEPT ![item.symbol] = 0] ELSE prec
    BY <1>8 DEF BodyFails, Generated, Abandon, Erased
  <2>2. \A o \in Operators : prec'[o] > 0 => prec[o] > 0
    BY <2>1 DEF TypeOK
  <2>3. \A o \in Operators \ Native : prec'[o] > 0 /\ protos'[o] = None => o \in leaked'
    BY <2>1, <2>2 DEF ActiveOperators
  <2> QED
    BY <2>1, <2>3 DEF ActiveOperators
<1>9. CASE DefinitionAdded \/ ExpressionRun
  <2>1. /\ Running /\ gen # "none" /\ item' = None
        /\ UNCHANGED <<prec, protos, leaked, status>>
    BY <1>9 DEF DefinitionAdded, ExpressionRun, Generated, NewModule, session, history
  <2> QED
    BY <2>1 DEF ActiveOperators, Running
<1>10. CASE DefinitionDuplicated \/ ExpressionUnlinked
  BY <1>10 DEF DefinitionDuplicated, ExpressionUnlinked, Running, ActiveOperators
<1>11. CASE HandleExtern
  <2>1. item \in ItemOf /\ item.symbol \in Symbols /\ item.params # None
    BY <1>11, SessionAssumption DEF HandleExtern, TypeOK, ItemOf, WellFormed
  <2>2. /\ Running /\ status' = status /\ item' = None /\ prec' = prec /\ leaked' = leaked
        /\ protos' = [protos EXCEPT ![item.symbol] = item.params]
    BY <1>11 DEF HandleExtern, session
  <2>3. \A o \in Operators : protos'[o] = IF o = item.symbol THEN item.params ELSE protos[o]
    BY <2>2 DEF TypeOK, Symbols
  <2> QED
    BY <2>1, <2>2, <2>3 DEF ActiveOperators, Running
<1> QED
  BY <1>1, <1>2, <1>3, <1>4, <1>5, <1>6, <1>7, <1>8, <1>9, <1>10, <1>11 DEF Next

(* Without a syntax error behind the operator of a prototype no session    *)
(* reaches the assertion of BinaryExprAST::codegen.                        *)
THEOREM OperatorsHaveFunctions == Spec => []ActiveOperatorHasFunction
<1>1. Init => ActiveOperators
  <2> SUFFICES ASSUME Init PROVE ActiveOperators
    OBVIOUS
  <2>1. \A o \in Operators \ Native : ~(prec[o] > 0)
    BY SessionAssumption DEF Init
  <2> QED
    BY <2>1 DEF Init, ActiveOperators
<1>2. TypeOK /\ UnderConstruction /\ ActiveOperators /\ [Next]_vars => ActiveOperators'
  BY ActiveOperatorsStep
<1>3. ActiveOperators => ActiveOperatorHasFunction
  BY DEF ActiveOperators, ActiveOperatorHasFunction, Idle
<1> QED
  BY <1>1, <1>2, <1>3, TypeInvariant, PTL DEF Spec

-----------------------------------------------------------------------------
(* Only a body that fails takes an operator out of the table.              *)
LEMMA OperatorsKeptStep ==
  ASSUME TypeOK, UnderConstruction, OperatorsKept, [Next]_vars
  PROVE  OperatorsKept'
<1> USE DEF OperatorsKept, OperatorLostOnlyByFailure
<1>1. CASE UNCHANGED vars
  BY <1>1 DEF vars, history
<1>2. CASE ParsePending \/ ParseNext
  <2>1. PICK text \in ItemOf : WellFormed(text) /\ prec' = Installed(text)
    BY <1>2, ParsedOperators
  <2>2. \A o \in Operators : prec'[o] = 0 => prec[o] = 0
    BY <2>1 DEF Installed, WellFormed, TypeOK
  <2>3. gen' = "none" /\ UNCHANGED <<jit, failed>>
    BY <1>2, ParsingFrame DEF Idle, UnderConstruction
  <2> QED
    BY <2>2, <2>3
<1>3. CASE RuntimeLoaded \/ EndOfInput
  BY <1>3 DEF RuntimeLoaded, EndOfInput, AllButSession, history
<1>4. CASE BeginDefinition
  <2>1. /\ item' = item /\ UNCHANGED <<jit, failed>>
        /\ prec' = IF item.symbol \in Operators THEN [prec EXCEPT ![item.symbol] = item.prec]
                   ELSE prec
    BY <1>4 DEF BeginDefinition
  <2>2. item.symbol \in Operators => item.prec > 0 /\ item.prec \in 0 .. 100
    BY <1>4 DEF BeginDefinition, TypeOK, WellFormed, ItemOf
  <2>3. \A o \in Operators : prec'[o] = 0 => prec[o] = 0
    BY <2>1, <2>2 DEF TypeOK
  <2>4. item.symbol \in Operators => prec'[item.symbol] > 0
    BY <2>1, <2>2 DEF TypeOK
  <2> QED
    BY <2>1, <2>3, <2>4
<1>5. CASE BeginExpression
  <2>1. item' = item /\ item.symbol \notin Operators /\ UNCHANGED <<prec, jit, failed>>
    BY <1>5, SessionAssumption DEF BeginExpression, TypeOK, WellFormed, Symbols, history
  <2> QED
    BY <2>1
<1>6. CASE UseVariable \/ UseFunction \/ UseOperator \/ UseUnary
  BY <1>6, UseFrame DEF history
<1>7. CASE OperatorMissing \/ DefinitionDuplicated
  BY <1>7 DEF OperatorMissing, DefinitionDuplicated, history
<1>8. CASE BodyFails
  <2>1. /\ gen' = "none" /\ jit' = jit
        /\ failed' = failed \union ({item.symbol} \intersect Symbols)
        /\ prec' = IF item.symbol \in Operators THEN [prec EXCEPT ![item.symbol] = 0] ELSE prec
    BY <1>8 DEF BodyFails, Erased
  <2>2. \A o \in Operators : o \notin failed' => prec'[o] = prec[o]
    BY <2>1 DEF TypeOK, Symbols
  <2> QED
    BY <2>1, <2>2
<1>9. CASE DefinitionAdded
  <2>1. /\ gen # "none" /\ gen' = "none" /\ UNCHANGED <<prec, failed>>
        /\ jit' = [jit EXCEPT ![item.symbol] = [params |-> module[item.symbol], calls |-> calls]]
    BY <1>9 DEF DefinitionAdded, Generated, HandedOver, NewModule, history
  <2>2. \A o \in Operators : o # item.symbol => jit'[o] = jit[o]
    BY <2>1 DEF TypeOK, Symbols
  <2>3. item.symbol \in Operators => prec[item.symbol] # 0
    BY <2>1
  <2> QED
    BY <2>1, <2>2, <2>3
<1>10. CASE HandleExtern
  BY <1>10 DEF HandleExtern, UnderConstruction
<1>11. CASE ExpressionRun \/ ExpressionUnlinked
  BY <1>11 DEF ExpressionRun, ExpressionUnlinked, NewModule, history
<1> QED
  BY <1>1, <1>2, <1>3, <1>4, <1>5, <1>6, <1>7, <1>8, <1>9, <1>10, <1>11 DEF Next

(* Only the failure of its own definition takes an operator away.          *)
THEOREM OperatorsStay == Spec => []OperatorLostOnlyByFailure
<1>1. Init => OperatorsKept
  <2> SUFFICES ASSUME Init PROVE OperatorsKept
    OBVIOUS
  <2>1. gen = "none" /\ prec = Standard /\ jit = EmptyModule
    BY DEF Init
  <2>2. \A o \in Operators : jit[o] = None /\ (Standard[o] > 0 => prec[o] # 0)
    BY <2>1 DEF EmptyModule, Symbols
  <2> QED
    BY <2>1, <2>2 DEF OperatorsKept, OperatorLostOnlyByFailure
<1>2. TypeOK /\ UnderConstruction /\ OperatorsKept /\ [Next]_vars => OperatorsKept'
  BY OperatorsKeptStep
<1>3. OperatorsKept => OperatorLostOnlyByFailure
  BY DEF OperatorsKept
<1> QED
  BY <1>1, <1>2, <1>3, TypeInvariant, PTL DEF Spec

-----------------------------------------------------------------------------
(* A name that is still known by one prototype keeps the one it had.       *)
LEMMA SamePrototype ==
  ASSUME TypeOK, item # None, item.symbol \in Symbols,
         protos' = [protos EXCEPT ![item.symbol] = item.params],
         NoteRedeclared(item.symbol, item.params)
  PROVE  /\ item.params \in Params /\ item.params # None
         /\ redeclared \subseteq redeclared'
         /\ protos'[item.symbol] = item.params
         /\ \A s \in Symbols : s # item.symbol => protos'[s] = protos[s]
         /\ \A s \in Symbols \ redeclared' : protos[s] # None => protos'[s] = protos[s]
         /\ \A o \in Operators : o = item.symbol => Len(protos'[o]) = 2
<1>1. item.params \in Params /\ item.params # None /\ WellFormed(item) /\ item.syntax = "ok"
  BY SessionAssumption DEF TypeOK, ItemOf
<1>2. redeclared \subseteq redeclared' /\ protos'[item.symbol] = item.params
  BY DEF NoteRedeclared, TypeOK
<1>3. \A s \in Symbols : s # item.symbol => protos'[s] = protos[s]
  BY DEF TypeOK
<1>4. item.symbol \notin redeclared' => protos[item.symbol] \in {None, item.params}
  BY DEF NoteRedeclared
<1>5. \A o \in Operators : o = item.symbol => Len(protos'[o]) = 2
  BY <1>1, <1>2 DEF WellFormed
<1> QED
  BY <1>1, <1>2, <1>3, <1>4, <1>5

(* Module, code and calls follow the one prototype of a name.              *)
LEMMA OnePrototypeStep ==
  ASSUME TypeOK, UnderConstruction, OnePrototype, [Next]_vars
  PROVE  OnePrototype'
<1>1. CASE UNCHANGED vars
  BY <1>1 DEF vars, history, OnePrototype
<1>2. CASE ParsePending \/ ParseNext \/ RuntimeLoaded \/ EndOfInput
  BY <1>2, ParsingFrame DEF OnePrototype
<1>3. CASE BeginDefinition
  <2>1. /\ item # None /\ item.symbol \in Symbols
        /\ protos' = [protos EXCEPT ![item.symbol] = item.params]
        /\ NoteRedeclared(item.symbol, item.params)
        /\ module' = Declared(protos', item.symbol) /\ calls' = {} /\ jit' = jit
    BY <1>3 DEF BeginDefinition, Start, TypeOK, WellFormed, ItemOf
  <2>2. protos' \in [Symbols -> Params \union {None}]
    BY <2>1, SamePrototype DEF TypeOK
  <2>3. \A s \in Symbols : module'[s] # None => module'[s] = module[s] \/ module'[s] = protos'[s]
    BY <2>1 DEF Declared, TypeOK
  <2>4. \A s \in Symbols \ redeclared' : module[s] # None => module[s] = protos'[s]
    BY <2>1, SamePrototype DEF OnePrototype
  <2>5. \A s \in Symbols \ redeclared' : module'[s] # None => module'[s] = protos'[s]
    BY <2>3, <2>4
  <2>6. \A s \in Symbols \ redeclared' :
          /\ jit[s] # None => jit[s].params = protos'[s]
          /\ \A t \in Symbols : jit[t] # None => \A c \in jit[t].calls :
               c.to = s => protos'[s] # None /\ c.args = Len(protos'[s])
    <3>1. ASSUME NEW s \in Symbols \ redeclared'
          PROVE  /\ s \in Symbols \ redeclared
                 /\ protos[s] # None => protos'[s] = protos[s]
                 /\ jit[s] # None => protos[s] # None
      <4>1. s \in Symbols \ redeclared /\ (protos[s] # None => protos'[s] = protos[s])
        BY <2>1, SamePrototype
      <4>2. jit[s] # None => protos[s] # None
        BY <4>1, SessionAssumption DEF OnePrototype, TypeOK, Compiled
      <4> QED
        BY <4>1, <4>2
    <3> QED
      BY <3>1 DEF OnePrototype
  <2>7. \A o \in Operators : protos'[o] # None => Len(protos'[o]) = 2
    BY <2>1, SamePrototype DEF OnePrototype, Symbols
  <2> QED
    BY <2>1, <2>5, <2>6, <2>7 DEF OnePrototype
<1>4. CASE BeginExpression
  BY <1>4 DEF BeginExpression, Start, history, OnePrototype
<1>5. ASSUME Running, NEW s \in Symbols, protos' = protos, jit' = jit, redeclared' = redeclared,
             gen # "none", module' = Declared(protos, s),
             NEW n, calls' \in {calls, calls \union {[to |-> s, args |-> n]}},
             calls' # calls => Callee(s) # None,
             calls' # calls /\ s \notin redeclared => n = Len(Callee(s))
      PROVE  OnePrototype'
  <2>0. \A t \in Symbols : module'[t] = module[t] \/ module'[t] = protos[t]
    BY <1>5 DEF Declared, TypeOK
  <2>1. \A t \in Symbols \ redeclared : module'[t] # None => module'[t] = protos[t]
    BY <2>0 DEF OnePrototype
  <2>2. s \notin redeclared /\ Callee(s) # None => Callee(s) = protos[s]
    BY <1>5, <2>1 DEF Callee
  <2>3. \A t \in Symbols \ redeclared : \A c \in calls' :
          c.to = t => protos[t] # None /\ c.args = Len(protos[t])
    <3>1. \A t \in Symbols \ redeclared : \A c \in calls :
            c.to = t => protos[t] # None /\ c.args = Len(protos[t])
      BY <1>5 DEF OnePrototype
    <3>2. CASE calls' = calls
      BY <3>1, <3>2
    <3>3. CASE calls' # calls
      BY <1>5, <2>2, <3>1, <3>3
    <3> QED
      BY <3>2, <3>3
  <2> QED
    BY <1>5, <2>1, <2>3 DEF OnePrototype
<1>6. CASE UseVariable \/ UseUnary
  BY <1>6, UseFrame DEF UseVariable, UseUnary, history, OnePrototype
<1>7. CASE UseFunction \/ UseOperator
  <2>1. /\ Running /\ gen # "none" /\ protos' = protos /\ jit' = jit /\ redeclared' = redeclared
        /\ item # None /\ item.body # <<>> /\ Used
    BY <1>7, UseFrame DEF history, UseFunction, UseOperator, Generating
  <2>2. NextUse \in UseOf
    BY <2>1, UsedItem DEF Used, NextUse
  <2>3. CASE UseFunction
    <3>1. NextUse.symbol \in Symbols
      BY <2>2, <2>3, UseSymbols DEF UseFunction, Generating, NextUse, Symbols
    <3> QED
      BY <1>5, <2>1, <2>3, <3>1 DEF UseFunction, Emit
  <2>4. CASE UseOperator
    <3>1. NextUse.symbol \in Symbols /\ NextUse.symbol \in Operators /\ NextUse.args = 2
      BY <2>2, <2>4, UseSymbols DEF UseOperator, Generating, NextUse, Symbols
    <3>2. CASE UNCHANGED <<module, calls>>
      BY <2>1, <3>2, UseFrame, <1>7 DEF OnePrototype
    <3>3. CASE Callee(NextUse.symbol) # None /\ module' = Declared(protos, NextUse.symbol) /\ Emit
      <4> DEFINE o == NextUse.symbol
      <4>1. Callee(o) = IF module[o] # None THEN module[o] ELSE protos[o]
        BY <3>1, DeclaredType DEF Callee, TypeOK
      <4>2. o \notin redeclared => Callee(o) = protos[o] /\ Len(protos[o]) = 2
        BY <3>1, <3>3, <4>1 DEF OnePrototype
      <4>3. calls' \in {calls, calls \union {[to |-> o, args |-> NextUse.args]}}
        BY <3>3 DEF Emit
      <4>4. o \notin redeclared => NextUse.args = Len(Callee(o))
        BY <3>1, <4>2
      <4>5. o \in Symbols /\ module' = Declared(protos, o) /\ Callee(o) # None
        BY <3>1, <3>3
      <4> HIDE DEF o
      <4> QED
        BY <1>5, <2>1, <4>3, <4>4, <4>5
    <3> QED
      BY <2>4, <3>2, <3>3 DEF UseOperator
  <2> QED
    BY <1>7, <2>3, <2>4
<1>8. CASE OperatorMissing \/ DefinitionDuplicated
  BY <1>8 DEF OperatorMissing, DefinitionDuplicated, history, OnePrototype
<1>9. CASE BodyFails
  <2>1. /\ gen' = "none" /\ UNCHANGED <<protos, jit, redeclared>>
        /\ \A s \in Symbols : module'[s] = None \/ module'[s] = module[s]
    BY <1>9 DEF BodyFails
  <2> QED
    BY <2>1 DEF OnePrototype
<1>10. CASE DefinitionAdded
  <2>1. /\ gen # "none" /\ item.symbol \in Symbols /\ module[item.symbol] # None
        /\ gen' = "none" /\ module' = EmptyModule /\ UNCHANGED <<protos, redeclared>>
        /\ jit' = [jit EXCEPT ![item.symbol] = [params |-> module[item.symbol], calls |-> calls]]
    BY <1>10, SessionAssumption DEF DefinitionAdded, Generated, HandedOver, NewModule, history,
       TypeOK, WellFormed, ItemOf, UnderConstruction
  <2>2. /\ jit'[item.symbol].params = module[item.symbol] /\ jit'[item.symbol].calls = calls
        /\ \A t \in Symbols : t # item.symbol => jit'[t] = jit[t]
    BY <2>1 DEF TypeOK
  <2>3. \A s \in Symbols \ redeclared : jit'[s] # None => jit'[s].params = protos[s]
    BY <2>1, <2>2 DEF OnePrototype
  <2>4. \A s \in Symbols \ redeclared : \A t \in Symbols : jit'[t] # None =>
          \A c \in jit'[t].calls : c.to = s => protos[s] # None /\ c.args = Len(protos[s])
    BY <2>1, <2>2 DEF OnePrototype
  <2> QED
    BY <2>1, <2>3, <2>4 DEF OnePrototype, EmptyModule
<1>11. CASE HandleExtern
  <2>1. /\ item # None /\ item.symbol \in Symbols
        /\ protos' = [protos EXCEPT ![item.symbol] = item.params]
        /\ NoteRedeclared(item.symbol, item.params)
        /\ gen = "none" /\ gen' = gen /\ jit' = jit
        /\ module' = [module EXCEPT ![item.symbol] = IF @ # None THEN @ ELSE item.params]
    BY <1>11 DEF HandleExtern, TypeOK, WellFormed, ItemOf, UnderConstruction
  <2>2. \A s \in Symbols : module'[s] # None =>
          module'[s] = module[s] \/ (s = item.symbol /\ module'[s] = item.params)
    BY <2>1 DEF TypeOK
  <2>3. \A s \in Symbols \ redeclared' : module[s] # None => module[s] = protos'[s]
    BY <2>1, SamePrototype DEF OnePrototype
  <2>4. \A s \in Symbols \ redeclared' : module'[s] # None => module'[s] = protos'[s]
    BY <2>1, <2>2, <2>3, SamePrototype
  <2>5. \A s \in Symbols \ redeclared' :
          /\ jit[s] # None => jit[s].params = protos'[s]
          /\ \A t \in Symbols : jit[t] # None => \A c \in jit[t].calls :
               c.to = s => protos'[s] # None /\ c.args = Len(protos'[s])
    <3>1. ASSUME NEW s \in Symbols \ redeclared'
          PROVE  /\ s \in Symbols \ redeclared
                 /\ protos[s] # None => protos'[s] = protos[s]
                 /\ jit[s] # None => protos[s] # None
      <4>1. s \in Symbols \ redeclared /\ (protos[s] # None => protos'[s] = protos[s])
        BY <2>1, SamePrototype
      <4>2. jit[s] # None => protos[s] # None
        BY <4>1, SessionAssumption DEF OnePrototype, TypeOK, Compiled
      <4> QED
        BY <4>1, <4>2
    <3> QED
      BY <3>1 DEF OnePrototype
  <2>6. \A o \in Operators : protos'[o] # None => Len(protos'[o]) = 2
    BY <2>1, SamePrototype DEF OnePrototype, Symbols
  <2> QED
    BY <2>1, <2>4, <2>5, <2>6 DEF OnePrototype
<1>12. CASE ExpressionRun \/ ExpressionUnlinked
  BY <1>12 DEF ExpressionRun, ExpressionUnlinked, NewModule, EmptyModule, history, OnePrototype
<1> QED
  BY <1>1, <1>2, <1>3, <1>4, <1>6, <1>7, <1>8, <1>9, <1>10, <1>11, <1>12 DEF Next

(* Compiled calls and compiled functions agree on the arguments, whatever  *)
(* is defined, declared, failed and redefined in between.                  *)
THEOREM CallsAgreeWithCode == Spec => []CallsMatchDefinitions
<1>1. Init => OnePrototype
  BY DEF Init, OnePrototype, EmptyModule, Symbols
<1>2. TypeOK /\ UnderConstruction /\ OnePrototype /\ [Next]_vars => OnePrototype'
  BY OnePrototypeStep
<1>3. OnePrototype => CallsMatchDefinitions
  BY DEF OnePrototype, CallsMatchDefinitions
<1> QED
  BY <1>1, <1>2, <1>3, TypeInvariant, PTL DEF Spec

=============================================================================
