-------------------------- MODULE VerifyReference --------------------------
(***************************************************************************)
(* What a verify block means, without an emitter: how it is written, which *)
(* expressions have a type, and on which inputs a condition is true.       *)
(*                                                                         *)
(* An expression may have several types: a literal has every width, an     *)
(* operation the widths its operands have in common.  Where the operands   *)
(* of a comparison leave more than one width open, it is DefaultWidth.     *)
(***************************************************************************)
EXTENDS Integers, Sequences, FiniteSetsExt, SequencesExt

CONSTANTS DefaultWidth, TypeWidth, NoTree

Widths == {TypeWidth[t] : t \in DOMAIN TypeWidth} \union {DefaultWidth}
Bool == 0

-----------------------------------------------------------------------------
(* The text of a block.                                                    *)

Word(kind, lexeme) == [kind |-> kind, lexeme |-> lexeme, tree |-> NoTree]
TypeName(width) == CHOOSE t \in DOMAIN TypeWidth : TypeWidth[t] = width
Expression(e) ==
  IF e # NoTree /\ e.node = "variable" THEN Word("identifier", e.name)
  ELSE [kind |-> "expression", lexeme |-> "", tree |-> e]

Argument(as, i) ==
  (IF i = 1 THEN <<>> ELSE <<Word("comma", ",")>>)
  \o <<Word("identifier", as[i].name), Word("identifier", TypeName(as[i].width))>>
Assertion(e) == <<Word("assert", "assert"), Expression(e), Word("semicolon", ";")>>

Text(b) ==
  <<Word("verify", "verify"), Word("identifier", "v"), Word("lparen", "(")>>
  \o FlattenSeq([i \in 1 .. Len(b.args) |-> Argument(b.args, i)])
  \o <<Word("rparen", ")")>>
  \o FlattenSeq([i \in 1 .. Len(b.assertions) |-> Assertion(b.assertions[i])])

-----------------------------------------------------------------------------
(* Types.                                                                  *)

Declared(as, x) == {as[i].width : i \in {i \in 1 .. Len(as) : as[i].name = x}}
Order == {"<", "<=", ">", ">=", "ult", "ule", "ugt", "uge"}

RECURSIVE Types(_, _)
Types(e, as) ==
  IF e = NoTree THEN {}
  ELSE LET kid(i) == Types(e.kids[i], as)
           both == IF Len(e.kids) = 2 THEN kid(1) \intersect kid(2) ELSE {}
       IN  CASE e.node = "integer"  -> {w \in Widths : e.value < 2 ^ w}
             [] e.node = "bool"     -> {Bool}
             [] e.node = "variable" -> Declared(as, e.name)
             [] e.node = "unary"    -> IF e.name = "!" THEN kid(1) \intersect {Bool} ELSE kid(1) \ {Bool}
             [] e.node = "call" /\ e.name \notin Order -> {}
             [] e.name \in {"==", "!="} -> IF both = {} THEN {} ELSE {Bool}
             [] e.name \in Order -> IF both \ {Bool} = {} THEN {} ELSE {Bool}
             [] OTHER -> both \ {Bool}

OperandType(e, as) ==
  LET both == Types(e.kids[1], as) \intersect Types(e.kids[2], as)
  IN  IF Cardinality(both) = 1 THEN CHOOSE w \in both : TRUE ELSE DefaultWidth

-----------------------------------------------------------------------------
(* Values: integers modulo 2^w, of which order takes the representative    *)
(* between -2^(w-1) and 2^(w-1)-1, or the one between 0 and 2^w-1.         *)

Unsigned(n, w) == n % 2 ^ w
TwosComplement(n, w) ==
  CHOOSE m \in -(2 ^ (w - 1)) .. 2 ^ (w - 1) - 1 : (m - n) % 2 ^ w = 0

RECURSIVE Value(_, _, _, _), True(_, _, _)

Value(e, w, as, in) ==
  LET kid(i) == Value(e.kids[i], w, as, in)
  IN  CASE e.node = "integer"  -> e.value
        [] e.node = "variable" -> in[e.name]
        [] e.node = "unary"    -> -kid(1)
        [] e.name = "+" -> kid(1) + kid(2)
        [] e.name = "-" -> kid(1) - kid(2)
        [] e.name = "*" -> kid(1) * kid(2)

True(e, as, in) ==
  LET w == OperandType(e, as)
      u(i) == Unsigned(Value(e.kids[i], w, as, in), w)
      s(i) == TwosComplement(Value(e.kids[i], w, as, in), w)
      same == IF w = Bool THEN True(e.kids[1], as, in) = True(e.kids[2], as, in)
              ELSE u(1) = u(2)
  IN  CASE e.node = "bool"  -> e.value = 1
        [] e.node = "unary" -> ~True(e.kids[1], as, in)
        [] e.name = "=="  -> same
        [] e.name = "!="  -> ~same
        [] e.name = "<"   -> s(1) < s(2)
        [] e.name = "<="  -> s(1) <= s(2)
        [] e.name = ">"   -> s(1) > s(2)
        [] e.name = ">="  -> s(1) >= s(2)
        [] e.name = "ult" -> u(1) < u(2)
        [] e.name = "ule" -> u(1) <= u(2)
        [] e.name = "ugt" -> u(1) > u(2)
        [] e.name = "uge" -> u(1) >= u(2)

InputsOf(as) ==
  LET width(x) == CHOOSE w \in Declared(as, x) : TRUE
      names == {as[i].name : i \in 1 .. Len(as)}
  IN  {in \in [names -> 0 .. 2 ^ Max(Widths) - 1] :
         \A x \in names : in[x] < 2 ^ width(x)}

WellTyped(e, as) == Bool \in Types(e, as)
TrueOn(e, as) == {in \in InputsOf(as) : WellTyped(e, as) /\ True(e, as, in)}

-----------------------------------------------------------------------------
(* Where the emitter fixes a type before it knows it: a comparison whose   *)
(* leftmost operand is a literal.                                          *)

RECURSIVE Leftmost(_), Parts(_)
Leftmost(e) == IF e = NoTree \/ e.kids = <<>> THEN e ELSE Leftmost(e.kids[1])
Parts(e) == {e} \union IF e = NoTree THEN {} ELSE UNION {Parts(e.kids[i]) : i \in 1 .. Len(e.kids)}
Binaries(e, names) == {p \in Parts(e) \ {NoTree} : p.node = "binary" /\ p.name \in names}
LiteralFirst(e) ==
  \E p \in Parts(e) \ (Binaries(e, {"+", "-", "*"}) \union {NoTree}) :
    p.node \in {"binary", "call"} /\ Leftmost(p) # NoTree /\ Leftmost(p).node = "integer"
Subtracts(e) == Binaries(e, {"-"}) # {}
=============================================================================
