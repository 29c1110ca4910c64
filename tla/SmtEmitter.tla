----------------------------- MODULE SmtEmitter -----------------------------
(***************************************************************************)
(* SmtEmitter (langs/dublin/src/dublin.cpp): the query for one assertion   *)
(* of a verify block, as straight-line code in the smt dialect.  A query   *)
(* is a sequence of instructions [name, op, from, width, value]; width 0   *)
(* is the type of booleans.  Numeral writes the counter that ends every    *)
(* name.  Also what the tools behind it make of a query: mlir-translate    *)
(* refuses an operation the dialect does not have, a name defined twice    *)
(* and a literal its type cannot hold, and Z3 looks for an input that      *)
(* satisfies all that is asserted.                                         *)
(***************************************************************************)
EXTENDS Integers, Sequences, SequencesExt, FiniteSetsExt

CONSTANTS
  DefaultWidth,  (* of a literal nothing else is known of: 32              *)
  Numeral,       (* the decimal representation of the counter, a sequence  *)
                 (* for 0, 1, 2, ... up to where the instances get         *)
  NoTree, Rejected, Undefined

Bool == 0        (* the type of booleans among the widths                  *)
Unknown == -1    (* expected: std::nullopt                                 *)

Predicates == {"ult", "ule", "ugt", "uge"}
Comparisons == {"<", "<=", ">", ">="}
Arithmetic == {"+", "-", "*"}

(* The emitter: what it has written, the next number, the symbols and the  *)
(* value [name, width] of the expression it has just emitted.  status is   *)
(* "ok" until an error is found or a null expression is dereferenced, and  *)
(* then nothing happens any more.                                          *)
Nothing == [name |-> "", width |-> Unknown]
Fresh == [out |-> <<>>, next |-> 0, symbols |-> <<>>, value |-> Nothing,
          left |-> Nothing, status |-> "ok"]
Broken(st, how) == IF st.status = "ok" THEN [st EXCEPT !.status = how] ELSE st
Require(st, condition) == IF condition THEN st ELSE Broken(st, "error")
Instruction(name, op, from, width, value) ==
  [name |-> name, op |-> op, from |-> from, width |-> width, value |-> value]

(* Mutant of NextName: the hint alone.                                     *)
NextNameUnnumbered(st, hint) == hint
NextName(st, hint) == hint \o Numeral[st.next + 1]

(* One line of output that defines a name of type type; width is the type  *)
(* the line is written with.                                               *)
Line(st, name, op, from, width, value, type) ==
  [st EXCEPT !.out = Append(@, Instruction(name, op, from, width, value)),
             !.next = @ + 1,
             !.value = [name |-> name, width |-> type]]
Define(st, hint, op, from, width, value, type) ==
  IF st.status # "ok" THEN st
  ELSE Line(st, NextName(st, hint), op, from, width, value, type)

Negate(st, hint) == Define(st, hint, "not", <<st.value.name>>, Bool, 0, Bool)

-----------------------------------------------------------------------------
RECURSIVE EmitExpr(_, _, _)

EmitInteger(st, e, width) ==
  Define(Require(st, width # Bool), "c", "constant", <<>>, width, e.value, width)

EmitVariable(st, e) ==
  IF e.name \in DOMAIN st.symbols
  THEN [st EXCEPT !.value = st.symbols[e.name]]
  ELSE Broken(st, "error")

(* Behind an operand.                                                      *)
Unary(op, st) ==
  IF op = "!" THEN Negate(Require(st, st.value.width = Bool), "not")
  ELSE Define(Require(st, st.value.width # Bool), "neg", "neg", <<st.value.name>>,
              st.value.width, 0, st.value.width)

(* "-" passes on what is expected of it, "!" expects a boolean.            *)
EmitUnary(st, e, expected) ==
  IF e.name \notin {"!", "-"} THEN Broken(st, "error")
  ELSE Unary(e.name, EmitExpr(st, e.kids[1], IF e.name = "!" THEN Bool ELSE expected))

(* Mutant of RightExpected: the right operand is emitted on its own.       *)
RightExpectedNothing(left) == Unknown
(* The right operand is expected to have the type of the left one.         *)
RightExpected(left) == left.width

(* Both operands of one type, which arithmetic and order want to be bits.  *)
Paired(st, left, bits) ==
  Require([st EXCEPT !.left = left],
          left.width = st.value.width /\ (bits => left.width # Bool))
EmitRight(st, r, bits) == Paired(EmitExpr(st, r, RightExpected(st.value)), st.value, bits)
EmitOperands(st, l, r, expected, bits) == EmitRight(EmitExpr(st, l, expected), r, bits)

(* The hint of an arithmetic result is the name of the operation.          *)
Written == [o \in Arithmetic |-> IF o = "+" THEN "add" ELSE IF o = "-" THEN "sub" ELSE "mul"]

(* Behind both operands: an operation on them with a result of type type.  *)
Operation(op, st, hint, type) ==
  Define(st, hint, op, <<st.left.name, st.value.name>>, st.left.width, 0, type)

Binary(op, st) ==
  CASE op \in Arithmetic  -> Operation(op, st, Written[op], st.left.width)
    [] op \in Comparisons -> Operation(op, st, "cmp", Bool)
    [] op = "==" -> Operation("==", st, "eq", Bool)
    [] op = "!=" -> Negate(Operation("==", st, "eq", Bool), "neq")

EmitBinary(st, e, expected) ==
  IF e.name \notin Arithmetic \union Comparisons \union {"==", "!="} THEN Broken(st, "error")
  ELSE Binary(e.name, EmitOperands(st, e.kids[1], e.kids[2], expected, e.name \notin {"==", "!="}))

EmitCall(st, e) ==
  IF e.name \notin Predicates \/ Len(e.kids) # 2 THEN Broken(st, "error")
  ELSE Operation(e.name, EmitOperands(st, e.kids[1], e.kids[2], Unknown, TRUE), "ucmp", Bool)

(* A null expression (a float, or an operand that is one) is dereferenced. *)
EmitExpr(st, e, expected) ==
  IF st.status # "ok" THEN st
  ELSE IF e = NoTree THEN Broken(st, "undefined")
  ELSE CASE e.node = "integer" -> EmitInteger(st, e, IF expected = Unknown THEN DefaultWidth ELSE expected)
         [] e.node = "bool" -> Define(st, "b", "bool", <<>>, Bool, e.value, Bool)
         [] e.node = "variable" -> EmitVariable(st, e)
         [] e.node = "unary" -> EmitUnary(st, e, expected)
         [] e.node = "binary" -> EmitBinary(st, e, expected)
         [] e.node = "call" -> EmitCall(st, e)

-----------------------------------------------------------------------------
Bind(st, x) ==
  IF st.status # "ok" THEN st
  ELSE [st EXCEPT !.symbols = [y \in DOMAIN @ \union {x} |-> IF y = x THEN st.value ELSE @[y]]]

Declare(st, arg) ==
  Bind(Define(Require(st, arg.name \notin DOMAIN st.symbols),
              arg.name, "declare", <<arg.name>>, arg.width, 0, arg.width), arg.name)

IsCondition(st) == Require(st, st.value.width = Bool)
EmitCondition(st, e) == IsCondition(EmitExpr(st, e, Unknown))

AssertValue(st) ==
  IF st.status # "ok" THEN st
  ELSE [st EXCEPT !.out = Append(@, Instruction("", "assert", <<st.value.name>>, Bool, 0))]

Assume(st, e) == AssertValue(EmitCondition(st, e))
Deny(st, e) == AssertValue(Negate(EmitCondition(st, e), "bad"))

(* Mutant of Assumed: only the assertion just before is assumed.           *)
AssumedLast(b, i) == SubSeq(b.assertions, IF i > 1 THEN i - 1 ELSE 1, i - 1)
Assumed(b, i) == SubSeq(b.assertions, 1, i - 1)

Returned(st) ==
  CASE st.status = "ok" -> st.out
    [] st.status = "error" -> Rejected
    [] st.status = "undefined" -> Undefined

QueryFor(b, i) ==
  Returned(Deny(FoldLeft(Assume, FoldLeft(Declare, Fresh, b.args), Assumed(b, i)), b.assertions[i]))

-----------------------------------------------------------------------------
(* The tools.                                                              *)

Defines(query) == {k \in 1 .. Len(query) : query[k].op # "assert"}

(* The operations of the dialect among those the emitter writes: of the    *)
(* arithmetic on bit vectors there are smt.bv.add, neg and mul, no sub.    *)
Dialect == {"declare", "constant", "bool", "not", "neg", "+", "*", "=="} \union Comparisons \union Predicates

InDialect(query) == \A k \in Defines(query) : query[k].op \in Dialect
NamesDiffer(query) == \A j, k \in Defines(query) : query[j].name = query[k].name => j = k

Understood(query) ==
  /\ InDialect(query) /\ NamesDiffer(query)
  /\ \A k \in Defines(query) : query[k].op = "constant" => query[k].value < 2 ^ query[k].width

Signed(n, width) == IF n < 2 ^ (width - 1) THEN n ELSE n - 2 ^ width
Truth(b) == IF b THEN 1 ELSE 0

(* Bit vectors are numbers below 2^width, booleans 0 and 1.                *)
Apply(op, a, b, w) ==
  LET s(n) == Signed(n, w)
  IN  CASE op = "+" -> (a + b) % 2 ^ w
        [] op = "*" -> (a * b) % 2 ^ w
        [] op = "==" -> Truth(a = b)
        [] op = "<"  -> Truth(s(a) < s(b))
        [] op = "<=" -> Truth(s(a) <= s(b))
        [] op = ">"  -> Truth(s(a) > s(b))
        [] op = ">=" -> Truth(s(a) >= s(b))
        [] op = "ult" -> Truth(a < b)
        [] op = "ule" -> Truth(a <= b)
        [] op = "ugt" -> Truth(a > b)
        [] op = "uge" -> Truth(a >= b)

Run(query, input) ==
  LET Step(env, line) ==
        LET v(n) == env[line.from[n]]
            value == CASE line.op = "declare" -> input[line.from[1]]
                       [] line.op \in {"constant", "bool"} -> line.value
                       [] line.op = "not" -> 1 - v(1)
                       [] line.op = "neg" -> (-v(1)) % 2 ^ line.width
                       [] line.op = "assert" -> v(1)
                       [] OTHER -> Apply(line.op, v(1), v(2), line.width)
        IN  IF line.op = "assert"
            THEN [env EXCEPT !["holds"] = @ * value]
            ELSE [n \in DOMAIN env \union {line.name} |-> IF n = line.name THEN value ELSE env[n]]
  IN  FoldLeft(Step, [n \in {"holds"} |-> 1], query)["holds"]

(* The values the declared functions may have.                             *)
Assignments(query) ==
  LET declares == {query[k] : k \in {k \in 1 .. Len(query) : query[k].op = "declare"}}
      widths == {line.width : line \in declares}
      range  == 0 .. 2 ^ (IF widths = {} THEN 0 ELSE Max(widths)) - 1
  IN  {in \in [{line.from[1] : line \in declares} -> range] :
         \A line \in declares : in[line.from[1]] < 2 ^ line.width}

Satisfying(query) == {in \in Assignments(query) : Run(query, in) = 1}
=============================================================================
