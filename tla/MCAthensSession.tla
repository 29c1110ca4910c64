-------------------------- MODULE MCAthensSession --------------------------
(***************************************************************************)
(* Sessions over two functions, the native operator "+", the operator "|"  *)
(* of the runtime library and an operator "@" the user may define.  "g"    *)
(* is a function of the host process as well.                              *)
(***************************************************************************)
EXTENDS AthensSession

McStandard == [o \in Operators |-> IF o = "+" THEN 20 ELSE 0]

Variable(x) == [kind |-> "var", symbol |-> x, args |-> 0]
CallOf(f, n) == [kind |-> "call", symbol |-> f, args |-> n]
Apply(o) == [kind |-> "op", symbol |-> o, args |-> 2]

Text(kind, s, params, p, syntax, body) ==
  [kind |-> kind, symbol |-> s, params |-> params, prec |-> p, syntax |-> syntax, body |-> body]

McRuntime == <<Text("def", "|", <<"x", "y">>, 5, "ok", <<Variable("y")>>)>>

(* A number; a variable; a call that matches or not; an operator.          *)
Bodies ==
  {<<>>, <<Variable("x")>>, <<CallOf("f", 0)>>, <<CallOf("f", 1)>>, <<CallOf("g", 1)>>,
   <<Apply("@")>>, <<Apply("+")>>, <<Apply("|")>>, <<CallOf("f", 1), Apply("@")>>}

McItems ==
  {Text("def", f, params, 0, "ok", body) :
     f \in Functions, params \in {<<>>, <<"x">>}, body \in Bodies}
  \union {Text("extern", f, params, 0, "ok", <<>>) :
     f \in Functions, params \in {<<>>, <<"x">>}}
  \union {Text("def", "@", <<"x", "y">>, 30, "ok", body) :
     body \in {<<Variable("x")>>, <<Variable("z")>>, <<Apply("@")>>}}
  \union {Text("extern", "@", <<"x", "y">>, 30, "ok", <<>>)}
  \union {Text("def", o, <<"x", "y">>, 30, "ok", body) :
     o \in {"+", "|"}, body \in {<<Variable("x")>>, <<Variable("z")>>}}
  \union {Text("def", "@", <<>>, 30, syntax, <<>>) : syntax \in {"early", "late"}}
  \union {Text("expr", None, <<>>, 0, "ok", body) : body \in Bodies}
=============================================================================
