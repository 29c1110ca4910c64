---------------------------- MODULE DublinBlocks ----------------------------
(***************************************************************************)
(* The blocks and files Dublin is checked with, over arguments of one and  *)
(* two bits; literals nothing is known of have three.  Numbers are written *)
(* in base 2, so that a counter gets a second digit early.                 *)
(***************************************************************************)
EXTENDS DublinVerifier, SequencesExt

McTypeWidth == [i1 |-> 1, i8 |-> 2, i32 |-> 3]
McNumeral == <<"0", "1", "10", "11", "100", "101", "110", "111", "1000", "1001", "1010", "1011",
               "1100", "1101", "1110", "1111", "10000", "10001", "10010", "10011", "10100">>

Emitter == INSTANCE SmtEmitter WITH DefaultWidth <- 3, Numeral <- McNumeral
Meaning == INSTANCE VerifyReference WITH DefaultWidth <- 3

-----------------------------------------------------------------------------
Node(node, name, kids) == [node |-> node, name |-> name, kids |-> kids]
Lit(n) == [node |-> "integer", name |-> "", kids |-> <<>>, value |-> n]
Const(b) == [node |-> "bool", name |-> "", kids |-> <<>>, value |-> b]
Var(x) == Node("variable", x, <<>>)
Bin(op, l, r) == Node("binary", op, <<l, r>>)
Not(e) == Node("unary", "!", <<e>>)
Neg(e) == Node("unary", "-", <<e>>)
Call(f, as) == Node("call", f, as)
Arg(x, w) == [name |-> x, width |-> w]

Ops == {"+", "-", "*", "==", "!=", "<", "<=", ">", ">="}
Leaves == {Var("x"), Var("z"), Lit(1), Lit(3), Const(1), NoTree}
Simple ==
  Leaves \union {Bin(op, l, r) : op \in Ops, l \in {Var("x"), Lit(1)}, r \in {Var("x"), Lit(3)}}
  \union {Call(f, <<Var("x"), l>>) : f \in {"ult", "ule", "ugt", "uge"}, l \in {Var("y"), Lit(2)}}
  \union {Call("ult", <<Var("x")>>), Call("foo", <<Var("x")>>), Not(Const(0)), Neg(Var("x")), Neg(Const(1))}
Deep ==
  {Bin(op, l, r) : op \in {"==", "<", "-"}, l \in Simple, r \in {Var("x"), Const(1)}}
  \union {Bin(op, r, l) : op \in {"!=", ">=", "*"}, l \in Simple, r \in {Var("x"), Lit(2)}}
  \union {Not(e) : e \in Simple}
  \union {Bin(op, Neg(Bin("+", Var("x"), Lit(1))), Var("x")) : op \in Ops}

(* Conditions that assume, contradict or weaken one another.               *)
Chain == {Const(1), Const(0), Bin("<", Var("x"), Lit(2)), Bin("==", Var("x"), Var("y")),
          Bin(">", Bin("+", Var("x"), Lit(1)), Var("x")), Call("ule", <<Var("x"), Var("y")>>),
          Bin("!=", Bin("*", Var("x"), Var("y")), Lit(3)), Lit(1), NoTree}

TwoBytes == <<Arg("x", 2), Arg("y", 2)>>
Mixed == <<Arg("x", 2), Arg("z", 1)>>

(* Names that read like hints, with and without digits at the end, next to *)
(* operations that count: both hints and numbers can meet.                 *)
Numbered ==
  {[args |-> <<Arg(x, 2)>>, assertions |-> <<Bin("==", Bin("+", Bin("+", Var(x), Lit(1)), Lit(1)), Lit(1))>>] :
     x \in {"c", "add", "eq", "bad", "c1", "c10", "add1", "bad1", "eq1"}}

(* Small blocks: parsing and the loop over several assertions.             *)
McBlocks ==
  {[args |-> <<>>, assertions |-> <<e>>] : e \in {Const(0), Const(1), Var("x"), NoTree}}
  \union {[args |-> as, assertions |-> <<e>>] : as \in {Mixed}, e \in Deep}
  \union {[args |-> TwoBytes, assertions |-> <<e>>] : e \in Chain \union {Var("y")}}
  \union {[args |-> TwoBytes, assertions |-> <<d, e>>] : d, e \in Chain}
  \union {[args |-> TwoBytes, assertions |-> <<c, d, e>>] :
            c, d \in {Bin("<", Var("x"), Lit(2)), Bin("==", Var("x"), Var("y")), Const(1)}, e \in Chain}
  \union {[args |-> <<Arg("x", 2), Arg("x", 1)>>, assertions |-> <<Const(1)>>]}
  \union Numbered

(* Files that are blocks, and files with one token missing, doubled or     *)
(* replaced.                                                               *)
Broken ==
  LET text == Meaning!Text([args |-> Mixed, assertions |-> <<Const(1), Var("z")>>])
      other == {text[n] : n \in 1 .. Len(text)} \union {Meaning!Word("other", "%")}
  IN  {SubSeq(text, 1, n - 1) \o SubSeq(text, n + 1, Len(text)) : n \in 1 .. Len(text)}
      \union {SubSeq(text, 1, n) \o SubSeq(text, n, Len(text)) : n \in 1 .. Len(text)}
      \union {[text EXCEPT ![n] = t] : n \in 1 .. Len(text), t \in other}
      \union {SubSeq(text, 1, n) : n \in 0 .. Len(text)}

(* The blocks a broken file can hold.                                      *)
Mended ==
  LET names == {"v", "x", "i8", "z", "i1"}
  IN  {[args |-> as, assertions |-> es] :
         as \in {<<Arg(m, v), Arg(n, w)>> : m, n \in names, v, w \in {1, 2}},
         es \in {<<Const(1)>>, <<Const(1), Const(1)>>}
               \union {<<Const(1), Var(n)>> : n \in names} \union {<<Var(n), Var("z")>> : n \in names}}

(* The emitter, the tools and the meaning of a condition, tabulated: TLC   *)
(* evaluates these constants once, and completely what stands left of @@.  *)
Queries == UNION {{b} \X (1 .. Len(b.assertions)) : b \in McBlocks \union Mended}
Emitted == [q \in Queries |-> Emitter!QueryFor(q[1], q[2])] @@ <<>>
McEmit(b, i) == Emitted[<<b, i>>]

Translated == {q \in {Emitted[p] : p \in Queries} \ {Rejected, Undefined} : Emitter!Understood(q)}
Solved == [q \in Translated |-> Emitter!Satisfying(q)] @@ <<>>
McTranslatable(q) == q \in DOMAIN Solved
McModels(q) == Solved[q]

Conditions == UNION {ToSet(b.assertions) \X {b.args} : b \in McBlocks \union Mended}
Met == [c \in Conditions |-> Meaning!TrueOn(c[1], c[2])] @@ <<>>
McMeets(e, as) == Met[<<e, as>>]
McInputs(as) == Meaning!InputsOf(as)

McTexts == {Meaning!Text(b) : b \in McBlocks}
McFiles == McTexts \union Broken
=============================================================================
