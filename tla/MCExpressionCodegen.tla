------------------------- MODULE MCExpressionCodegen -------------------------
(***************************************************************************)
(* All bodies made of one outer form over a few inner ones, and programs   *)
(* of two functions for what one may leave behind for the next.            *)
(***************************************************************************)
EXTENDS ScopeReference, TLC

Tree(node, name, kids) == [node |-> node, name |-> name, kids |-> kids]
One == Tree("number", "1", <<>>)
Var(x) == Tree("variable", x, <<>>)
Add(l, r) == Tree("binary", "+", <<l, r>>)
Set(x, r) == Tree("binary", "=", <<Var(x), r>>)
IfThen(c, t, e) == Tree("if", Null, <<c, t, e>>)
For(x, s, e, d, b) == Tree("for", x, <<s, e, d, b>>)
Let(bs, b) == Tree("var", Null, Append(bs, b))
Is(x, e) == Tree("binding", x, <<e>>)

(* "a" is the parameter, "b" is bound only inside.                         *)
Inner ==
  {One, Var("a"), Var("b"), Set("a", Var("a")), Tree("binary", "=", <<One, One>>),
   IfThen(Var("a"), One, Var("a")),
   For("a", One, Var("a"), Null, Var("a")), For("b", Var("a"), Var("b"), One, Var("b")),
   Let(<<Is("a", Var("a"))>>, Var("a")), Let(<<Is("b", Null)>>, Add(Var("a"), Var("b"))),
   Let(<<Is("a", One), Is("b", Var("a"))>>, Var("b")),
   Let(<<Is("a", One), Is("a", Var("a"))>>, Var("a"))}

Few == {Var("a"), Set("b", One), IfThen(Var("a"), One, Var("b")), For("b", One, One, Var("a"), Var("b"))}

Bodies ==
  {Add(s, t) : s, t \in Inner} \union
  {IfThen(One, s, t) : s, t \in Inner} \union
  {Add(For("b", s, One, t, u), Var("a")) : s \in Few, t \in Few \union {Null}, u \in Inner} \union
  {Let(<<Is("b", s), Is(x, t)>>, u) : x \in {"a", "b"}, s \in Few \union {Null}, t \in Few, u \in Inner} \union
  {Set("a", s) : s \in Inner}

(* A call and a loop as the left side of an assignment.                    *)
Casts ==
  {Add(Tree("binary", "=", <<l, Var("a")>>), Var("b")) :
     l \in {Tree("call", "a", <<>>), Tree("call", "f", <<>>), For("a", One, Var("b"), Null, One)}}

(* Names of the source; followed by 1, "a" is "b".                         *)
McNumbered(x, n) == IF x = "a" /\ n = 1 THEN "b" ELSE x \o ToString(n)

Declared(kernel, params, declared, body) ==
  [kernel |-> kernel, params |-> params, declared |-> declared, body |-> body]
Def(kernel, params, body) == Declared(kernel, params, params, body)

McPrograms ==
  {<<Def(k, <<"a">>, b)>> : k \in BOOLEAN, b \in Bodies \union Casts} \union
  {<<Def(k, <<"a">>, b), Def(m, <<"b">>, c)>> : k, m \in BOOLEAN, b, c \in Inner} \union
  {<<Def(k, ps, b)>> : k \in BOOLEAN, b \in Inner,
                       ps \in {<<>>, <<"a", "b">>, <<"b", "a">>, <<"a", "a">>, <<"a", "a", "b">>}} \union
  {<<Declared(FALSE, <<"a">>, ps, b)>> : b \in Inner, ps \in {<<"b">>, <<"b", "a">>, <<>>}}

(* The programs' bodies and their parts; Depth is the longest path.        *)
WithKids(ts) == ts \union (UNION {{t.kids[i] : i \in 1 .. Len(t.kids)} : t \in ts} \ {Null})
McTrees ==
  {t \in WithKids(WithKids(WithKids(WithKids(WithKids(Bodies \union Casts \union Inner))))) : t.node # "binding"}
=============================================================================
