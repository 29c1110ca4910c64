------------------------- MODULE ExpressionReference -------------------------
(***************************************************************************)
(* Which tree the tokens of an Athens expression stand for, stated by what *)
(* precedence, left associativity and "a construct extends as far as it    *)
(* can" demand of a tree and not by how one is found.                      *)
(*                                                                         *)
(* A derivation is [tree, open]: open holds the least precedence of every  *)
(* expression that ends where the derivation ends.  An operator that binds *)
(* at least that tightly belongs into that expression, so what stands left *)
(* of an operator is open to weaker operators only.                        *)
(***************************************************************************)
EXTENDS PrattParser, FiniteSets

Closed(t) == [tree |-> t, open |-> {}]

(* e is the last part of t, an expression of least precedence m.           *)
EndingIn(e, m, t) == [tree |-> t, open |-> e.open \union {m}]

(* Derivations(s, i, j, m): of s[i..j] as an expression of least           *)
(* precedence m.  Lists and bindings are sequences of trees.               *)
RECURSIVE Derivations(_, _, _, _), Arguments(_, _, _), Bindings(_, _, _)

Trees(s, i, j) == {d.tree : d \in Derivations(s, i, j, 0)}

Arguments(s, i, j) ==
  {<<t>> : t \in Trees(s, i, j)} \union
  UNION {{<<t>> \o rest : t \in Trees(s, i, k - 1), rest \in Arguments(s, k + 1, j)} :
         k \in {k \in i .. j : s[k] = ","}}

Bindings(s, i, j) ==
  LET one(k) ==    (* the binding s[i..k]                                  *)
        CASE k < i \/ s[i] \notin Names -> {}
          [] k = i -> {Tree("binding", s[i], <<Null>>)}
          [] OTHER -> IF s[i + 1] = "="
                      THEN {Tree("binding", s[i], <<t>>) : t \in Trees(s, i + 2, k)} ELSE {}
  IN  {<<b>> : b \in one(j)} \union
      UNION {{<<b>> \o rest : b \in one(k - 1), rest \in Bindings(s, k + 1, j)} :
             k \in {k \in i .. j : s[k] = ","}}

Derivations(s, i, j, m) ==
  LET at(token) == {k \in i .. j : s[k] = token}
      literal ==
        {Closed(Tree("number", s[i], <<>>)) : k \in {k \in {i} : i = j /\ s[k] \in Numbers}} \union
        {Closed(Tree("variable", s[i], <<>>)) : k \in {k \in {i} : i = j /\ s[k] \in Names}}
      paren ==
        IF i < j /\ s[i] = "(" /\ s[j] = ")"
        THEN {Closed(t) : t \in Trees(s, i + 1, j - 1)} ELSE {}
      call ==
        IF i + 1 < j /\ s[i] \in Names /\ s[i + 1] = "(" /\ s[j] = ")"
        THEN {Closed(Tree("call", s[i], args)) : args \in
                IF i + 2 = j THEN {<<>>} ELSE Arguments(s, i + 2, j - 1)} ELSE {}
      unary ==
        IF i < j /\ s[i] \in Operators \ TwoChar
        THEN {EndingIn(e, 100, Tree("unary", s[i], <<e.tree>>)) :
                e \in Derivations(s, i + 1, j, 100)} ELSE {}
      conditional ==
        IF i < j /\ s[i] = "if"
        THEN UNION {{EndingIn(e, 0, Tree("if", Null, <<c, t, e.tree>>)) :
                       c \in Trees(s, i + 1, k - 1), t \in Trees(s, k + 1, l - 1),
                       e \in Derivations(s, l + 1, j, 0)} :
                    k \in at("then"), l \in at("else")} ELSE {}
      loop ==
        IF i + 2 < j /\ s[i] = "for" /\ s[i + 1] \in Names /\ s[i + 2] = "="
        THEN UNION {{EndingIn(e, 0, Tree("for", s[i + 1], range \o <<e.tree>>)) :
                       range \in {r \in Arguments(s, i + 3, k - 1) : Len(r) = 3} \union
                                 {r \o <<Null>> : r \in {r \in Arguments(s, i + 3, k - 1) : Len(r) = 2}},
                       e \in Derivations(s, k + 1, j, 0)} :
                    k \in at("in")} ELSE {}
      local ==
        IF i < j /\ s[i] = "var"
        THEN UNION {{EndingIn(e, 0, Tree("var", Null, Append(bs, e.tree))) :
                       bs \in Bindings(s, i + 1, k - 1), e \in Derivations(s, k + 1, j, 0)} :
                    k \in at("in")} ELSE {}
      binary ==
        UNION {{EndingIn(r, Binding(s[k]) + 1, Tree("binary", s[k], <<l.tree, r.tree>>)) :
                  l \in {l \in Derivations(s, i, k - 1, Binding(s[k])) :
                           \A q \in l.open : Binding(s[k]) < q},
                  r \in Derivations(s, k + 1, j, Binding(s[k]) + 1)} :
               k \in {k \in (i + 1) .. (j - 1) : Binding(s[k]) > 0 /\ Binding(s[k]) >= m}}
  IN  IF i > j THEN {}
      ELSE literal \union paren \union call \union unary
           \union conditional \union loop \union local \union binary

-----------------------------------------------------------------------------
(* ParserEngine::parseExpression accepts every expression whole and returns *)
(* the only tree the grammar gives it, also where if, for and var end an   *)
(* operand and where an operator binds as tightly as a prefix.             *)
AcceptsExpressions ==
  LET trees == Trees(input, 1, Len(input))
  IN  mode = "done" /\ trees # {} =>
        ~errors /\ ~silent /\ pos = Len(input) /\ trees = {tree}

(* When nothing was rejected (by a diagnostic of a handler or silently by  *)
(* a builder), what parseExpression consumed is the longest beginning of   *)
(* the text that is an expression, and the tree is its own.                *)
TakesLongestExpression ==
  mode = "done" /\ ~errors /\ ~silent =>
    /\ Trees(input, 1, pos) = {tree}
    /\ \A n \in pos + 1 .. Len(input) : Trees(input, 1, n) = {}

(* athens_grammar_pack.h:192 and 178: a binding's initializer is null only *)
(* when there is no "=" (here: in the first binding of a var expression).  *)
NullInitializerIsAbsent ==
  mode = "done" /\ ~errors /\ tree # Null /\ tree.node = "var" /\ input[1] = "var"
    => (input[3] = "=" => tree.kids[1].kids[1] # Null)
=============================================================================
