----------------------------- MODULE ScopeProofs -----------------------------
(***************************************************************************)
(* For every program and back end: a complete function loads and stores,   *)
(* at every occurrence of a name, the innermost binding around it, and no  *)
(* function is rejected for a name that is bound.                          *)
(***************************************************************************)
EXTENDS ScopeReference, ExpressionCodegenProofs

-----------------------------------------------------------------------------
(* The subtree a path leads to.                                            *)
Follows(d, t, path, m) ==
  d = [n \in 0 .. m |-> IF n = 0 THEN t ELSE d[n - 1].kids[path[n]]]

LEMMA DownExists ==
  ASSUME NEW t, NEW path, NEW k \in Nat
  PROVE  \E d : Follows(d, t, path, k)
<1> DEFINE Bad == {m \in Nat : ~ \E d : Follows(d, t, path, m)}
<1>1. ASSUME Bad # {} PROVE FALSE
  <2>1. PICK m \in Bad : \A j \in Bad : m <= j
    BY <1>1, LeastExists
  <2>2. CASE m = 0
    <3>1. PICK d : d = [n \in 0 .. 0 |-> t]
      OBVIOUS
    <3>2. Follows(d, t, path, 0)
      BY <3>1 DEF Follows
    <3> QED
      BY <2>2, <3>2
  <2>3. CASE m # 0
    <3>1. PICK j \in Nat : m = j + 1
      <4>1. m - 1 \in Nat /\ m = (m - 1) + 1
        BY <2>3
      <4> QED
        BY <4>1
    <3>2. PICK d : Follows(d, t, path, j)
      <4>1. ~(m <= j)
        BY <3>1
      <4> QED
        BY <4>1, <2>1
    <3>3. PICK e : e = [n \in 0 .. m |-> IF n = m THEN d[j].kids[path[m]] ELSE d[n]]
      OBVIOUS
    <3>4. \A n \in 0 .. m : e[n] = IF n = 0 THEN t ELSE e[n - 1].kids[path[n]]
      <4> TAKE n \in 0 .. m
      <4>1. CASE n = m
        <5>1. j \in 0 .. m /\ j # m /\ n - 1 = j /\ n # 0
          BY <4>1, <3>1
        <5> QED
          BY <5>1, <4>1, <3>3
      <4>2. CASE n # m
        <5>1. n \in 0 .. j
          BY <4>2, <3>1
        <5>2. e[n] = d[n]
          BY <4>2, <3>3
        <5>3. d[n] = IF n = 0 THEN t ELSE d[n - 1].kids[path[n]]
          BY <5>1, <3>2 DEF Follows
        <5>4. n # 0 => n - 1 \in 0 .. m /\ n - 1 # m
          BY <5>1, <3>1
        <5>5. n # 0 => e[n - 1] = d[n - 1]
          BY <5>4, <3>3
        <5> QED
          BY <5>2, <5>3, <5>5
      <4> QED
        BY <4>1, <4>2
    <3>5. Follows(e, t, path, m)
      BY <3>3, <3>4 DEF Follows
    <3> QED
      BY <3>5, <2>1
  <2> QED
    BY <2>2, <2>3
<1> QED
  BY <1>1

LEMMA SubtreeFollows ==
  ASSUME NEW t, NEW path, Len(path) \in Nat
  PROVE  \E d : Follows(d, t, path, Len(path)) /\ Subtree(t, path) = d[Len(path)]
<1> DEFINE down == CHOOSE d : Follows(d, t, path, Len(path))
<1>1. Follows(down, t, path, Len(path))
  BY DownExists
<1>2. Subtree(t, path) = down[Len(path)]
  BY DEF Subtree, Follows
<1> QED
  BY <1>1, <1>2

LEMMA FollowSame ==
  ASSUME NEW t, NEW p, NEW q, NEW d, NEW e, NEW a \in Nat, NEW b \in Nat,
         Follows(d, t, p, a), Follows(e, t, q, b),
         NEW m \in Nat, m <= a, m <= b, \A n \in 1 .. m : p[n] = q[n]
  PROVE  d[m] = e[m]
<1> DEFINE Bad == {n \in Nat : n <= m /\ d[n] # e[n]}
<1>1. \A n \in 0 .. m : /\ d[n] = IF n = 0 THEN t ELSE d[n - 1].kids[p[n]]
                        /\ e[n] = IF n = 0 THEN t ELSE e[n - 1].kids[q[n]]
  <2> TAKE n \in 0 .. m
  <2>1. n \in 0 .. a /\ n \in 0 .. b
    OBVIOUS
  <2> QED
    BY <2>1 DEF Follows
<1>2. ASSUME Bad # {} PROVE FALSE
  <2>1. PICK n \in Bad : \A j \in Bad : n <= j
    BY <1>2, LeastExists
  <2>2. CASE n = 0
    BY <2>1, <2>2, <1>1
  <2>3. CASE n # 0
    <3>1. n \in 1 .. m /\ n - 1 \in Nat /\ n - 1 <= m /\ ~(n <= n - 1)
      BY <2>1, <2>3
    <3>2. d[n - 1] = e[n - 1]
      BY <3>1, <2>1
    <3>3. n \in 0 .. m /\ p[n] = q[n]
      BY <3>1
    <3> QED
      BY <3>2, <3>3, <2>1, <2>3, <1>1
  <2> QED
    BY <2>2, <2>3
<1> QED
  BY <1>2

LEMMA SubtreeRoot ==
  ASSUME NEW t
  PROVE  Subtree(t, <<>>) = t
<1>1. Len(<<>>) = 0
  OBVIOUS
<1>2. PICK d : Follows(d, t, <<>>, 0) /\ Subtree(t, <<>>) = d[0]
  BY <1>1, SubtreeFollows
<1> QED
  BY <1>2 DEF Follows

LEMMA SubtreeTurn ==
  ASSUME NEW t, NEW p \in Seq(Nat), NEW i \in Nat
  PROVE  Subtree(t, Append(p, i)) = Subtree(t, p).kids[i]
<1>1. PICK m \in Nat : m = Len(p)
  BY LenProperties
<1>2. PICK q \in Seq(Nat) : q = Append(p, i)
  BY PushIs
<1>3. Len(q) = m + 1 /\ q[m + 1] = i /\ \A n \in 1 .. m : p[n] = q[n]
  BY <1>1, <1>2, PushIs
<1>4. PICK d : Follows(d, t, p, m) /\ Subtree(t, p) = d[m]
  BY <1>1, SubtreeFollows
<1>5. PICK e : Follows(e, t, q, m + 1) /\ Subtree(t, q) = e[m + 1]
  <2>1. m + 1 \in Nat
    OBVIOUS
  <2> QED
    BY <2>1, <1>3, SubtreeFollows
<1>6. d[m] = e[m]
  BY <1>3, <1>4, <1>5, FollowSame
<1>7. e[m + 1] = e[m].kids[i]
  <2>1. m + 1 \in 0 .. m + 1 /\ m + 1 # 0 /\ (m + 1) - 1 = m
    OBVIOUS
  <2> QED
    BY <2>1, <1>3, <1>5 DEF Follows
<1> QED
  BY <1>2, <1>4, <1>5, <1>6, <1>7

LEMMA PrefixIs ==
  ASSUME NEW p \in Seq(Nat), NEW i \in Nat, NEW k \in 0 .. Len(p)
  PROVE  /\ Prefix(p, k) \in Seq(Nat)
         /\ Prefix(Append(p, i), k) = Prefix(p, k)
         /\ Prefix(Append(p, i), Len(p)) = p
<1>1. PICK m \in Nat : m = Len(p)
  BY LenProperties
<1>2. PICK q \in Seq(Nat) : q = Append(p, i)
  BY PushIs
<1>3. Len(q) = m + 1 /\ \A n \in 1 .. m : p[n] = q[n]
  BY <1>1, <1>2, PushIs
<1>4. \A n \in 1 .. m : p[n] \in Nat /\ q[n] \in Nat
  BY <1>1, <1>3, ElementOfSeq
<1>5. ASSUME NEW j \in 0 .. m, NEW s \in Seq(Nat), \A n \in 1 .. m : s[n] = p[n]
      PROVE  /\ SubSeq(s, 1, j) \in Seq(Nat) /\ Len(SubSeq(s, 1, j)) = j
             /\ \A n \in 1 .. j : SubSeq(s, 1, j)[n] = p[n]
  <2>1. \A n \in 1 .. j : n \in 1 .. m /\ s[n] = p[n] /\ s[n] \in Nat
    BY <1>4, <1>5
  <2>2. j \in Int /\ 1 \in Int
    OBVIOUS
  <2>3. /\ SubSeq(s, 1, j) \in Seq(Nat)
        /\ Len(SubSeq(s, 1, j)) = IF 1 <= j THEN j - 1 + 1 ELSE 0
        /\ \A n \in 1 .. j - 1 + 1 : SubSeq(s, 1, j)[n] = s[1 + n - 1]
    BY <2>1, <2>2, SubSeqProperties
  <2>4. j - 1 + 1 = j /\ (IF 1 <= j THEN j - 1 + 1 ELSE 0) = j /\ \A n \in 1 .. j : 1 + n - 1 = n
    OBVIOUS
  <2> QED
    BY <2>3, <2>4, <1>5
<1>6. SubSeq(q, 1, k) = SubSeq(p, 1, k) /\ SubSeq(p, 1, k) \in Seq(Nat)
  BY <1>1, <1>3, <1>5, SeqEqual
<1>7. SubSeq(q, 1, m) = p
  <2>1. m \in 0 .. m
    OBVIOUS
  <2>2. /\ SubSeq(q, 1, m) \in Seq(Nat) /\ Len(SubSeq(q, 1, m)) = m
        /\ \A n \in 1 .. m : SubSeq(q, 1, m)[n] = p[n]
    BY <2>1, <1>3, <1>5
  <2> QED
    BY <2>2, <1>1, SeqEqual
<1> QED
  BY <1>1, <1>2, <1>6, <1>7 DEF Prefix

-----------------------------------------------------------------------------
(* The places of a tree.                                                   *)
Levels(l, t, m) ==
  l = [n \in 0 .. m |->
        IF n = 0 THEN {<<>>}
        ELSE UNION {{Append(p, i) : i \in KidsAt(t, p)} : p \in l[n - 1]}]

LEMMA LevelsExist ==
  ASSUME NEW t, NEW k \in Nat
  PROVE  \E l : Levels(l, t, k)
<1> DEFINE Next1(s) == UNION {{Append(p, i) : i \in KidsAt(t, p)} : p \in s}
           Bad == {m \in Nat : ~ \E l : Levels(l, t, m)}
<1>1. ASSUME Bad # {} PROVE FALSE
  <2>1. PICK m \in Bad : \A j \in Bad : m <= j
    BY <1>1, LeastExists
  <2>2. CASE m = 0
    <3>1. PICK l : l = [n \in 0 .. 0 |-> {<<>>}]
      OBVIOUS
    <3>2. Levels(l, t, 0)
      BY <3>1 DEF Levels
    <3> QED
      BY <2>2, <3>2
  <2>3. CASE m # 0
    <3>1. PICK j \in Nat : m = j + 1
      <4>1. m - 1 \in Nat /\ m = (m - 1) + 1
        BY <2>3
      <4> QED
        BY <4>1
    <3>2. PICK d : Levels(d, t, j)
      <4>1. ~(m <= j)
        BY <3>1
      <4> QED
        BY <4>1, <2>1
    <3>3. \A n \in 0 .. j : d[n] = IF n = 0 THEN {<<>>} ELSE Next1(d[n - 1])
      BY <3>2 DEF Levels
    <3> HIDE DEF Next1
    <3>4. PICK e : e = [n \in 0 .. m |-> IF n = m THEN Next1(d[j]) ELSE d[n]]
      OBVIOUS
    <3>5. \A n \in 0 .. m : e[n] = IF n = 0 THEN {<<>>} ELSE Next1(e[n - 1])
      <4> TAKE n \in 0 .. m
      <4>1. CASE n = m
        <5>1. j \in 0 .. m /\ j # m /\ n - 1 = j /\ n # 0
          BY <4>1, <3>1
        <5>2. e[n - 1] = d[j] /\ e[n] = Next1(d[j])
          BY <5>1, <4>1, <3>4
        <5> QED
          BY <5>1, <5>2
      <4>2. CASE n # m
        <5>1. n \in 0 .. j
          BY <4>2, <3>1
        <5>2. e[n] = d[n]
          BY <4>2, <3>4
        <5>3. n # 0 => n - 1 \in 0 .. m /\ n - 1 # m
          BY <5>1, <3>1
        <5>4. n # 0 => e[n - 1] = d[n - 1]
          BY <5>3, <3>4
        <5>5. CASE n = 0
          BY <5>5, <5>1, <5>2, <3>3
        <5>6. CASE n # 0
          <6>1. d[n] = Next1(d[n - 1])
            BY <5>6, <5>1, <3>3
          <6> QED
            BY <6>1, <5>2, <5>4, <5>6
        <5> QED
          BY <5>5, <5>6
      <4> QED
        BY <4>1, <4>2
    <3>6. Levels(e, t, m)
      <4>1. e = [n \in 0 .. m |-> IF n = 0 THEN {<<>>} ELSE Next1(e[n - 1])]
        BY <3>4, <3>5
      <4> QED
        BY <4>1 DEF Levels, Next1
    <3> QED
      BY <3>6, <2>1
  <2> QED
    BY <2>2, <2>3
<1> QED
  BY <1>1

LEMMA PlacesAreLevels ==
  ASSUME NEW t
  PROVE  \E l : Levels(l, t, Depth) /\ Places(t) = UNION {l[n] : n \in 0 .. Depth}
<1> DEFINE level == CHOOSE l : Levels(l, t, Depth)
<1>1. Levels(level, t, Depth)
  BY DepthAssumption, LevelsExist
<1>2. Places(t) = UNION {level[n] : n \in 0 .. Depth}
  BY DEF Places, Levels
<1> QED
  BY <1>1, <1>2

(* Every subtree is one of Trees or a binding of a var.                    *)
IsBinding(s) ==
  /\ s.node = "binding" /\ Len(s.kids) = 1 /\ s.name \in Names
  /\ s.kids[1] = Null \/ s.kids[1] \in Trees
Shaped(s) == s \in Trees \/ IsBinding(s)

LEMMA TreeIs ==
  ASSUME NEW s \in Trees
  PROVE  /\ IsTree(s, Trees) /\ s # Null /\ s.node # "binding" /\ Len(s.kids) \in Nat
         /\ \A i \in 1 .. Len(s.kids) : s.kids[i] # Null => Shaped(s.kids[i])
         /\ s.node # "var" => \A i \in 1 .. Len(s.kids) : s.kids[i] # Null => s.kids[i] \in Trees
<1>1. IsTree(s, Trees)
  BY TreesAssumption
<1>2. s # Null /\ s.node # "binding"
  BY <1>1, NullAssumption DEF IsTree
<1>3. CASE s.node \in {"number", "variable"}
  <2>1. s.kids = <<>>
    BY <1>1, <1>3 DEF IsTree
  <2>2. Len(s.kids) = 0
    BY <2>1
  <2>3. \A i \in 1 .. Len(s.kids) : FALSE
    BY <2>2
  <2> QED
    BY <1>1, <1>2, <2>2, <2>3
<1>4. CASE s.node \in {"unary", "binary", "call", "if"}
  <2>1. s.kids \in Seq(Trees)
    BY <1>1, <1>4 DEF IsTree
  <2>2. Len(s.kids) \in Nat /\ \A i \in 1 .. Len(s.kids) : s.kids[i] \in Trees
    BY <2>1, LenProperties, ElementOfSeq
  <2> QED
    BY <1>1, <1>2, <2>2 DEF Shaped
<1>5. CASE s.node = "for"
  <2>1. Len(s.kids) = 4 /\ {s.kids[1], s.kids[2], s.kids[4]} \union ({s.kids[3]} \ {Null}) \subseteq Trees
    BY <1>1, <1>5 DEF IsTree
  <2>2. ASSUME NEW i \in 1 .. 4, s.kids[i] # Null PROVE s.kids[i] \in Trees
    <3>1. i = 1 \/ i = 2 \/ i = 3 \/ i = 4
      OBVIOUS
    <3> QED
      BY <2>1, <2>2, <3>1
  <2> QED
    BY <1>1, <1>2, <2>1, <2>2 DEF Shaped
<1>6. CASE s.node = "var"
  <2>1. Len(s.kids) \in Nat \ {0} /\ s.kids[Len(s.kids)] \in Trees
    BY <1>1, <1>6 DEF IsTree
  <2>2. \A i \in 1 .. Len(s.kids) - 1 : IsBinding(s.kids[i])
    BY <1>1, <1>6 DEF IsTree, IsBinding
  <2>3. ASSUME NEW i \in 1 .. Len(s.kids) PROVE Shaped(s.kids[i])
    <3>1. i = Len(s.kids) \/ i \in 1 .. Len(s.kids) - 1
      BY <2>1
    <3> QED
      BY <3>1, <2>1, <2>2 DEF Shaped
  <2> QED
    BY <1>1, <1>2, <1>6, <2>1, <2>3
<1> QED
  BY <1>1, <1>3, <1>4, <1>5, <1>6 DEF IsTree

LEMMA ShapedIs ==
  ASSUME NEW s, Shaped(s)
  PROVE  Len(s.kids) \in Nat /\ \A i \in 1 .. Len(s.kids) : s.kids[i] # Null => Shaped(s.kids[i])
<1>1. CASE s \in Trees
  BY <1>1, TreeIs
<1>2. CASE IsBinding(s)
  <2>1. \A i \in 1 .. 1 : i = 1
    OBVIOUS
  <2> QED
    BY <1>2, <2>1 DEF IsBinding, Shaped
<1> QED
  BY <1>1, <1>2 DEF Shaped

LEMMA LevelIs ==
  ASSUME NEW t \in Trees, NEW l, Levels(l, t, Depth), NEW m \in 0 .. Depth, NEW p \in l[m]
  PROVE  p \in Seq(Nat) /\ Len(p) = m /\ Shaped(Subtree(t, p))
<1> DEFINE Good(n, q) == q \in Seq(Nat) /\ Len(q) = n /\ Shaped(Subtree(t, q))
           Bad == {n \in Nat : n <= Depth /\ \E q \in l[n] : ~Good(n, q)}
<1>0. Depth \in Nat
  BY DepthAssumption
<1>1. \A n \in 0 .. Depth :
        l[n] = IF n = 0 THEN {<<>>} ELSE UNION {{Append(q, i) : i \in KidsAt(t, q)} : q \in l[n - 1]}
  BY DEF Levels
<1>2. ASSUME Bad # {} PROVE FALSE
  <2>1. PICK n \in Bad : \A j \in Bad : n <= j
    BY <1>2, LeastExists
  <2>2. n \in 0 .. Depth
    BY <2>1
  <2>3. PICK q \in l[n] : ~Good(n, q)
    BY <2>1
  <2>4. CASE n = 0
    <3>1. q = <<>>
      BY <2>2, <2>3, <2>4, <1>1
    <3>2. Subtree(t, q) = t
      BY <3>1, SubtreeRoot
    <3>3. q \in Seq(Nat) /\ Len(q) = 0
      BY <3>1
    <3> QED
      BY <3>2, <3>3, <2>3, <2>4 DEF Shaped
  <2>5. CASE n # 0
    <3>1. PICK k \in Nat : n = k + 1 /\ n - 1 = k
      <4>1. n - 1 \in Nat /\ n = (n - 1) + 1
        BY <2>2, <2>5
      <4> QED
        BY <4>1
    <3>2. l[n] = UNION {{Append(r, i) : i \in KidsAt(t, r)} : r \in l[k]}
      BY <2>2, <2>5, <3>1, <1>1
    <3>0. PICK r \in l[k] : \E i \in KidsAt(t, r) : q = Append(r, i)
      BY <3>2, <2>3
    <3>3. PICK i \in KidsAt(t, r) : q = Append(r, i)
      BY <3>0
    <3>4. Good(k, r)
      <4>1. k <= Depth /\ ~(n <= k)
        BY <3>1, <2>2, <1>0
      <4> QED
        BY <4>1, <2>1
    <3>5. PICK s : s = Subtree(t, r)
      OBVIOUS
    <3>6. i \in 1 .. Len(s.kids) /\ s.kids[i] # Null /\ Len(s.kids) \in Nat
      BY <3>3, <3>4, <3>5, ShapedIs DEF KidsAt
    <3>7. i \in Nat
      BY <3>6
    <3>8. Shaped(s.kids[i])
      BY <3>4, <3>5, <3>6, ShapedIs
    <3>9. Subtree(t, q) = s.kids[i]
      BY <3>3, <3>4, <3>5, <3>7, SubtreeTurn
    <3>10. q \in Seq(Nat) /\ Len(q) = n
      BY <3>1, <3>3, <3>4, <3>7, PushIs
    <3> QED
      BY <3>8, <3>9, <3>10, <2>3
  <2> QED
    BY <2>4, <2>5
<1>3. m \in Nat /\ m <= Depth
  BY <1>0
<1> QED
  BY <1>2, <1>3

LEMMA RootIsPlace ==
  ASSUME NEW t
  PROVE  <<>> \in Places(t)
<1>1. PICK l : Levels(l, t, Depth) /\ Places(t) = UNION {l[n] : n \in 0 .. Depth}
  BY PlacesAreLevels
<1>2. 0 \in 0 .. Depth
  BY DepthAssumption
<1>3. l[0] = {<<>>}
  BY <1>1, <1>2 DEF Levels
<1> QED
  BY <1>1, <1>2, <1>3

LEMMA PlaceIs ==
  ASSUME NEW t \in Trees, NEW p \in Places(t)
  PROVE  /\ p \in Seq(Nat) /\ Shaped(Subtree(t, p))
         /\ \A i \in KidsAt(t, p) : i \in Nat \ {0}
<1>1. PICK l : Levels(l, t, Depth) /\ Places(t) = UNION {l[n] : n \in 0 .. Depth}
  BY PlacesAreLevels
<1>2. PICK n \in 0 .. Depth : p \in l[n]
  BY <1>1
<1>3. p \in Seq(Nat) /\ Shaped(Subtree(t, p))
  BY <1>1, <1>2, LevelIs
<1>4. PICK k \in Nat : k = Len(Subtree(t, p).kids)
  BY <1>3, ShapedIs
<1>5. \A i \in 1 .. k : i \in Nat \ {0}
  OBVIOUS
<1> QED
  BY <1>3, <1>4, <1>5 DEF KidsAt

LEMMA TurnIsPlace ==
  ASSUME NEW t \in Trees, NEW p \in Places(t), NEW i \in KidsAt(t, p)
  PROVE  Append(p, i) \in Places(t)
<1>1. PICK l : Levels(l, t, Depth) /\ Places(t) = UNION {l[n] : n \in 0 .. Depth}
  BY PlacesAreLevels
<1>2. PICK n \in 0 .. Depth : p \in l[n]
  BY <1>1
<1>3. Len(p) = n /\ Depth \in Nat
  BY <1>1, <1>2, LevelIs, DepthAssumption
<1>4. n # Depth
  <2>1. Len(p) = Depth => KidsAt(t, p) = {}
    BY DepthAssumption
  <2> QED
    BY <2>1, <1>3
<1>5. n + 1 \in 0 .. Depth /\ n + 1 # 0 /\ (n + 1) - 1 = n
  BY <1>3, <1>4
<1>6. l[n + 1] = UNION {{Append(q, j) : j \in KidsAt(t, q)} : q \in l[n]}
  BY <1>1, <1>5 DEF Levels
<1>7. Append(p, i) \in l[n + 1]
  BY <1>2, <1>6
<1> QED
  BY <1>1, <1>5, <1>7

(* A place is the body's or a turn from the place above it.                *)
LEMMA PlaceAbove ==
  ASSUME NEW t \in Trees, NEW p \in Places(t), p # <<>>
  PROVE  \E q \in Places(t) : \E i \in KidsAt(t, q) : p = Append(q, i)
<1>1. PICK l : Levels(l, t, Depth) /\ Places(t) = UNION {l[n] : n \in 0 .. Depth}
  BY PlacesAreLevels
<1>2. PICK n \in 0 .. Depth : p \in l[n]
  BY <1>1
<1>3. l[n] = IF n = 0 THEN {<<>>} ELSE UNION {{Append(q, i) : i \in KidsAt(t, q)} : q \in l[n - 1]}
  BY <1>1 DEF Levels
<1>4. n # 0
  BY <1>2, <1>3
<1>5. n - 1 \in 0 .. Depth
  BY <1>4, DepthAssumption
<1>6. PICK q \in l[n - 1] : \E i \in KidsAt(t, q) : p = Append(q, i)
  BY <1>2, <1>3, <1>4
<1> QED
  BY <1>1, <1>5, <1>6

-----------------------------------------------------------------------------
(* The binders around a place: those around the place above it, and what   *)
(* the construct there brings into scope for this turn.                    *)
LoopAt(p, x) == Part(p).node = "for" /\ Part(p).name = x
BindingAt(p, j, x) == Part(p).node = "var" /\ Part(p).kids[j].name = x
Binder(k, j, path) == [depth |-> k, turn |-> j, slot |-> <<fn, path>>]

LoopBinds(q, k, i, x, b) == LoopAt(q, x) /\ i \in LoopScope /\ b = Binder(k, 0, q)
VarBinds(q, k, i, x, b) ==
  \E j \in 1 .. i - 1 : BindingAt(q, j, x) /\ b = Binder(k, j, Append(q, j))
ParamBinds(x, b) ==
  \E k \in 1 .. Len(Function.params) :
    Function.params[k] = x /\ ~IsCairoKernel(Function) /\ b = Binder(0, k, <<0, k>>)

LEMMA BinderIs ==
  ASSUME NEW p, NEW x, NEW b
  PROVE  b \in Binders(p, x) <=>
           \/ \E k \in 1 .. Len(p) : LoopBinds(Prefix(p, k - 1), k, p[k], x, b)
           \/ \E k \in 1 .. Len(p) : VarBinds(Prefix(p, k - 1), k, p[k], x, b)
           \/ ParamBinds(x, b)
<1>1. b \in LoopBinders(p, x) <=>
        \E k \in 1 .. Len(p) : LoopBinds(Prefix(p, k - 1), k, p[k], x, b)
  BY DEF LoopBinders, LoopAt, Binder, LoopBinds
<1>2. b \in VarBinders(p, x) <=>
        \E k \in 1 .. Len(p) : VarBinds(Prefix(p, k - 1), k, p[k], x, b)
  <2> DEFINE Bindings(k) == {j \in 1 .. p[k] - 1 : BindingAt(Prefix(p, k - 1), j, x)}
             BindersAt(k) == {Binder(k, j, Append(Prefix(p, k - 1), j)) : j \in Bindings(k)}
  <2>1. VarBinders(p, x) = UNION {BindersAt(k) : k \in 1 .. Len(p)}
    BY DEF VarBinders, BindingAt, Binder
  <2>2. \A k \in 1 .. Len(p) : b \in BindersAt(k) <=> VarBinds(Prefix(p, k - 1), k, p[k], x, b)
    BY DEF VarBinds
  <2> HIDE DEF BindersAt
  <2> QED
    BY <2>1, <2>2
<1>3. b \in ParamBinders(x) <=> ParamBinds(x, b)
  BY DEF ParamBinders, Binder, ParamBinds
<1> QED
  BY <1>1, <1>2, <1>3 DEF Binders

LEMMA BindersTurn ==
  ASSUME NEW p \in Seq(Nat), NEW i \in Nat, NEW x, NEW b
  PROVE  b \in Binders(Append(p, i), x) <=>
           \/ b \in Binders(p, x)
           \/ LoopBinds(p, Len(p) + 1, i, x, b)
           \/ VarBinds(p, Len(p) + 1, i, x, b)
<1>1. PICK m \in Nat : m = Len(p)
  BY LenProperties
<1>2. PICK q \in Seq(Nat) : q = Append(p, i)
  BY PushIs
<1>3. Len(q) = m + 1 /\ q[m + 1] = i /\ \A k \in 1 .. m : q[k] = p[k]
  BY <1>1, <1>2, PushIs
<1>4. ASSUME NEW k \in 1 .. m
      PROVE  q[k] = p[k] /\ Prefix(q, k - 1) = Prefix(p, k - 1)
  <2>1. k - 1 \in 0 .. m
    OBVIOUS
  <2> QED
    BY <2>1, <1>1, <1>2, <1>3, PrefixIs
<1>5. Prefix(q, (m + 1) - 1) = p
  <2>1. (m + 1) - 1 = m /\ m \in 0 .. m
    OBVIOUS
  <2> QED
    BY <2>1, <1>1, <1>2, PrefixIs
<1>6. b \in Binders(q, x) <=>
        \/ \E k \in 1 .. m + 1 : LoopBinds(Prefix(q, k - 1), k, q[k], x, b)
        \/ \E k \in 1 .. m + 1 : VarBinds(Prefix(q, k - 1), k, q[k], x, b)
        \/ ParamBinds(x, b)
  BY <1>3, BinderIs
<1>7. b \in Binders(p, x) <=>
        \/ \E k \in 1 .. m : LoopBinds(Prefix(p, k - 1), k, p[k], x, b)
        \/ \E k \in 1 .. m : VarBinds(Prefix(p, k - 1), k, p[k], x, b)
        \/ ParamBinds(x, b)
  BY <1>1, BinderIs
<1>8. \A k : k \in 1 .. m + 1 <=> k \in 1 .. m \/ k = m + 1
  OBVIOUS
<1>9. b \in Binders(q, x) <=>
        b \in Binders(p, x) \/ LoopBinds(p, m + 1, i, x, b) \/ VarBinds(p, m + 1, i, x, b)
  BY <1>3, <1>4, <1>5, <1>6, <1>7, <1>8
<1> QED
  BY <1>1, <1>2, <1>9

(* Binders have a depth and a turn that tell them apart.                   *)
SlotBy(p, k, j) ==
  <<fn, IF k = 0 THEN <<0, j>> ELSE IF j = 0 THEN Prefix(p, k - 1) ELSE Append(Prefix(p, k - 1), j)>>

LEMMA BinderBounds ==
  ASSUME NEW p \in Seq(Nat), NEW x, NEW b \in Binders(p, x), Len(Function.params) \in Nat
  PROVE  /\ b = [depth |-> b.depth, turn |-> b.turn, slot |-> b.slot]
         /\ b.depth \in 0 .. Len(p) /\ b.turn \in Nat
         /\ b.depth = 0 => b.turn \in 0 .. Len(Function.params)
         /\ b.depth # 0 => b.turn \in 0 .. p[b.depth]
         /\ b.slot = SlotBy(p, b.depth, b.turn)
<1>1. PICK m \in Nat : m = Len(p)
  BY LenProperties
<1>2. \A k \in 1 .. m : p[k] \in Nat
  BY <1>1, ElementOfSeq
<1> DEFINE Bounded == /\ b = [depth |-> b.depth, turn |-> b.turn, slot |-> b.slot]
                      /\ b.depth \in 0 .. m /\ b.turn \in Nat
                      /\ b.depth = 0 => b.turn \in 0 .. Len(Function.params)
                      /\ b.depth # 0 => b.turn \in 0 .. p[b.depth]
                      /\ b.slot = SlotBy(p, b.depth, b.turn)
<1>3. ASSUME NEW k \in 1 .. m, LoopBinds(Prefix(p, k - 1), k, p[k], x, b) PROVE Bounded
  <2>1. b = [depth |-> k, turn |-> 0, slot |-> <<fn, Prefix(p, k - 1)>>]
    BY <1>3 DEF Binder, LoopBinds
  <2>2. b.depth = k /\ b.turn = 0 /\ b.slot = <<fn, Prefix(p, k - 1)>>
    BY <2>1
  <2>3. k # 0 /\ k \in 0 .. m /\ 0 \in 0 .. p[k] /\ 0 \in Nat
    BY <1>2
  <2>4. SlotBy(p, k, 0) = <<fn, Prefix(p, k - 1)>>
    BY <2>3 DEF SlotBy
  <2> QED
    BY <2>1, <2>2, <2>3, <2>4
<1>4. ASSUME NEW k \in 1 .. m, VarBinds(Prefix(p, k - 1), k, p[k], x, b) PROVE Bounded
  <2>1. PICK j \in 1 .. p[k] - 1 :
          b = [depth |-> k, turn |-> j, slot |-> <<fn, Append(Prefix(p, k - 1), j)>>]
    BY <1>4 DEF Binder, VarBinds
  <2>2. b.depth = k /\ b.turn = j /\ b.slot = <<fn, Append(Prefix(p, k - 1), j)>>
    BY <2>1
  <2>3. k # 0 /\ k \in 0 .. m /\ j # 0 /\ j \in Nat /\ j \in 0 .. p[k]
    BY <1>2
  <2>4. SlotBy(p, k, j) = <<fn, Append(Prefix(p, k - 1), j)>>
    BY <2>3 DEF SlotBy
  <2> QED
    BY <2>1, <2>2, <2>3, <2>4
<1>5. ASSUME ParamBinds(x, b) PROVE Bounded
  <2>1. PICK k \in 1 .. Len(Function.params) :
          b = [depth |-> 0, turn |-> k, slot |-> <<fn, <<0, k>>>>]
    BY <1>5 DEF Binder, ParamBinds
  <2>2. b.depth = 0 /\ b.turn = k /\ b.slot = <<fn, <<0, k>>>>
    BY <2>1
  <2>3. 0 \in 0 .. m /\ k \in Nat /\ k \in 0 .. Len(Function.params)
    OBVIOUS
  <2>4. SlotBy(p, 0, k) = <<fn, <<0, k>>>>
    BY DEF SlotBy
  <2> QED
    BY <2>1, <2>2, <2>3, <2>4
<1> HIDE DEF Bounded
<1>6. Bounded
  BY <1>1, <1>3, <1>4, <1>5, BinderIs
<1> QED
  BY <1>1, <1>6 DEF Bounded

(* One of them is innermost.                                               *)
Within(c, b) == c.depth < b.depth \/ (c.depth = b.depth /\ c.turn <= b.turn)

LEMMA InnermostIs ==
  ASSUME NEW p \in Seq(Nat), NEW x, NEW b \in Binders(p, x), Len(Function.params) \in Nat,
         \A c \in Binders(p, x) : Within(c, b)
  PROVE  Innermost(Binders(p, x)) = b
<1>1. PICK bs : bs = Binders(p, x)
  OBVIOUS
<1>2. PICK d : d = Innermost(bs)
  OBVIOUS
<1>3. d = CHOOSE e \in bs : \A c \in bs : Within(c, e)
  BY <1>2 DEF Innermost, Within
<1>4. d \in bs /\ \A c \in bs : Within(c, d)
  BY <1>1, <1>3
<1>5. Within(b, d) /\ Within(d, b)
  BY <1>1, <1>4
<1>6. /\ d.depth \in 0 .. Len(p) /\ d.turn \in Nat
      /\ b.depth \in 0 .. Len(p) /\ b.turn \in Nat
  BY <1>1, <1>4, BinderBounds
<1>7. d.depth = b.depth /\ d.turn = b.turn
  BY <1>5, <1>6, LenProperties DEF Within
<1>8. d.slot = b.slot
  BY <1>1, <1>4, <1>7, BinderBounds
<1>9. d = [depth |-> d.depth, turn |-> d.turn, slot |-> d.slot]
      /\ b = [depth |-> b.depth, turn |-> b.turn, slot |-> b.slot]
  BY <1>1, <1>4, BinderBounds
<1>10. d = b
  BY <1>7, <1>8, <1>9
<1> QED
  BY <1>1, <1>2, <1>10

LEMMA InnermostExists ==
  ASSUME NEW p \in Seq(Nat), NEW x, Binders(p, x) # {}, Len(Function.params) \in Nat
  PROVE  \E b \in Binders(p, x) : \A c \in Binders(p, x) : Within(c, b)
<1>1. PICK bs : bs = Binders(p, x)
  OBVIOUS
<1>2. PICK m \in Nat : m = Len(p)
  BY LenProperties
<1>3. \A c \in bs : c.depth \in 0 .. m /\ c.turn \in Nat
  BY <1>1, <1>2, BinderBounds
<1>4. PICK ds : ds = {c.depth : c \in bs}
  OBVIOUS
<1>5. ds \subseteq 0 .. m /\ ds # {}
  BY <1>1, <1>3, <1>4
<1>6. PICK d \in ds : \A e \in ds : e <= d
  BY <1>5, GreatestExists
<1>7. PICK n \in Nat : \A c \in bs : c.depth = d => c.turn \in 0 .. n
  <2>1. CASE d = 0
    <3>1. \A c \in bs : c.depth = d => c.turn \in 0 .. Len(Function.params)
      BY <2>1, <1>1, BinderBounds
    <3> QED
      BY <3>1
  <2>2. CASE d # 0
    <3>1. p[d] \in Nat
      <4>1. d \in 1 .. Len(p)
        BY <2>2, <1>2, <1>5, <1>6
      <4> QED
        BY <4>1, ElementOfSeq
    <3>2. \A c \in bs : c.depth = d => c.turn \in 0 .. p[d]
      BY <2>2, <1>1, BinderBounds
    <3> QED
      BY <3>1, <3>2
  <2> QED
    BY <2>1, <2>2
<1>8. PICK ts : ts = {c.turn : c \in {c \in bs : c.depth = d}}
  OBVIOUS
<1>9. ts \subseteq 0 .. n /\ ts # {}
  BY <1>4, <1>6, <1>7, <1>8
<1>10. PICK j \in ts : \A e \in ts : e <= j
  BY <1>9, GreatestExists
<1>11. PICK b \in bs : b.depth = d /\ b.turn = j
  BY <1>8, <1>10
<1>12. ASSUME NEW c \in bs PROVE Within(c, b)
  <2>1. c.depth \in ds /\ c.depth <= d
    BY <1>4, <1>6
  <2>2. c.depth = d => c.turn <= j
    BY <1>8, <1>10
  <2>3. c.depth \in Nat /\ d \in Nat
    BY <1>3, <1>5, <1>6
  <2> QED
    BY <2>1, <2>2, <2>3, <1>11 DEF Within
<1> QED
  BY <1>1, <1>11, <1>12

-----------------------------------------------------------------------------
(* What a name means at a place.                                           *)
Meaning(p, x) == IF Binders(p, x) = {} THEN Null ELSE Innermost(Binders(p, x)).slot

(* A binder behind all others gives the meaning.                           *)
LEMMA InnermostMeans ==
  ASSUME NEW p \in Seq(Nat), NEW x, NEW b \in Binders(p, x), Len(Function.params) \in Nat,
         \A c \in Binders(p, x) : Within(c, b)
  PROVE  Meaning(p, x) = b.slot
<1>1. Innermost(Binders(p, x)) = b
  BY InnermostIs
<1>2. Binders(p, x) # {}
  OBVIOUS
<1> QED
  BY <1>1, <1>2 DEF Meaning

LEMMA MeaningIs ==
  ASSUME NEW p \in Seq(Nat), NEW x, Len(Function.params) \in Nat, fn \in Nat
  PROVE  /\ Meaning(p, x) = Null <=> Binders(p, x) = {}
         /\ Meaning(p, x) # Null => \E q \in Seq(Nat) : Meaning(p, x) = <<fn, q>>
<1>1. CASE Binders(p, x) = {}
  BY <1>1 DEF Meaning
<1>2. CASE Binders(p, x) # {}
  <2>1. PICK b \in Binders(p, x) : \A c \in Binders(p, x) : Within(c, b)
    BY <1>2, InnermostExists
  <2>2. Meaning(p, x) = SlotBy(p, b.depth, b.turn) /\ b.depth \in 0 .. Len(p) /\ b.turn \in Nat
    BY <2>1, InnermostMeans, BinderBounds
  <2>3. PICK k \in 0 .. Len(p) : k = b.depth
    BY <2>2
  <2>4. PICK j \in Nat : j = b.turn
    BY <2>2
  <2>5. \E q \in Seq(Nat) : SlotBy(p, k, j) = <<fn, q>>
    <3>1. CASE k = 0
      <4>1. <<0, j>> \in Seq(Nat) /\ SlotBy(p, k, j) = <<fn, <<0, j>>>>
        BY <3>1 DEF SlotBy
      <4> QED
        BY <4>1
    <3>2. CASE k # 0
      <4>1. k - 1 \in 0 .. Len(p)
        BY <3>2, LenProperties
      <4>2. PICK q \in Seq(Nat) : q = Prefix(p, k - 1)
        BY <4>1, PrefixIs
      <4>3. Append(q, j) \in Seq(Nat)
        BY PushIs
      <4>4. SlotBy(p, k, j) = <<fn, q>> \/ SlotBy(p, k, j) = <<fn, Append(q, j)>>
        BY <3>2, <4>2 DEF SlotBy
      <4> QED
        BY <4>3, <4>4
    <3> QED
      BY <3>1, <3>2
  <2>6. PICK q \in Seq(Nat) : Meaning(p, x) = <<fn, q>>
    BY <2>2, <2>3, <2>4, <2>5
  <2>7. Meaning(p, x) \in Nat \X Seq(Nat)
    BY <2>6
  <2>8. Meaning(p, x) # Null
    BY <2>7, NullAssumption
  <2> QED
    BY <1>2, <2>6, <2>8
<1> QED
  BY <1>1, <1>2

(* Where the construct at p brings nothing of the name into scope.         *)
LEMMA MeaningKept ==
  ASSUME NEW p \in Seq(Nat), NEW i \in Nat, NEW x,
         ~(LoopAt(p, x) /\ i \in LoopScope), \A j \in 1 .. i - 1 : ~BindingAt(p, j, x)
  PROVE  Meaning(Append(p, i), x) = Meaning(p, x)
<1>1. \A b : ~LoopBinds(p, Len(p) + 1, i, x, b) /\ ~VarBinds(p, Len(p) + 1, i, x, b)
  BY DEF LoopBinds, VarBinds
<1>2. \A b : b \in Binders(Append(p, i), x) <=> b \in Binders(p, x)
  BY <1>1, BindersTurn
<1>3. Binders(Append(p, i), x) = Binders(p, x)
  BY <1>2
<1> QED
  BY <1>3 DEF Meaning

LEMMA MeaningOfLoop ==
  ASSUME NEW p \in Seq(Nat), NEW i \in Nat, NEW x, Len(Function.params) \in Nat,
         LoopAt(p, x), i \in LoopScope
  PROVE  Meaning(Append(p, i), x) = <<fn, p>>
<1>1. PICK m \in Nat : m = Len(p)
  BY LenProperties
<1>2. PICK q \in Seq(Nat) : q = Append(p, i)
  BY PushIs
<1>3. PICK b : b = Binder(m + 1, 0, p)
  OBVIOUS
<1>4. b.depth = m + 1 /\ b.turn = 0 /\ b.slot = <<fn, p>>
  BY <1>3 DEF Binder
<1>5. b \in Binders(q, x)
  BY <1>1, <1>2, <1>3, BindersTurn DEF LoopBinds
<1>6. ASSUME NEW c \in Binders(q, x) PROVE Within(c, b)
  <2>1. \A j : ~BindingAt(p, j, x)
    BY DEF LoopAt, BindingAt
  <2>2. c \in Binders(p, x) \/ c = b
    BY <2>1, <1>1, <1>2, <1>3, BindersTurn DEF LoopBinds, VarBinds
  <2>3. c \in Binders(p, x) => c.depth \in 0 .. m
    BY <1>1, BinderBounds
  <2> QED
    BY <2>2, <2>3, <1>4 DEF Within
<1> QED
  BY <1>2, <1>4, <1>5, <1>6, InnermostMeans

LEMMA MeaningOfBinding ==
  ASSUME NEW p \in Seq(Nat), NEW j \in Nat \ {0}, NEW x, Len(Function.params) \in Nat,
         BindingAt(p, j, x)
  PROVE  Meaning(Append(p, j + 1), x) = <<fn, Append(p, j)>>
<1>1. PICK m \in Nat : m = Len(p)
  BY LenProperties
<1>2. PICK q \in Seq(Nat) : q = Append(p, j + 1)
  <2>1. j + 1 \in Nat
    OBVIOUS
  <2> QED
    BY <2>1, PushIs
<1>3. PICK b : b = Binder(m + 1, j, Append(p, j))
  OBVIOUS
<1>4. b.depth = m + 1 /\ b.turn = j /\ b.slot = <<fn, Append(p, j)>>
  BY <1>3 DEF Binder
<1>5. j + 1 \in Nat /\ (j + 1) - 1 = j /\ j \in 1 .. j
  OBVIOUS
<1>6. \A c : c \in Binders(q, x) <=> c \in Binders(p, x) \/ LoopBinds(p, m + 1, j + 1, x, c)
                                     \/ VarBinds(p, m + 1, j + 1, x, c)
  BY <1>1, <1>2, <1>5, BindersTurn
<1>7. b \in Binders(q, x)
  <2>1. VarBinds(p, m + 1, j + 1, x, b)
    BY <1>3, <1>5 DEF VarBinds
  <2> QED
    BY <2>1, <1>6
<1>8. ASSUME NEW c \in Binders(q, x) PROVE Within(c, b)
  <2>1. ~LoopBinds(p, m + 1, j + 1, x, c)
    BY DEF LoopBinds, LoopAt, BindingAt
  <2>2. CASE c \in Binders(p, x)
    <3>1. c.depth \in 0 .. m
      BY <2>2, <1>1, BinderBounds
    <3> QED
      BY <3>1, <1>4 DEF Within
  <2>3. CASE VarBinds(p, m + 1, j + 1, x, c)
    <3>1. PICK k \in 1 .. j : c = Binder(m + 1, k, Append(p, k))
      BY <2>3, <1>5 DEF VarBinds
    <3>2. c.depth = m + 1 /\ c.turn = k /\ k <= j
      BY <3>1 DEF Binder
    <3> QED
      BY <3>2, <1>4 DEF Within
  <2> QED
    BY <2>1, <2>2, <2>3, <1>6
<1> QED
  BY <1>2, <1>4, <1>7, <1>8, InnermostMeans

(* Behind a binding of another name.                                       *)
LEMMA MeaningBeside ==
  ASSUME NEW p \in Seq(Nat), NEW j \in Nat \ {0}, NEW x,
         Part(p).node = "var", ~BindingAt(p, j, x)
  PROVE  Meaning(Append(p, j + 1), x) = Meaning(Append(p, j), x)
<1>1. j + 1 \in Nat /\ (j + 1) - 1 = j /\ \A k : k \in 1 .. j <=> k \in 1 .. j - 1 \/ k = j
  OBVIOUS
<1>2. \A b, i : ~LoopBinds(p, Len(p) + 1, i, x, b)
  BY DEF LoopBinds, LoopAt
<1>3. \A b : VarBinds(p, Len(p) + 1, j + 1, x, b) <=> VarBinds(p, Len(p) + 1, j, x, b)
  BY <1>1 DEF VarBinds
<1>4. \A b : b \in Binders(Append(p, j + 1), x) <=> b \in Binders(Append(p, j), x)
  BY <1>1, <1>2, <1>3, BindersTurn
<1>5. Binders(Append(p, j + 1), x) = Binders(Append(p, j), x)
  BY <1>4
<1> QED
  BY <1>5 DEF Meaning

(* At the body itself.                                                     *)
LEMMA MeaningAtRoot ==
  ASSUME NEW x \in Names, Len(Function.params) \in Nat, ~RenamesParameter
  PROVE  Meaning(<<>>, x) = IF IsCairoKernel(Function) THEN Null ELSE Parameters(Function, fn)[x]
<1>1. <<>> \in Seq(Nat) /\ Len(<<>>) = 0
  OBVIOUS
<1>2. \A b : b \in Binders(<<>>, x) <=> ParamBinds(x, b)
  <2>1. \A k \in 1 .. 0 : FALSE
    OBVIOUS
  <2> QED
    BY <2>1, <1>1, BinderIs
<1>3. CASE IsCairoKernel(Function)
  <2>1. Binders(<<>>, x) = {}
    BY <1>2, <1>3 DEF ParamBinds
  <2> QED
    BY <2>1, <1>3 DEF Meaning
<1>4. CASE ~IsCairoKernel(Function)
  <2>1. PICK n \in Nat : n = Len(Function.params)
    OBVIOUS
  <2>2. PICK at : at = {k \in 1 .. Len(Function.params) : Function.params[k] = x}
    OBVIOUS
  <2>3. Parameters(Function, fn)[x] =
          IF at = {} THEN Null ELSE <<fn, <<0, CHOOSE k \in at : \A j \in at : j <= k>>>>
    <3>1. Keys(Function) = Function.params
      BY <1>4 DEF RenamesParameter
    <3> QED
      BY <3>1, <2>2 DEF Parameters
  <2>4. \A b : b \in Binders(<<>>, x) <=> \E k \in at : b = Binder(0, k, <<0, k>>)
    BY <1>2, <1>4, <2>2 DEF ParamBinds
  <2>5. CASE at = {}
    <3>1. Binders(<<>>, x) = {}
      BY <2>4, <2>5
    <3> QED
      BY <3>1, <2>3, <2>5, <1>4 DEF Meaning
  <2>6. CASE at # {}
    <3>1. at \subseteq 0 .. n
      BY <2>1, <2>2
    <3>2. \E k \in at : \A j \in at : j <= k
      BY <3>1, <2>6, GreatestExists
    <3>3. PICK k : k = CHOOSE i \in at : \A j \in at : j <= i
      OBVIOUS
    <3>4. k \in at /\ \A j \in at : j <= k
      BY <3>2, <3>3
    <3>5. PICK b : b = Binder(0, k, <<0, k>>)
      OBVIOUS
    <3>6. b \in Binders(<<>>, x) /\ b.depth = 0 /\ b.turn = k /\ b.slot = <<fn, <<0, k>>>>
      BY <3>4, <3>5, <2>4 DEF Binder
    <3>7. ASSUME NEW c \in Binders(<<>>, x) PROVE Within(c, b)
      <4>1. PICK j \in at : c = Binder(0, j, <<0, j>>)
        BY <2>4
      <4>2. c.depth = 0 /\ c.turn = j
        BY <4>1 DEF Binder
      <4> QED
        BY <4>2, <3>4, <3>6 DEF Within
    <3>8. Meaning(<<>>, x) = <<fn, <<0, k>>>>
      BY <3>6, <3>7, <1>1, InnermostMeans
    <3> QED
      BY <3>3, <3>8, <2>3, <2>6, <1>4
  <2> QED
    BY <2>5, <2>6
<1> QED
  BY <1>3, <1>4

(* A place means the same as long as the function runs.                    *)
LEMMA MeaningStays ==
  ASSUME UNCHANGED <<backend, program, fn>>, NEW p, NEW x
  PROVE  Binders(p, x)' = Binders(p, x) /\ Meaning(p, x)' = Meaning(p, x)
<1>1. fn' = fn /\ backend' = backend /\ program' = program
  OBVIOUS
<1>2. Function' = Function /\ LoopScope' = LoopScope /\ IsCairoKernel(Function)' = IsCairoKernel(Function)
  BY <1>1 DEF Function, LoopScope, IsCairoKernel
<1>3. \A q : Part(q)' = Part(q)
  BY <1>2 DEF Part
<1>4. LoopBinders(p, x)' = LoopBinders(p, x)
  BY <1>1, <1>2, <1>3 DEF LoopBinders
<1>5. VarBinders(p, x)' = VarBinders(p, x)
  BY <1>1, <1>3 DEF VarBinders
<1>6. ParamBinders(x)' = ParamBinders(x)
  BY <1>1, <1>2 DEF ParamBinders
<1>7. Binders(p, x)' = Binders(p, x)
  BY <1>4, <1>5, <1>6 DEF Binders
<1> QED
  BY <1>7 DEF Meaning

-----------------------------------------------------------------------------
(* What the walk over a body relies on: a situation is the constructs that *)
(* run, with how many names each has bound, and the scope.  M gives the    *)
(* scope at each place.                                                    *)
Spots == {Null} \union (Nat \X Seq(Nat))
Scopes == [Names -> Spots]
Owners == [of : Seq(Nat), bound : Nat]
Situations == [own : Seq(Owners), scope : Scopes]

Owner(p, n) == [of |-> p, bound |-> n]
AtTop(s, p, n) == s.own # <<>> /\ s.own[Len(s.own)] = Owner(p, n)
Opened(s, p, n, m) == [own |-> Append(s.own, Owner(p, n)), scope |-> m]
Rebound(s, p, n, m) == [own |-> Append(Cut(s.own), Owner(p, n)), scope |-> m]
Closed(s, m) == [own |-> Cut(s.own), scope |-> m]

(* A var gets on from one of its bindings to what follows.                 *)
Binds(M, body, s, path, r) ==
  \E p \in Places(body) : \E j \in 1 .. Len(Subtree(body, p).kids) - 1 :
    /\ path = Append(p, j) /\ Subtree(body, p).node = "var"
    /\ AtTop(s, p, j - 1) /\ r = Rebound(s, p, j, M[Append(p, j + 1)])

(* What a task needs and what it leaves.                                   *)
Goes(M, body, s, t, r) ==
  /\ t.path \in Places(body) /\ t.tree = Subtree(body, t.path)
  /\ \/ t.do = "gen" /\ s.scope = M[t.path] /\ r = s
     \/ t.do = "store" /\ t.tree.node = "variable" /\ s.scope = M[t.path] /\ r = s
     \/ t.do = "branch" /\ r = Opened(s, t.path, 0, s.scope)
     \/ t.do = "else" /\ AtTop(s, t.path, 0) /\ r = s
     \/ t.do = "merge" /\ AtTop(s, t.path, 0) /\ r = Closed(s, s.scope)
     \/ /\ t.do = "enter" /\ t.tree.node = "for" /\ s.scope = M[t.path]
        /\ r = Opened(s, t.path, 1, M[Append(t.path, 4)])
     \/ /\ t.do = "exit" /\ t.tree.node = "for" /\ AtTop(s, t.path, 1)
        /\ s.scope = M[Append(t.path, 4)] /\ r = Closed(s, M[t.path])
     \/ t.do \in {"initialize", "bind"} /\ s.scope = M[t.path] /\ Binds(M, body, s, t.path, r)
     \/ /\ t.do = "restore" /\ t.tree.node = "var" /\ AtTop(s, t.path, Len(t.tree.kids) - 1)
        /\ s.scope = M[Append(t.path, Len(t.tree.kids))] /\ r = Closed(s, M[t.path])

Walks(M, body, tasks, s, r) ==
  \E f \in [1 .. Len(tasks) + 1 -> Situations] :
    /\ f[1] = s /\ f[Len(tasks) + 1] = r
    /\ \A i \in 1 .. Len(tasks) : Goes(M, body, f[i], tasks[i], f[i + 1])

LEMMA WalkNone ==
  ASSUME NEW M, NEW body, NEW s \in Situations, NEW r \in Situations
  PROVE  Walks(M, body, <<>>, s, r) <=> s = r
<1>1. ASSUME s = r PROVE Walks(M, body, <<>>, s, r)
  <2>1. PICK f : f = [i \in 1 .. 1 |-> s]
    OBVIOUS
  <2>2. f \in [1 .. 0 + 1 -> Situations] /\ f[1] = s /\ f[0 + 1] = r /\ Len(<<>>) = 0
    BY <1>1, <2>1
  <2> QED
    BY <2>2 DEF Walks
<1>2. ASSUME Walks(M, body, <<>>, s, r) PROVE s = r
  BY <1>2 DEF Walks
<1> QED
  BY <1>1, <1>2

LEMMA WalkOne ==
  ASSUME NEW M, NEW body, NEW S, NEW t \in S, NEW s \in Situations, NEW r \in Situations, Goes(M, body, s, t, r)
  PROVE  Walks(M, body, <<t>>, s, r)
<1>1. PICK f : f = [i \in 1 .. 2 |-> IF i = 1 THEN s ELSE r]
  OBVIOUS
<1>2. f \in [1 .. 1 + 1 -> Situations] /\ f[1] = s /\ f[1 + 1] = r /\ Len(<<t>>) = 1 /\ <<t>>[1] = t
  BY <1>1
<1>3. \A i \in 1 .. 1 : Goes(M, body, f[i], <<t>>[i], f[i + 1])
  BY <1>2
<1> QED
  BY <1>2, <1>3 DEF Walks

LEMMA WalkJoin ==
  ASSUME NEW M, NEW body, NEW S, NEW a \in Seq(S), NEW b \in Seq(S),
         NEW s \in Situations, NEW q \in Situations, NEW r \in Situations,
         Walks(M, body, a, s, q), Walks(M, body, b, q, r)
  PROVE  Walks(M, body, a \o b, s, r)
<1>1. PICK m \in Nat : m = Len(a)
  BY LenProperties
<1>2. PICK n \in Nat : n = Len(b)
  BY LenProperties
<1>3. PICK c : c = a \o b
  OBVIOUS
<1>4. /\ Len(c) = m + n
      /\ \A i \in 1 .. m : c[i] = a[i]
      /\ \A i \in m + 1 .. m + n : c[i] = b[i - m]
  BY <1>1, <1>2, <1>3, ConcatProperties
<1>5. PICK f \in [1 .. m + 1 -> Situations] :
        f[1] = s /\ f[m + 1] = q /\ \A i \in 1 .. m : Goes(M, body, f[i], a[i], f[i + 1])
  BY <1>1 DEF Walks
<1>6. PICK g \in [1 .. n + 1 -> Situations] :
        g[1] = q /\ g[n + 1] = r /\ \A i \in 1 .. n : Goes(M, body, g[i], b[i], g[i + 1])
  BY <1>2 DEF Walks
<1>7. PICK h : h = [i \in 1 .. (m + n) + 1 |-> IF i <= m THEN f[i] ELSE g[i - m]]
  OBVIOUS
<1>8. h \in [1 .. (m + n) + 1 -> Situations]
  <2>1. \A i \in 1 .. (m + n) + 1 : i <= m => i \in 1 .. m + 1
    OBVIOUS
  <2>2. \A i \in 1 .. (m + n) + 1 : ~(i <= m) => i - m \in 1 .. n + 1
    OBVIOUS
  <2> QED
    BY <1>7, <2>1, <2>2
<1>9. h[1] = s /\ h[(m + n) + 1] = r
  <2>1. CASE m = 0
    BY <2>1, <1>5, <1>6, <1>7
  <2>2. CASE m # 0
    <3>1. h[1] = f[1]
      BY <2>2, <1>7
    <3>2. h[(m + n) + 1] = g[n + 1]
      <4>1. ~((m + n) + 1 <= m) /\ ((m + n) + 1) - m = n + 1 /\ (m + n) + 1 \in 1 .. (m + n) + 1
        OBVIOUS
      <4> QED
        BY <4>1, <1>7
    <3> QED
      BY <3>1, <3>2, <1>5, <1>6
  <2> QED
    BY <2>1, <2>2
<1>10. ASSUME NEW i \in 1 .. m + n PROVE Goes(M, body, h[i], c[i], h[i + 1])
  <2>1. CASE i <= m
    <3>1. i \in 1 .. m /\ h[i] = f[i]
      BY <2>1, <1>7
    <3>2. h[i + 1] = f[i + 1]
      <4>1. CASE i + 1 <= m
        BY <4>1, <1>7
      <4>2. CASE ~(i + 1 <= m)
        <5>1. i + 1 = m + 1 /\ (i + 1) - m = 1 /\ i + 1 \in 1 .. (m + n) + 1
          BY <4>2, <2>1
        <5>2. h[i + 1] = g[1]
          BY <5>1, <4>2, <1>7
        <5> QED
          BY <5>1, <5>2, <1>5, <1>6
      <4> QED
        BY <4>1, <4>2
    <3> QED
      BY <3>1, <3>2, <1>4, <1>5
  <2>2. CASE ~(i <= m)
    <3>1. PICK j \in 1 .. n : j = i - m
      BY <2>2
    <3>2. h[i] = g[j] /\ h[i + 1] = g[j + 1]
      <4>1. ~(i + 1 <= m) /\ (i + 1) - m = j + 1 /\ i + 1 \in 1 .. (m + n) + 1 /\ i \in 1 .. (m + n) + 1
        BY <2>2, <3>1
      <4> QED
        BY <4>1, <2>2, <3>1, <1>7
    <3>3. c[i] = b[j]
      <4>1. i \in m + 1 .. m + n
        BY <2>2
      <4> QED
        BY <4>1, <3>1, <1>4
    <3> QED
      BY <3>1, <3>2, <3>3, <1>6
  <2> QED
    BY <2>1, <2>2
<1> QED
  <2>1. Walks(M, body, c, s, r)
    BY <1>4, <1>8, <1>9, <1>10 DEF Walks
  <2> QED
    BY <2>1, <1>3

LEMMA WalkFirst ==
  ASSUME NEW M, NEW body, NEW S, NEW a \in Seq(S), a # <<>>, NEW s, NEW r \in Situations, Walks(M, body, a, s, r)
  PROVE  \E q \in Situations : Goes(M, body, s, a[1], q) /\ Walks(M, body, Tail(a), q, r)
<1>1. PICK n \in Nat : n + 1 = Len(a)
  <2>1. Len(a) \in Nat \ {0}
    BY EmptySeq
  <2>2. Len(a) - 1 \in Nat /\ (Len(a) - 1) + 1 = Len(a)
    BY <2>1
  <2> QED
    BY <2>2
<1>2. PICK c : c = Tail(a)
  OBVIOUS
<1>3. Len(c) = n /\ \A i \in 1 .. n : c[i] = a[i + 1]
  <2>1. (n + 1) - 1 = n
    OBVIOUS
  <2> QED
    BY <1>1, <1>2, <2>1, HeadTailProperties
<1>4. PICK f \in [1 .. (n + 1) + 1 -> Situations] :
        f[1] = s /\ f[(n + 1) + 1] = r /\ \A i \in 1 .. n + 1 : Goes(M, body, f[i], a[i], f[i + 1])
  BY <1>1 DEF Walks
<1>5. PICK g : g = [i \in 1 .. n + 1 |-> f[i + 1]]
  OBVIOUS
<1>6. g \in [1 .. n + 1 -> Situations] /\ g[1] = f[1 + 1] /\ g[n + 1] = r
  BY <1>4, <1>5
<1>7. \A i \in 1 .. n : Goes(M, body, g[i], c[i], g[i + 1])
  <2> TAKE i \in 1 .. n
  <2>1. i + 1 \in 1 .. n + 1 /\ i \in 1 .. n + 1
    OBVIOUS
  <2> QED
    BY <2>1, <1>3, <1>4, <1>5
<1>8. Walks(M, body, c, g[1], r)
  BY <1>3, <1>6, <1>7 DEF Walks
<1>9. 1 \in 1 .. n + 1 /\ g[1] \in Situations
  BY <1>6
<1>10. Goes(M, body, s, a[1], g[1])
  BY <1>9, <1>6, <1>4
<1> QED
  BY <1>2, <1>8, <1>9, <1>10

LEMMA WalkSame ==
  ASSUME NEW M, NEW body, NEW S, NEW a \in Seq(S), NEW s \in Situations,
         \A i \in 1 .. Len(a) : Goes(M, body, s, a[i], s)
  PROVE  Walks(M, body, a, s, s)
<1>1. PICK n \in Nat : n = Len(a)
  BY LenProperties
<1>2. PICK f : f = [i \in 1 .. n + 1 |-> s]
  OBVIOUS
<1>3. f \in [1 .. n + 1 -> Situations] /\ f[1] = s /\ f[n + 1] = s
  BY <1>2
<1>4. \A i \in 1 .. n : f[i] = s /\ f[i + 1] = s
  BY <1>2
<1>5. \A i \in 1 .. n : Goes(M, body, f[i], a[i], f[i + 1])
  BY <1>1, <1>4
<1> QED
  BY <1>1, <1>3, <1>5 DEF Walks

-----------------------------------------------------------------------------
(* How the scope changes from a place to the places below it.              *)
NodeAt(body, p) == Subtree(body, p).node
NameOf(body, p) == Subtree(body, p).name
BoundAt(body, p, j) == Subtree(body, p).kids[j].name

ScopesAre(M, f) ==
  /\ M \in [Seq(Nat) -> Scopes]
  /\ \A p \in Seq(Nat) : \A x \in Names : M[p][x] # Null => \E q \in Seq(Nat) : M[p][x] = <<f, q>>
ScopeKept(M, body, loops) ==
  \A p \in Seq(Nat) : \A i \in Nat :
    \/ NodeAt(body, p) \notin {"for", "var"}
    \/ NodeAt(body, p) = "for" /\ i \notin loops
    \/ NodeAt(body, p) = "var" /\ i = 1
    => M[Append(p, i)] = M[p]
ScopeOfLoop(M, body, f, loops) ==
  \A p \in Seq(Nat) : \A i \in loops :
    NodeAt(body, p) = "for" =>
      \A x \in Names : M[Append(p, i)][x] = IF x = NameOf(body, p) THEN <<f, p>> ELSE M[p][x]
ScopeOfBinding(M, body, f) ==
  \A p \in Seq(Nat) : \A j \in Nat \ {0} :
    NodeAt(body, p) = "var" =>
      \A x \in Names : M[Append(p, j + 1)][x] =
        IF x = BoundAt(body, p, j) THEN <<f, Append(p, j)>> ELSE M[Append(p, j)][x]
ScopeBeside(M, body) ==
  \A p \in Seq(Nat) : \A i \in Nat \ {0} : \A x \in Names :
    NodeAt(body, p) = "var" /\ (\A j \in 1 .. i - 1 : BoundAt(body, p, j) # x)
    => M[Append(p, i)][x] = M[p][x]

Laws(M, body, f, loops) ==
  /\ ScopesAre(M, f) /\ ScopeKept(M, body, loops) /\ ScopeOfLoop(M, body, f, loops)
  /\ ScopeOfBinding(M, body, f) /\ ScopeBeside(M, body)

Meanings == [p \in Seq(Nat) |-> [x \in Names |-> Meaning(p, x)]]

LEMMA LawsHold ==
  ASSUME fn \in Nat, Len(Function.params) \in Nat
  PROVE  Laws(Meanings, Function.body, fn, LoopScope)
<1> DEFINE M == Meanings
           body == Function.body
<1>1. \A p \in Seq(Nat) : DOMAIN M[p] = Names /\ \A x \in Names : M[p][x] = Meaning(p, x)
  BY DEF Meanings
<1>2. \A p : NodeAt(body, p) = Part(p).node /\ NameOf(body, p) = Part(p).name
             /\ \A j : BoundAt(body, p, j) = Part(p).kids[j].name
  BY DEF NodeAt, NameOf, BoundAt, Part
<1>3. LoopScope \subseteq Nat
  BY DEF LoopScope
<1>4. ScopesAre(M, fn)
  <2>1. \A p \in Seq(Nat) : \A x \in Names :
          Meaning(p, x) # Null => \E q \in Seq(Nat) : Meaning(p, x) = <<fn, q>>
    BY MeaningIs
  <2>2. \A p \in Seq(Nat) : \A x \in Names : Meaning(p, x) \in Spots
    BY <2>1 DEF Spots
  <2>3. M \in [Seq(Nat) -> Scopes]
    BY <2>2 DEF Meanings, Scopes
  <2> QED
    BY <1>1, <2>1, <2>3 DEF ScopesAre
<1>5. ASSUME NEW p \in Seq(Nat), NEW i \in Nat,
             \A x \in Names : Meaning(Append(p, i), x) = Meaning(p, x)
      PROVE  M[Append(p, i)] = M[p]
  <2>1. Append(p, i) \in Seq(Nat)
    BY PushIs
  <2> QED
    BY <2>1, <1>5 DEF Meanings
<1>6. ScopeKept(M, body, LoopScope)
  <2>1. ASSUME NEW p \in Seq(Nat), NEW i \in Nat,
               \/ NodeAt(body, p) \notin {"for", "var"}
               \/ NodeAt(body, p) = "for" /\ i \notin LoopScope
               \/ NodeAt(body, p) = "var" /\ i = 1
        PROVE  M[Append(p, i)] = M[p]
    <3>1. ASSUME NEW x \in Names PROVE Meaning(Append(p, i), x) = Meaning(p, x)
      <4>1. ~(LoopAt(p, x) /\ i \in LoopScope)
        BY <2>1, <1>2 DEF LoopAt
      <4>2. \A j \in 1 .. i - 1 : ~BindingAt(p, j, x)
        <5>1. CASE i = 1
          BY <5>1
        <5>2. CASE i # 1
          BY <5>2, <2>1, <1>2 DEF BindingAt
        <5> QED
          BY <5>1, <5>2
      <4> QED
        BY <4>1, <4>2, MeaningKept
    <3> HIDE DEF M
    <3> QED
      BY <3>1, <1>5
  <2> QED
    BY <2>1 DEF ScopeKept
<1>8. ScopeOfLoop(M, body, fn, LoopScope)
  <2>1. ASSUME NEW p \in Seq(Nat), NEW i \in LoopScope, NodeAt(body, p) = "for", NEW x \in Names
        PROVE  M[Append(p, i)][x] = IF x = NameOf(body, p) THEN <<fn, p>> ELSE M[p][x]
    <3>1. i \in Nat /\ Append(p, i) \in Seq(Nat)
      BY <1>3, PushIs
    <3>2. Meaning(Append(p, i), x) = IF x = NameOf(body, p) THEN <<fn, p>> ELSE Meaning(p, x)
      <4>1. LoopAt(p, x) <=> x = NameOf(body, p)
        BY <2>1, <1>2 DEF LoopAt
      <4>2. CASE LoopAt(p, x)
        BY <4>1, <4>2, <3>1, MeaningOfLoop
      <4>3. CASE ~LoopAt(p, x)
        <5>1. \A j \in 1 .. i - 1 : ~BindingAt(p, j, x)
          BY <2>1, <1>2 DEF BindingAt
        <5> QED
          BY <5>1, <4>1, <4>3, <3>1, MeaningKept
      <4> QED
        BY <4>2, <4>3
    <3> QED
      BY <3>1, <3>2, <1>1
  <2> QED
    BY <2>1 DEF ScopeOfLoop
<1>9. ScopeOfBinding(M, body, fn)
  <2>1. ASSUME NEW p \in Seq(Nat), NEW j \in Nat \ {0}, NodeAt(body, p) = "var", NEW x \in Names
        PROVE  M[Append(p, j + 1)][x]
                 = IF x = BoundAt(body, p, j) THEN <<fn, Append(p, j)>> ELSE M[Append(p, j)][x]
    <3>1. j + 1 \in Nat /\ Append(p, j) \in Seq(Nat) /\ Append(p, j + 1) \in Seq(Nat)
      BY PushIs
    <3>2. Meaning(Append(p, j + 1), x)
            = IF x = BoundAt(body, p, j) THEN <<fn, Append(p, j)>> ELSE Meaning(Append(p, j), x)
      <4>1. BindingAt(p, j, x) <=> x = BoundAt(body, p, j)
        BY <2>1, <1>2 DEF BindingAt
      <4>2. Part(p).node = "var"
        BY <2>1, <1>2
      <4> QED
        BY <4>1, <4>2, MeaningOfBinding, MeaningBeside
    <3> QED
      BY <3>1, <3>2, <1>1
  <2> QED
    BY <2>1 DEF ScopeOfBinding
<1>10. ScopeBeside(M, body)
  <2>1. ASSUME NEW p \in Seq(Nat), NEW i \in Nat \ {0}, NEW x \in Names, NodeAt(body, p) = "var",
               \A j \in 1 .. i - 1 : BoundAt(body, p, j) # x
        PROVE  M[Append(p, i)][x] = M[p][x]
    <3>1. Append(p, i) \in Seq(Nat)
      BY PushIs
    <3>2. ~LoopAt(p, x) /\ \A j \in 1 .. i - 1 : ~BindingAt(p, j, x)
      BY <2>1, <1>2 DEF LoopAt, BindingAt
    <3>3. Meaning(Append(p, i), x) = Meaning(p, x)
      BY <3>2, MeaningKept
    <3> QED
      BY <3>1, <3>3, <1>1
  <2> QED
    BY <2>1 DEF ScopeBeside
<1> QED
  BY <1>4, <1>6, <1>8, <1>9, <1>10 DEF Laws

-----------------------------------------------------------------------------
(* Situations.                                                             *)
LEMMA SituationIs ==
  ASSUME NEW s \in Situations, NEW p \in Seq(Nat), NEW n \in Nat, NEW m \in Scopes
  PROVE  /\ s = [own |-> s.own, scope |-> s.scope] /\ s.own \in Seq(Owners) /\ s.scope \in Scopes
         /\ Opened(s, p, n, m) \in Situations /\ AtTop(Opened(s, p, n, m), p, n)
         /\ Opened(s, p, n, m).own = Append(s.own, Owner(p, n)) /\ Opened(s, p, n, m).scope = m
         /\ Closed(Opened(s, p, n, m), s.scope) = s
<1>1. s = [own |-> s.own, scope |-> s.scope] /\ s.own \in Seq(Owners) /\ s.scope \in Scopes
  BY DEF Situations
<1>2. PICK o \in Owners : o = Owner(p, n)
  BY DEF Owner, Owners
<1>3. PICK q \in Seq(Owners) : q = Append(s.own, o)
  BY <1>1, PushIs
<1>4. q # <<>> /\ Len(q) = Len(s.own) + 1 /\ q[Len(s.own) + 1] = o /\ Cut(q) = s.own
  BY <1>1, <1>3, PushIs, CutPush
<1>5. PICK r : r = Opened(s, p, n, m)
  OBVIOUS
<1>6. r = [own |-> q, scope |-> m]
  BY <1>2, <1>3, <1>5 DEF Opened
<1>7. r \in Situations /\ r.own = q /\ r.scope = m
  BY <1>6 DEF Situations
<1>8. AtTop(r, p, n)
  BY <1>2, <1>4, <1>7 DEF AtTop
<1>9. Closed(r, s.scope) = s
  BY <1>1, <1>4, <1>7 DEF Closed
<1> QED
  BY <1>1, <1>2, <1>3, <1>5, <1>7, <1>8, <1>9

LEMMA ReboundIs ==
  ASSUME NEW s \in Situations, s.own # <<>>, NEW p \in Seq(Nat), NEW n \in Nat, NEW m \in Scopes
  PROVE  /\ Rebound(s, p, n, m) \in Situations /\ AtTop(Rebound(s, p, n, m), p, n)
         /\ Rebound(s, p, n, m).own = Append(Cut(s.own), Owner(p, n))
         /\ Rebound(s, p, n, m).scope = m
         /\ \A k \in Scopes : /\ Closed(Rebound(s, p, n, m), k) = Closed(s, k)
                              /\ Closed(s, k) \in Situations
<1>1. s.own \in Seq(Owners)
  BY DEF Situations
<1>2. PICK o \in Owners : o = Owner(p, n)
  BY DEF Owner, Owners
<1>3. PICK c \in Seq(Owners) : c = Cut(s.own)
  BY <1>1, CutIs
<1>4. PICK q \in Seq(Owners) : q = Append(c, o)
  BY PushIs
<1>5. q # <<>> /\ Len(q) = Len(c) + 1 /\ q[Len(c) + 1] = o /\ Cut(q) = c
  BY <1>4, PushIs, CutPush
<1>6. PICK r : r = Rebound(s, p, n, m)
  OBVIOUS
<1>7. r = [own |-> q, scope |-> m]
  BY <1>2, <1>3, <1>4, <1>6 DEF Rebound
<1>8. r \in Situations /\ r.own = q /\ r.scope = m
  BY <1>7 DEF Situations
<1>9. AtTop(r, p, n)
  BY <1>2, <1>5, <1>8 DEF AtTop
<1>10. ASSUME NEW k \in Scopes PROVE Closed(r, k) = Closed(s, k) /\ Closed(s, k) \in Situations
  <2>1. Closed(r, k) = [own |-> c, scope |-> k] /\ Closed(s, k) = [own |-> c, scope |-> k]
    BY <1>3, <1>5, <1>8 DEF Closed
  <2> QED
    BY <2>1 DEF Situations
<1> QED
  BY <1>2, <1>3, <1>4, <1>6, <1>8, <1>9, <1>10

-----------------------------------------------------------------------------
(* The task lists of the constructs, and the situations they lead through. *)
KidTask(body, p, i) == Task("gen", Subtree(body, p).kids[i], Append(p, i))
HereTask(do, body, p) == Task(do, Subtree(body, p), p)

LEMMA TaskParts ==
  ASSUME NEW do, NEW tree, NEW path
  PROVE  Task(do, tree, path).do = do /\ Task(do, tree, path).tree = tree /\ Task(do, tree, path).path = path
BY DEF Task

LEMMA KidIsPlace ==
  ASSUME NEW body \in Trees, NEW p \in Places(body), NEW i \in KidsAt(body, p)
  PROVE  /\ Append(p, i) \in Places(body) /\ Subtree(body, Append(p, i)) = Subtree(body, p).kids[i]
         /\ i \in Nat \ {0} /\ p \in Seq(Nat)
<1>1. p \in Seq(Nat) /\ i \in Nat \ {0}
  BY PlaceIs
<1> QED
  BY <1>1, TurnIsPlace, SubtreeTurn

LEMMA KidGoes ==
  ASSUME NEW M, NEW body \in Trees, NEW p \in Places(body), NEW i \in KidsAt(body, p),
         NEW s, s.scope = M[Append(p, i)]
  PROVE  Goes(M, body, s, KidTask(body, p, i), s)
<1>1. PICK t : t = KidTask(body, p, i)
  OBVIOUS
<1>2. t.do = "gen" /\ t.path = Append(p, i) /\ t.tree = Subtree(body, p).kids[i]
  <2>1. PICK path, tree : path = Append(p, i) /\ tree = Subtree(body, p).kids[i]
    OBVIOUS
  <2>2. t = Task("gen", tree, path)
    BY <1>1, <2>1 DEF KidTask
  <2> QED
    BY <2>1, <2>2 DEF Task
<1>3. t.path \in Places(body) /\ t.tree = Subtree(body, t.path)
  BY <1>2, KidIsPlace
<1> QED
  BY <1>1, <1>2, <1>3 DEF Goes

LEMMA WalkTwo ==
  ASSUME NEW M, NEW body, NEW a \in Jobs, NEW b \in Jobs,
         NEW s \in Situations, NEW q \in Situations, NEW r \in Situations,
         Goes(M, body, s, a, q), Goes(M, body, q, b, r)
  PROVE  <<a, b>> \in Seq(Jobs) /\ Walks(M, body, <<a, b>>, s, r)
<1>1. PICK t : t = <<a, b>>
  OBVIOUS
<1>2. t \in Seq(Jobs) /\ Len(t) = 2 /\ t[1] = a /\ t[2] = b
  BY <1>1
<1>3. PICK f : f = [i \in 1 .. 3 |-> IF i = 1 THEN s ELSE IF i = 2 THEN q ELSE r]
  OBVIOUS
<1>4. f \in [1 .. 2 + 1 -> Situations] /\ f[1] = s /\ f[2] = q /\ f[3] = r /\ f[2 + 1] = r
  BY <1>3
<1>5. \A i \in 1 .. 2 : Goes(M, body, f[i], t[i], f[i + 1])
  <2> TAKE i \in 1 .. 2
  <2>1. i \in {1, 2} /\ 1 + 1 = 2 /\ 2 + 1 = 3
    OBVIOUS
  <2> QED
    BY <2>1, <1>2, <1>4
<1>6. Walks(M, body, t, s, r)
  BY <1>2, <1>4, <1>5 DEF Walks
<1> QED
  BY <1>1, <1>2, <1>6

LEMMA WalkThree ==
  ASSUME NEW M, NEW body, NEW a \in Jobs, NEW b \in Jobs, NEW c \in Jobs,
         NEW s \in Situations, NEW q \in Situations, NEW u \in Situations, NEW r \in Situations,
         Goes(M, body, s, a, q), Goes(M, body, q, b, u), Goes(M, body, u, c, r)
  PROVE  <<a, b, c>> \in Seq(Jobs) /\ Walks(M, body, <<a, b, c>>, s, r)
<1>1. PICK t : t = <<a, b, c>>
  OBVIOUS
<1>2. t \in Seq(Jobs) /\ Len(t) = 3 /\ t[1] = a /\ t[2] = b /\ t[3] = c
  BY <1>1
<1>3. PICK f : f = [i \in 1 .. 4 |-> IF i = 1 THEN s ELSE IF i = 2 THEN q ELSE IF i = 3 THEN u ELSE r]
  OBVIOUS
<1>4. /\ f \in [1 .. 3 + 1 -> Situations] /\ f[1] = s /\ f[2] = q /\ f[3] = u /\ f[4] = r
      /\ f[3 + 1] = r
  BY <1>3
<1>5. \A i \in 1 .. 3 : Goes(M, body, f[i], t[i], f[i + 1])
  <2> TAKE i \in 1 .. 3
  <2>1. i \in {1, 2, 3} /\ 1 + 1 = 2 /\ 2 + 1 = 3 /\ 3 + 1 = 4
    OBVIOUS
  <2> QED
    BY <2>1, <1>2, <1>4
<1>6. Walks(M, body, t, s, r)
  BY <1>2, <1>4, <1>5 DEF Walks
<1> QED
  BY <1>1, <1>2, <1>6

LEMMA WalkSix ==
  ASSUME NEW M, NEW body, NEW c \in Jobs, NEW b \in Jobs, NEW t \in Jobs, NEW l \in Jobs,
         NEW e \in Jobs, NEW m \in Jobs,
         NEW s \in Situations, NEW q \in Situations, NEW r \in Situations,
         Goes(M, body, s, c, s), Goes(M, body, s, b, q), Goes(M, body, q, t, q),
         Goes(M, body, q, l, q), Goes(M, body, q, e, q), Goes(M, body, q, m, r)
  PROVE  <<c, b, t, l, e, m>> \in Seq(Jobs) /\ Walks(M, body, <<c, b, t, l, e, m>>, s, r)
<1>1. PICK w : w = <<c, b, t, l, e, m>>
  OBVIOUS
<1>2. /\ w \in Seq(Jobs) /\ Len(w) = 6 /\ w[1] = c /\ w[2] = b /\ w[3] = t
      /\ w[4] = l /\ w[5] = e /\ w[6] = m
  BY <1>1
<1>3. PICK f : f = [i \in 1 .. 7 |-> IF i \in {1, 2} THEN s ELSE IF i = 7 THEN r ELSE q]
  OBVIOUS
<1>4. /\ f \in [1 .. 6 + 1 -> Situations] /\ f[1] = s /\ f[2] = s /\ f[3] = q /\ f[4] = q
      /\ f[5] = q /\ f[6] = q /\ f[7] = r /\ f[6 + 1] = r
  BY <1>3
<1>5. /\ Goes(M, body, f[1], w[1], f[2]) /\ Goes(M, body, f[2], w[2], f[3])
      /\ Goes(M, body, f[3], w[3], f[4]) /\ Goes(M, body, f[4], w[4], f[5])
      /\ Goes(M, body, f[5], w[5], f[6]) /\ Goes(M, body, f[6], w[6], f[7])
  BY <1>2, <1>4
<1>6. \A i \in 1 .. 6 : Goes(M, body, f[i], w[i], f[i + 1])
  <2> TAKE i \in 1 .. 6
  <2>1. i \in {1, 2, 3, 4, 5, 6}
    OBVIOUS
  <2>2. 1 + 1 = 2 /\ 2 + 1 = 3 /\ 3 + 1 = 4 /\ 4 + 1 = 5 /\ 5 + 1 = 6 /\ 6 + 1 = 7
    OBVIOUS
  <2> QED
    BY <2>1, <2>2, <1>5
<1>7. Walks(M, body, w, s, r)
  BY <1>2, <1>4, <1>6 DEF Walks
<1> QED
  BY <1>1, <1>2, <1>7

-----------------------------------------------------------------------------
(* What a generated expression puts in front of what is to do: its kids in *)
(* their scopes, all of them.                                              *)
Heads == {"gen", "store", "initialize"}
Covering(body, p, tasks) ==
  \A i \in KidsAt(body, p) :
    \E j \in 1 .. Len(tasks) : tasks[j].do \in Heads /\ tasks[j].path = Append(p, i)
Expands(M, body, s, r) ==
  \E tasks \in Seq(Jobs) :
    todo' = tasks \o Tail(todo) /\ Walks(M, body, tasks, s, r) /\ Covering(body, P, tasks)
Generates(M, body, s) ==
  /\ body \in Trees /\ Laws(M, body, fn, LoopScope) /\ s \in Situations
  /\ P \in Places(body) /\ T = Subtree(body, P) /\ s.scope = M[P]

LEMMA KidsHere ==
  ASSUME Data, Doing("gen"), NEW M, NEW body, NEW s, Generates(M, body, s)
  PROVE  /\ T \in Trees /\ IsTree(T, Trees) /\ P \in Seq(Nat)
         /\ \A i : i \in KidsAt(body, P) <=> i \in 1 .. Len(T.kids) /\ T.kids[i] # Null
         /\ \A i \in Nat : Kid(i).do = "gen" /\ Kid(i).path = Append(P, i)
         /\ \A i \in KidsAt(body, P) :
              /\ i \in Nat \ {0}
              /\ T.node # "var" => Kid(i) \in Jobs
              /\ T.node \notin {"for", "var"} => M[Append(P, i)] = s.scope
              /\ \A r : r.scope = M[Append(P, i)] => Goes(M, body, r, Kid(i), r)
<1>1. T \in Trees /\ IsTree(T, Trees) /\ P \in Seq(Nat) /\ \A i \in Nat : T.kids[i] \in Trees => Kid(i) \in Jobs
  BY GenIs
<1>2. \A i : i \in KidsAt(body, P) <=> i \in 1 .. Len(T.kids) /\ T.kids[i] # Null
  BY DEF Generates, KidsAt
<1>3. \A i : Kid(i).do = "gen" /\ Kid(i).path = Append(P, i)
  BY DEF Kid, Task
<1>4. ASSUME NEW i \in KidsAt(body, P)
      PROVE  /\ i \in Nat \ {0}
             /\ T.node # "var" => Kid(i) \in Jobs
             /\ T.node \notin {"for", "var"} => M[Append(P, i)] = s.scope
             /\ \A r : r.scope = M[Append(P, i)] => Goes(M, body, r, Kid(i), r)
  <2>1. body \in Trees /\ P \in Places(body) /\ T = Subtree(body, P)
    BY DEF Generates
  <2>2. i \in Nat \ {0}
    BY <2>1, KidIsPlace
  <2>3. T.node # "var" => Kid(i) \in Jobs
    BY <2>2, <1>1, <1>2, <1>4, TreeIs
  <2>4. T.node \notin {"for", "var"} => M[Append(P, i)] = s.scope
    <3>1. ScopeKept(M, body, LoopScope) /\ s.scope = M[P]
      BY DEF Generates, Laws
    <3> QED
      BY <3>1, <2>1, <2>2, <1>1 DEF ScopeKept, NodeAt
  <2>5. ASSUME NEW r, r.scope = M[Append(P, i)] PROVE Goes(M, body, r, Kid(i), r)
    <3>1. Goes(M, body, r, KidTask(body, P, i), r)
      BY <2>1, <2>5, KidGoes
    <3> QED
      BY <3>1, <2>1 DEF Kid, KidTask
  <2> QED
    BY <2>2, <2>3, <2>4, <2>5
<1> QED
  BY <1>1, <1>2, <1>3, <1>4

LEMMA NothingExpands ==
  ASSUME NEW M, NEW body, NEW s \in Situations, Continue(<<>>), KidsAt(body, P) = {}
  PROVE  Expands(M, body, s, s)
<1>1. <<>> \in Seq(Jobs) /\ Walks(M, body, <<>>, s, s)
  BY WalkNone
<1>2. Covering(body, P, <<>>)
  BY DEF Covering
<1> QED
  BY <1>1, <1>2 DEF Expands, Continue

LEMMA AssignmentExpands ==
  ASSUME Data, Assignment, NEW M, NEW body, NEW s, Generates(M, body, s), ~Misread(T.kids[1])
  PROVE  Expands(M, body, s, s)
<1>1. /\ Doing("gen") /\ T.node = "binary" /\ T.kids[1].node = "variable"
      /\ Continue(<<Kid(2), Task("store", T.kids[1], Append(P, 1))>>)
  BY DEF Assignment, IsAssignment
<1>2. /\ T.kids \in Seq(Trees) /\ Len(T.kids) = 2 /\ P \in Seq(Nat)
      /\ s \in Situations /\ body \in Trees /\ P \in Places(body) /\ T = Subtree(body, P)
  BY <1>1, GenIs DEF IsTree, Generates
<1>3. /\ T.kids[1] \in Trees /\ T.kids[2] \in Trees /\ T.kids[1] # Null /\ T.kids[2] # Null
      /\ T.kids[1].name \in Names
  <2>1. T.kids[1] \in Trees /\ T.kids[2] \in Trees
    BY <1>2, ElementOfSeq
  <2> QED
    BY <2>1, <1>1, TreeIs DEF IsTree
<1>4. \A i : i \in KidsAt(body, P) <=> i \in {1, 2}
  <2>1. 1 .. 2 = {1, 2}
    OBVIOUS
  <2> QED
    BY <2>1, <1>1, <1>2, <1>3, KidsHere
<1>5. /\ Kid(2) \in Jobs /\ Goes(M, body, s, Kid(2), s) /\ M[Append(P, 1)] = s.scope
      /\ Kid(2).do = "gen" /\ Kid(2).path = Append(P, 2)
  BY <1>1, <1>4, KidsHere
<1>6. PICK a \in Jobs : a = Kid(2)
  BY <1>5
<1>7. PICK b : b = Task("store", T.kids[1], Append(P, 1))
  OBVIOUS
<1>8. b.do = "store" /\ b.tree = T.kids[1] /\ b.path = Append(P, 1) /\ b \in Jobs
  <2>1. Append(P, 1) \in Seq(Nat)
    BY <1>2, PushIs
  <2> QED
    BY <2>1, <1>3, <1>7, TaskIsJob DEF Task
<1>9. Goes(M, body, s, b, s)
  <2>1. b.path \in Places(body) /\ b.tree = Subtree(body, b.path)
    BY <1>2, <1>4, <1>8, KidIsPlace
  <2> QED
    BY <2>1, <1>1, <1>5, <1>8 DEF Goes
<1>10. PICK tasks : tasks = <<a, b>>
  OBVIOUS
<1>11. tasks \in Seq(Jobs) /\ Walks(M, body, tasks, s, s) /\ Len(tasks) = 2 /\ tasks[1] = a /\ tasks[2] = b
  BY <1>2, <1>5, <1>6, <1>8, <1>9, <1>10, WalkTwo
<1>12. Covering(body, P, tasks)
  <2>1. 1 \in 1 .. 2 /\ 2 \in 1 .. 2
    OBVIOUS
  <2>2. tasks[2].do \in Heads /\ tasks[2].path = Append(P, 1) /\ tasks[1].do \in Heads /\ tasks[1].path = Append(P, 2)
    BY <1>5, <1>6, <1>8, <1>11 DEF Heads
  <2> QED
    BY <2>1, <2>2, <1>4, <1>11 DEF Covering
<1> QED
  BY <1>1, <1>6, <1>7, <1>10, <1>11, <1>12 DEF Expands, Continue

LEMMA OperandsExpand ==
  ASSUME Data, Operands, NEW M, NEW body, NEW s, Generates(M, body, s)
  PROVE  Expands(M, body, s, s)
<1>1. Doing("gen") /\ T.kids \in Seq(Trees) /\ T.node \notin {"for", "var"} /\ s \in Situations
  BY GenIs DEF Operands, IsTree, Generates
<1>2. PICK n \in Nat : n = Len(T.kids)
  BY <1>1, LenProperties
<1>3. ASSUME NEW i \in 1 .. n PROVE i \in KidsAt(body, P)
  <2>1. T.kids[i] \in Trees
    BY <1>1, <1>2, ElementOfSeq
  <2> QED
    BY <2>1, <1>1, <1>2, KidsHere, NullAssumption
<1>4. \A i \in 1 .. n : /\ Kid(i) \in Jobs /\ Goes(M, body, s, Kid(i), s)
                        /\ Kid(i).do = "gen" /\ Kid(i).path = Append(P, i)
  BY <1>1, <1>3, KidsHere
<1>5. PICK tasks : tasks = [i \in 1 .. n |-> Kid(i)]
  OBVIOUS
<1>6. tasks \in Seq(Jobs) /\ Len(tasks) = n /\ \A i \in 1 .. n : tasks[i] = Kid(i)
  <2>1. tasks \in [1 .. n -> Jobs] /\ \A i \in 1 .. n : tasks[i] = Kid(i)
    BY <1>4, <1>5
  <2> QED
    BY <2>1, SeqDef, LenProperties
<1>7. Walks(M, body, tasks, s, s)
  BY <1>1, <1>4, <1>6, WalkSame
<1>8. Covering(body, P, tasks)
  <2>1. \A i \in KidsAt(body, P) : i \in 1 .. n
    BY <1>1, <1>2, KidsHere
  <2> QED
    BY <2>1, <1>4, <1>6 DEF Covering, Heads
<1>9. todo' = tasks \o Tail(todo)
  BY <1>2, <1>5 DEF Operands, Continue
<1> QED
  BY <1>6, <1>7, <1>8, <1>9 DEF Expands

LEMMA IfExpands ==
  ASSUME Data, IfStarts, NEW M, NEW body, NEW s, Generates(M, body, s)
  PROVE  Expands(M, body, s, s)
<1>1. /\ Doing("gen") /\ T \in Trees /\ P \in Seq(Nat) /\ T.kids \in Seq(Trees) /\ Len(T.kids) = 3
      /\ T.node = "if" /\ s \in Situations /\ s.scope \in Scopes /\ P \in Places(body) /\ T = Subtree(body, P)
  BY GenIs DEF IfStarts, Generating, IsTree, Generates, Situations
<1>2. \A i : i \in KidsAt(body, P) <=> i \in {1, 2, 3}
  <2>1. 1 .. 3 = {1, 2, 3}
    OBVIOUS
  <2>2. \A i \in 1 .. 3 : T.kids[i] # Null
    BY <1>1, ElementOfSeq, NullAssumption
  <2> QED
    BY <2>1, <2>2, <1>1, KidsHere
<1>3. PICK o \in Situations :
        o = Opened(s, P, 0, s.scope) /\ AtTop(o, P, 0) /\ Closed(o, s.scope) = s /\ o.scope = s.scope
  BY <1>1, SituationIs
<1>4. \A i \in {1, 2, 3} : /\ Kid(i) \in Jobs /\ Kid(i).do = "gen" /\ Kid(i).path = Append(P, i)
                           /\ Goes(M, body, s, Kid(i), s) /\ Goes(M, body, o, Kid(i), o)
  BY <1>1, <1>2, <1>3, KidsHere
<1>5. PICK b, l, m : b = Task("branch", T, P) /\ l = Task("else", T, P) /\ m = Task("merge", T, P)
  OBVIOUS
<1>6. /\ b \in Jobs /\ l \in Jobs /\ m \in Jobs
      /\ b.do = "branch" /\ l.do = "else" /\ m.do = "merge"
      /\ b.path = P /\ l.path = P /\ m.path = P /\ b.tree = T /\ l.tree = T /\ m.tree = T
  BY <1>1, <1>5, TaskIsJob DEF Task
<1>7. Goes(M, body, s, b, o) /\ Goes(M, body, o, l, o) /\ Goes(M, body, o, m, s)
  BY <1>1, <1>3, <1>6 DEF Goes
<1>8. PICK c \in Jobs, t \in Jobs, e \in Jobs : c = Kid(1) /\ t = Kid(2) /\ e = Kid(3)
  BY <1>4
<1>9. PICK tasks : tasks = <<c, b, t, l, e, m>>
  OBVIOUS
<1>10. tasks \in Seq(Jobs) /\ Walks(M, body, tasks, s, s)
  BY <1>1, <1>4, <1>6, <1>7, <1>8, <1>9, WalkSix
<1>11. Len(tasks) = 6 /\ tasks[1] = c /\ tasks[3] = t /\ tasks[5] = e
  BY <1>9
<1>12. Covering(body, P, tasks)
  <2>1. 1 \in 1 .. 6 /\ 3 \in 1 .. 6 /\ 5 \in 1 .. 6
    OBVIOUS
  <2>2. /\ tasks[1].do \in Heads /\ tasks[1].path = Append(P, 1)
        /\ tasks[3].do \in Heads /\ tasks[3].path = Append(P, 2)
        /\ tasks[5].do \in Heads /\ tasks[5].path = Append(P, 3)
    BY <1>4, <1>8, <1>11 DEF Heads
  <2> QED
    BY <2>1, <2>2, <1>2, <1>11 DEF Covering
<1>13. todo' = tasks \o Tail(todo)
  BY <1>5, <1>8, <1>9 DEF IfStarts, Continue
<1> QED
  BY <1>10, <1>12, <1>13 DEF Expands

(* Every part of a loop in the scope of its variable has the same scope.   *)
LEMMA LoopScopes ==
  ASSUME NEW M, NEW body, NEW f, NEW loops, Laws(M, body, f, loops), loops \subseteq Nat,
         NEW p \in Seq(Nat), NodeAt(body, p) = "for", NEW i \in loops, NEW j \in loops
  PROVE  M[Append(p, i)] = M[Append(p, j)]
<1>1. Append(p, i) \in Seq(Nat) /\ Append(p, j) \in Seq(Nat)
  BY PushIs
<1>2. PICK a \in Scopes, b \in Scopes : a = M[Append(p, i)] /\ b = M[Append(p, j)]
  BY <1>1 DEF Laws, ScopesAre
<1>3. ASSUME NEW x \in Names PROVE a[x] = b[x]
  <2>1. PICK slot : slot = <<f, p>>
    OBVIOUS
  <2>2. \A k \in loops : M[Append(p, k)][x] = IF x = NameOf(body, p) THEN slot ELSE M[p][x]
    BY <2>1 DEF Laws, ScopeOfLoop
  <2> QED
    BY <2>2, <1>2
<1>4. a = b
  BY <1>3 DEF Scopes
<1> QED
  BY <1>2, <1>4

(* A list that has, somewhere, all the tasks of three lists covers what    *)
(* they cover.                                                             *)
Has(tasks, t) == \E j \in 1 .. Len(tasks) : tasks[j] = t

LEMMA HasJoin ==
  ASSUME NEW S, NEW a \in Seq(S), NEW b \in Seq(S), NEW t
  PROVE  Has(a, t) \/ Has(b, t) => Has(a \o b, t)
<1>1. PICK m \in Nat : m = Len(a)
  BY LenProperties
<1>2. PICK n \in Nat : n = Len(b)
  BY LenProperties
<1>3. PICK c : c = a \o b
  OBVIOUS
<1>4. /\ Len(c) = m + n
      /\ \A i \in 1 .. m + n : c[i] = IF i <= m THEN a[i] ELSE b[i - m]
  BY <1>1, <1>2, <1>3, ConcatProperties
<1>5. ASSUME NEW j \in 1 .. m, a[j] = t PROVE Has(c, t)
  <2>1. j \in 1 .. m + n /\ j <= m
    OBVIOUS
  <2> QED
    BY <2>1, <1>4, <1>5 DEF Has
<1>6. ASSUME NEW j \in 1 .. n, b[j] = t PROVE Has(c, t)
  <2>1. j + m \in 1 .. m + n /\ ~(j + m <= m) /\ (j + m) - m = j
    OBVIOUS
  <2> QED
    BY <2>1, <1>4, <1>6 DEF Has
<1> QED
  BY <1>1, <1>2, <1>3, <1>5, <1>6 DEF Has

LEMMA ForExpands ==
  ASSUME Data, ForStarts, NEW M, NEW body, NEW s, Generates(M, body, s)
  PROVE  Expands(M, body, s, s)
<1>1. /\ Doing("gen") /\ T.node = "for" /\ T \in Trees /\ P \in Seq(Nat) /\ T.name \in Names
      /\ Len(T.kids) = 4 /\ T.kids[1] \in Trees /\ T.kids[2] \in Trees /\ T.kids[4] \in Trees
      /\ s \in Situations /\ s.scope \in Scopes /\ P \in Places(body) /\ T = Subtree(body, P) /\ s.scope = M[P]
      /\ Laws(M, body, fn, LoopScope)
  BY GenIs DEF ForStarts, Generating, IsTree, Generates, Situations
<1>2. \A i : i \in KidsAt(body, P) <=> i \in {1, 2, 4} \/ (i = 3 /\ T.kids[3] # Null)
  <2>1. 1 .. 4 = {1, 2, 3, 4}
    OBVIOUS
  <2> QED
    BY <2>1, <1>1, KidsHere, NullAssumption
<1>3. /\ \A i \in {1, 2, 4} : Kid(i) \in Jobs /\ Kid(i).do = "gen" /\ Kid(i).path = Append(P, i)
      /\ T.kids[3] # Null => Kid(3) \in Jobs /\ Kid(3).do = "gen" /\ Kid(3).path = Append(P, 3)
      /\ \A r : /\ \A i \in {1, 2, 4} : r.scope = M[Append(P, i)] => Goes(M, body, r, Kid(i), r)
                /\ T.kids[3] # Null /\ r.scope = M[Append(P, 3)] => Goes(M, body, r, Kid(3), r)
  BY <1>1, <1>2, KidsHere
<1>4. Append(P, 4) \in Seq(Nat) /\ M[Append(P, 4)] \in Scopes
  BY <1>1, PushIs DEF Laws, ScopesAre
<1>5. PICK o \in Situations :
        /\ o = Opened(s, P, 1, M[Append(P, 4)]) /\ AtTop(o, P, 1) /\ Closed(o, s.scope) = s
        /\ o.scope = M[Append(P, 4)]
  BY <1>1, <1>4, SituationIs
<1>6. /\ M[Append(P, 1)] = s.scope
      /\ backend = "Athens" => M[Append(P, 2)] = o.scope /\ M[Append(P, 3)] = o.scope
      /\ backend # "Athens" => M[Append(P, 2)] = s.scope /\ M[Append(P, 3)] = s.scope
  <2>1. LoopScope \subseteq Nat /\ 1 \notin LoopScope /\ 4 \in LoopScope
    BY DEF LoopScope
  <2>2. NodeAt(body, P) = "for"
    BY <1>1 DEF NodeAt
  <2>3. \A i \in Nat : i \notin LoopScope => M[Append(P, i)] = M[P]
    BY <2>2, <1>1 DEF Laws, ScopeKept
  <2>4. backend = "Athens" => 2 \in LoopScope /\ 3 \in LoopScope
    BY DEF LoopScope
  <2>5. backend # "Athens" => 2 \notin LoopScope /\ 3 \notin LoopScope
    BY DEF LoopScope
  <2>6. \A i \in LoopScope : M[Append(P, i)] = M[Append(P, 4)]
    BY <2>1, <2>2, <1>1, LoopScopes
  <2> QED
    BY <2>1, <2>3, <2>4, <2>5, <2>6, <1>1, <1>5
<1>7. PICK n, x : n = Task("enter", T, P) /\ x = Task("exit", T, P)
  OBVIOUS
<1>8. /\ n \in Jobs /\ x \in Jobs /\ n.do = "enter" /\ x.do = "exit"
      /\ n.path = P /\ x.path = P /\ n.tree = T /\ x.tree = T
  BY <1>1, <1>7, TaskIsJob DEF Task
<1>9. Goes(M, body, s, n, o) /\ Goes(M, body, o, x, s)
  BY <1>1, <1>5, <1>8 DEF Goes
<1>10. PICK a \in Jobs, d \in Jobs, b \in Jobs : a = Kid(1) /\ d = Kid(2) /\ b = Kid(4)
  BY <1>3
<1>11. /\ Goes(M, body, s, a, s) /\ Goes(M, body, o, b, o)
       /\ backend = "Athens" => Goes(M, body, o, d, o)
       /\ backend # "Athens" => Goes(M, body, s, d, s)
  BY <1>3, <1>5, <1>6, <1>10
<1>12. PICK step : step = Step
  OBVIOUS
<1>13. /\ step \in Seq(Jobs)
       /\ T.kids[3] # Null => Has(step, Kid(3))
       /\ backend = "Athens" => Walks(M, body, step, o, o)
       /\ backend # "Athens" => Walks(M, body, step, s, s)
  <2>1. CASE T.kids[3] = Null
    <3>1. step = <<>>
      BY <2>1, <1>12 DEF Step
    <3> QED
      BY <3>1, <2>1, <1>1, WalkNone
  <2>2. CASE T.kids[3] # Null
    <3>1. step = <<Kid(3)>>
      BY <2>2, <1>12 DEF Step
    <3>2. PICK k \in Jobs : k = Kid(3)
      BY <2>2, <1>3
    <3>3. backend = "Athens" => Goes(M, body, o, k, o)
      BY <2>2, <3>2, <1>3, <1>6
    <3>4. backend # "Athens" => Goes(M, body, s, k, s)
      BY <2>2, <3>2, <1>3, <1>6
    <3>5. step = <<k>> /\ step \in Seq(Jobs) /\ Len(step) = 1 /\ step[1] = k
      BY <3>1, <3>2
    <3>6. Has(step, k)
      BY <3>5 DEF Has
    <3> QED
      BY <3>2, <3>3, <3>4, <3>5, <3>6, <1>1, WalkOne
  <2> QED
    BY <2>1, <2>2
<1>14. PICK p, q, u, v : p = <<a, n, b>> /\ q = <<d, x>> /\ u = <<a, d>> /\ v = <<n, b, x>>
  OBVIOUS
<1>15. /\ p \in Seq(Jobs) /\ q \in Seq(Jobs) /\ u \in Seq(Jobs) /\ v \in Seq(Jobs)
       /\ Has(p, a) /\ Has(p, b) /\ Has(q, d) /\ Has(u, a) /\ Has(u, d) /\ Has(v, b)
  <2>1. /\ Len(p) = 3 /\ p[1] = a /\ p[3] = b /\ Len(q) = 2 /\ q[1] = d
        /\ Len(u) = 2 /\ u[1] = a /\ u[2] = d /\ Len(v) = 3 /\ v[2] = b
        /\ p \in Seq(Jobs) /\ q \in Seq(Jobs) /\ u \in Seq(Jobs) /\ v \in Seq(Jobs)
    BY <1>8, <1>14
  <2>2. 1 \in 1 .. 3 /\ 3 \in 1 .. 3 /\ 2 \in 1 .. 3 /\ 1 \in 1 .. 2 /\ 2 \in 1 .. 2
    OBVIOUS
  <2> QED
    BY <2>1, <2>2 DEF Has
<1>16. PICK tasks \in Seq(Jobs) :
         /\ todo' = tasks \o Tail(todo) /\ Walks(M, body, tasks, s, s)
         /\ Has(tasks, a) /\ Has(tasks, b) /\ Has(tasks, d)
         /\ T.kids[3] # Null => Has(tasks, Kid(3))
  <2>1. CASE backend = "Athens"
    <3>1. Walks(M, body, p, s, o) /\ Walks(M, body, q, o, s)
      BY <2>1, <1>1, <1>8, <1>9, <1>11, <1>14, WalkTwo, WalkThree
    <3>2. PICK w \in Seq(Jobs) : w = p \o step
      <4>1. step \in Seq(Jobs) /\ p \in Seq(Jobs)
        BY <1>13, <1>15
      <4>2. p \o step \in Seq(Jobs)
        BY <4>1, ConcatProperties
      <4> QED
        BY <4>2
    <3>3. /\ Walks(M, body, w, s, o) /\ Has(w, a) /\ Has(w, b)
          /\ T.kids[3] # Null => Has(w, Kid(3))
      BY <2>1, <3>1, <3>2, <1>1, <1>13, <1>15, WalkJoin, HasJoin
    <3>4. PICK y \in Seq(Jobs) : y = w \o q
      BY <1>15, ConcatProperties
    <3>5. /\ Walks(M, body, y, s, s) /\ Has(y, a) /\ Has(y, b) /\ Has(y, d)
          /\ T.kids[3] # Null => Has(y, Kid(3))
      BY <3>1, <3>3, <3>4, <1>1, <1>15, WalkJoin, HasJoin
    <3>6. todo' = y \o Tail(todo)
      BY <2>1, <3>2, <3>4, <1>7, <1>10, <1>12, <1>14 DEF ForStarts, Continue
    <3> QED
      BY <3>5, <3>6
  <2>2. CASE backend # "Athens"
    <3>1. Walks(M, body, u, s, s) /\ Walks(M, body, v, s, s)
      BY <2>2, <1>1, <1>8, <1>9, <1>11, <1>14, WalkTwo, WalkThree
    <3>2. PICK w \in Seq(Jobs) : w = u \o step
      <4>1. step \in Seq(Jobs) /\ u \in Seq(Jobs)
        BY <1>13, <1>15
      <4>2. u \o step \in Seq(Jobs)
        BY <4>1, ConcatProperties
      <4> QED
        BY <4>2
    <3>3. /\ Walks(M, body, w, s, s) /\ Has(w, a) /\ Has(w, d)
          /\ T.kids[3] # Null => Has(w, Kid(3))
      BY <2>2, <3>1, <3>2, <1>1, <1>13, <1>15, WalkJoin, HasJoin
    <3>4. PICK y \in Seq(Jobs) : y = w \o v
      BY <1>15, ConcatProperties
    <3>5. /\ Walks(M, body, y, s, s) /\ Has(y, a) /\ Has(y, b) /\ Has(y, d)
          /\ T.kids[3] # Null => Has(y, Kid(3))
      BY <3>1, <3>3, <3>4, <1>1, <1>15, WalkJoin, HasJoin
    <3>6. todo' = y \o Tail(todo)
      BY <2>2, <3>2, <3>4, <1>7, <1>10, <1>12, <1>14 DEF ForStarts, Continue
    <3> QED
      BY <3>5, <3>6
  <2> QED
    BY <2>1, <2>2
<1>17. Covering(body, P, tasks)
  <2>1. ASSUME NEW i \in KidsAt(body, P)
        PROVE  Has(tasks, Kid(i)) /\ Kid(i).do \in Heads /\ Kid(i).path = Append(P, i)
    <3>1. i = 1 \/ i = 2 \/ i = 4 \/ (i = 3 /\ T.kids[3] # Null)
      BY <1>2, <2>1
    <3>2. Kid(i).do = "gen" /\ Kid(i).path = Append(P, i)
      BY <3>1, <1>3
    <3>3. Has(tasks, Kid(i))
      BY <3>1, <1>10, <1>16
    <3> QED
      BY <3>2, <3>3 DEF Heads
  <2> QED
    BY <2>1 DEF Covering, Has
<1> QED
  BY <1>16, <1>17 DEF Expands

(* A var binds its names one after the other.                              *)
LEMMA VarExpands ==
  ASSUME Data, VarStarts, NEW M, NEW body, NEW s, Generates(M, body, s)
  PROVE  /\ Opened(s, P, 0, s.scope) \in Situations
         /\ Expands(M, body, Opened(s, P, 0, s.scope), s)
<1>1. /\ Doing("gen") /\ T.node = "var" /\ T \in Trees /\ P \in Seq(Nat) /\ Len(T.kids) \in Nat \ {0}
      /\ T.kids[Len(T.kids)] \in Trees
      /\ \A i \in 1 .. Len(T.kids) - 1 :
           /\ T.kids[i] # Null /\ T.kids[i].name \in Names
           /\ T.kids[i].kids[1] = Null \/ T.kids[i].kids[1] \in Trees
  BY GenIs DEF VarStarts, Generating, IsTree
<1>2. /\ s \in Situations /\ s.scope \in Scopes /\ P \in Places(body) /\ T = Subtree(body, P)
      /\ s.scope = M[P] /\ Laws(M, body, fn, LoopScope) /\ body \in Trees
  BY DEF Generates, Situations
<1>3. PICK n \in Nat : n = Len(T.kids) - 1 /\ n + 1 = Len(T.kids)
  BY <1>1
<1>4. \A i \in 1 .. n + 1 : T.kids[i] # Null
  <2> TAKE i \in 1 .. n + 1
  <2>1. CASE i = n + 1
    BY <2>1, <1>1, <1>3, NullAssumption
  <2>2. CASE i # n + 1
    BY <2>2, <1>1, <1>3
  <2> QED
    BY <2>1, <2>2
<1>5. \A i : i \in KidsAt(body, P) <=> i \in 1 .. n + 1
  BY <1>1, <1>3, <1>4, KidsHere
<1>6. \A i \in 1 .. n + 1 : Append(P, i) \in Places(body) /\ Append(P, i) \in Seq(Nat)
                            /\ Subtree(body, Append(P, i)) = T.kids[i] /\ M[Append(P, i)] \in Scopes
  <2> TAKE i \in 1 .. n + 1
  <2>1. Append(P, i) \in Places(body) /\ Subtree(body, Append(P, i)) = T.kids[i]
    BY <1>2, <1>5, KidIsPlace
  <2>2. Append(P, i) \in Seq(Nat)
    BY <2>1, <1>2, PlaceIs
  <2> QED
    BY <2>1, <2>2, <1>2 DEF Laws, ScopesAre
<1>7. PICK f : f = [i \in 1 .. n + 1 |-> Opened(s, P, i - 1, M[Append(P, i)])]
  OBVIOUS
<1>8. \A i \in 1 .. n + 1 :
        /\ f[i] = Opened(s, P, i - 1, M[Append(P, i)]) /\ f[i] \in Situations
        /\ AtTop(f[i], P, i - 1) /\ f[i].scope = M[Append(P, i)]
        /\ Closed(f[i], s.scope) = s
  <2> TAKE i \in 1 .. n + 1
  <2>1. PICK j \in Nat : j = i - 1
    OBVIOUS
  <2>2. f[i] = Opened(s, P, j, M[Append(P, i)])
    BY <2>1, <1>7
  <2> QED
    BY <2>1, <2>2, <1>1, <1>2, <1>6, SituationIs
<1>9. \A i \in 1 .. n : f[i + 1] = Rebound(f[i], P, i, M[Append(P, i + 1)])
  <2> TAKE i \in 1 .. n
  <2>1. i \in 1 .. n + 1 /\ i + 1 \in 1 .. n + 1 /\ (i + 1) - 1 = i /\ i - 1 \in Nat
    OBVIOUS
  <2>2. PICK a, b : a = M[Append(P, i)] /\ b = M[Append(P, i + 1)]
    OBVIOUS
  <2>3. f[i] = Opened(s, P, i - 1, a) /\ f[i + 1] = Opened(s, P, i, b)
    BY <2>1, <2>2, <1>8
  <2>4. Cut(f[i].own) = s.own
    <3>1. PICK o \in Owners : o = Owner(P, i - 1)
      BY <2>1, <1>1 DEF Owner, Owners
    <3>2. f[i].own = Append(s.own, o)
      BY <3>1, <2>3 DEF Opened
    <3> QED
      BY <3>1, <3>2, <1>2, CutPush DEF Situations
  <2> QED
    BY <2>2, <2>3, <2>4 DEF Opened, Rebound
<1>10. PICK first : first = [i \in 1 .. n |-> Task("initialize", T.kids[i], Append(P, i))]
  OBVIOUS
<1>11. ASSUME NEW i \in 1 .. n
       PROVE  /\ first[i] \in Jobs /\ first[i].do = "initialize"
              /\ first[i].tree = T.kids[i] /\ first[i].path = Append(P, i)
  <2>1. first[i] = Task("initialize", T.kids[i], Append(P, i))
    BY <1>10
  <2>2. i \in 1 .. Len(T.kids) /\ T.kids[i] \in Parts
    BY <1>1, <1>3 DEF Parts
  <2>3. Append(P, i) \in Seq(Nat)
    BY <1>6
  <2>4. T.kids[i].name \in Names /\ (T.kids[i].kids[1] = Null \/ T.kids[i].kids[1] \in Trees)
    BY <1>1, <1>3
  <2>5. PICK t, q : t = T.kids[i] /\ q = Append(P, i)
    OBVIOUS
  <2>6. Task("initialize", t, q) \in Jobs
    BY <2>2, <2>3, <2>4, <2>5, TaskIsJob
  <2> QED
    BY <2>1, <2>5, <2>6 DEF Task
<1>12. first \in Seq(Jobs) /\ Len(first) = n
  <2>1. first \in [1 .. n -> Jobs]
    BY <1>10, <1>11
  <2> QED
    BY <2>1, SeqDef, LenProperties
<1>13. Walks(M, body, first, f[1], f[n + 1])
  <2>1. ASSUME NEW i \in 1 .. n PROVE Goes(M, body, f[i], first[i], f[i + 1])
    <3>1. i \in 1 .. n + 1 /\ i \in 1 .. Len(T.kids) - 1
      BY <1>3
    <3>2. /\ first[i].do = "initialize" /\ first[i].tree = Subtree(body, first[i].path)
          /\ first[i].path \in Places(body) /\ first[i].path = Append(P, i)
      BY <3>1, <1>6, <1>11
    <3>3. AtTop(f[i], P, i - 1) /\ f[i].scope = M[first[i].path]
      BY <3>1, <3>2, <1>8
    <3>4. f[i + 1] = Rebound(f[i], P, i, M[Append(P, i + 1)])
      BY <1>9
    <3>5. Binds(M, body, f[i], first[i].path, f[i + 1])
      BY <3>1, <3>2, <3>3, <3>4, <1>1, <1>2 DEF Binds
    <3> QED
      BY <3>2, <3>3, <3>5 DEF Goes
  <2>2. f \in [1 .. n + 1 -> Situations]
    BY <1>7, <1>8
  <2> QED
    BY <2>1, <2>2, <1>12 DEF Walks
<1>14. PICK k, r : k = Kid(n + 1) /\ r = Task("restore", T, P)
  OBVIOUS
<1>15. /\ k \in Jobs /\ r \in Jobs /\ k.do = "gen" /\ k.path = Append(P, n + 1)
       /\ Goes(M, body, f[n + 1], k, f[n + 1]) /\ Goes(M, body, f[n + 1], r, s)
  <2>1. k \in Jobs
    BY <1>1, <1>3, <1>14, GenIs
  <2>2. n + 1 \in 1 .. n + 1 /\ (n + 1) - 1 = n
    OBVIOUS
  <2>3. k.do = "gen" /\ k.path = Append(P, n + 1) /\ Goes(M, body, f[n + 1], k, f[n + 1])
    BY <2>2, <1>1, <1>5, <1>8, <1>14, KidsHere
  <2>4. r \in Jobs /\ r.do = "restore" /\ r.tree = T /\ r.path = P
    BY <1>1, <1>14, TaskIsJob DEF Task
  <2>5. AtTop(f[n + 1], P, Len(T.kids) - 1) /\ f[n + 1].scope = M[Append(P, Len(T.kids))]
        /\ Closed(f[n + 1], M[P]) = s
    BY <2>2, <1>2, <1>3, <1>8
  <2>6. Goes(M, body, f[n + 1], r, s)
    BY <2>4, <2>5, <1>1, <1>2 DEF Goes
  <2> QED
    BY <2>1, <2>3, <2>4, <2>6
<1>16. PICK last : last = <<k, r>>
  OBVIOUS
<1>17. last \in Seq(Jobs) /\ Walks(M, body, last, f[n + 1], s) /\ Has(last, k)
  <2>1. f[n + 1] \in Situations
    BY <1>8
  <2>2. Len(last) = 2 /\ last[1] = k /\ 1 \in 1 .. 2
    BY <1>16
  <2> QED
    BY <2>1, <2>2, <1>2, <1>15, <1>16, WalkTwo DEF Has
<1>18. PICK tasks \in Seq(Jobs) : tasks = first \o last
  BY <1>12, <1>17, ConcatProperties
<1>19. Walks(M, body, tasks, f[1], s)
  <2>1. f[1] \in Situations /\ f[n + 1] \in Situations
    BY <1>8
  <2> QED
    BY <2>1, <1>2, <1>12, <1>13, <1>17, <1>18, WalkJoin
<1>20. Covering(body, P, tasks)
  <2>1. ASSUME NEW i \in KidsAt(body, P)
        PROVE  \E t : Has(tasks, t) /\ t.do \in Heads /\ t.path = Append(P, i)
    <3>1. i \in 1 .. n \/ i = n + 1
      BY <1>5, <2>1
    <3>2. CASE i = n + 1
      <4>1. Has(tasks, k)
        BY <1>12, <1>17, <1>18, HasJoin
      <4> QED
        BY <4>1, <3>2, <1>15 DEF Heads
    <3>3. CASE i \in 1 .. n
      <4>1. Has(first, first[i])
        BY <3>3, <1>12 DEF Has
      <4>2. Has(tasks, first[i])
        BY <4>1, <1>12, <1>17, <1>18, HasJoin
      <4> QED
        BY <4>2, <3>3, <1>11 DEF Heads
    <3> QED
      BY <3>1, <3>2, <3>3
  <2> QED
    BY <2>1 DEF Covering, Has
<1>21. todo' = tasks \o Tail(todo)
  <2>1. Len(T.kids) - 1 = n
    BY <1>3
  <2> QED
    BY <2>1, <1>10, <1>14, <1>16, <1>18 DEF VarStarts, Continue
<1>22. f[1] = Opened(s, P, 0, s.scope) /\ f[1] \in Situations
  <2>1. 1 \in 1 .. n + 1 /\ 1 - 1 = 0
    OBVIOUS
  <2>2. M[Append(P, 1)] = M[P]
    <3>1. NodeAt(body, P) = "var"
      BY <1>1, <1>2 DEF NodeAt
    <3> QED
      BY <3>1, <1>1, <1>2 DEF Laws, ScopeKept
  <2>3. f[1] = Opened(s, P, 1 - 1, M[Append(P, 1)]) /\ f[1] \in Situations
    BY <2>1, <1>8
  <2> QED
    BY <2>1, <2>2, <2>3, <1>2
<1> QED
  BY <1>19, <1>20, <1>21, <1>22 DEF Expands

(* A binding stands before the body of a var.                              *)
LEMMA BindingIs ==
  ASSUME NEW M, NEW body \in Trees, NEW s, NEW path, NEW r, Binds(M, body, s, path, r)
  PROVE  IsBinding(Subtree(body, path))
<1>1. PICK p \in Places(body) : \E j \in 1 .. Len(Subtree(body, p).kids) - 1 :
        path = Append(p, j) /\ Subtree(body, p).node = "var"
  BY DEF Binds
<1>2. PICK j \in 1 .. Len(Subtree(body, p).kids) - 1 :
        path = Append(p, j) /\ Subtree(body, p).node = "var"
  BY <1>1
<1>3. PICK v : v = Subtree(body, p)
  OBVIOUS
<1>4. v.node = "var" /\ Shaped(v) /\ p \in Seq(Nat)
  BY <1>2, <1>3, PlaceIs
<1>5. v \in Trees
  BY <1>4 DEF Shaped, IsBinding
<1>6. IsTree(v, Trees) /\ j \in 1 .. Len(v.kids) - 1 /\ j \in Nat
  BY <1>2, <1>3, <1>5, TreeIs
<1>7. Subtree(body, path) = v.kids[j]
  BY <1>2, <1>3, <1>4, <1>6, SubtreeTurn
<1> QED
  BY <1>4, <1>6, <1>7 DEF IsTree, IsBinding

LEMMA InitializeExpands ==
  ASSUME Data, Initialize, NEW M, NEW body, NEW s, Generates(M, body, s),
         NEW r \in Situations, Goes(M, body, s, todo[1], r)
  PROVE  Expands(M, body, s, r)
<1>1. /\ todo[1] \in Jobs /\ todo[1].do = "initialize" /\ T = todo[1].tree /\ P = todo[1].path
      /\ T.name \in Names /\ T \in Trees \union Parts /\ P \in Seq(Nat)
      /\ T.kids[1] = Null \/ T.kids[1] \in Trees
  BY FirstJob, JobIs DEF Initialize, Doing, T, P
<1>2. /\ s \in Situations /\ P \in Places(body) /\ T = Subtree(body, P)
      /\ s.scope = M[P] /\ Laws(M, body, fn, LoopScope) /\ body \in Trees
  BY DEF Generates
<1>0. Binds(M, body, s, P, r)
  BY <1>1 DEF Goes
<1>5. IsBinding(T)
  BY <1>0, <1>2, BindingIs
<1>6. \A i : i \in KidsAt(body, P) <=> i = 1 /\ T.kids[1] # Null
  <2>1. Len(T.kids) = 1 /\ 1 .. 1 = {1}
    BY <1>5 DEF IsBinding
  <2> QED
    BY <2>1, <1>2 DEF KidsAt
<1>7. PICK b : b = Task("bind", T, P)
  OBVIOUS
<1>8. b \in Jobs /\ b.do = "bind" /\ b.tree = T /\ b.path = P
  BY <1>1, <1>7, TaskIsJob DEF Task
<1>9. Goes(M, body, s, b, r)
  BY <1>0, <1>2, <1>8 DEF Goes
<1>10. <<b>> \in Seq(Jobs) /\ Walks(M, body, <<b>>, s, r)
  BY <1>2, <1>8, <1>9, WalkOne
<1>11. PICK step : step = IF T.kids[1] = Null THEN <<>> ELSE <<Kid(1)>>
  OBVIOUS
<1>12. /\ step \in Seq(Jobs) /\ Walks(M, body, step, s, s)
       /\ T.kids[1] # Null => Has(step, Kid(1)) /\ Kid(1).do = "gen" /\ Kid(1).path = Append(P, 1)
  <2>1. CASE T.kids[1] = Null
    <3>1. step = <<>>
      BY <2>1, <1>11
    <3> QED
      BY <3>1, <2>1, <1>2, WalkNone
  <2>2. CASE T.kids[1] # Null
    <3>1. Kid(1) \in Jobs /\ Kid(1).do = "gen" /\ Kid(1).path = Append(P, 1)
      <4>1. Append(P, 1) \in Seq(Nat)
        BY <1>1, PushIs
      <4> QED
        BY <4>1, <1>1, <2>2, TaskIsJob DEF Kid, Task
    <3>2. PICK k \in Jobs : k = Kid(1)
      BY <3>1
    <3>3. M[Append(P, 1)] = M[P]
      <4>1. NodeAt(body, P) \notin {"for", "var"}
        BY <1>2, <1>5 DEF NodeAt, IsBinding
      <4> QED
        BY <4>1, <1>1, <1>2 DEF Laws, ScopeKept
    <3>4. Goes(M, body, s, k, s)
      <4>1. 1 \in KidsAt(body, P)
        BY <2>2, <1>6
      <4>2. Goes(M, body, s, KidTask(body, P, 1), s)
        BY <4>1, <3>3, <1>2, KidGoes
      <4> QED
        BY <4>2, <3>2, <1>2 DEF Kid, KidTask
    <3>5. step = <<k>> /\ step \in Seq(Jobs) /\ Len(step) = 1 /\ step[1] = k
      BY <2>2, <3>2, <1>11
    <3> QED
      BY <3>1, <3>2, <3>4, <3>5, <1>2, WalkOne DEF Has
  <2> QED
    BY <2>1, <2>2
<1>13. PICK tasks \in Seq(Jobs) : tasks = step \o <<b>>
  BY <1>10, <1>12, ConcatProperties
<1>14. Walks(M, body, tasks, s, r)
  BY <1>2, <1>10, <1>12, <1>13, WalkJoin
<1>15. Covering(body, P, tasks)
  <2>1. T.kids[1] # Null => Has(tasks, Kid(1))
    BY <1>10, <1>12, <1>13, HasJoin
  <2> QED
    BY <2>1, <1>6, <1>12 DEF Covering, Has, Heads
<1>16. todo' = tasks \o Tail(todo)
  BY <1>7, <1>11, <1>13 DEF Initialize, Continue
<1> QED
  BY <1>14, <1>15, <1>16 DEF Expands

-----------------------------------------------------------------------------
(* The table means what the scope says.  In Cairo a name without a binding *)
(* may have a slot that an earlier function left behind.                   *)
Agrees(b, f, want, have) ==
  IF want = Null THEN have = Null \/ (b = "Cairo" /\ have[1] # f) ELSE have = want
TableAgrees(b, f, scope, tb) == \A x \in Names : Agrees(b, f, scope[x], tb[x])

(* The slots a running construct keeps are what its names meant before.    *)
NamedAt(body, q, i) == IF NodeAt(body, q) = "for" THEN NameOf(body, q) ELSE BoundAt(body, q, i)
SiteAt(body, q, i) == IF NodeAt(body, q) = "for" THEN q ELSE Append(q, i)
Kept(M, body, b, f, o, old) ==
  /\ Len(old) = o.bound
  /\ \A i \in 1 .. o.bound :
       /\ old[i].name = NamedAt(body, o.of, i)
       /\ Agrees(b, f, M[SiteAt(body, o.of, i)][NamedAt(body, o.of, i)], old[i].slot)
KeptAll(M, body, b, f, own, fs) ==
  Len(fs) = Len(own) /\ \A i \in 1 .. Len(own) : Kept(M, body, b, f, own[i], fs[i].old)
Stands(M, body, b, f, s, fs, tb) ==
  KeptAll(M, body, b, f, s.own, fs) /\ TableAgrees(b, f, s.scope, tb)

LEMMA PushAny ==
  ASSUME NEW S, NEW s \in Seq(S), NEW e
  PROVE  /\ Len(s) \in Nat /\ Len(Append(s, e)) = Len(s) + 1
         /\ \A i \in 1 .. Len(s) : Append(s, e)[i] = s[i]
         /\ Append(s, e)[Len(s) + 1] = e
<1>1. PICK R : R = S \union {e}
  OBVIOUS
<1>2. s \in Seq(R) /\ e \in R
  BY <1>1, SeqMonotonic
<1> QED
  BY <1>2, PushIs

LEMMA KeptPush ==
  ASSUME NEW M, NEW body, NEW b, NEW f, NEW own \in Seq(Owners), NEW S, NEW fs \in Seq(S),
         KeptAll(M, body, b, f, own, fs), NEW o, NEW fr, Kept(M, body, b, f, o, fr.old)
  PROVE  KeptAll(M, body, b, f, Append(own, o), Append(fs, fr))
<1>1. PICK n \in Nat : n = Len(own) /\ n = Len(fs)
  BY LenProperties DEF KeptAll
<1>2. PICK own2, fs2 : own2 = Append(own, o) /\ fs2 = Append(fs, fr)
  OBVIOUS
<1>3. /\ Len(own2) = n + 1 /\ Len(fs2) = n + 1 /\ own2[n + 1] = o /\ fs2[n + 1] = fr
      /\ \A i \in 1 .. n : own2[i] = own[i] /\ fs2[i] = fs[i]
  <2>1. Len(own2) = n + 1 /\ own2[n + 1] = o /\ \A i \in 1 .. n : own2[i] = own[i]
    <3>1. /\ Len(own2) = Len(own) + 1 /\ own2[Len(own) + 1] = o
          /\ \A i \in 1 .. Len(own) : own2[i] = own[i]
      BY <1>2, PushAny
    <3> QED
      BY <3>1, <1>1
  <2>2. Len(fs2) = n + 1 /\ fs2[n + 1] = fr /\ \A i \in 1 .. n : fs2[i] = fs[i]
    BY <1>1, <1>2, PushAny
  <2> QED
    BY <2>1, <2>2
<1>4. \A i \in 1 .. n : Kept(M, body, b, f, own[i], fs[i].old)
  BY <1>1 DEF KeptAll
<1>5. ASSUME NEW i \in 1 .. n + 1 PROVE Kept(M, body, b, f, own2[i], fs2[i].old)
  <2>1. CASE i = n + 1
    BY <2>1, <1>3
  <2>2. CASE i # n + 1
    <3>1. i \in 1 .. n
      BY <2>2
    <3> QED
      BY <3>1, <1>3, <1>4
  <2> QED
    BY <2>1, <2>2
<1> QED
  BY <1>2, <1>3, <1>5 DEF KeptAll

LEMMA KeptPop ==
  ASSUME NEW M, NEW body, NEW b, NEW f, NEW own \in Seq(Owners), own # <<>>, NEW S, NEW fs \in Seq(S),
         KeptAll(M, body, b, f, own, fs)
  PROVE  /\ KeptAll(M, body, b, f, Cut(own), Cut(fs)) /\ fs # <<>> /\ Len(own) \in Nat \ {0}
         /\ Len(fs) = Len(own) /\ Cut(fs) \in Seq(S) /\ Cut(own) \in Seq(Owners)
         /\ Kept(M, body, b, f, own[Len(own)], fs[Len(fs)].old)
<1>1. PICK n \in Nat : n + 1 = Len(own) /\ n = Len(own) - 1 /\ n + 1 = Len(fs) /\ n = Len(fs) - 1
  <2>1. Len(own) \in Nat \ {0} /\ Len(fs) = Len(own)
    BY EmptySeq DEF KeptAll
  <2>2. Len(own) - 1 \in Nat /\ (Len(own) - 1) + 1 = Len(own)
    BY <2>1
  <2> QED
    BY <2>1, <2>2
<1>2. fs # <<>>
  BY <1>1, EmptySeq
<1>3. PICK own2 \in Seq(Owners), fs2 \in Seq(S) : own2 = Cut(own) /\ fs2 = Cut(fs)
  BY <1>2, CutIs
<1>4. Len(own2) = n /\ Len(fs2) = n /\ \A i \in 1 .. n : own2[i] = own[i] /\ fs2[i] = fs[i]
  BY <1>1, <1>2, <1>3, CutIs
<1>5. \A i \in 1 .. n + 1 : Kept(M, body, b, f, own[i], fs[i].old)
  BY <1>1 DEF KeptAll
<1>6. \A i \in 1 .. n : Kept(M, body, b, f, own2[i], fs2[i].old)
  <2> TAKE i \in 1 .. n
  <2>1. i \in 1 .. n + 1
    OBVIOUS
  <2> QED
    BY <2>1, <1>4, <1>5
<1>7. n + 1 \in 1 .. n + 1
  OBVIOUS
<1>8. Kept(M, body, b, f, own[n + 1], fs[n + 1].old)
  BY <1>5, <1>7
<1>9. KeptAll(M, body, b, f, own2, fs2)
  BY <1>4, <1>6 DEF KeptAll
<1> QED
  BY <1>1, <1>2, <1>3, <1>8, <1>9

(* The construct on top goes on.                                           *)
LEMMA KeptSwap ==
  ASSUME NEW M, NEW body, NEW b, NEW f, NEW own \in Seq(Owners), own # <<>>, NEW S, NEW fs \in Seq(S),
         KeptAll(M, body, b, f, own, fs), NEW o, NEW fr, Kept(M, body, b, f, o, fr.old)
  PROVE  KeptAll(M, body, b, f, Append(Cut(own), o), Append(Cut(fs), fr))
<1>1. KeptAll(M, body, b, f, Cut(own), Cut(fs)) /\ Cut(own) \in Seq(Owners) /\ Cut(fs) \in Seq(S)
  BY KeptPop
<1> QED
  BY <1>1, KeptPush

LEMMA CutPushSelf ==
  ASSUME NEW S, NEW s \in Seq(S), s # <<>>
  PROVE  Append(Cut(s), s[Len(s)]) = s
<1>1. PICK n \in Nat : n + 1 = Len(s) /\ n = Len(s) - 1
  <2>1. Len(s) \in Nat \ {0}
    BY EmptySeq
  <2>2. Len(s) - 1 \in Nat /\ (Len(s) - 1) + 1 = Len(s)
    BY <2>1
  <2> QED
    BY <2>2
<1>2. PICK e \in S : e = s[n + 1]
  <2>1. n + 1 \in 1 .. Len(s)
    BY <1>1
  <2> QED
    BY <2>1, ElementOfSeq
<1>3. PICK t \in Seq(S) : t = Append(Cut(s), e)
  BY SwapIs
<1>4. Len(t) = n + 1 /\ t[n + 1] = e /\ \A i \in 1 .. n : t[i] = s[i]
  <2>1. Len(t) = Len(s) /\ t[Len(s)] = e /\ \A i \in 1 .. Len(s) - 1 : t[i] = s[i]
    BY <1>3, SwapIs
  <2> QED
    BY <2>1, <1>1
<1>5. \A i \in 1 .. n + 1 : t[i] = s[i]
  <2> TAKE i \in 1 .. n + 1
  <2>1. i = n + 1 \/ i \in 1 .. n
    OBVIOUS
  <2> QED
    BY <2>1, <1>2, <1>4
<1>6. t = s
  BY <1>1, <1>4, <1>5, SeqEqual
<1> QED
  BY <1>1, <1>2, <1>3, <1>6

LEMMA NothingKept ==
  ASSUME NEW M, NEW body, NEW b, NEW f, NEW p, NEW first, NEW last
  PROVE  Kept(M, body, b, f, Owner(p, 0), Frame(first, last, <<>>).old)
<1>1. PICK o : o = Owner(p, 0)
  OBVIOUS
<1>2. o.bound = 0 /\ Frame(first, last, <<>>).old = <<>>
  BY <1>1 DEF Owner, Frame
<1>3. Len(<<>>) = 0 /\ \A i \in 1 .. 0 : FALSE
  OBVIOUS
<1> QED
  BY <1>1, <1>2, <1>3 DEF Kept

-----------------------------------------------------------------------------
(* Every step that opens, closes or leaves a construct keeps the table and *)
(* the frames as the situation says.                                       *)
Stops(M, body, s, r) ==
  /\ body \in Trees /\ Laws(M, body, fn, LoopScope) /\ s \in Situations /\ r \in Situations
  /\ todo # <<>> /\ Goes(M, body, s, todo[1], r) /\ Stands(M, body, backend, fn, s, saved, table)

LEMMA StopIs ==
  ASSUME Data, NEW M, NEW body, NEW s, NEW r, Stops(M, body, s, r)
  PROVE  /\ P \in Places(body) /\ T = Subtree(body, P) /\ P \in Seq(Nat) /\ body \in Trees
         /\ T = todo[1].tree /\ P = todo[1].path /\ todo[1] \in Jobs
         /\ Laws(M, body, fn, LoopScope) /\ s \in Situations /\ s.own \in Seq(Owners) /\ s.scope \in Scopes
         /\ r \in Situations /\ Goes(M, body, s, todo[1], r)
         /\ KeptAll(M, body, backend, fn, s.own, saved) /\ TableAgrees(backend, fn, s.scope, table)
         /\ saved \in Seq(Frames(fn)) /\ Drop = Cut(saved) /\ table \in [Names -> Slots(fn)]
         /\ M[P] \in Scopes /\ fn \in Nat
<1>1. P \in Places(body) /\ T = Subtree(body, P) /\ T = todo[1].tree /\ P = todo[1].path
  BY DEF Stops, Goes, T, P
<1>2. todo[1] \in Jobs /\ P \in Seq(Nat)
  BY <1>1, FirstJob, JobIs DEF Stops
<1>3. s.own \in Seq(Owners) /\ s.scope \in Scopes
  BY DEF Stops, Situations
<1>4. M[P] \in Scopes
  BY <1>2 DEF Stops, Laws, ScopesAre
<1>5. fn \in Nat
  BY DEF Data
<1> QED
  BY <1>1, <1>2, <1>3, <1>4, <1>5 DEF Stops, Stands, Data, Drop, Cut

LEMMA TopKept ==
  ASSUME Data, NEW M, NEW body, NEW s, NEW r, Stops(M, body, s, r), NEW o, s.own # <<>>, s.own[Len(s.own)] = o
  PROVE  /\ KeptAll(M, body, backend, fn, Cut(s.own), Cut(saved)) /\ Kept(M, body, backend, fn, o, Top.old)
         /\ saved # <<>> /\ Top \in Frames(fn)
<1>1. /\ s.own \in Seq(Owners) /\ saved \in Seq(Frames(fn))
      /\ KeptAll(M, body, backend, fn, s.own, saved)
  BY StopIs
<1>2. /\ KeptAll(M, body, backend, fn, Cut(s.own), Cut(saved)) /\ saved # <<>>
      /\ Kept(M, body, backend, fn, s.own[Len(s.own)], saved[Len(saved)].old)
  <2>1. PICK own \in Seq(Owners), fs \in Seq(Frames(fn)) : own = s.own /\ fs = saved
    BY <1>1
  <2>2. own # <<>> /\ KeptAll(M, body, backend, fn, own, fs)
    BY <2>1, <1>1
  <2>3. PICK S : S = Frames(fn)
    OBVIOUS
  <2>4. fs \in Seq(S)
    BY <2>3
  <2>5. KeptAll(M, body, backend, fn, Cut(own), Cut(fs)) /\ fs # <<>>
    BY <2>2, <2>4, KeptPop
  <2>6. Kept(M, body, backend, fn, own[Len(own)], fs[Len(fs)].old)
    BY <2>2, <2>4, KeptPop
  <2> QED
    BY <2>1, <2>5, <2>6
<1>3. Len(saved) \in Nat \ {0}
  BY <1>1, <1>2, EmptySeq
<1>4. Len(saved) \in 1 .. Len(saved)
  BY <1>3
<1>5. saved[Len(saved)] \in Frames(fn)
  BY <1>1, <1>4, ElementOfSeq
<1> QED
  BY <1>2, <1>5 DEF Top

LEMMA OpenStands ==
  ASSUME Data, NEW M, NEW body, NEW s, NEW r, Stops(M, body, s, r), NEW a, NEW c,
         saved' = Append(saved, Frame(a, c, <<>>)), table' = table
  PROVE  /\ Stands(M, body, backend, fn, Opened(s, P, 0, s.scope), saved', table')
         /\ Opened(s, P, 0, s.scope) \in Situations
<1>0. s \in Situations /\ P \in Seq(Nat) /\ s.scope \in Scopes
  BY StopIs
<1>1. PICK o \in Situations : o = Opened(s, P, 0, s.scope) /\ o.own = Append(s.own, Owner(P, 0)) /\ o.scope = s.scope
  BY <1>0, SituationIs
<1>2. Kept(M, body, backend, fn, Owner(P, 0), Frame(a, c, <<>>).old)
  BY NothingKept
<1>3. KeptAll(M, body, backend, fn, o.own, saved')
  BY <1>1, <1>2, StopIs, KeptPush
<1>4. TableAgrees(backend, fn, o.scope, table')
  BY <1>1, StopIs
<1> QED
  BY <1>1, <1>3, <1>4 DEF Stands

LEMMA BranchStands ==
  ASSUME Data, Branch, NEW M, NEW body, NEW s, NEW r, Stops(M, body, s, r)
  PROVE  Stands(M, body, backend, fn, r, saved', table')
<1>1. todo[1].do = "branch" /\ table' = table
  BY DEF Branch, Doing, Unscoped
<1>2. PICK a, c : saved' = Append(saved, Frame(a, c, <<>>))
  BY DEF Branch
<1>3. r = Opened(s, P, 0, s.scope)
  BY <1>1, StopIs DEF Goes
<1> QED
  BY <1>1, <1>2, <1>3, OpenStands

LEMMA ElseStands ==
  ASSUME Data, Else, NEW M, NEW body, NEW s, NEW r, Stops(M, body, s, r)
  PROVE  Stands(M, body, backend, fn, r, saved', table')
<1>1. todo[1].do = "else" /\ table' = table
  BY DEF Else, Doing, Unscoped
<1>2. r = s /\ AtTop(s, P, 0)
  BY <1>1, StopIs DEF Goes
<1>3. saved' = saved \/ \E a, c : saved' = Append(Drop, Frame(a, c, <<>>))
  BY DEF Else
<1>4. CASE saved' = saved
  BY <1>1, <1>2, <1>4, StopIs DEF Stands
<1>5. CASE \E a, c : saved' = Append(Drop, Frame(a, c, <<>>))
  <2>1. PICK a, c : saved' = Append(Cut(saved), Frame(a, c, <<>>))
    BY <1>5, StopIs
  <2>2. Kept(M, body, backend, fn, Owner(P, 0), Frame(a, c, <<>>).old)
    BY NothingKept
  <2>3. s.own # <<>> /\ s.own[Len(s.own)] = Owner(P, 0)
    BY <1>2 DEF AtTop
  <2>4. KeptAll(M, body, backend, fn, Append(Cut(s.own), Owner(P, 0)), saved')
    BY <2>1, <2>2, <2>3, StopIs, KeptSwap
  <2>5. Append(Cut(s.own), Owner(P, 0)) = s.own
    BY <2>3, StopIs, CutPushSelf
  <2> QED
    BY <2>4, <2>5, <1>1, <1>2, StopIs DEF Stands
<1> QED
  BY <1>3, <1>4, <1>5

LEMMA MergeStands ==
  ASSUME Data, Merge, NEW M, NEW body, NEW s, NEW r, Stops(M, body, s, r)
  PROVE  Stands(M, body, backend, fn, r, saved', table')
<1>1. todo[1].do = "merge" /\ table' = table /\ saved' = Drop
  BY DEF Merge, Doing, Unscoped
<1>2. r = Closed(s, s.scope) /\ AtTop(s, P, 0)
  BY <1>1, StopIs DEF Goes
<1>3. r.own = Cut(s.own) /\ r.scope = s.scope /\ s.own # <<>>
  BY <1>2 DEF Closed, AtTop
<1>4. KeptAll(M, body, backend, fn, Cut(s.own), Cut(saved))
  BY <1>3, StopIs, KeptPop
<1> QED
  BY <1>1, <1>3, <1>4, StopIs DEF Stands

(* A name gets a slot, and every other keeps its own.                      *)
LEMMA TablePut ==
  ASSUME NEW b, NEW f, NEW scope, NEW scope2, NEW tb, NEW tb2,
         TableAgrees(b, f, scope, tb), NEW name \in Names, NEW slot, slot # Null,
         \A x \in Names : tb2[x] = IF x = name THEN slot ELSE tb[x],
         \A x \in Names : scope2[x] = IF x = name THEN slot ELSE scope[x]
  PROVE  TableAgrees(b, f, scope2, tb2)
<1>1. ASSUME NEW x \in Names PROVE Agrees(b, f, scope2[x], tb2[x])
  <2>1. CASE x = name
    <3>1. scope2[x] = slot /\ tb2[x] = slot
      BY <2>1
    <3> QED
      BY <3>1 DEF Agrees
  <2>2. CASE x # name
    <3>1. scope2[x] = scope[x] /\ tb2[x] = tb[x]
      BY <2>2
    <3> QED
      BY <3>1 DEF TableAgrees
  <2> QED
    BY <2>1, <2>2
<1> QED
  BY <1>1 DEF TableAgrees

LEMMA SlotIsNoNull ==
  ASSUME NEW f \in Nat, NEW p \in Seq(Nat)
  PROVE  <<f, p>> # Null
BY NullAssumption

LEMMA EnterStands ==
  ASSUME Data, EnterLoop, NEW M, NEW body, NEW s, NEW r, Stops(M, body, s, r)
  PROVE  Stands(M, body, backend, fn, r, saved', table')
<1>1. todo[1].do = "enter" /\ table' = [table EXCEPT ![T.name] = Slot]
  BY DEF EnterLoop, Doing
<1>2. PICK a, c : saved' = Append(saved, Frame(a, c, <<[name |-> T.name, slot |-> table[T.name]]>>))
  BY DEF EnterLoop
<1>3. T.node = "for" /\ s.scope = M[P] /\ r = Opened(s, P, 1, M[Append(P, 4)])
  BY <1>1, StopIs DEF Goes
<1>4. T.name \in Names
  BY <1>1, StopIs, JobIs
<1>5. NodeAt(body, P) = "for" /\ NameOf(body, P) = T.name
  BY <1>3, StopIs DEF NodeAt, NameOf
<1>6. r.own = Append(s.own, Owner(P, 1)) /\ r.scope = M[Append(P, 4)]
  BY <1>3 DEF Opened
<1>7. PICK old : old = <<[name |-> T.name, slot |-> table[T.name]]>>
  OBVIOUS
<1>8. Kept(M, body, backend, fn, Owner(P, 1), old)
  <2>1. PICK e : e = [name |-> T.name, slot |-> table[T.name]]
    OBVIOUS
  <2>2. Len(old) = 1 /\ old[1] = e
    BY <2>1, <1>7
  <2>3. e.name = T.name /\ e.slot = table[T.name]
    BY <2>1
  <2>4. PICK o : o = Owner(P, 1)
    OBVIOUS
  <2>5. o.of = P /\ o.bound = 1
    BY <2>4 DEF Owner
  <2>6. NamedAt(body, P, 1) = T.name /\ SiteAt(body, P, 1) = P
    BY <1>5 DEF NamedAt, SiteAt
  <2>7. Agrees(backend, fn, M[P][T.name], table[T.name])
    BY <1>3, <1>4, StopIs DEF TableAgrees
  <2>8. \A i \in 1 .. 1 : i = 1
    OBVIOUS
  <2> QED
    BY <2>2, <2>3, <2>4, <2>5, <2>6, <2>7, <2>8 DEF Kept
<1>9. KeptAll(M, body, backend, fn, r.own, saved')
  <2>1. Frame(a, c, old).old = old
    BY DEF Frame
  <2> QED
    BY <2>1, <1>2, <1>6, <1>7, <1>8, StopIs, KeptPush
<1>10. TableAgrees(backend, fn, r.scope, table')
  <2>1. PICK slot : slot = Slot
    OBVIOUS
  <2>2. slot = <<fn, P>> /\ slot # Null
    BY <2>1, StopIs, SlotIsNoNull DEF Slot
  <2>3. \A x \in Names : M[Append(P, 4)][x] = IF x = T.name THEN slot ELSE s.scope[x]
    <3>1. 4 \in LoopScope
      BY DEF LoopScope
    <3>2. ScopeOfLoop(M, body, fn, LoopScope) /\ P \in Seq(Nat)
      BY StopIs DEF Laws
    <3> QED
      BY <3>1, <3>2, <2>2, <1>3, <1>5 DEF ScopeOfLoop
  <2>4. DOMAIN table = Names /\ TableAgrees(backend, fn, s.scope, table)
    BY StopIs
  <2>5. PICK tb, tb2 : tb = table /\ tb2 = table'
    OBVIOUS
  <2>6. PICK scope, scope2 : scope = s.scope /\ scope2 = M[Append(P, 4)]
    OBVIOUS
  <2>7. PICK x \in Names : x = T.name
    BY <1>4
  <2>8. \A y \in Names : tb2[y] = IF y = x THEN slot ELSE tb[y]
    BY <2>1, <2>4, <2>5, <2>7, <1>1
  <2>9. TableAgrees(backend, fn, scope2, tb2)
    <3>1. \A y \in Names : scope2[y] = IF y = x THEN slot ELSE scope[y]
      BY <2>3, <2>6, <2>7
    <3>2. TableAgrees(backend, fn, scope, tb)
      BY <2>4, <2>5, <2>6
    <3>3. slot # Null
      BY <2>2
    <3> QED
      BY <3>1, <3>2, <3>3, <2>8, TablePut
  <2> QED
    BY <2>5, <2>6, <2>9, <1>6
<1> QED
  BY <1>9, <1>10 DEF Stands

(* What the back ends do not restore does not happen.                      *)
Distinct(body) ==
  \A p \in Places(body) :
    NodeAt(body, p) = "var" =>
      \A i, j \in 1 .. Len(Subtree(body, p).kids) - 1 : i < j => BoundAt(body, p, i) # BoundAt(body, p, j)
NoShadow(M, body) ==
  \A p \in Places(body) : NodeAt(body, p) = "for" => M[p][NameOf(body, p)] = Null

LEMMA ExitStands ==
  ASSUME Data, ExitLoop, NEW M, NEW body, NEW s, NEW r, Stops(M, body, s, r),
         backend = "Cairo" => NoShadow(M, body)
  PROVE  Stands(M, body, backend, fn, r, saved', table')
<1>1. todo[1].do = "exit" /\ table' = AfterLoop /\ saved' = Cut(saved)
  BY StopIs DEF ExitLoop, Doing
<1>2. T.node = "for" /\ AtTop(s, P, 1) /\ s.scope = M[Append(P, 4)] /\ r = Closed(s, M[P])
  BY <1>1, StopIs DEF Goes
<1>3. T.name \in Names
  BY <1>1, StopIs, JobIs
<1>4. NodeAt(body, P) = "for" /\ NameOf(body, P) = T.name
  BY <1>2, StopIs DEF NodeAt, NameOf
<1>5. r.own = Cut(s.own) /\ r.scope = M[P] /\ s.own # <<>> /\ s.own[Len(s.own)] = Owner(P, 1)
  BY <1>2 DEF Closed, AtTop
<1>6. KeptAll(M, body, backend, fn, r.own, saved') /\ Kept(M, body, backend, fn, Owner(P, 1), Top.old)
  BY <1>1, <1>5, StopIs, TopKept
<1>7. Agrees(backend, fn, M[P][T.name], Top.old[1].slot)
  <2>1. PICK o : o = Owner(P, 1)
    OBVIOUS
  <2>2. o.of = P /\ o.bound = 1 /\ 1 \in 1 .. 1
    BY <2>1 DEF Owner
  <2>3. NamedAt(body, P, 1) = T.name /\ SiteAt(body, P, 1) = P
    BY <1>4 DEF NamedAt, SiteAt
  <2> QED
    BY <2>1, <2>2, <2>3, <1>6 DEF Kept
<1>8. TableAgrees(backend, fn, M[P], table')
  <2>1. ASSUME NEW x \in Names PROVE Agrees(backend, fn, M[P][x], table'[x])
    <3>1. table'[x] = IF x = T.name THEN (IF backend = "Cairo" THEN Null ELSE Top.old[1].slot) ELSE table[x]
      BY <1>1, StopIs DEF AfterLoop
    <3>2. CASE x = T.name
      <4>1. CASE backend = "Cairo"
        <5>1. M[P][T.name] = Null
          BY <4>1, <1>4, StopIs DEF NoShadow
        <5>2. table'[x] = Null
          BY <3>1, <3>2, <4>1
        <5> QED
          BY <5>1, <5>2, <3>2 DEF Agrees
      <4>2. CASE backend # "Cairo"
        <5>1. table'[x] = Top.old[1].slot
          BY <3>1, <3>2, <4>2
        <5> QED
          BY <5>1, <3>2, <1>7
      <4> QED
        BY <4>1, <4>2
    <3>3. CASE x # T.name
      <4>1. M[Append(P, 4)][x] = M[P][x]
        <5>1. 4 \in LoopScope
          BY DEF LoopScope
        <5>2. ScopeOfLoop(M, body, fn, LoopScope) /\ P \in Seq(Nat)
          BY StopIs DEF Laws
        <5>3. PICK slot : slot = <<fn, P>>
          OBVIOUS
        <5>4. M[Append(P, 4)][x] = IF x = NameOf(body, P) THEN slot ELSE M[P][x]
          BY <5>1, <5>2, <5>3, <1>4 DEF ScopeOfLoop
        <5> QED
          BY <5>4, <3>3, <1>4
      <4>2. Agrees(backend, fn, s.scope[x], table[x])
        BY StopIs DEF TableAgrees
      <4>3. table'[x] = table[x]
        BY <3>1, <3>3
      <4> QED
        BY <4>1, <4>2, <4>3, <1>2
    <3> QED
      BY <3>2, <3>3
  <2> QED
    BY <2>1 DEF TableAgrees
<1> QED
  BY <1>5, <1>6, <1>8 DEF Stands

LEMMA RestoredMeans ==
  ASSUME NEW old, Len(old) \in Nat, NEW x \in Names
  PROVE  \/ (\A i \in 1 .. Len(old) : old[i].name # x) /\ Restored(old)[x] = table[x]
         \/ \E k \in 1 .. Len(old) : old[k].name = x /\ Restored(old)[x] = old[k].slot
<1>1. PICK n \in Nat : n = Len(old)
  OBVIOUS
<1>2. PICK at : at = {k \in 1 .. n : old[k].name = x}
  OBVIOUS
<1>3. Restored(old)[x] = IF at = {} THEN table[x]
                         ELSE old[CHOOSE k \in at : \A j \in at : j <= k].slot
  BY <1>1, <1>2 DEF Restored
<1>4. CASE at = {}
  BY <1>1, <1>2, <1>3, <1>4
<1>5. CASE at # {}
  <2>1. PICK k : k = CHOOSE l \in at : \A j \in at : j <= l
    OBVIOUS
  <2>2. \E m \in at : \A j \in at : j <= m
    <3>1. at \subseteq 0 .. n
      BY <1>2
    <3> QED
      BY <3>1, <1>5, GreatestExists
  <2>3. k \in at
    BY <2>1, <2>2
  <2>4. Restored(old)[x] = old[k].slot
    BY <2>1, <1>3, <1>5
  <2> QED
    BY <2>3, <2>4, <1>1, <1>2
<1> QED
  BY <1>4, <1>5

LEMMA RestoreStands ==
  ASSUME Data, Restore, NEW M, NEW body, NEW s, NEW r, Stops(M, body, s, r), Distinct(body)
  PROVE  Stands(M, body, backend, fn, r, saved', table')
<1>1. todo[1].do = "restore" /\ table' = Restored(Top.old) /\ saved' = Cut(saved)
  BY StopIs DEF Restore, Doing
<1>2. /\ T.node = "var" /\ AtTop(s, P, Len(T.kids) - 1)
      /\ s.scope = M[Append(P, Len(T.kids))] /\ r = Closed(s, M[P])
  BY <1>1, StopIs DEF Goes
<1>3. PICK n \in Nat : n = Len(T.kids) - 1 /\ n + 1 = Len(T.kids)
  <2>1. T \in Trees
    BY <1>2, StopIs, PlaceIs DEF Shaped, IsBinding
  <2>2. Len(T.kids) \in Nat \ {0}
    BY <2>1, <1>2, TreeIs DEF IsTree
  <2>3. Len(T.kids) - 1 \in Nat /\ (Len(T.kids) - 1) + 1 = Len(T.kids)
    BY <2>2
  <2> QED
    BY <2>3
<1>4. NodeAt(body, P) = "var" /\ \A i : BoundAt(body, P, i) = T.kids[i].name
  BY <1>2, StopIs DEF NodeAt, BoundAt
<1>5. r.own = Cut(s.own) /\ r.scope = M[P] /\ s.own # <<>> /\ s.own[Len(s.own)] = Owner(P, n)
  BY <1>2, <1>3 DEF Closed, AtTop
<1>6. KeptAll(M, body, backend, fn, r.own, saved') /\ Kept(M, body, backend, fn, Owner(P, n), Top.old)
  BY <1>1, <1>5, StopIs, TopKept
<1>7. /\ Len(Top.old) = n
      /\ \A i \in 1 .. n : /\ Top.old[i].name = BoundAt(body, P, i)
                           /\ Agrees(backend, fn, M[Append(P, i)][BoundAt(body, P, i)], Top.old[i].slot)
  <2>1. PICK o : o = Owner(P, n)
    OBVIOUS
  <2>2. o.of = P /\ o.bound = n
    BY <2>1 DEF Owner
  <2>3. \A i : NamedAt(body, P, i) = BoundAt(body, P, i) /\ SiteAt(body, P, i) = Append(P, i)
    BY <1>4 DEF NamedAt, SiteAt
  <2> QED
    BY <2>1, <2>2, <2>3, <1>6 DEF Kept
<1>8. ASSUME NEW i \in 1 .. n + 1, NEW x \in Names, \A j \in 1 .. i - 1 : BoundAt(body, P, j) # x
      PROVE  M[Append(P, i)][x] = M[P][x]
  <2>1. ScopeBeside(M, body) /\ P \in Seq(Nat)
    BY StopIs DEF Laws
  <2>2. i \in Nat \ {0}
    OBVIOUS
  <2> QED
    BY <2>1, <2>2, <1>4, <1>8 DEF ScopeBeside
<1>9. TableAgrees(backend, fn, M[P], table')
  <2>1. ASSUME NEW x \in Names PROVE Agrees(backend, fn, M[P][x], table'[x])
    <3>1. \/ (\A i \in 1 .. n : Top.old[i].name # x) /\ table'[x] = table[x]
          \/ \E k \in 1 .. n : Top.old[k].name = x /\ table'[x] = Top.old[k].slot
      BY <1>1, <1>7, RestoredMeans
    <3>2. CASE (\A i \in 1 .. n : Top.old[i].name # x) /\ table'[x] = table[x]
      <4>1. \A j \in 1 .. (n + 1) - 1 : BoundAt(body, P, j) # x
        <5>1. (n + 1) - 1 = n
          OBVIOUS
        <5> QED
          BY <5>1, <3>2, <1>7
      <4>2. n + 1 \in 1 .. n + 1
        OBVIOUS
      <4>3. M[Append(P, n + 1)][x] = M[P][x]
        BY <4>1, <4>2, <1>8
      <4>4. Agrees(backend, fn, s.scope[x], table[x])
        BY StopIs DEF TableAgrees
      <4> QED
        BY <4>3, <4>4, <3>2, <1>2, <1>3
    <3>3. CASE \E k \in 1 .. n : Top.old[k].name = x /\ table'[x] = Top.old[k].slot
      <4>1. PICK k \in 1 .. n : Top.old[k].name = x /\ table'[x] = Top.old[k].slot
        BY <3>3
      <4>2. BoundAt(body, P, k) = x
        BY <4>1, <1>7
      <4>3. ASSUME NEW j \in 1 .. k - 1 PROVE BoundAt(body, P, j) # x
        <5>1. j \in 1 .. n /\ j < k
          BY <4>1
        <5>2. \A i, l \in 1 .. n : i < l => BoundAt(body, P, i) # BoundAt(body, P, l)
          BY <1>3, <1>4, StopIs DEF Distinct
        <5> QED
          BY <5>1, <5>2, <4>2
      <4>4. k \in 1 .. n + 1
        OBVIOUS
      <4>5. M[Append(P, k)][x] = M[P][x]
        BY <4>3, <4>4, <1>8
      <4>6. Agrees(backend, fn, M[Append(P, k)][x], Top.old[k].slot)
        BY <4>2, <1>7
      <4> QED
        BY <4>1, <4>5, <4>6
    <3> QED
      BY <3>1, <3>2, <3>3
  <2> QED
    BY <2>1 DEF TableAgrees
<1> QED
  BY <1>5, <1>6, <1>9 DEF Stands

LEMMA BindStands ==
  ASSUME Data, Bind, NEW M, NEW body, NEW s, NEW r, Stops(M, body, s, r)
  PROVE  Stands(M, body, backend, fn, r, saved', table')
<1>1. todo[1].do = "bind" /\ table' = [table EXCEPT ![T.name] = Slot]
  BY DEF Bind, Doing
<1>2. PICK e : e = [name |-> T.name, slot |-> table[T.name]]
  OBVIOUS
<1>3. s.scope = M[P]
  BY <1>1, StopIs DEF Goes
<1>0. Binds(M, body, s, P, r)
  BY <1>1, StopIs DEF Goes
<1>4. PICK p \in Places(body) : \E j \in 1 .. Len(Subtree(body, p).kids) - 1 :
        /\ P = Append(p, j) /\ Subtree(body, p).node = "var"
        /\ AtTop(s, p, j - 1) /\ r = Rebound(s, p, j, M[Append(p, j + 1)])
  BY <1>0 DEF Binds
<1>5. PICK j \in 1 .. Len(Subtree(body, p).kids) - 1 :
        /\ P = Append(p, j) /\ Subtree(body, p).node = "var"
        /\ AtTop(s, p, j - 1) /\ r = Rebound(s, p, j, M[Append(p, j + 1)])
  BY <1>4
<1>6. p \in Seq(Nat) /\ j \in Nat \ {0} /\ T = Subtree(body, p).kids[j]
  <2>1. p \in Seq(Nat) /\ Shaped(Subtree(body, p))
    BY StopIs, PlaceIs
  <2>2. PICK m \in Nat : m = Len(Subtree(body, p).kids)
    BY <2>1, ShapedIs
  <2>3. j \in Nat \ {0}
    BY <2>2
  <2> QED
    BY <2>1, <2>3, <1>5, StopIs, SubtreeTurn
<1>7. NodeAt(body, p) = "var" /\ BoundAt(body, p, j) = T.name
  BY <1>5, <1>6 DEF NodeAt, BoundAt
<1>8. T.name \in Names
  BY <1>1, StopIs, JobIs
<1>9. PICK k \in Nat : k = j - 1 /\ k + 1 = j
  BY <1>6
<1>10. /\ r.own = Append(Cut(s.own), Owner(p, j)) /\ r.scope = M[Append(p, j + 1)]
       /\ s.own # <<>> /\ s.own[Len(s.own)] = Owner(p, k)
  BY <1>5, <1>9 DEF Rebound, AtTop
<1>11. KeptAll(M, body, backend, fn, s.own, saved) /\ Kept(M, body, backend, fn, Owner(p, k), Top.old)
       /\ saved # <<>>
  BY <1>10, StopIs, TopKept
<1>12. Top \in Frames(fn) /\ Top.old \in Seq([name : Names, slot : Slots(fn)])
  BY <1>10, TopKept DEF Frames
<1>13. PICK old : old = Append(Top.old, e)
  OBVIOUS
<1>14. PICK top, fr : top \in Frames(fn) /\ top = Top /\ fr = [top EXCEPT !.old = old]
  BY <1>12
<1>15. saved' = Append(Cut(saved), fr) /\ fr.old = old
  <2>1. saved' = Append(Drop, [Top EXCEPT !.old = Append(Top.old, e)])
    BY <1>2 DEF Bind
  <2>2. saved' = Append(Drop, fr)
    BY <2>1, <1>13, <1>14
  <2>3. fr.old = old
    BY <1>14 DEF Frames
  <2> QED
    BY <2>2, <2>3, StopIs
<1>16. Kept(M, body, backend, fn, Owner(p, j), old)
  <2>1. PICK o : o = Owner(p, k)
    OBVIOUS
  <2>2. o.of = p /\ o.bound = k
    BY <2>1 DEF Owner
  <2>3. /\ Len(Top.old) = k
        /\ \A i \in 1 .. k :
             /\ Top.old[i].name = NamedAt(body, p, i)
             /\ Agrees(backend, fn, M[SiteAt(body, p, i)][NamedAt(body, p, i)], Top.old[i].slot)
    BY <2>1, <2>2, <1>11 DEF Kept
  <2>4. Len(old) = k + 1 /\ old[k + 1] = e /\ \A i \in 1 .. k : old[i] = Top.old[i]
    <3>1. /\ Len(old) = Len(Top.old) + 1 /\ old[Len(Top.old) + 1] = e
          /\ \A i \in 1 .. Len(Top.old) : old[i] = Top.old[i]
      BY <1>12, <1>13, PushAny
    <3> QED
      BY <3>1, <2>3
  <2>5. NamedAt(body, p, j) = T.name /\ SiteAt(body, p, j) = P
    BY <1>5, <1>7 DEF NamedAt, SiteAt
  <2>6. Agrees(backend, fn, M[P][T.name], table[T.name])
    BY <1>3, <1>8, StopIs DEF TableAgrees
  <2>7. e.name = T.name /\ e.slot = table[T.name]
    BY <1>2
  <2>8. ASSUME NEW i \in 1 .. j
        PROVE  /\ old[i].name = NamedAt(body, p, i)
               /\ Agrees(backend, fn, M[SiteAt(body, p, i)][NamedAt(body, p, i)], old[i].slot)
    <3>1. CASE i = j
      BY <3>1, <2>4, <2>5, <2>6, <2>7, <1>9
    <3>2. CASE i # j
      <4>1. i \in 1 .. k
        BY <3>2, <1>9
      <4> QED
        BY <4>1, <2>3, <2>4
    <3> QED
      BY <3>1, <3>2
  <2>9. PICK o2 : o2 = Owner(p, j)
    OBVIOUS
  <2>10. o2.of = p /\ o2.bound = j
    BY <2>9 DEF Owner
  <2> QED
    BY <2>4, <2>8, <2>9, <2>10, <1>9 DEF Kept
<1>17. KeptAll(M, body, backend, fn, r.own, saved')
  BY <1>10, <1>15, <1>16, StopIs, KeptSwap
<1>18. TableAgrees(backend, fn, r.scope, table')
  <2>1. PICK slot : slot = Slot
    OBVIOUS
  <2>2. slot = <<fn, P>> /\ slot # Null
    BY <2>1, StopIs, SlotIsNoNull DEF Slot
  <2>3. PICK x \in Names : x = T.name
    BY <1>8
  <2>4. PICK tb, tb2 : tb = table /\ tb2 = table'
    OBVIOUS
  <2>5. PICK scope, scope2 : scope = s.scope /\ scope2 = M[Append(p, j + 1)]
    OBVIOUS
  <2>6. \A y \in Names : tb2[y] = IF y = x THEN slot ELSE tb[y]
    BY <2>1, <2>3, <2>4, <1>1, StopIs
  <2>7. \A y \in Names : scope2[y] = IF y = x THEN slot ELSE scope[y]
    <3>1. ScopeOfBinding(M, body, fn)
      BY StopIs DEF Laws
    <3>2. \A y \in Names : M[Append(p, j + 1)][y] =
            IF y = BoundAt(body, p, j) THEN <<fn, Append(p, j)>> ELSE M[Append(p, j)][y]
      BY <3>1, <1>6, <1>7 DEF ScopeOfBinding
    <3> QED
      BY <3>2, <2>2, <2>3, <2>5, <1>3, <1>5, <1>7
  <2>8. TableAgrees(backend, fn, scope, tb)
    BY <2>4, <2>5, StopIs
  <2>9. slot # Null
    BY <2>2
  <2>10. TableAgrees(backend, fn, scope2, tb2)
    <3>1. \A y \in Names : Agrees(backend, fn, scope[y], tb[y])
      BY <2>8 DEF TableAgrees
    <3>2. Agrees(backend, fn, slot, slot)
      BY <2>9 DEF Agrees
    <3>3. \A y \in Names : Agrees(backend, fn, scope2[y], tb2[y])
      BY <3>1, <3>2, <2>6, <2>7
    <3> QED
      BY <3>3 DEF TableAgrees
  <2> QED
    BY <2>4, <2>5, <2>10, <1>10
<1> QED
  BY <1>17, <1>18 DEF Stands

-----------------------------------------------------------------------------
(* Every occurrence of a name has been used or lies below a task.          *)
Occurs(body) == {p \in Places(body) : NodeAt(body, p) = "variable"}
Above(a, p) == Len(a) <= Len(p) /\ \A k \in 1 .. Len(a) : p[k] = a[k]
Covered(body, td, us) ==
  \A p \in Occurs(body) :
    \/ \E u \in us : u.path = p
    \/ \E i \in 1 .. Len(td) : td[i].do \in Heads /\ Above(td[i].path, p)

LEMMA AboveTurn ==
  ASSUME NEW q \in Seq(Nat), NEW i \in Nat, NEW a \in Seq(Nat)
  PROVE  /\ Above(a, q) => Above(a, Append(q, i))
         /\ Above(a, Append(q, i)) => a = Append(q, i) \/ Above(a, q)
<1>1. PICK p \in Seq(Nat) : p = Append(q, i)
  BY PushIs
<1>2. PICK n \in Nat : n = Len(q)
  BY LenProperties
<1>3. Len(p) = n + 1 /\ p[n + 1] = i /\ \A k \in 1 .. n : p[k] = q[k]
  <2>1. Len(p) = Len(q) + 1 /\ p[Len(q) + 1] = i /\ \A k \in 1 .. Len(q) : p[k] = q[k]
    BY <1>1, PushAny
  <2> QED
    BY <2>1, <1>2
<1>4. PICK m \in Nat : m = Len(a)
  BY LenProperties
<1>5. ASSUME Above(a, q) PROVE Above(a, p)
  <2>1. m <= n /\ \A k \in 1 .. m : q[k] = a[k]
    BY <1>2, <1>4, <1>5 DEF Above
  <2>2. \A k \in 1 .. m : k \in 1 .. n
    BY <2>1
  <2> QED
    BY <2>1, <2>2, <1>3, <1>4 DEF Above
<1>6. ASSUME Above(a, p) PROVE a = p \/ Above(a, q)
  <2>1. m <= n + 1 /\ \A k \in 1 .. m : p[k] = a[k]
    BY <1>3, <1>4, <1>6 DEF Above
  <2>2. CASE m = n + 1
    <3>1. a = p
      BY <2>1, <2>2, <1>3, <1>4, SeqEqual
    <3> QED
      BY <3>1
  <2>3. CASE m # n + 1
    <3>1. m <= n
      BY <2>1, <2>3
    <3>2. \A k \in 1 .. m : k \in 1 .. n
      BY <3>1
    <3> QED
      BY <3>1, <3>2, <2>1, <1>2, <1>3, <1>4 DEF Above
  <2> QED
    BY <2>2, <2>3
<1> QED
  BY <1>1, <1>5, <1>6

(* What lies below a place lies at it or below one of its kids.            *)
LEMMA BelowKid ==
  ASSUME NEW t \in Trees, NEW a \in Places(t), NEW p \in Places(t), Above(a, p), a # p
  PROVE  \E i \in KidsAt(t, a) : Above(Append(a, i), p)
<1>1. a \in Seq(Nat) /\ \A q \in Places(t) : q \in Seq(Nat)
  BY PlaceIs
<1> DEFINE Reached(q) == \E i \in KidsAt(t, a) : Above(Append(a, i), q)
           Bad == {n \in Nat : \E q \in Places(t) : Len(q) = n /\ Above(a, q) /\ a # q /\ ~Reached(q)}
<1>2. ASSUME Bad # {} PROVE FALSE
  <2>1. PICK n \in Bad : \A j \in Bad : n <= j
    BY <1>2, LeastExists
  <2>2. PICK q \in Places(t) : Len(q) = n /\ Above(a, q) /\ a # q /\ ~Reached(q)
    BY <2>1
  <2>3. q # <<>>
    <3>1. ASSUME q = <<>> PROVE FALSE
      <4>1. Len(a) <= 0 /\ Len(a) \in Nat
        BY <3>1, <2>2, <1>1, LenProperties DEF Above
      <4>2. a = <<>>
        BY <4>1, <1>1, EmptySeq
      <4> QED
        BY <4>2, <3>1, <2>2
    <3> QED
      BY <3>1
  <2>0. PICK r \in Places(t) : \E i \in KidsAt(t, r) : q = Append(r, i)
    BY <2>3, PlaceAbove
  <2>4. PICK i \in KidsAt(t, r) : q = Append(r, i)
    BY <2>0
  <2>5. r \in Seq(Nat) /\ i \in Nat
    BY <1>1, <2>4, KidIsPlace
  <2>6. Above(a, r)
    BY <2>2, <2>4, <2>5, <1>1, AboveTurn
  <2>7. CASE a = r
    <3>1. Above(Append(a, i), q)
      BY <2>4, <2>7 DEF Above
    <3> QED
      BY <3>1, <2>2, <2>4, <2>7
  <2>8. CASE a # r
    <3>1. Len(r) \in Nat /\ n = Len(r) + 1
      BY <2>2, <2>4, <2>5, PushIs
    <3>2. Reached(r)
      <4>1. ~(n <= Len(r))
        BY <3>1
      <4> QED
        BY <4>1, <3>1, <2>1, <2>6, <2>8
    <3>3. PICK j \in KidsAt(t, a) : Above(Append(a, j), r)
      BY <3>2
    <3>4. Append(a, j) \in Seq(Nat)
      BY <3>3, <1>1, KidIsPlace, PushIs
    <3>5. Above(Append(a, j), q)
      BY <3>3, <3>4, <2>4, <2>5, AboveTurn
    <3> QED
      BY <3>5, <2>2
  <2> QED
    BY <2>7, <2>8
<1>3. Len(p) \in Nat
  BY <1>1, LenProperties
<1> QED
  BY <1>2, <1>3

(* The tasks of a place stand for the place, once its own name is used.    *)
Turned(body, a, td, td2, us, us2) ==
  /\ body \in Trees /\ td \in Seq(Jobs) /\ td # <<>> /\ a \in Places(body) /\ td[1].path = a
  /\ \E tasks \in Seq(Jobs) : td2 = tasks \o Tail(td) /\ Covering(body, a, tasks)
  /\ us \subseteq us2 /\ Covered(body, td, us)
  /\ a \in Occurs(body) => \E u \in us2 : u.path = a

LEMMA CoverTurn ==
  ASSUME NEW body, NEW a, NEW td, NEW td2, NEW us, NEW us2, Turned(body, a, td, td2, us, us2)
  PROVE  Covered(body, td2, us2)
<1>0. PICK S : S = Jobs
  OBVIOUS
<1>9. /\ body \in Trees /\ td \in Seq(S) /\ td # <<>> /\ a \in Places(body) /\ td[1].path = a
      /\ us \subseteq us2 /\ Covered(body, td, us)
      /\ a \in Occurs(body) => \E u \in us2 : u.path = a
  BY <1>0 DEF Turned
<1>10. PICK tasks \in Seq(S) : td2 = tasks \o Tail(td) /\ Covering(body, a, tasks)
  BY <1>0 DEF Turned
<1>1. PICK n \in Nat : n + 1 = Len(td)
  <2>1. Len(td) \in Nat \ {0}
    BY <1>9, EmptySeq
  <2>2. Len(td) - 1 \in Nat /\ (Len(td) - 1) + 1 = Len(td)
    BY <2>1
  <2> QED
    BY <2>2
<1>2. PICK rest : rest = Tail(td)
  OBVIOUS
<1>3. rest \in Seq(S) /\ Len(rest) = n /\ \A i \in 1 .. n : rest[i] = td[i + 1]
  <2>1. (n + 1) - 1 = n
    OBVIOUS
  <2> QED
    BY <1>1, <1>2, <1>9, <2>1, HeadTailProperties
<1>4. PICK m \in Nat : m = Len(tasks)
  BY LenProperties
<1>5. /\ Len(td2) = m + n /\ \A i \in 1 .. m : td2[i] = tasks[i]
      /\ \A i \in m + 1 .. m + n : td2[i] = rest[i - m]
  <2>1. td2 = tasks \o rest
    BY <1>2, <1>10
  <2>2. PICK k \in Nat : k = Len(rest)
    BY <1>3
  <2>3. /\ Len(td2) = Len(tasks) + Len(rest)
        /\ \A i \in 1 .. Len(tasks) : td2[i] = tasks[i]
        /\ \A i \in Len(tasks) + 1 .. Len(tasks) + Len(rest) : td2[i] = rest[i - Len(tasks)]
    BY <2>1, <1>3, ConcatProperties
  <2> QED
    BY <2>2, <2>3, <1>3, <1>4
<1>6. ASSUME NEW p \in Occurs(body), ~ \E u \in us2 : u.path = p
      PROVE  \E i \in 1 .. Len(td2) : td2[i].do \in Heads /\ Above(td2[i].path, p)
  <2>1. PICK i \in 1 .. n + 1 : td[i].do \in Heads /\ Above(td[i].path, p)
    BY <1>1, <1>6, <1>9 DEF Covered
  <2>2. CASE i = 1
    <3>1. Above(a, p) /\ a # p /\ p \in Places(body)
      BY <2>1, <2>2, <1>6, <1>9 DEF Occurs
    <3>2. PICK k \in KidsAt(body, a) : Above(Append(a, k), p)
      BY <3>1, <1>9, BelowKid
    <3>3. PICK j \in 1 .. m : tasks[j].do \in Heads /\ tasks[j].path = Append(a, k)
      BY <1>4, <3>2, <1>10 DEF Covering
    <3>4. j \in 1 .. m + n
      OBVIOUS
    <3> QED
      BY <3>2, <3>3, <3>4, <1>5
  <2>3. CASE i # 1
    <3>1. PICK k \in 1 .. n : i = k + 1
      <4>1. i - 1 \in 1 .. n /\ i = (i - 1) + 1
        BY <2>3
      <4> QED
        BY <4>1
    <3>2. m + k \in m + 1 .. m + n /\ (m + k) - m = k /\ m + k \in 1 .. m + n
      OBVIOUS
    <3>3. td2[m + k] = td[i]
      BY <3>1, <3>2, <1>3, <1>5
    <3> QED
      BY <3>2, <3>3, <2>1, <1>5
  <2> QED
    BY <2>2, <2>3
<1> QED
  BY <1>6 DEF Covered

(* A task that covers nothing is done.                                     *)
LEMMA CoverDrop ==
  ASSUME NEW body, NEW S, NEW td \in Seq(S), td # <<>>, td[1].do \notin Heads,
         NEW us, Covered(body, td, us)
  PROVE  Covered(body, Tail(td), us)
<1>1. PICK n \in Nat : n + 1 = Len(td)
  <2>1. Len(td) \in Nat \ {0}
    BY EmptySeq
  <2>2. Len(td) - 1 \in Nat /\ (Len(td) - 1) + 1 = Len(td)
    BY <2>1
  <2> QED
    BY <2>2
<1>2. PICK rest : rest = Tail(td)
  OBVIOUS
<1>3. rest \in Seq(S) /\ Len(rest) = n /\ \A i \in 1 .. n : rest[i] = td[i + 1]
  <2>1. (n + 1) - 1 = n
    OBVIOUS
  <2> QED
    BY <1>1, <1>2, <2>1, HeadTailProperties
<1>4. ASSUME NEW p \in Occurs(body), ~ \E u \in us : u.path = p
      PROVE  \E i \in 1 .. Len(rest) : rest[i].do \in Heads /\ Above(rest[i].path, p)
  <2>1. PICK i \in 1 .. n + 1 : td[i].do \in Heads /\ Above(td[i].path, p)
    BY <1>1, <1>4 DEF Covered
  <2>2. i # 1
    BY <2>1
  <2>3. PICK k \in 1 .. n : i = k + 1
    <3>1. i - 1 \in 1 .. n /\ i = (i - 1) + 1
      BY <2>2
    <3> QED
      BY <3>1
  <2> QED
    BY <2>1, <2>3, <1>3
<1> QED
  BY <1>2, <1>4 DEF Covered

-----------------------------------------------------------------------------
(* The walk goes on: what is to do leads on from the situation the table   *)
(* and the frames stand for, and no occurrence of a name is left out.      *)
Used(M, body, b, f, us) ==
  \A u \in us : \E p \in Occurs(body) :
    /\ u = [path |-> p, slot |-> u.slot] /\ u.slot # Null
    /\ Agrees(b, f, M[p][NameOf(body, p)], u.slot)
Walking(M, body, s, r) ==
  /\ Walks(M, body, todo, s, r) /\ Stands(M, body, backend, fn, s, saved, table)
  /\ Used(M, body, backend, fn, uses) /\ Covered(body, todo, uses)
Strides(M, body) == \E s \in Situations : \E r \in Situations : Walking(M, body, s, r)'

(* The first task of a walk: s before it, q behind it, r at the end.       *)
Walked(M, body, s, q, r) ==
  /\ Stops(M, body, s, q) /\ r \in Situations /\ Walks(M, body, Tail(todo), q, r)
  /\ Used(M, body, backend, fn, uses) /\ Covered(body, todo, uses)

LEMMA WalkedIs ==
  ASSUME Data, NEW M, NEW body, NEW s, NEW q, NEW r, Walked(M, body, s, q, r)
  PROVE  /\ Stops(M, body, s, q) /\ s \in Situations /\ q \in Situations /\ r \in Situations
         /\ Walks(M, body, Tail(todo), q, r) /\ Used(M, body, backend, fn, uses)
         /\ Covered(body, todo, uses) /\ todo # <<>> /\ todo \in Seq(Jobs) /\ Tail(todo) \in Seq(Jobs)
         /\ body \in Trees /\ P \in Places(body) /\ T = Subtree(body, P) /\ todo[1].path = P
         /\ todo[1].do \in {"gen", "store", "initialize"} => Generates(M, body, s)
         /\ todo[1].do \in {"gen", "store"} => q = s
<1>1. Stops(M, body, s, q)
  BY DEF Walked
<1>2. todo # <<>> /\ todo[1].path = P
  BY <1>1 DEF Stops, P
<1>3. Tail(todo) \in Seq(Jobs) /\ todo \in Seq(Jobs)
  BY <1>2, FirstJob DEF Data
<1>4. /\ P \in Places(body) /\ T = Subtree(body, P) /\ body \in Trees /\ s \in Situations
      /\ q \in Situations /\ Laws(M, body, fn, LoopScope) /\ Goes(M, body, s, todo[1], q)
  BY <1>1, StopIs
<1>5. todo[1].do \in {"gen", "store", "initialize"} => s.scope = M[P]
  BY <1>2, <1>4 DEF Goes
<1>6. todo[1].do \in {"gen", "store"} => q = s
  BY <1>4 DEF Goes
<1> QED
  BY <1>1, <1>2, <1>3, <1>4, <1>5, <1>6 DEF Walked, Generates

(* A generated expression.                                                 *)
LEMMA ExpandWalks ==
  ASSUME Data, NEW M, NEW body, NEW s, NEW q, NEW r, Walked(M, body, s, q, r),
         UNCHANGED <<backend, program, fn>>, NEW o \in Situations, Expands(M, body, o, q),
         Stands(M, body, backend, fn, o, saved', table'),
         uses \subseteq uses', Used(M, body, backend, fn, uses'),
         P \in Occurs(body) => \E u \in uses' : u.path = P
  PROVE  Strides(M, body)
<1>1. PICK tasks \in Seq(Jobs) :
        todo' = tasks \o Tail(todo) /\ Walks(M, body, tasks, o, q) /\ Covering(body, P, tasks)
  BY DEF Expands
<1>2. /\ q \in Situations /\ r \in Situations /\ Walks(M, body, Tail(todo), q, r)
      /\ Tail(todo) \in Seq(Jobs) /\ todo \in Seq(Jobs) /\ todo # <<>> /\ Covered(body, todo, uses)
      /\ body \in Trees /\ P \in Places(body) /\ todo[1].path = P
  BY WalkedIs
<1>3. Walks(M, body, todo', o, r)
  BY <1>1, <1>2, WalkJoin
<1>4. PICK a, td, td2, us, us2 : a = P /\ td = todo /\ td2 = todo' /\ us = uses /\ us2 = uses'
  OBVIOUS
<1>5. Turned(body, a, td, td2, us, us2)
  BY <1>1, <1>2, <1>4 DEF Turned
<1>7. Covered(body, td2, us2)
  BY <1>5, CoverTurn
<1>6. Walking(M, body, o, r)'
  BY <1>3, <1>4, <1>7 DEF Walking
<1> QED
  BY <1>2, <1>6 DEF Strides

(* A step that opens or leaves a construct.                                *)
LEMMA StopWalks ==
  ASSUME Data, NEW M, NEW body, NEW s, NEW q, NEW r, Walked(M, body, s, q, r),
         UNCHANGED <<backend, program, fn, uses>>, Continue(<<>>), todo[1].do \notin Heads,
         Stands(M, body, backend, fn, q, saved', table')
  PROVE  Strides(M, body)
<1>1. /\ q \in Situations /\ r \in Situations /\ Walks(M, body, Tail(todo), q, r)
      /\ Tail(todo) \in Seq(Jobs) /\ todo \in Seq(Jobs) /\ todo # <<>> /\ Covered(body, todo, uses)
      /\ Used(M, body, backend, fn, uses)
  BY WalkedIs
<1>2. PICK rest \in Seq(Jobs) : rest = Tail(todo)
  BY <1>1
<1>3. todo' = rest
  <2>1. todo' = <<>> \o rest
    BY <1>2 DEF Continue
  <2> QED
    BY <2>1
<1>4. Covered(body, rest, uses)
  <2>1. PICK td, us : td = todo /\ us = uses
    OBVIOUS
  <2>2. td \in Seq(Jobs) /\ td # <<>> /\ td[1].do \notin Heads /\ Covered(body, td, us)
    BY <2>1, <1>1
  <2>3. Covered(body, Tail(td), us)
    BY <2>2, CoverDrop
  <2> QED
    BY <2>1, <2>3, <1>2
<1>5. Walking(M, body, q, r)'
  BY <1>1, <1>2, <1>3, <1>4 DEF Walking
<1> QED
  BY <1>1, <1>5 DEF Strides

LEMMA GenWalks ==
  ASSUME Data, NEW M, NEW body, NEW s, NEW q, NEW r, Walked(M, body, s, q, r),
         UNCHANGED <<backend, program, fn, saved, table, uses>>, Expands(M, body, s, q),
         T.node # "variable"
  PROVE  Strides(M, body)
<1>1. s \in Situations /\ T = Subtree(body, P) /\ Used(M, body, backend, fn, uses) /\ Stops(M, body, s, q)
  BY WalkedIs
<1>2. Stands(M, body, backend, fn, s, saved', table')
  BY <1>1 DEF Stops
<1>3. P \notin Occurs(body)
  BY <1>1 DEF Occurs, NodeAt
<1>4. Used(M, body, backend, fn, uses') /\ uses \subseteq uses'
  BY <1>1
<1> QED
  BY <1>1, <1>2, <1>3, <1>4, ExpandWalks

(* The expressions whose kids stand in their scope, and initializers.      *)
LEMMA StraightWalks ==
  ASSUME Data, NEW M, NEW body, NEW s, NEW q, NEW r, Walked(M, body, s, q, r),
         Number \/ Assignment \/ Operands \/ IfStarts \/ ForStarts \/ Initialize,
         Assignment => ~Misread(T.kids[1])
  PROVE  Strides(M, body)
<1>1. /\ Doing("gen") \/ Doing("initialize")
      /\ UNCHANGED <<backend, program, fn, saved, table, uses>>
  BY DEF Number, Assignment, Operands, IfStarts, ForStarts, Initialize, Generating, Unscoped
<1>2. todo[1].do \in {"gen", "initialize"}
  BY <1>1 DEF Doing
<1>3. /\ Generates(M, body, s)
      /\ todo[1].do = "gen" => q = s
      /\ s \in Situations /\ q \in Situations /\ body \in Trees /\ T = Subtree(body, P)
      /\ Stops(M, body, s, q)
  BY <1>2, WalkedIs
<1>4. Goes(M, body, s, todo[1], q)
  BY <1>3, StopIs
<1>5. CASE Initialize
  <2>1. todo[1].do = "initialize" /\ P = todo[1].path
    BY <1>5 DEF Initialize, Doing, P
  <2>2. Binds(M, body, s, P, q)
    BY <2>1, <1>4 DEF Goes
  <2>3. T.node # "variable"
    BY <2>2, <1>3, BindingIs DEF IsBinding
  <2>4. Expands(M, body, s, q)
    BY <1>3, <1>4, <1>5, InitializeExpands
  <2> QED
    BY <2>3, <2>4, <1>1, GenWalks
<1>6. CASE Number \/ Assignment \/ Operands \/ IfStarts \/ ForStarts
  <2>1. Doing("gen") /\ T.node # "variable"
    BY <1>6 DEF Number, Assignment, IsAssignment, Operands, IfStarts, ForStarts, Generating
  <2>2. q = s
    BY <2>1, <1>3 DEF Doing
  <2>3. Expands(M, body, s, s)
    <3>1. CASE Number
      <4>1. Continue(<<>>) /\ T.node = "number"
        BY <3>1 DEF Number, Generating
      <4>2. T.kids = <<>>
        BY <4>1, <2>1, GenIs DEF IsTree
      <4>3. KidsAt(body, P) = {}
        <5>1. Len(T.kids) = 0
          BY <4>2
        <5> QED
          BY <5>1, <1>3 DEF KidsAt
      <4> QED
        BY <4>1, <4>3, <1>3, NothingExpands
    <3>2. CASE Assignment
      BY <3>2, <1>3, AssignmentExpands
    <3>3. CASE Operands
      BY <3>3, <1>3, OperandsExpand
    <3>4. CASE IfStarts
      BY <3>4, <1>3, IfExpands
    <3>5. CASE ForStarts
      BY <3>5, <1>3, ForExpands
    <3> QED
      BY <3>1, <3>2, <3>3, <3>4, <3>5, <1>6
  <2> QED
    BY <2>1, <2>2, <2>3, <1>1, GenWalks
<1> QED
  BY <1>5, <1>6

LEMMA VarWalks ==
  ASSUME Data, NEW M, NEW body, NEW s, NEW q, NEW r, Walked(M, body, s, q, r), VarStarts
  PROVE  Strides(M, body)
<1>1. /\ Doing("gen") /\ T.node = "var" /\ UNCHANGED <<backend, program, fn, table, uses>>
      /\ saved' = Append(saved, Frame(0, 0, <<>>))
  BY DEF VarStarts, Generating, Unscoped
<1>2. /\ Generates(M, body, s) /\ q = s /\ T = Subtree(body, P) /\ Stops(M, body, s, q)
      /\ Used(M, body, backend, fn, uses)
  <2>1. todo[1].do = "gen"
    BY <1>1 DEF Doing
  <2> QED
    BY <2>1, WalkedIs
<1>3. PICK o \in Situations : o = Opened(s, P, 0, s.scope) /\ Expands(M, body, o, s)
  BY <1>2, VarExpands
<1>4. Stands(M, body, backend, fn, o, saved', table')
  BY <1>1, <1>2, <1>3, OpenStands
<1>5. P \notin Occurs(body)
  BY <1>1, <1>2 DEF Occurs, NodeAt
<1>6. uses \subseteq uses' /\ Used(M, body, backend, fn, uses')
  BY <1>1, <1>2
<1> QED
  BY <1>1, <1>2, <1>3, <1>4, <1>5, <1>6, ExpandWalks

LEMMA TurnWalks ==
  ASSUME Data, NEW M, NEW body, NEW s, NEW q, NEW r, Walked(M, body, s, q, r),
         Distinct(body), backend = "Cairo" => NoShadow(M, body),
         Branch \/ Else \/ Merge \/ EnterLoop \/ ExitLoop \/ Bind \/ Restore
  PROVE  Strides(M, body)
<1>1. Stops(M, body, s, q)
  BY WalkedIs
<1>2. /\ todo[1].do \in {"branch", "else", "merge", "enter", "exit", "bind", "restore"}
      /\ Continue(<<>>) /\ UNCHANGED <<backend, program, fn, uses>>
  BY DEF Branch, Else, Merge, EnterLoop, ExitLoop, Bind, Restore, Doing, Unscoped
<1>3. Stands(M, body, backend, fn, q, saved', table')
  <2>1. CASE Branch
    BY <2>1, <1>1, BranchStands
  <2>2. CASE Else
    BY <2>2, <1>1, ElseStands
  <2>3. CASE Merge
    BY <2>3, <1>1, MergeStands
  <2>4. CASE EnterLoop
    BY <2>4, <1>1, EnterStands
  <2>5. CASE ExitLoop
    BY <2>5, <1>1, ExitStands
  <2>6. CASE Bind
    BY <2>6, <1>1, BindStands
  <2>7. CASE Restore
    BY <2>7, <1>1, RestoreStands
  <2> QED
    BY <2>1, <2>2, <2>3, <2>4, <2>5, <2>6, <2>7
<1>4. todo[1].do \notin Heads
  BY <1>2 DEF Heads
<1> QED
  BY <1>2, <1>3, <1>4, StopWalks

(* A load or store of a name: an occurrence, with what its scope says.     *)
LEMMA OccurrenceIs ==
  ASSUME Data, NEW M, NEW body, NEW s, NEW q, NEW r, Walked(M, body, s, q, r), Variable \/ Store
  PROVE  /\ Access(T.name, P) /\ todo[1].do \in {"gen", "store"} /\ P \in Occurs(body)
         /\ T.name \in Names /\ T.name = NameOf(body, P) /\ KidsAt(body, P) = {}
         /\ Agrees(backend, fn, M[P][T.name], table[T.name])
<1>1. Access(T.name, P) /\ todo[1].do \in {"gen", "store"} /\ (Variable => T.node = "variable")
  BY DEF Variable, Store, Generating, Doing
<1>2. /\ Generates(M, body, s) /\ Stops(M, body, s, q) /\ P \in Places(body) /\ T = Subtree(body, P)
      /\ body \in Trees
  BY <1>1, WalkedIs
<1>3. T.node = "variable"
  <2>1. CASE Variable
    BY <2>1, <1>1
  <2>2. CASE Store
    <3>1. todo[1].do = "store" /\ T = todo[1].tree
      BY <2>2 DEF Store, Doing, T
    <3>2. Goes(M, body, s, todo[1], q)
      BY <1>2, StopIs
    <3> QED
      BY <3>1, <3>2 DEF Goes
  <2> QED
    BY <2>1, <2>2
<1>4. T \in Trees
  <2>1. Shaped(T)
    BY <1>2, PlaceIs
  <2> QED
    BY <2>1, <1>3 DEF Shaped, IsBinding
<1>5. T.kids = <<>> /\ T.name \in Names
  BY <1>3, <1>4, TreeIs DEF IsTree
<1>6. KidsAt(body, P) = {}
  <2>1. Len(T.kids) = 0
    BY <1>5
  <2> QED
    BY <2>1, <1>2 DEF KidsAt
<1>7. P \in Occurs(body) /\ T.name = NameOf(body, P)
  BY <1>2, <1>3 DEF Occurs, NodeAt, NameOf
<1>8. Agrees(backend, fn, M[P][T.name], table[T.name])
  <2>1. TableAgrees(backend, fn, s.scope, table) /\ s.scope = M[P]
    BY <1>2, StopIs DEF Generates
  <2> QED
    BY <2>1, <1>5 DEF TableAgrees
<1> QED
  BY <1>1, <1>5, <1>6, <1>7, <1>8

LEMMA AccessWalks ==
  ASSUME Data, NEW M, NEW body, NEW s, NEW q, NEW r, Walked(M, body, s, q, r), Variable \/ Store
  PROVE  \/ Strides(M, body)
         \/ Fail /\ P \in Occurs(body) /\ M[P][NameOf(body, P)] = Null
<1>1. /\ Access(T.name, P) /\ todo[1].do \in {"gen", "store"} /\ P \in Occurs(body)
      /\ T.name \in Names /\ T.name = NameOf(body, P) /\ KidsAt(body, P) = {}
      /\ Agrees(backend, fn, M[P][T.name], table[T.name])
  BY OccurrenceIs
<1>2. /\ q = s /\ Stops(M, body, s, q) /\ Used(M, body, backend, fn, uses) /\ s \in Situations
  BY <1>1, WalkedIs
<1>3. CASE table[T.name] = Null
  <2>1. Fail
    BY <1>1, <1>3 DEF Access
  <2>2. M[P][T.name] = Null
    BY <1>1, <1>3 DEF Agrees
  <2> QED
    BY <2>1, <2>2, <1>1
<1>4. CASE table[T.name] # Null
  <2>1. PICK u : u = [path |-> P, slot |-> table[T.name]]
    OBVIOUS
  <2>2. /\ uses' = uses \union {u} /\ Continue(<<>>)
        /\ UNCHANGED <<backend, program, fn, saved, table>>
    BY <2>1, <1>1, <1>4 DEF Access, Unscoped
  <2>3. u.path = P /\ u.slot = table[T.name] /\ u = [path |-> P, slot |-> u.slot]
    BY <2>1
  <2>4. Used(M, body, backend, fn, uses')
    <3>1. ASSUME NEW v \in uses'
          PROVE  \E p \in Occurs(body) : /\ v = [path |-> p, slot |-> v.slot] /\ v.slot # Null
                                         /\ Agrees(backend, fn, M[p][NameOf(body, p)], v.slot)
      <4>1. CASE v \in uses
        BY <4>1, <1>2 DEF Used
      <4>2. CASE v = u
        <5>1. Agrees(backend, fn, M[P][NameOf(body, P)], v.slot)
          BY <4>2, <2>3, <1>1
        <5> QED
          BY <4>2, <5>1, <2>3, <1>1, <1>4
      <4> QED
        BY <4>1, <4>2, <2>2
    <3> QED
      BY <3>1 DEF Used
  <2>5. Expands(M, body, s, q)
    BY <2>2, <1>1, <1>2, NothingExpands
  <2>6. Stands(M, body, backend, fn, s, saved', table')
    BY <2>2, <1>2 DEF Stops
  <2>7. uses \subseteq uses' /\ \E v \in uses' : v.path = P
    BY <2>2, <2>3
  <2> QED
    BY <2>2, <2>4, <2>5, <2>6, <2>7, <1>2, ExpandWalks
<1> QED
  BY <1>3, <1>4

-----------------------------------------------------------------------------
(* The function at hand.                                                   *)
LEMMA FunctionHere ==
  ASSUME Data
  PROVE  /\ Function.body \in Trees /\ Len(Function.params) \in Nat /\ fn \in Nat
         /\ Laws(Meanings, Function.body, fn, LoopScope) /\ Occurrences = Occurs(Function.body)
         /\ \A p \in Seq(Nat) : \A x \in Names : Meanings[p][x] = Meaning(p, x)
<1>1. /\ program \in Seq([kernel : BOOLEAN, params : Seq(Names), declared : Seq(Names), body : Trees])
      /\ fn \in 1 .. Len(program)
  BY CodegenAssumption DEF Data
<1>2. fn \in Nat
  BY DEF Data
<1>3. Function \in [kernel : BOOLEAN, params : Seq(Names), declared : Seq(Names), body : Trees]
  BY <1>1, ElementOfSeq DEF Function
<1>4. Function.body \in Trees /\ Function.params \in Seq(Names)
  BY <1>3
<1>5. Len(Function.params) \in Nat
  BY <1>4, LenProperties
<1>6. Occurrences = Occurs(Function.body)
  BY DEF Occurrences, Occurs, Part, NodeAt
<1>7. \A p \in Seq(Nat) : \A x \in Names : Meanings[p][x] = Meaning(p, x)
  BY DEF Meanings
<1> QED
  BY <1>2, <1>4, <1>5, <1>6, <1>7, LawsHold

LEMMA RegularIs ==
  ASSUME Data, Regular
  PROVE  Distinct(Function.body) /\ (backend = "Cairo" => NoShadow(Meanings, Function.body))
<1>1. Distinct(Function.body)
  BY DEF Regular, BindsTwice, Distinct, Part, NodeAt, BoundAt
<1>2. ASSUME backend = "Cairo", NEW p \in Places(Function.body), NodeAt(Function.body, p) = "for"
      PROVE  Meanings[p][NameOf(Function.body, p)] = Null
  <2>1. Part(p).node = "for" /\ Part(p).name = NameOf(Function.body, p)
    BY <1>2 DEF Part, NodeAt, NameOf
  <2>2. Binders(p, Part(p).name) = {}
    BY <1>2, <2>1 DEF Regular, LoopsRestore, LoopShadows
  <2>3. p \in Seq(Nat) /\ Shaped(Part(p))
    BY FunctionHere, PlaceIs DEF Part
  <2>4. Part(p) \in Trees
    BY <2>1, <2>3 DEF Shaped, IsBinding
  <2>5. Part(p).name \in Names
    BY <2>1, <2>4, TreeIs DEF IsTree
  <2>6. Meaning(p, Part(p).name) = Null
    BY <2>2 DEF Meaning
  <2> QED
    BY <2>1, <2>3, <2>5, <2>6, FunctionHere
<1> QED
  BY <1>1, <1>2 DEF NoShadow

LEMMA KeysStay ==
  ASSUME UNCHANGED backend
  PROVE  \A f : Keys(f)' = Keys(f)
BY DEF Keys

LEMMA ScopeStays ==
  ASSUME UNCHANGED <<backend, program, fn>>
  PROVE  /\ Function' = Function /\ Meanings' = Meanings /\ Regular' = Regular
         /\ Occurrences' = Occurrences /\ Bound' = Bound /\ LexicalUses' = LexicalUses
<1>1. Function' = Function /\ \A p : Part(p)' = Part(p)
  BY DEF Function, Part
<1>2. \A p, x : Binders(p, x)' = Binders(p, x)
  BY MeaningStays
<1>3. \A p, x : Meaning(p, x)' = Meaning(p, x)
  BY MeaningStays
<1>4. Meanings' = Meanings
  BY <1>3 DEF Meanings
<1>5. BindsTwice' = BindsTwice /\ LoopShadows' = LoopShadows /\ AssignsToNoVariable' = AssignsToNoVariable
  BY <1>1, <1>2 DEF BindsTwice, LoopShadows, AssignsToNoVariable
<1>6. Regular' = Regular
  <2>1. RenamesParameter' = RenamesParameter
    BY <1>1, KeysStay DEF RenamesParameter, IsCairoKernel
  <2> QED
    BY <2>1, <1>5 DEF Regular, LoopsRestore, CastsVariables
<1>7. Occurrences' = Occurrences
  BY <1>1 DEF Occurrences
<1>8. Bound' = Bound
  BY <1>1, <1>2, <1>7 DEF Bound
<1>9. LexicalUses' = LexicalUses
  BY <1>1, <1>2, <1>8 DEF LexicalUses
<1> QED
  BY <1>1, <1>4, <1>6, <1>7, <1>8, <1>9

(* A name is bound where it stands exactly if it means something there.    *)
LEMMA BoundIs ==
  ASSUME Data, NEW p \in Occurrences
  PROVE  /\ p \in Bound <=> Meanings[p][NameOf(Function.body, p)] # Null
         /\ p \in Bound => Innermost(Binders(p, Part(p).name)).slot = Meanings[p][NameOf(Function.body, p)]
         /\ Meanings[p][NameOf(Function.body, p)] # Null =>
              \E q \in Seq(Nat) : Meanings[p][NameOf(Function.body, p)] = <<fn, q>>
<1>1. p \in Places(Function.body) /\ Part(p).node = "variable" /\ Part(p).name = NameOf(Function.body, p)
  BY DEF Occurrences, Part, NameOf
<1>2. p \in Seq(Nat) /\ Shaped(Part(p))
  BY <1>1, FunctionHere, PlaceIs DEF Part
<1>3. Part(p) \in Trees
  BY <1>1, <1>2 DEF Shaped, IsBinding
<1>4. Part(p).name \in Names
  BY <1>1, <1>3, TreeIs DEF IsTree
<1>5. PICK x \in Names : x = Part(p).name
  BY <1>4
<1>6. Meanings[p][x] = Meaning(p, x)
  BY <1>2, FunctionHere
<1>7. /\ Meaning(p, x) = Null <=> Binders(p, x) = {}
      /\ Meaning(p, x) # Null => \E q \in Seq(Nat) : Meaning(p, x) = <<fn, q>>
  BY <1>2, FunctionHere, MeaningIs
<1>8. p \in Bound <=> Binders(p, x) # {}
  BY <1>5 DEF Bound
<1> QED
  BY <1>1, <1>5, <1>6, <1>7, <1>8 DEF Meaning

-----------------------------------------------------------------------------
(* A function begins: the table holds its parameters, or in a kernel of    *)
(* Cairo at most what earlier functions left.                              *)
Strolls == \E s \in Situations : \E r \in Situations : Walking(Meanings, Function.body, s, r)
Begins ==
  /\ Data /\ todo = Body(Function) /\ saved = <<>> /\ uses = {}
  /\ \A x \in Names : IF IsCairoKernel(Function) THEN table[x] = Null \/ table[x][1] # fn
                      ELSE table[x] = Parameters(Function, fn)[x]

LEMMA BeginWalks == Begins /\ ~RenamesParameter => Strolls
<1> SUFFICES ASSUME Begins, ~RenamesParameter PROVE Strolls
  OBVIOUS
<1>1. Data /\ todo = Body(Function) /\ saved = <<>> /\ uses = {}
  BY DEF Begins
<1>2. PICK M, body : M = Meanings /\ body = Function.body
  OBVIOUS
<1>3. /\ body \in Trees /\ Len(Function.params) \in Nat /\ Laws(M, body, fn, LoopScope)
      /\ \A p \in Seq(Nat) : \A x \in Names : M[p][x] = Meaning(p, x)
  BY <1>1, <1>2, FunctionHere
<1>4. <<>> \in Seq(Nat) /\ <<>> \in Seq(Owners) /\ Len(<<>>) = 0 /\ \A i \in 1 .. 0 : FALSE
  OBVIOUS
<1>5. M[<<>>] \in Scopes
  BY <1>3, <1>4 DEF Laws, ScopesAre
<1>6. PICK s \in Situations : s.own = <<>> /\ s.scope = M[<<>>]
  <2>1. PICK o \in Seq(Owners), m \in Scopes : o = <<>> /\ m = M[<<>>]
    BY <1>4, <1>5
  <2>2. [own |-> o, scope |-> m] \in Situations
    BY DEF Situations
  <2>3. [own |-> o, scope |-> m].own = o /\ [own |-> o, scope |-> m].scope = m
    OBVIOUS
  <2> QED
    BY <2>1, <2>2, <2>3
<1>7. PICK t : t = Task("gen", body, <<>>)
  OBVIOUS
<1>8. t.do = "gen" /\ t.path = <<>> /\ t.tree = body /\ t \in Jobs
  BY <1>3, <1>4, <1>7, TaskIsJob DEF Task
<1>9. Goes(M, body, s, t, s)
  BY <1>6, <1>8, RootIsPlace, SubtreeRoot DEF Goes
<1>10. todo = <<t>>
  BY <1>1, <1>2, <1>7 DEF Body
<1>11. Walks(M, body, todo, s, s)
  BY <1>8, <1>9, <1>10, WalkOne
<1>12. Stands(M, body, backend, fn, s, saved, table)
  <2>1. KeptAll(M, body, backend, fn, s.own, saved)
    BY <1>1, <1>4, <1>6 DEF KeptAll
  <2>2. ASSUME NEW x \in Names PROVE Agrees(backend, fn, M[<<>>][x], table[x])
    <3>1. M[<<>>][x] = IF IsCairoKernel(Function) THEN Null ELSE Parameters(Function, fn)[x]
      BY <1>3, <1>4, MeaningAtRoot
    <3> QED
      BY <3>1 DEF Begins, Agrees, IsCairoKernel
  <2> QED
    BY <2>1, <2>2, <1>6 DEF Stands, TableAgrees
<1>13. Used(M, body, backend, fn, uses)
  BY <1>1 DEF Used
<1>14. Covered(body, todo, uses)
  <2>1. ASSUME NEW p \in Occurs(body) PROVE Above(<<>>, p)
    <3>1. p \in Seq(Nat)
      BY <1>3, PlaceIs DEF Occurs
    <3>2. Len(p) \in Nat
      BY <3>1, LenProperties
    <3> QED
      BY <3>2, <1>4 DEF Above
  <2>2. Len(<<t>>) = 1 /\ <<t>>[1] = t /\ 1 \in 1 .. 1
    OBVIOUS
  <2> QED
    BY <2>1, <2>2, <1>8, <1>10 DEF Covered, Heads
<1> QED
  BY <1>2, <1>6, <1>11, <1>12, <1>13, <1>14 DEF Strolls, Walking

LEMMA InitBegins ==
  ASSUME Init
  PROVE  Begins
<1>1. Data
  BY InitRuns DEF CodegenInv
<1>2. /\ fn = 1 /\ todo = Body(Function) /\ saved = <<>> /\ uses = {}
      /\ table = IF IsCairoKernel(Function) THEN [x \in Names |-> Null] ELSE Parameters(Function, fn)
  BY DEF Init, Function
<1>3. \A x \in Names : IF IsCairoKernel(Function) THEN table[x] = Null \/ table[x][1] # fn
                       ELSE table[x] = Parameters(Function, fn)[x]
  BY <1>2
<1> QED
  BY <1>1, <1>2, <1>3 DEF Begins

LEMMA NextBegins ==
  ASSUME CodegenInv, NextFunction
  PROVE  Begins'
<1>1. Data'
  BY NextRuns DEF Runs
<1>2. /\ fn' = fn + 1 /\ Function' = program[fn + 1] /\ todo' = Body(program[fn + 1]) /\ saved' = <<>>
      /\ uses' = {} /\ table' = TableFor(program[fn + 1], fn + 1) /\ backend' = backend
  BY DEF NextFunction, Function
<1>3. fn \in Nat /\ table \in [Names -> Slots(fn)]
  BY DEF CodegenInv, Data
<1>4. IsCairoKernel(Function)' = IsCairoKernel(program[fn + 1])
  BY <1>2 DEF IsCairoKernel
<1>5. ASSUME NEW x \in Names, IsCairoKernel(program[fn + 1])
      PROVE  table'[x] = Null \/ table'[x][1] # fn'
  <2>1. table'[x] = table[x]
    BY <1>2, <1>5 DEF TableFor
  <2>2. table[x] \in Slots(fn)
    BY <1>3
  <2>3. table[x] = Null \/ table[x][1] \in 1 .. fn
    BY <2>2 DEF Slots
  <2> QED
    BY <2>1, <2>3, <1>2, <1>3
<1>6. ASSUME ~IsCairoKernel(program[fn + 1])
      PROVE  table' = Parameters(Function', fn')
  BY <1>2, <1>6 DEF TableFor
<1>7. \A x \in Names : (IF IsCairoKernel(Function) THEN table[x] = Null \/ table[x][1] # fn
                        ELSE table[x] = Parameters(Function, fn)[x])'
  <2> TAKE x \in Names
  <2>1. CASE IsCairoKernel(program[fn + 1])
    BY <2>1, <1>4, <1>5
  <2>2. CASE ~IsCairoKernel(program[fn + 1])
    <3>1. Parameters(Function, fn)[x]' = Parameters(Function', fn')[x]
      <4>1. \A f : Keys(f)' = Keys(f)
        BY <1>2, KeysStay
      <4>2. Keys(Function)' = Keys(Function')
        BY <4>1, <1>2 DEF Keys
      <4> QED
        BY <4>1, <4>2 DEF Parameters
    <3> QED
      BY <2>2, <3>1, <1>4, <1>6
  <2> QED
    BY <2>1, <2>2
<1> QED
  BY <1>1, <1>2, <1>7 DEF Begins

-----------------------------------------------------------------------------
(* A step of the walk.                                                     *)
LEMMA WalkStarts ==
  ASSUME Data, Strolls, todo # <<>>
  PROVE  \E M, body, s, q, r :
           M = Meanings /\ body = Function.body /\ Walked(M, body, s, q, r)
<1>1. PICK M, body : M = Meanings /\ body = Function.body
  OBVIOUS
<1>2. PICK s \in Situations, r \in Situations : Walking(M, body, s, r)
  BY <1>1 DEF Strolls
<1>3. todo \in Seq(Jobs)
  BY DEF Data
<1>4. PICK q \in Situations : Goes(M, body, s, todo[1], q) /\ Walks(M, body, Tail(todo), q, r)
  BY <1>2, <1>3, WalkFirst DEF Walking
<1>5. Stops(M, body, s, q)
  BY <1>1, <1>2, <1>4, FunctionHere DEF Stops, Walking
<1>6. Walked(M, body, s, q, r)
  BY <1>2, <1>4, <1>5 DEF Walked, Walking
<1> QED
  BY <1>1, <1>6

LEMMA StepWalks ==
  ASSUME Data, Regular, Strolls, status = "running", Next, ~EndFunction, ~NextFunction
  PROVE  /\ UNCHANGED <<backend, program, fn>> /\ status' \in {"running", "failed", "crashed"}
         /\ status' = "running" => Strolls'
         /\ status' = "failed" => Bound # Occurrences \/ AssignsToNoVariable
<1>1. /\ todo # <<>> /\ UNCHANGED <<backend, program, fn>>
      /\ status' \in {"running", "failed", "crashed"}
  BY DEF Next, Number, Variable, Assignment, Store, AssignmentToNoVariable, Operands, IfStarts,
         Branch, Else, Merge, ForStarts, EnterLoop, ExitLoop, VarStarts, Initialize, Bind, Restore,
         Generating, Doing, Access, Fail, Unscoped
<1>2. PICK M, body, s, q, r : M = Meanings /\ body = Function.body /\ Walked(M, body, s, q, r)
  BY <1>1, WalkStarts
<1>3. Distinct(body) /\ (backend = "Cairo" => NoShadow(M, body))
  BY <1>2, RegularIs
<1>4. ASSUME Strides(M, body) PROVE Strolls'
  <2>1. M = Meanings' /\ body = Function.body'
    BY <1>1, <1>2, ScopeStays
  <2>2. PICK o \in Situations, e \in Situations : Walking(M, body, o, e)'
    BY <1>4 DEF Strides
  <2> QED
    BY <2>1, <2>2 DEF Strolls
<1>5. CASE Number \/ Assignment \/ Operands \/ IfStarts \/ ForStarts \/ Initialize
  <2>1. Strides(M, body)
    <3>1. ASSUME Assignment, Misread(T.kids[1]) PROVE FALSE
      <4>1. T.node = "binary" /\ T.name = "=" /\ T.kids[1].node # "variable" /\ backend = "Athens"
        BY <3>1 DEF Assignment, IsAssignment, Misread
      <4>2. P \in Places(Function.body) /\ Part(P) = T
        BY <1>2, WalkedIs DEF Part
      <4> QED
        BY <4>1, <4>2 DEF Regular, CastsVariables, AssignsToNoVariable
    <3> QED
      BY <3>1, <1>2, <1>5, StraightWalks
  <2>2. status' = status
    BY <1>5 DEF Number, Assignment, Operands, IfStarts, ForStarts, Initialize
  <2> QED
    BY <2>1, <2>2, <1>1, <1>4
<1>6. CASE VarStarts
  <2>1. Strides(M, body)
    BY <1>2, <1>6, VarWalks
  <2>2. status' = status
    BY <1>6 DEF VarStarts
  <2> QED
    BY <2>1, <2>2, <1>1, <1>4
<1>7. CASE Branch \/ Else \/ Merge \/ EnterLoop \/ ExitLoop \/ Bind \/ Restore
  <2>1. Strides(M, body)
    BY <1>2, <1>3, <1>7, TurnWalks
  <2>2. status' = status
    BY <1>7 DEF Branch, Else, Merge, EnterLoop, ExitLoop, Bind, Restore
  <2> QED
    BY <2>1, <2>2, <1>1, <1>4
<1>8. CASE Variable \/ Store
  <2>1. \/ Strides(M, body)
        \/ Fail /\ P \in Occurs(body) /\ M[P][NameOf(body, P)] = Null
    BY <1>2, <1>8, AccessWalks
  <2>2. ASSUME Fail, P \in Occurs(body), M[P][NameOf(body, P)] = Null PROVE Bound # Occurrences
    <3>1. P \in Occurrences
      BY <2>2, <1>2, FunctionHere
    <3>2. P \notin Bound
      BY <2>2, <3>1, <1>2, BoundIs
    <3> QED
      BY <3>1, <3>2
  <2>3. status' = status \/ Fail
    BY <1>8 DEF Variable, Store, Access
  <2>4. ASSUME Fail PROVE status' = "failed"
    BY <2>4 DEF Fail
  <2>5. CASE Strides(M, body) /\ ~Fail
    BY <2>3, <2>5, <1>1, <1>4
  <2>6. CASE Strides(M, body) /\ Fail
    <3>1. /\ Access(T.name, P) /\ P \in Occurs(body) /\ T.name = NameOf(body, P)
          /\ Agrees(backend, fn, M[P][T.name], table[T.name])
      BY <1>2, <1>8, OccurrenceIs
    <3>2. table[T.name] = Null
      BY <3>1, <2>4, <2>6 DEF Access
    <3>3. M[P][T.name] = Null
      BY <3>1, <3>2 DEF Agrees
    <3> QED
      BY <3>1, <3>3, <2>2, <2>4, <2>6, <1>1
  <2> QED
    BY <2>1, <2>2, <2>4, <2>5, <2>6, <1>1
<1>9. CASE AssignmentToNoVariable
  <2>1. T.node = "binary" /\ T.name = "=" /\ T.kids[1].node # "variable" /\ status' # "running"
    BY <1>9 DEF AssignmentToNoVariable, IsAssignment, Fail
  <2>2. P \in Places(Function.body) /\ Part(P) = T
    BY <1>2, WalkedIs DEF Part
  <2>3. AssignsToNoVariable
    BY <2>1, <2>2 DEF AssignsToNoVariable
  <2> QED
    BY <2>1, <2>3, <1>1
<1> QED
  BY <1>5, <1>6, <1>7, <1>8, <1>9 DEF Next

(* At the end every occurrence of a name has been used.                    *)
LEMMA EndIsLexical ==
  ASSUME Data, Strolls, EndFunction
  PROVE  /\ UNCHANGED <<backend, program, fn, uses>> /\ status' \in {"done", "failed"}
         /\ status' = "done" => uses = LexicalUses /\ Bound = Occurrences
         /\ status' = "failed" => Bound # Occurrences
<1>1. /\ todo = <<>> /\ UNCHANGED <<backend, program, fn, uses>> /\ status' \in {"done", "failed"}
      /\ status' = IF backend = "Cairo" /\ \E u \in uses : u.slot[1] # fn THEN "failed" ELSE "done"
  BY DEF EndFunction
<1>2. PICK M, body : M = Meanings /\ body = Function.body
  OBVIOUS
<1>3. PICK s \in Situations, r \in Situations : Walking(M, body, s, r)
  BY <1>2 DEF Strolls
<1>4. /\ \A u \in uses : \E p \in Occurs(body) :
           /\ u = [path |-> p, slot |-> u.slot] /\ u.slot # Null
           /\ Agrees(backend, fn, M[p][NameOf(body, p)], u.slot)
      /\ Covered(body, <<>>, uses)
  BY <1>1, <1>3 DEF Walking, Used
<1>5. \A p \in Occurs(body) : \E u \in uses : u.path = p
  <2>1. Len(<<>>) = 0 /\ \A i \in 1 .. 0 : FALSE
    OBVIOUS
  <2> QED
    BY <2>1, <1>4 DEF Covered
<1>6. Occurrences = Occurs(body)
  BY <1>2, FunctionHere
<1>7. ASSUME NEW p \in Occurrences
      PROVE  /\ p \in Bound <=> M[p][NameOf(body, p)] # Null
             /\ p \in Bound => Innermost(Binders(p, Part(p).name)).slot = M[p][NameOf(body, p)]
             /\ M[p][NameOf(body, p)] # Null => \E t \in Seq(Nat) : M[p][NameOf(body, p)] = <<fn, t>>
  BY <1>2, BoundIs
<1>8. ASSUME status' = "done" PROVE uses = LexicalUses /\ Bound = Occurrences
  <2>1. \A u \in uses : backend = "Cairo" => u.slot[1] = fn
    BY <1>1, <1>8
  <2>2. ASSUME NEW u \in uses
        PROVE  u.path \in Bound /\ u = [path |-> u.path, slot |-> Innermost(Binders(u.path, Part(u.path).name)).slot]
    <3>1. PICK p \in Occurrences :
            /\ u = [path |-> p, slot |-> u.slot] /\ u.slot # Null
            /\ Agrees(backend, fn, M[p][NameOf(body, p)], u.slot)
      BY <1>4, <1>6
    <3>2. u.path = p
      BY <3>1
    <3>3. M[p][NameOf(body, p)] # Null /\ u.slot = M[p][NameOf(body, p)]
      BY <3>1, <2>1 DEF Agrees
    <3>4. p \in Bound /\ Innermost(Binders(p, Part(p).name)).slot = u.slot
      BY <3>3, <1>7
    <3> QED
      BY <3>1, <3>2, <3>4
  <2>3. ASSUME NEW p \in Occurrences
        PROVE  \E u \in uses : u.path = p
    BY <1>5, <1>6
  <2>4. Bound = Occurrences
    <3>1. Bound \subseteq Occurrences
      BY DEF Bound
    <3>2. Occurrences \subseteq Bound
      BY <2>2, <2>3
    <3> QED
      BY <3>1, <3>2
  <2>5. uses \subseteq LexicalUses
    BY <2>2 DEF LexicalUses
  <2>6. LexicalUses \subseteq uses
    <3>1. ASSUME NEW e \in LexicalUses PROVE e \in uses
      <4>1. PICK p \in Bound : e = [path |-> p, slot |-> Innermost(Binders(p, Part(p).name)).slot]
        BY DEF LexicalUses
      <4>2. PICK u \in uses : u.path = p
        BY <4>1, <2>3, <2>4
      <4>3. u = e
        BY <4>1, <4>2, <2>2
      <4> QED
        BY <4>3
    <3> QED
      BY <3>1
  <2> QED
    BY <2>4, <2>5, <2>6
<1>9. ASSUME status' = "failed" PROVE Bound # Occurrences
  <2>1. PICK u \in uses : u.slot[1] # fn
    BY <1>1, <1>9
  <2>2. PICK p \in Occurrences :
          u = [path |-> p, slot |-> u.slot] /\ Agrees(backend, fn, M[p][NameOf(body, p)], u.slot)
    BY <1>4, <1>6
  <2>3. M[p][NameOf(body, p)] = Null
    <3>1. ASSUME M[p][NameOf(body, p)] # Null PROVE FALSE
      <4>1. PICK t \in Seq(Nat) : M[p][NameOf(body, p)] = <<fn, t>>
        BY <3>1, <1>7
      <4>2. u.slot = <<fn, t>>
        BY <3>1, <4>1, <2>2 DEF Agrees
      <4>3. u.slot[1] = fn
        BY <4>2
      <4> QED
        BY <4>3, <2>1
    <3> QED
      BY <3>1
  <2>4. p \notin Bound
    BY <2>3, <1>7
  <2> QED
    BY <2>4
<1> QED
  BY <1>1, <1>8, <1>9

-----------------------------------------------------------------------------
(* The names of parameters.                                                *)
IsNaming(st) == st = [name |-> st.name, taken |-> st.taken, count |-> st.count]

LEMMA ArgumentNamed ==
  ASSUME NEW st, IsNaming(st), NEW x, x \notin st.taken, NEW slots \in BOOLEAN
  PROVE  /\ IsNaming(Argument(st, x, slots))
         /\ Argument(st, x, slots).name = x
         /\ \A y \in Argument(st, x, slots).taken :
              y \in st.taken \/ y = x \/ (slots /\ \E m : y = Numbered(x, m))
<1>1. PICK arg : arg = Named(st, x)
  OBVIOUS
<1>2. arg = [name |-> x, taken |-> st.taken \union {x}, count |-> st.count]
  BY <1>1 DEF Named, IsNaming
<1>3. CASE ~slots
  <2>1. Argument(st, x, slots) = arg
    BY <1>1, <1>3 DEF Argument
  <2> QED
    BY <2>1, <1>2 DEF IsNaming
<1>4. CASE slots
  <2>1. PICK slot : slot = Named(arg, x)
    OBVIOUS
  <2>2. \E m : slot = [name |-> Numbered(x, m), taken |-> arg.taken \union {Numbered(x, m)}, count |-> m]
    <3>1. x \in arg.taken
      BY <1>2
    <3> QED
      BY <3>1, <2>1 DEF Named
  <2>3. PICK m : slot = [name |-> Numbered(x, m), taken |-> arg.taken \union {Numbered(x, m)}, count |-> m]
    BY <2>2
  <2>4. Argument(st, x, slots) = [slot EXCEPT !.name = x]
    <3>1. arg.name = x
      BY <1>2
    <3> QED
      BY <3>1, <1>1, <1>4, <2>1 DEF Argument
  <2>5. Argument(st, x, slots) = [name |-> x, taken |-> arg.taken \union {Numbered(x, m)}, count |-> m]
    BY <2>3, <2>4
  <2> QED
    BY <2>5, <1>2, <1>4 DEF IsNaming
<1> QED
  BY <1>3, <1>4

Naming(u, ps, slots, m) ==
  u = [k \in 0 .. m |-> IF k = 0 THEN Unnamed(slots) ELSE Argument(u[k - 1], ps[k], slots)]

LEMMA NamingExists ==
  ASSUME NEW ps, NEW slots, NEW k \in Nat
  PROVE  \E u : Naming(u, ps, slots, k)
<1> DEFINE Bad == {m \in Nat : ~ \E u : Naming(u, ps, slots, m)}
<1>1. ASSUME Bad # {} PROVE FALSE
  <2>1. PICK m \in Bad : \A j \in Bad : m <= j
    BY <1>1, LeastExists
  <2>2. CASE m = 0
    <3>1. PICK u : u = [n \in 0 .. 0 |-> Unnamed(slots)]
      OBVIOUS
    <3>2. Naming(u, ps, slots, 0)
      BY <3>1 DEF Naming
    <3> QED
      BY <2>2, <3>2
  <2>3. CASE m # 0
    <3>1. PICK j \in Nat : m = j + 1
      <4>1. m - 1 \in Nat /\ m = (m - 1) + 1
        BY <2>3
      <4> QED
        BY <4>1
    <3>2. PICK u : Naming(u, ps, slots, j)
      <4>1. ~(m <= j)
        BY <3>1
      <4> QED
        BY <4>1, <2>1
    <3>3. PICK v : v = [n \in 0 .. m |-> IF n = m THEN Argument(u[j], ps[m], slots) ELSE u[n]]
      OBVIOUS
    <3>4. \A n \in 0 .. m : v[n] = IF n = 0 THEN Unnamed(slots) ELSE Argument(v[n - 1], ps[n], slots)
      <4> TAKE n \in 0 .. m
      <4>1. CASE n = m
        <5>1. j \in 0 .. m /\ j # m /\ n - 1 = j /\ n # 0
          BY <4>1, <3>1
        <5> QED
          BY <5>1, <4>1, <3>3
      <4>2. CASE n # m
        <5>1. n \in 0 .. j
          BY <4>2, <3>1
        <5>2. v[n] = u[n]
          BY <4>2, <3>3
        <5>3. u[n] = IF n = 0 THEN Unnamed(slots) ELSE Argument(u[n - 1], ps[n], slots)
          BY <5>1, <3>2 DEF Naming
        <5>4. n # 0 => n - 1 \in 0 .. m /\ n - 1 # m
          BY <5>1, <3>1
        <5>5. n # 0 => v[n - 1] = u[n - 1]
          BY <5>4, <3>3
        <5> QED
          BY <5>2, <5>3, <5>5
      <4> QED
        BY <4>1, <4>2
    <3>5. Naming(v, ps, slots, m)
      BY <3>3, <3>4 DEF Naming
    <3> QED
      BY <3>5, <2>1
  <2> QED
    BY <2>2, <2>3
<1> QED
  BY <1>1

(* No two parameters have one name and, where slots are named after them,  *)
(* none is called as the entry block or as a parameter and a number.       *)
Ordinary(ps, slots) ==
  /\ \A i, j \in 1 .. Len(ps) : ps[i] = ps[j] => i = j
  /\ slots => \A i, j \in 1 .. Len(ps) : /\ ps[i] # "entry"
                                         /\ \A m : ps[i] # Numbered(ps[j], m)

(* What is taken after k parameters: they, the entry block, their slots.   *)
TakenBy(y, ps, slots, k) ==
  \/ \E j \in 1 .. k : y = ps[j]
  \/ slots /\ (y = "entry" \/ \E j \in 1 .. k : \E m : y = Numbered(ps[j], m))

NamesKept(st, ps, slots, k) ==
  /\ IsNaming(st)
  /\ k # 0 => st.name = ps[k]
  /\ \A y \in st.taken : TakenBy(y, ps, slots, k)

LEMMA OrdinaryKept ==
  ASSUME NEW ps \in Seq(Names), NEW slots \in BOOLEAN, Ordinary(ps, slots),
         NEW n \in Nat, n = Len(ps), NEW u, Naming(u, ps, slots, n)
  PROVE  \A k \in 0 .. n : NamesKept(u[k], ps, slots, k)
<1> DEFINE Bad == {k \in Nat : k <= n /\ ~NamesKept(u[k], ps, slots, k)}
<1>1. \A k \in 0 .. n : u[k] = IF k = 0 THEN Unnamed(slots) ELSE Argument(u[k - 1], ps[k], slots)
  BY DEF Naming
<1>2. ASSUME Bad # {} PROVE FALSE
  <2>1. PICK k \in Bad : \A j \in Bad : k <= j
    BY <1>2, LeastExists
  <2>2. CASE k = 0
    <3>1. u[0] = Unnamed(slots)
      <4>1. 0 \in 0 .. n
        OBVIOUS
      <4> QED
        BY <4>1, <1>1
    <3>2. IsNaming(Unnamed(slots)) /\ \A y \in Unnamed(slots).taken : slots /\ y = "entry"
      <4>1. PICK taken : taken = IF slots THEN {"entry"} ELSE {}
        OBVIOUS
      <4>2. \E name : \E count : Unnamed(slots) = [name |-> name, taken |-> taken, count |-> count]
        BY <4>1 DEF Unnamed
      <4>3. \A y \in taken : slots /\ y = "entry"
        BY <4>1
      <4>4. PICK st : st = Unnamed(slots)
        OBVIOUS
      <4>5. PICK name : \E count : st = [name |-> name, taken |-> taken, count |-> count]
        BY <4>2, <4>4
      <4>6. PICK count : st = [name |-> name, taken |-> taken, count |-> count]
        BY <4>5
      <4>7. IsNaming(st) /\ st.taken = taken
        BY <4>6 DEF IsNaming
      <4> QED
        BY <4>3, <4>4, <4>7
    <3>3. NamesKept(u[0], ps, slots, 0)
      BY <3>1, <3>2 DEF NamesKept, TakenBy
    <3> QED
      BY <3>3, <2>1, <2>2
  <2>3. CASE k # 0
    <3>1. k \in 1 .. n /\ k - 1 \in Nat /\ k - 1 <= n /\ ~(k <= k - 1)
      BY <2>1, <2>3
    <3>2. PICK st : st = u[k - 1]
      OBVIOUS
    <3>3. PICK x : x = ps[k]
      OBVIOUS
    <3>4. NamesKept(st, ps, slots, k - 1)
      BY <3>1, <3>2, <2>1
    <3>5. x \notin st.taken
      <4> SUFFICES ASSUME x \in st.taken PROVE FALSE
        OBVIOUS
      <4>1. TakenBy(x, ps, slots, k - 1)
        BY <3>4 DEF NamesKept
      <4>2. \A j \in 1 .. k - 1 : j \in 1 .. Len(ps) /\ j # k
        BY <3>1
      <4>3. k \in 1 .. Len(ps)
        BY <3>1
      <4> QED
        BY <4>1, <4>2, <4>3, <3>3 DEF TakenBy, Ordinary
    <3>6. PICK arg : arg = Argument(st, x, slots)
      OBVIOUS
    <3>7. IsNaming(st)
      BY <3>4 DEF NamesKept
    <3>8. /\ IsNaming(arg) /\ arg.name = x
          /\ \A y \in arg.taken : y \in st.taken \/ y = x \/ (slots /\ \E m : y = Numbered(x, m))
      BY <3>5, <3>6, <3>7, ArgumentNamed
    <3>9. ASSUME NEW y \in arg.taken PROVE TakenBy(y, ps, slots, k)
      <4>1. k \in 1 .. k /\ \A j \in 1 .. k - 1 : j \in 1 .. k
        BY <3>1
      <4>2. CASE y \in st.taken
        <5>1. TakenBy(y, ps, slots, k - 1)
          BY <4>2, <3>4 DEF NamesKept
        <5> QED
          BY <5>1, <4>1 DEF TakenBy
      <4>3. CASE y = x
        BY <4>1, <4>3, <3>3 DEF TakenBy
      <4>4. CASE slots /\ \E m : y = Numbered(x, m)
        BY <4>1, <4>4, <3>3 DEF TakenBy
      <4> QED
        BY <4>2, <4>3, <4>4, <3>8
    <3>10. u[k] = arg
      BY <3>1, <3>2, <3>3, <3>6, <1>1, <2>3
    <3>11. NamesKept(u[k], ps, slots, k)
      BY <3>3, <3>8, <3>9, <3>10 DEF NamesKept
    <3> QED
      BY <3>11, <2>1
  <2> QED
    BY <2>2, <2>3
<1> QED
  BY <1>2

LEMMA OrdinaryNames ==
  ASSUME NEW ps \in Seq(Names), NEW slots \in BOOLEAN, Ordinary(ps, slots)
  PROVE  ArgNames(ps, slots) = ps
<1>1. PICK n \in Nat : n = Len(ps)
  BY LenProperties
<1> DEFINE upTo == CHOOSE u : Naming(u, ps, slots, Len(ps))
<1>2. ArgNames(ps, slots) = [k \in 1 .. Len(ps) |-> upTo[k].name]
  BY DEF ArgNames, Naming
<1>3. Naming(upTo, ps, slots, Len(ps))
  BY <1>1, NamingExists
<1> HIDE DEF upTo
<1>4. \A k \in 0 .. n : NamesKept(upTo[k], ps, slots, k)
  BY <1>1, <1>3, OrdinaryKept
<1>5. \A k \in 1 .. n : upTo[k].name = ps[k]
  <2> TAKE k \in 1 .. n
  <2>1. k \in 0 .. n /\ k # 0
    OBVIOUS
  <2> QED
    BY <2>1, <1>4 DEF NamesKept
<1>6. ps = [k \in 1 .. n |-> ps[k]]
  BY <1>1, LenProperties
<1> QED
  BY <1>1, <1>2, <1>5, <1>6

(* No back end renames a parameter of an ordinary function: names that are *)
(* not repeated, in Athens those of the declaration the module has, and in *)
(* Cairo none that the entry block or a slot takes first.  Of such         *)
(* functions the theorems below hold without that exception.               *)
THEOREM OrdinaryParametersKeepTheirNames ==
  ASSUME Function.params \in Seq(Names), backend \in Backends,
         backend = "Athens" => Function.declared = Function.params,
         Ordinary(Function.params, backend = "Cairo")
  PROVE  ~RenamesParameter
<1>1. PICK ps \in Seq(Names) : ps = Function.params
  OBVIOUS
<1>2. backend \in {"Athens", "Berlin", "Cairo"}
  BY CodegenAssumption
<1>3. CASE backend = "Athens"
  <2>1. Ordinary(ps, FALSE)
    BY <1>1, <1>3 DEF Ordinary
  <2>2. Keys(Function) = ArgNames(ps, FALSE)
    BY <1>1, <1>3 DEF Keys
  <2> QED
    BY <2>1, <2>2, <1>1, OrdinaryNames DEF RenamesParameter
<1>4. CASE backend = "Berlin"
  BY <1>4 DEF RenamesParameter, Keys
<1>5. CASE backend = "Cairo"
  <2>1. Ordinary(ps, TRUE)
    BY <1>1, <1>5 DEF Ordinary
  <2>2. Keys(Function) = ArgNames(ps, TRUE)
    BY <1>1, <1>5 DEF Keys
  <2> QED
    BY <2>1, <2>2, <1>1, OrdinaryNames DEF RenamesParameter
<1> QED
  BY <1>2, <1>3, <1>4, <1>5

-----------------------------------------------------------------------------
(* The invariant: as long as a function runs the walk goes on, and its end *)
(* is what the two properties say of it.                                   *)
ScopeInv ==
  /\ CodegenInv
  /\ status = "running" /\ Regular => Strolls
  /\ ScopesAreLexical /\ RejectsOnlyUnbound

LEMMA BeginsAnew == Begins' /\ ~RenamesParameter' => Strolls'
BY BeginWalks, PTL

LEMMA ScopeInit ==
  ASSUME Init
  PROVE  ScopeInv
<1>1. CodegenInv /\ (Regular => Strolls) /\ status = "running"
  BY InitRuns, InitBegins, BeginWalks DEF Init, Regular
<1> QED
  BY <1>1 DEF ScopeInv, ScopesAreLexical, RejectsOnlyUnbound

LEMMA ScopeKeeps ==
  ASSUME ScopeInv, [Next]_vars
  PROVE  ScopeInv'
<1>1. CodegenInv' /\ CodegenInv /\ Data
  BY NextKeeps DEF ScopeInv, CodegenInv
<1>2. CASE UNCHANGED vars
  <2>1. UNCHANGED <<backend, program, fn, todo, saved, table, uses, status>>
    BY <1>2 DEF vars
  <2>2. /\ Function' = Function /\ Meanings' = Meanings /\ Regular' = Regular
        /\ Occurrences' = Occurrences /\ Bound' = Bound /\ LexicalUses' = LexicalUses
    BY <2>1, ScopeStays
  <2>3. Strolls => Strolls'
    BY <2>1, <2>2 DEF Strolls, Walking
  <2>4. ScopesAreLexical => ScopesAreLexical'
    BY <2>1, <2>2 DEF ScopesAreLexical
  <2>5. RejectsOnlyUnbound => RejectsOnlyUnbound'
    BY <2>1, <2>2 DEF RejectsOnlyUnbound, AssignsToNoVariable, Part
  <2> QED
    BY <2>1, <2>2, <2>3, <2>4, <2>5, <1>1 DEF ScopeInv
<1>3. CASE NextFunction
  <2>1. Begins' /\ status' = "running"
    BY <1>1, <1>3, NextBegins DEF NextFunction
  <2>2. Regular' => Strolls'
    BY <2>1, BeginsAnew DEF Regular
  <2> QED
    BY <2>1, <2>2, <1>1 DEF ScopeInv, ScopesAreLexical, RejectsOnlyUnbound
<1>4. CASE EndFunction
  <2>1. status = "running" /\ UNCHANGED <<backend, program, fn, uses>> /\ status' \in {"done", "failed"}
    BY <1>4 DEF EndFunction
  <2>2. /\ Regular' = Regular /\ Occurrences' = Occurrences /\ Bound' = Bound
        /\ LexicalUses' = LexicalUses
    BY <2>1, ScopeStays
  <2>3. Regular => Strolls
    BY <2>1 DEF ScopeInv
  <2>4. Regular /\ status' = "done" => uses = LexicalUses /\ Bound = Occurrences
    BY <2>3, <1>1, <1>4, EndIsLexical
  <2>5. Regular /\ status' = "failed" => Bound # Occurrences
    BY <2>3, <1>1, <1>4, EndIsLexical
  <2> QED
    BY <2>1, <2>2, <2>4, <2>5, <1>1 DEF ScopeInv, ScopesAreLexical, RejectsOnlyUnbound
<1>5. CASE Next /\ ~EndFunction /\ ~NextFunction
  <2>1. status = "running" /\ UNCHANGED <<backend, program, fn>> /\ status' \in {"running", "failed", "crashed"}
    BY <1>5 DEF Next, Number, Variable, Assignment, Store, AssignmentToNoVariable, Operands, IfStarts,
         Branch, Else, Merge, ForStarts, EnterLoop, ExitLoop, VarStarts, Initialize, Bind, Restore,
         Generating, Doing, Access, Fail, Unscoped
  <2>2. /\ Function' = Function /\ Regular' = Regular /\ Occurrences' = Occurrences /\ Bound' = Bound
    BY <2>1, ScopeStays
  <2>3. ASSUME Regular
        PROVE  /\ status' = "running" => Strolls'
               /\ status' = "failed" => Bound # Occurrences \/ AssignsToNoVariable
    <3>1. Strolls
      BY <2>1, <2>3 DEF ScopeInv
    <3> QED
      BY <3>1, <2>1, <2>3, <1>1, <1>5, StepWalks
  <2>4. AssignsToNoVariable => AssignsToNoVariable'
    BY <2>2 DEF AssignsToNoVariable, Part
  <2>5. RejectsOnlyUnbound'
    BY <2>2, <2>3, <2>4 DEF RejectsOnlyUnbound
  <2> QED
    BY <2>1, <2>2, <2>3, <2>5, <1>1 DEF ScopeInv, ScopesAreLexical
<1> QED
  BY <1>2, <1>3, <1>4, <1>5

LEMMA ScopeInvHolds == Spec => []ScopeInv
<1>1. Init => ScopeInv
  BY ScopeInit
<1>2. ScopeInv /\ [Next]_vars => ScopeInv'
  BY ScopeKeeps
<1> QED
  BY <1>1, <1>2, PTL DEF Spec

(* VariableExprAST, handleAssignment, genVariable and genBinary: whatever  *)
(* the program, a complete function has loaded and stored, at every        *)
(* occurrence of a name, the innermost binding around it.  The exceptions  *)
(* are a var that binds a name twice, in Cairo a loop that shadows, in     *)
(* Athens an assignment to no variable, and a parameter whose name is not  *)
(* the source's (OrdinaryParametersKeepTheirNames).                        *)
THEOREM OccurrencesAreLexical == Spec => []ScopesAreLexical
<1>1. ScopeInv => ScopesAreLexical
  BY DEF ScopeInv
<1> QED
  BY <1>1, ScopeInvHolds, PTL

(* "Unknown variable name": a function is rejected only if one of its      *)
(* names has no binding where it stands, or if it assigns to no variable;  *)
(* the exceptions are those of OccurrencesAreLexical.                      *)
THEOREM OnlyUnboundIsRejected == Spec => []RejectsOnlyUnbound
<1>1. ScopeInv => RejectsOnlyUnbound
  BY DEF ScopeInv
<1> QED
  BY <1>1, ScopeInvHolds, PTL
=============================================================================
