---------------------- MODULE ExpressionCodegenProofs ----------------------
(***************************************************************************)
(* For every program and back end: the walk over a body cuts it into       *)
(* blocks that each get one terminator, and the phi nodes of its ifs and   *)
(* loops name exactly the blocks that branch to them.                      *)
(*                                                                         *)
(* The invariant relates the three things the recursive functions of the   *)
(* back ends keep apart: what is still to do, the local variables of the   *)
(* constructs that are running, and the blocks and edges made so far.      *)
(***************************************************************************)
EXTENDS ExpressionCodegen, Minima, SequenceTheorems, FiniteSetTheorems

(* What is to do, with what it needs.                                      *)
Parts == UNION {{t.kids[i] : i \in 1 .. Len(t.kids)} : t \in Trees}
Jobs ==
  {t \in [do : Tasks, tree : Trees \union Parts, path : Seq(Nat)] :
     /\ t.do = "gen" => t.tree \in Trees
     /\ t.do \in {"store", "enter", "exit", "initialize", "bind"} => t.tree.name \in Names
     /\ t.do = "initialize" => t.tree.kids[1] = Null \/ t.tree.kids[1] \in Trees}

(* The running constructs, as the frames of saved stand for them.          *)
Kinds == {"then", "else", "loop", "var"}
Stacks == Seq(Kinds)
Cut(s) == SubSeq(s, 1, Len(s) - 1)
EndsWith(s, k) == s # <<>> /\ s[Len(s)] = k

(* Which constructs run before and after a task.                           *)
Turns(s, do, r) ==
  \/ do \in {"gen", "store"} /\ r = s
  \/ do \in {"initialize", "bind"} /\ EndsWith(s, "var") /\ r = s
  \/ do = "branch" /\ r = Append(s, "then")
  \/ do = "else" /\ EndsWith(s, "then") /\ r = Append(Cut(s), "else")
  \/ do = "merge" /\ EndsWith(s, "else") /\ r = Cut(s)
  \/ do = "enter" /\ r = Append(s, "loop")
  \/ do = "exit" /\ EndsWith(s, "loop") /\ r = Cut(s)
  \/ do = "restore" /\ EndsWith(s, "var") /\ r = Cut(s)

(* A list of tasks leads from one stack of constructs to another.          *)
Leads(tasks, s, r) ==
  \E f \in [1 .. Len(tasks) + 1 -> Stacks] :
    /\ f[1] = s /\ f[Len(tasks) + 1] = r
    /\ \A i \in 1 .. Len(tasks) : Turns(f[i], tasks[i].do, f[i + 1])

-----------------------------------------------------------------------------
(* Sequences used as stacks.                                               *)
LEMMA CutIs ==
  ASSUME NEW S, NEW s \in Seq(S), s # <<>>
  PROVE  /\ Cut(s) \in Seq(S) /\ Len(s) \in Nat \ {0} /\ Len(Cut(s)) = Len(s) - 1
         /\ \A i \in 1 .. Len(s) - 1 : Cut(s)[i] = s[i]
<1>1. Len(s) \in Nat \ {0}
  BY EmptySeq
<1>2. PICK n \in Nat : n = Len(s) - 1
  BY <1>1
<1>3. \A i \in 1 .. n : s[i] \in S
  BY <1>1, <1>2
<1>4. /\ SubSeq(s, 1, n) \in Seq(S)
      /\ Len(SubSeq(s, 1, n)) = IF 1 <= n THEN n - 1 + 1 ELSE 0
      /\ \A i \in 1 .. n - 1 + 1 : SubSeq(s, 1, n)[i] = s[1 + i - 1]
  BY <1>3, SubSeqProperties
<1>5. n - 1 + 1 = n /\ (IF 1 <= n THEN n - 1 + 1 ELSE 0) = n /\ \A i \in 1 .. n : 1 + i - 1 = i
  OBVIOUS
<1>6. /\ SubSeq(s, 1, n) \in Seq(S) /\ Len(SubSeq(s, 1, n)) = n
      /\ \A i \in 1 .. n : SubSeq(s, 1, n)[i] = s[i]
  BY <1>4, <1>5
<1> QED
  BY <1>1, <1>2, <1>6 DEF Cut

LEMMA PushIs ==
  ASSUME NEW S, NEW s \in Seq(S), NEW e \in S
  PROVE  /\ Append(s, e) \in Seq(S) /\ Append(s, e) # <<>>
         /\ Len(s) \in Nat /\ Len(Append(s, e)) = Len(s) + 1
         /\ \A i \in 1 .. Len(s) : Append(s, e)[i] = s[i]
         /\ Append(s, e)[Len(s) + 1] = e
BY AppendProperties, LenProperties

LEMMA SwapIs ==
  ASSUME NEW S, NEW s \in Seq(S), s # <<>>, NEW e \in S
  PROVE  /\ Append(Cut(s), e) \in Seq(S) /\ Append(Cut(s), e) # <<>>
         /\ Len(s) \in Nat \ {0} /\ Len(Append(Cut(s), e)) = Len(s)
         /\ \A i \in 1 .. Len(s) - 1 : Append(Cut(s), e)[i] = s[i]
         /\ Append(Cut(s), e)[Len(s)] = e
<1>1. PICK n \in Nat : n + 1 = Len(s)
  <2>1. Len(s) \in Nat \ {0}
    BY EmptySeq
  <2>2. Len(s) - 1 \in Nat /\ (Len(s) - 1) + 1 = Len(s)
    BY <2>1
  <2> QED
    BY <2>2
<1>2. Cut(s) \in Seq(S) /\ Len(Cut(s)) = n /\ \A i \in 1 .. n : Cut(s)[i] = s[i]
  <2>1. Len(s) - 1 = n
    BY <1>1
  <2> QED
    BY <2>1, CutIs
<1>3. PICK c \in Seq(S) : c = Cut(s)
  BY <1>2
<1>4. /\ Append(c, e) \in Seq(S) /\ Append(c, e) # <<>> /\ Len(Append(c, e)) = n + 1
      /\ \A i \in 1 .. n : Append(c, e)[i] = s[i]
      /\ Append(c, e)[n + 1] = e
  BY <1>2, <1>3, PushIs
<1>5. Len(s) - 1 = n /\ Len(s) \in Nat \ {0}
  BY <1>1
<1> QED
  BY <1>1, <1>3, <1>4, <1>5

LEMMA CutPush ==
  ASSUME NEW S, NEW s \in Seq(S), NEW e \in S
  PROVE  Cut(Append(s, e)) = s
<1>1. PICK t \in Seq(S) : t = Append(s, e)
  BY PushIs
<1>2. t # <<>> /\ Len(t) = Len(s) + 1 /\ Len(s) \in Nat /\ \A i \in 1 .. Len(s) : t[i] = s[i]
  BY <1>1, PushIs
<1>3. Len(t) - 1 = Len(s)
  BY <1>2
<1>4. Cut(t) \in Seq(S) /\ Len(Cut(t)) = Len(s) /\ \A i \in 1 .. Len(s) : Cut(t)[i] = t[i]
  BY <1>2, <1>3, CutIs
<1>5. Cut(t) = s
  BY <1>2, <1>4, SeqEqual
<1> QED
  BY <1>1, <1>5

-----------------------------------------------------------------------------
(* Lists of tasks.                                                         *)
LEMMA LeadsNone ==
  ASSUME NEW s \in Stacks, NEW r \in Stacks
  PROVE  Leads(<<>>, s, r) <=> s = r
<1>1. ASSUME s = r PROVE Leads(<<>>, s, r)
  <2>1. PICK f : f = [i \in 1 .. 1 |-> s]
    OBVIOUS
  <2>2. f \in [1 .. 0 + 1 -> Stacks] /\ f[1] = s /\ f[0 + 1] = r /\ Len(<<>>) = 0
    BY <1>1, <2>1
  <2> QED
    BY <2>2 DEF Leads
<1>2. ASSUME Leads(<<>>, s, r) PROVE s = r
  BY <1>2 DEF Leads
<1> QED
  BY <1>1, <1>2

LEMMA LeadsOne ==
  ASSUME NEW S, NEW t \in S, NEW s \in Stacks, NEW r \in Stacks, Turns(s, t.do, r)
  PROVE  Leads(<<t>>, s, r)
<1>1. PICK f : f = [i \in 1 .. 2 |-> IF i = 1 THEN s ELSE r]
  OBVIOUS
<1>2. f \in [1 .. 1 + 1 -> Stacks] /\ f[1] = s /\ f[1 + 1] = r /\ Len(<<t>>) = 1 /\ <<t>>[1] = t
  BY <1>1
<1>3. \A i \in 1 .. 1 : Turns(f[i], <<t>>[i].do, f[i + 1])
  BY <1>2
<1> QED
  BY <1>2, <1>3 DEF Leads

LEMMA LeadsJoin ==
  ASSUME NEW S, NEW a \in Seq(S), NEW b \in Seq(S),
         NEW s \in Stacks, NEW q \in Stacks, NEW r \in Stacks,
         Leads(a, s, q), Leads(b, q, r)
  PROVE  Leads(a \o b, s, r)
<1>1. PICK m \in Nat : m = Len(a)
  BY LenProperties
<1>2. PICK n \in Nat : n = Len(b)
  BY LenProperties
<1>3. PICK c : c = a \o b
  OBVIOUS
<1>4. /\ Len(c) = m + n
      /\ \A i \in 1 .. m : c[i] = a[i]
      /\ \A i \in m + 1 .. m + n : c[i] = b[i - m]
  BY <1>1, <1>2, <1>3, ConcatProperties
<1>5. PICK f \in [1 .. m + 1 -> Stacks] :
        f[1] = s /\ f[m + 1] = q /\ \A i \in 1 .. m : Turns(f[i], a[i].do, f[i + 1])
  BY <1>1 DEF Leads
<1>6. PICK g \in [1 .. n + 1 -> Stacks] :
        g[1] = q /\ g[n + 1] = r /\ \A i \in 1 .. n : Turns(g[i], b[i].do, g[i + 1])
  BY <1>2 DEF Leads
<1>7. PICK h : h = [i \in 1 .. (m + n) + 1 |-> IF i <= m THEN f[i] ELSE g[i - m]]
  OBVIOUS
<1>8. h \in [1 .. (m + n) + 1 -> Stacks]
  <2>1. \A i \in 1 .. (m + n) + 1 : i <= m => i \in 1 .. m + 1
    OBVIOUS
  <2>2. \A i \in 1 .. (m + n) + 1 : ~(i <= m) => i - m \in 1 .. n + 1
    OBVIOUS
  <2> QED
    BY <1>7, <2>1, <2>2
<1>9. h[1] = s /\ h[(m + n) + 1] = r
  <2>1. CASE m = 0
    BY <2>1, <1>5, <1>6, <1>7
  <2>2. CASE m # 0
    <3>1. h[1] = f[1]
      BY <2>2, <1>7
    <3>2. h[(m + n) + 1] = g[n + 1]
      <4>1. ~((m + n) + 1 <= m) /\ ((m + n) + 1) - m = n + 1 /\ (m + n) + 1 \in 1 .. (m + n) + 1
        OBVIOUS
      <4> QED
        BY <4>1, <1>7
    <3> QED
      BY <3>1, <3>2, <1>5, <1>6
  <2> QED
    BY <2>1, <2>2
<1>10. ASSUME NEW i \in 1 .. m + n PROVE Turns(h[i], c[i].do, h[i + 1])
  <2>1. CASE i <= m
    <3>1. i \in 1 .. m /\ h[i] = f[i]
      BY <2>1, <1>7
    <3>2. h[i + 1] = f[i + 1]
      <4>1. CASE i + 1 <= m
        BY <4>1, <1>7
      <4>2. CASE ~(i + 1 <= m)
        <5>1. i + 1 = m + 1 /\ (i + 1) - m = 1 /\ i + 1 \in 1 .. (m + n) + 1
          BY <4>2, <2>1
        <5>2. h[i + 1] = g[1]
          BY <5>1, <4>2, <1>7
        <5> QED
          BY <5>1, <5>2, <1>5, <1>6
      <4> QED
        BY <4>1, <4>2
    <3> QED
      BY <3>1, <3>2, <1>4, <1>5
  <2>2. CASE ~(i <= m)
    <3>1. PICK j \in 1 .. n : j = i - m
      BY <2>2
    <3>2. h[i] = g[j] /\ h[i + 1] = g[j + 1]
      <4>1. ~(i + 1 <= m) /\ (i + 1) - m = j + 1 /\ i + 1 \in 1 .. (m + n) + 1 /\ i \in 1 .. (m + n) + 1
        BY <2>2, <3>1
      <4> QED
        BY <4>1, <2>2, <3>1, <1>7
    <3>3. c[i] = b[j]
      <4>1. i \in m + 1 .. m + n
        BY <2>2
      <4> QED
        BY <4>1, <3>1, <1>4
    <3> QED
      BY <3>1, <3>2, <3>3, <1>6
  <2> QED
    BY <2>1, <2>2
<1> QED
  <2>1. Leads(c, s, r)
    BY <1>4, <1>8, <1>9, <1>10 DEF Leads
  <2> QED
    BY <2>1, <1>3

LEMMA LeadsFirst ==
  ASSUME NEW S, NEW a \in Seq(S), a # <<>>, NEW s, NEW r \in Stacks, Leads(a, s, r)
  PROVE  \E q \in Stacks : Turns(s, a[1].do, q) /\ Leads(Tail(a), q, r)
<1>1. PICK n \in Nat : n + 1 = Len(a)
  <2>1. Len(a) \in Nat \ {0}
    BY EmptySeq
  <2>2. Len(a) - 1 \in Nat /\ (Len(a) - 1) + 1 = Len(a)
    BY <2>1
  <2> QED
    BY <2>2
<1>2. PICK c : c = Tail(a)
  OBVIOUS
<1>3. Len(c) = n /\ \A i \in 1 .. n : c[i] = a[i + 1]
  <2>1. (n + 1) - 1 = n
    OBVIOUS
  <2> QED
    BY <1>1, <1>2, <2>1, HeadTailProperties
<1>4. PICK f \in [1 .. (n + 1) + 1 -> Stacks] :
        f[1] = s /\ f[(n + 1) + 1] = r /\ \A i \in 1 .. n + 1 : Turns(f[i], a[i].do, f[i + 1])
  BY <1>1 DEF Leads
<1>5. PICK g : g = [i \in 1 .. n + 1 |-> f[i + 1]]
  OBVIOUS
<1>6. g \in [1 .. n + 1 -> Stacks] /\ g[1] = f[1 + 1] /\ g[n + 1] = r
  BY <1>4, <1>5
<1>7. \A i \in 1 .. n : Turns(g[i], c[i].do, g[i + 1])
  <2> TAKE i \in 1 .. n
  <2>1. i + 1 \in 1 .. n + 1 /\ i \in 1 .. n + 1
    OBVIOUS
  <2> QED
    BY <2>1, <1>3, <1>4, <1>5
<1>8. Leads(c, g[1], r)
  BY <1>3, <1>6, <1>7 DEF Leads
<1>9. 1 \in 1 .. n + 1 /\ g[1] \in Stacks
  BY <1>6
<1>10. Turns(s, a[1].do, g[1])
  BY <1>9, <1>6, <1>4
<1> QED
  BY <1>2, <1>8, <1>9, <1>10

LEMMA LeadsSame ==
  ASSUME NEW S, NEW a \in Seq(S), NEW s \in Stacks,
         \A i \in 1 .. Len(a) : Turns(s, a[i].do, s)
  PROVE  Leads(a, s, s)
<1>1. PICK n \in Nat : n = Len(a)
  BY LenProperties
<1>2. PICK f : f = [i \in 1 .. n + 1 |-> s]
  OBVIOUS
<1>3. f \in [1 .. n + 1 -> Stacks] /\ f[1] = s /\ f[n + 1] = s
  BY <1>2
<1>4. \A i \in 1 .. n : f[i] = s /\ f[i + 1] = s
  BY <1>2
<1>5. \A i \in 1 .. n : Turns(f[i], a[i].do, f[i + 1])
  BY <1>1, <1>4
<1> QED
  BY <1>1, <1>3, <1>5 DEF Leads

-----------------------------------------------------------------------------
(* The types of the data the walk uses.                                    *)
Slots(f) == {Null} \union ((1 .. f) \X Seq(Nat))
Frames(f) ==
  [first : Nat, last : Nat, old : Seq([name : Names, slot : Slots(f)])]

Data ==
  /\ backend \in Backends /\ program \in Programs /\ fn \in 1 .. Len(program)
  /\ todo \in Seq(Jobs)
  /\ saved \in Seq(Frames(fn))
  /\ table \in [Names -> Slots(fn)]
  /\ status \in {"running", "done", "failed", "crashed"}

LEMMA TaskIsJob ==
  /\ \A t \in Trees, p \in Seq(Nat) :
       /\ Task("gen", t, p) \in Jobs
       /\ \A do \in {"branch", "else", "merge", "restore"} : Task(do, t, p) \in Jobs
       /\ t.name \in Names => \A do \in {"store", "enter", "exit"} : Task(do, t, p) \in Jobs
  /\ \A t \in Trees \union Parts, p \in Seq(Nat) :
       t.name \in Names =>
         /\ Task("bind", t, p) \in Jobs
         /\ t.kids[1] = Null \/ t.kids[1] \in Trees => Task("initialize", t, p) \in Jobs
<1>1. ASSUME NEW t \in Trees, NEW p \in Seq(Nat),
             NEW do \in {"gen", "branch", "else", "merge", "restore"}
      PROVE  Task(do, t, p) \in Jobs
  BY DEF Task, Jobs, Tasks
<1>2. ASSUME NEW t \in Trees, NEW p \in Seq(Nat), t.name \in Names,
             NEW do \in {"store", "enter", "exit"}
      PROVE  Task(do, t, p) \in Jobs
  BY <1>2 DEF Task, Jobs, Tasks
<1>3. ASSUME NEW t \in Trees \union Parts, NEW p \in Seq(Nat), t.name \in Names
      PROVE  /\ Task("bind", t, p) \in Jobs
             /\ t.kids[1] = Null \/ t.kids[1] \in Trees => Task("initialize", t, p) \in Jobs
  BY <1>3 DEF Task, Jobs, Tasks
<1> QED
  BY <1>1, <1>2, <1>3

LEMMA JobIs ==
  ASSUME NEW t \in Jobs
  PROVE  /\ t.do \in Tasks /\ t.path \in Seq(Nat) /\ t.tree \in Trees \union Parts
         /\ \A i \in Nat : Append(t.path, i) \in Seq(Nat)
         /\ t.do = "gen" => t.tree \in Trees /\ IsTree(t.tree, Trees)
         /\ t.do \in {"store", "enter", "exit", "initialize", "bind"} => t.tree.name \in Names
         /\ t.do = "initialize" => t.tree.kids[1] = Null \/ t.tree.kids[1] \in Trees
<1>1. t.do \in Tasks /\ t.path \in Seq(Nat) /\ t.tree \in Trees \union Parts
  BY DEF Jobs
<1>2. \A i \in Nat : Append(t.path, i) \in Seq(Nat)
  BY <1>1, AppendProperties
<1>3. t.do = "gen" => t.tree \in Trees /\ IsTree(t.tree, Trees)
  BY TreesAssumption DEF Jobs
<1> QED
  BY <1>1, <1>2, <1>3 DEF Jobs

(* The first task, and what is left behind it.                             *)
LEMMA FirstJob ==
  ASSUME Data, todo # <<>>
  PROVE  todo[1] \in Jobs /\ Tail(todo) \in Seq(Jobs)
<1>1. todo \in Seq(Jobs) /\ Len(todo) \in Nat \ {0}
  BY EmptySeq DEF Data
<1> QED
  BY <1>1, HeadTailProperties, ElementOfSeq

-----------------------------------------------------------------------------
(* The task lists of the constructs: whatever runs around them runs again  *)
(* behind them.                                                            *)
LEMMA TurnsAround ==
  ASSUME NEW s \in Stacks
  PROVE  /\ \A k \in Kinds : Append(s, k) \in Stacks /\ EndsWith(Append(s, k), k)
         /\ Turns(s, "branch", Append(s, "then"))
         /\ Turns(Append(s, "then"), "else", Append(s, "else"))
         /\ Turns(Append(s, "else"), "merge", s)
         /\ Turns(s, "enter", Append(s, "loop"))
         /\ Turns(Append(s, "loop"), "exit", s)
         /\ Turns(Append(s, "var"), "restore", s)
<1>1. s \in Seq(Kinds)
  BY DEF Stacks
<1>2. ASSUME NEW k \in Kinds
      PROVE  Append(s, k) \in Stacks /\ EndsWith(Append(s, k), k) /\ Cut(Append(s, k)) = s
  BY <1>1, PushIs, CutPush DEF Stacks, EndsWith
<1>3. "then" \in Kinds /\ "else" \in Kinds /\ "loop" \in Kinds /\ "var" \in Kinds
  BY DEF Kinds
<1>4. /\ EndsWith(Append(s, "then"), "then") /\ Cut(Append(s, "then")) = s
      /\ EndsWith(Append(s, "else"), "else") /\ Cut(Append(s, "else")) = s
      /\ EndsWith(Append(s, "loop"), "loop") /\ Cut(Append(s, "loop")) = s
      /\ EndsWith(Append(s, "var"), "var") /\ Cut(Append(s, "var")) = s
  BY <1>2, <1>3
<1> QED
  BY <1>2, <1>4 DEF Turns

LEMMA OneJob ==
  ASSUME NEW t \in Jobs, NEW s \in Stacks, NEW r \in Stacks, Turns(s, t.do, r)
  PROVE  <<t>> \in Seq(Jobs) /\ Leads(<<t>>, s, r)
BY LeadsOne

LEMMA PlainJob ==
  ASSUME NEW t \in Jobs, NEW s \in Stacks, t.do \in {"gen", "store"}
  PROVE  <<t>> \in Seq(Jobs) /\ Leads(<<t>>, s, s)
BY OneJob DEF Turns

LEMMA JoinJobs ==
  ASSUME NEW a \in Seq(Jobs), NEW b \in Seq(Jobs),
         NEW s \in Stacks, NEW q \in Stacks, NEW r \in Stacks,
         Leads(a, s, q), Leads(b, q, r)
  PROVE  a \o b \in Seq(Jobs) /\ Leads(a \o b, s, r)
BY LeadsJoin, ConcatProperties

LEMMA IfTasks ==
  ASSUME NEW c \in Jobs, NEW b \in Jobs, NEW t \in Jobs, NEW l \in Jobs, NEW e \in Jobs,
         NEW m \in Jobs, NEW s \in Stacks,
         c.do = "gen", b.do = "branch", t.do = "gen", l.do = "else", e.do = "gen", m.do = "merge"
  PROVE  <<c, b, t, l, e, m>> \in Seq(Jobs) /\ Leads(<<c, b, t, l, e, m>>, s, s)
<1>1. PICK th \in Stacks, el \in Stacks :
        Turns(s, "branch", th) /\ Turns(th, "else", el) /\ Turns(el, "merge", s)
  BY TurnsAround DEF Kinds
<1>2. Turns(s, "gen", s) /\ Turns(th, "gen", th) /\ Turns(el, "gen", el)
  BY DEF Turns
<1>3. PICK q : q = <<c, b, t, l, e, m>>
  OBVIOUS
<1>4. /\ q \in Seq(Jobs) /\ Len(q) = 6 /\ q[1] = c /\ q[2] = b /\ q[3] = t
      /\ q[4] = l /\ q[5] = e /\ q[6] = m
  BY <1>3
<1>5. PICK f : f = [i \in 1 .. 7 |-> IF i \in {1, 2, 7} THEN s ELSE IF i \in {3, 4} THEN th ELSE el]
  OBVIOUS
<1>6. /\ f \in [1 .. 6 + 1 -> Stacks] /\ f[1] = s /\ f[2] = s /\ f[3] = th /\ f[4] = th
      /\ f[5] = el /\ f[6] = el /\ f[7] = s /\ f[6 + 1] = s
  BY <1>5
<1>7. /\ Turns(f[1], q[1].do, f[2]) /\ Turns(f[2], q[2].do, f[3]) /\ Turns(f[3], q[3].do, f[4])
      /\ Turns(f[4], q[4].do, f[5]) /\ Turns(f[5], q[5].do, f[6]) /\ Turns(f[6], q[6].do, f[7])
  BY <1>1, <1>2, <1>4, <1>6
<1>8. \A i \in 1 .. 6 : Turns(f[i], q[i].do, f[i + 1])
  <2> TAKE i \in 1 .. 6
  <2>1. i \in {1, 2, 3, 4, 5, 6}
    OBVIOUS
  <2>2. 1 + 1 = 2 /\ 2 + 1 = 3 /\ 3 + 1 = 4 /\ 4 + 1 = 5 /\ 5 + 1 = 6 /\ 6 + 1 = 7
    OBVIOUS
  <2> QED
    BY <2>1, <2>2, <1>7
<1>9. Leads(q, s, s)
  BY <1>4, <1>6, <1>8 DEF Leads
<1> QED
  BY <1>3, <1>4, <1>9

LEMMA TwoTasks ==
  ASSUME NEW a \in Jobs, NEW b \in Jobs,
         NEW s \in Stacks, NEW q \in Stacks, NEW r \in Stacks,
         Turns(s, a.do, q), Turns(q, b.do, r)
  PROVE  <<a, b>> \in Seq(Jobs) /\ Leads(<<a, b>>, s, r)
<1>1. PICK t : t = <<a, b>>
  OBVIOUS
<1>2. t \in Seq(Jobs) /\ Len(t) = 2 /\ t[1] = a /\ t[2] = b
  BY <1>1
<1>3. PICK f : f = [i \in 1 .. 3 |-> IF i = 1 THEN s ELSE IF i = 2 THEN q ELSE r]
  OBVIOUS
<1>4. f \in [1 .. 2 + 1 -> Stacks] /\ f[1] = s /\ f[2] = q /\ f[3] = r /\ f[2 + 1] = r
  BY <1>3
<1>5. \A i \in 1 .. 2 : Turns(f[i], t[i].do, f[i + 1])
  <2> TAKE i \in 1 .. 2
  <2>1. i \in {1, 2} /\ 1 + 1 = 2 /\ 2 + 1 = 3
    OBVIOUS
  <2> QED
    BY <2>1, <1>2, <1>4
<1>6. Leads(t, s, r)
  BY <1>2, <1>4, <1>5 DEF Leads
<1> QED
  BY <1>1, <1>2, <1>6

LEMMA ThreeTasks ==
  ASSUME NEW a \in Jobs, NEW b \in Jobs, NEW c \in Jobs,
         NEW s \in Stacks, NEW q \in Stacks, NEW u \in Stacks, NEW r \in Stacks,
         Turns(s, a.do, q), Turns(q, b.do, u), Turns(u, c.do, r)
  PROVE  <<a, b, c>> \in Seq(Jobs) /\ Leads(<<a, b, c>>, s, r)
<1>1. PICK t : t = <<a, b, c>>
  OBVIOUS
<1>2. t \in Seq(Jobs) /\ Len(t) = 3 /\ t[1] = a /\ t[2] = b /\ t[3] = c
  BY <1>1
<1>3. PICK f : f = [i \in 1 .. 4 |-> IF i = 1 THEN s ELSE IF i = 2 THEN q ELSE IF i = 3 THEN u ELSE r]
  OBVIOUS
<1>4. /\ f \in [1 .. 3 + 1 -> Stacks] /\ f[1] = s /\ f[2] = q /\ f[3] = u /\ f[4] = r
      /\ f[3 + 1] = r
  BY <1>3
<1>5. \A i \in 1 .. 3 : Turns(f[i], t[i].do, f[i + 1])
  <2> TAKE i \in 1 .. 3
  <2>1. i \in {1, 2, 3} /\ 1 + 1 = 2 /\ 2 + 1 = 3 /\ 3 + 1 = 4
    OBVIOUS
  <2> QED
    BY <2>1, <1>2, <1>4
<1>6. Leads(t, s, r)
  BY <1>2, <1>4, <1>5 DEF Leads
<1> QED
  BY <1>1, <1>2, <1>6

(* step is no task or one.                                                 *)
LEMMA ForTasks ==
  ASSUME NEW a \in Jobs, NEW d \in Jobs, NEW b \in Jobs, NEW n \in Jobs, NEW x \in Jobs,
         NEW step \in Seq(Jobs), NEW s \in Stacks,
         a.do = "gen", d.do = "gen", b.do = "gen", n.do = "enter", x.do = "exit",
         \A r \in Stacks : Leads(step, r, r)
  PROVE  /\ <<a, n, b>> \o step \o <<d, x>> \in Seq(Jobs)
         /\ Leads(<<a, n, b>> \o step \o <<d, x>>, s, s)
         /\ <<a, d>> \o step \o <<n, b, x>> \in Seq(Jobs)
         /\ Leads(<<a, d>> \o step \o <<n, b, x>>, s, s)
<1>1. PICK lp \in Stacks : Turns(s, "enter", lp) /\ Turns(lp, "exit", s)
  BY TurnsAround DEF Kinds
<1>2. /\ Turns(s, a.do, s) /\ Turns(s, d.do, s) /\ Turns(lp, b.do, lp) /\ Turns(lp, d.do, lp)
      /\ Turns(s, n.do, lp) /\ Turns(lp, x.do, s)
  BY <1>1 DEF Turns
<1>3. PICK p, q, u, v : p = <<a, n, b>> /\ q = <<d, x>> /\ u = <<a, d>> /\ v = <<n, b, x>>
  OBVIOUS
<1>4. /\ p \in Seq(Jobs) /\ Leads(p, s, lp) /\ q \in Seq(Jobs) /\ Leads(q, lp, s)
       /\ u \in Seq(Jobs) /\ Leads(u, s, s) /\ v \in Seq(Jobs) /\ Leads(v, s, s)
  BY <1>2, <1>3, TwoTasks, ThreeTasks
<1>5. p \o step \in Seq(Jobs) /\ Leads(p \o step, s, lp)
  BY <1>4, JoinJobs
<1>6. (p \o step) \o q \in Seq(Jobs) /\ Leads((p \o step) \o q, s, s)
  BY <1>4, <1>5, JoinJobs
<1>7. u \o step \in Seq(Jobs) /\ Leads(u \o step, s, s)
  BY <1>4, JoinJobs
<1>8. (u \o step) \o v \in Seq(Jobs) /\ Leads((u \o step) \o v, s, s)
  BY <1>4, <1>7, JoinJobs
<1> QED
  BY <1>3, <1>6, <1>8

-----------------------------------------------------------------------------
(* The tasks an action puts in front of what is to do.                     *)
Puts(s, r) == \E tasks \in Seq(Jobs) : todo' = tasks \o Tail(todo) /\ Leads(tasks, s, r)

LEMMA PutsNothing ==
  ASSUME NEW K \in Stacks, Continue(<<>>)
  PROVE  Puts(K, K)
<1>1. <<>> \in Seq(Jobs) /\ Leads(<<>>, K, K)
  BY LeadsNone
<1> QED
  BY <1>1 DEF Continue, Puts

LEMMA GenIs ==
  ASSUME Data, Doing("gen")
  PROVE  /\ T \in Trees /\ IsTree(T, Trees) /\ P \in Seq(Nat)
         /\ \A i \in Nat : T.kids[i] \in Trees => Kid(i) \in Jobs /\ Kid(i).do = "gen"
<1>1. todo[1] \in Jobs /\ todo[1].do = "gen"
  BY FirstJob DEF Doing
<1>2. T \in Trees /\ IsTree(T, Trees) /\ P \in Seq(Nat) /\ \A i \in Nat : Append(P, i) \in Seq(Nat)
  BY <1>1, JobIs DEF T, P
<1>3. ASSUME NEW i \in Nat, T.kids[i] \in Trees
      PROVE  Kid(i) \in Jobs /\ Kid(i).do = "gen"
  BY <1>2, <1>3, TaskIsJob DEF Kid, Task
<1> QED
  BY <1>2, <1>3

LEMMA AssignmentPuts ==
  ASSUME Data, Assignment, NEW K \in Stacks
  PROVE  Puts(K, K)
<1>1. /\ Doing("gen") /\ T.node = "binary"
      /\ T.kids[1].node = "variable" \/ T.kids[1].name \in Names
      /\ Continue(<<Kid(2), Task("store", T.kids[1], Append(P, 1))>>)
  BY DEF Assignment, IsAssignment, Misread
<1>2. T.kids \in Seq(Trees) /\ Len(T.kids) = 2 /\ P \in Seq(Nat)
  BY <1>1, GenIs DEF IsTree
<1>3. T.kids[1] \in Trees /\ T.kids[2] \in Trees
  BY <1>2, ElementOfSeq
<1>4. Kid(2) \in Jobs /\ Kid(2).do = "gen"
  BY <1>1, <1>3, GenIs
<1>5. T.kids[1].name \in Names
  BY <1>1, <1>3, TreesAssumption DEF IsTree
<1>6. Append(P, 1) \in Seq(Nat)
  BY <1>2, AppendProperties
<1>7. /\ Task("store", T.kids[1], Append(P, 1)) \in Jobs
      /\ Task("store", T.kids[1], Append(P, 1)).do = "store"
  BY <1>3, <1>5, <1>6, TaskIsJob DEF Task
<1>8. PICK a \in Jobs, b \in Jobs :
        a = Kid(2) /\ b = Task("store", T.kids[1], Append(P, 1)) /\ a.do = "gen" /\ b.do = "store"
  BY <1>4, <1>7
<1>9. Turns(K, a.do, K) /\ Turns(K, b.do, K)
  BY <1>8 DEF Turns
<1>10. <<a, b>> \in Seq(Jobs) /\ Leads(<<a, b>>, K, K)
  BY <1>9, TwoTasks
<1> QED
  BY <1>1, <1>8, <1>10 DEF Puts, Continue

LEMMA OperandsPut ==
  ASSUME Data, Operands, NEW K \in Stacks
  PROVE  Puts(K, K)
<1>1. Doing("gen") /\ T.kids \in Seq(Trees)
  BY GenIs DEF Operands, IsTree
<1>2. PICK n \in Nat : n = Len(T.kids)
  BY <1>1, LenProperties
<1>3. \A i \in 1 .. n : T.kids[i] \in Trees
  BY <1>1, <1>2, ElementOfSeq
<1>4. \A i \in 1 .. n : Kid(i) \in Jobs /\ Kid(i).do = "gen"
  BY <1>1, <1>3, GenIs
<1>5. PICK tasks : tasks = [i \in 1 .. n |-> Kid(i)]
  OBVIOUS
<1>6. tasks \in Seq(Jobs) /\ Len(tasks) = n /\ \A i \in 1 .. n : tasks[i].do = "gen"
  <2>1. tasks \in [1 .. n -> Jobs] /\ \A i \in 1 .. n : tasks[i] = Kid(i)
    BY <1>4, <1>5
  <2> QED
    BY <2>1, <1>4, SeqDef, LenProperties
<1>7. Leads(tasks, K, K)
  BY <1>6, LeadsSame DEF Turns
<1>8. todo' = tasks \o Tail(todo)
  BY <1>2, <1>5 DEF Operands, Continue
<1> QED
  BY <1>6, <1>7, <1>8 DEF Puts

LEMMA IfPuts ==
  ASSUME Data, IfStarts, NEW K \in Stacks
  PROVE  Puts(K, K)
<1>1. Doing("gen") /\ T \in Trees /\ P \in Seq(Nat) /\ T.kids \in Seq(Trees) /\ Len(T.kids) = 3
  BY GenIs DEF IfStarts, Generating, IsTree
<1>2. T.kids[1] \in Trees /\ T.kids[2] \in Trees /\ T.kids[3] \in Trees
  BY <1>1, ElementOfSeq
<1>3. /\ Kid(1) \in Jobs /\ Kid(2) \in Jobs /\ Kid(3) \in Jobs
      /\ Kid(1).do = "gen" /\ Kid(2).do = "gen" /\ Kid(3).do = "gen"
  BY <1>1, <1>2, GenIs
<1>4. /\ Task("branch", T, P) \in Jobs /\ Task("else", T, P) \in Jobs /\ Task("merge", T, P) \in Jobs
      /\ Task("branch", T, P).do = "branch" /\ Task("else", T, P).do = "else"
      /\ Task("merge", T, P).do = "merge"
  BY <1>1, TaskIsJob DEF Task
<1>5. PICK tasks : tasks = <<Kid(1), Task("branch", T, P), Kid(2), Task("else", T, P), Kid(3),
                             Task("merge", T, P)>>
  OBVIOUS
<1>6. tasks \in Seq(Jobs) /\ Leads(tasks, K, K)
  BY <1>3, <1>4, <1>5, IfTasks
<1>7. todo' = tasks \o Tail(todo)
  BY <1>5 DEF IfStarts, Continue
<1> QED
  BY <1>6, <1>7 DEF Puts

LEMMA ForPuts ==
  ASSUME Data, ForStarts, NEW K \in Stacks
  PROVE  Puts(K, K)
<1>1. /\ Doing("gen") /\ T \in Trees /\ P \in Seq(Nat) /\ T.name \in Names
      /\ T.kids[1] \in Trees /\ T.kids[2] \in Trees /\ T.kids[4] \in Trees
      /\ T.kids[3] # Null => T.kids[3] \in Trees
  BY GenIs DEF ForStarts, Generating, IsTree
<1>2. /\ Kid(1) \in Jobs /\ Kid(2) \in Jobs /\ Kid(4) \in Jobs
      /\ Kid(1).do = "gen" /\ Kid(2).do = "gen" /\ Kid(4).do = "gen"
      /\ T.kids[3] # Null => Kid(3) \in Jobs /\ Kid(3).do = "gen"
  BY <1>1, GenIs
<1>3. /\ Task("enter", T, P) \in Jobs /\ Task("exit", T, P) \in Jobs
      /\ Task("enter", T, P).do = "enter" /\ Task("exit", T, P).do = "exit"
  BY <1>1, TaskIsJob DEF Task
<1>4. PICK step : step = Step
  OBVIOUS
<1>5. step \in Seq(Jobs) /\ \A r \in Stacks : Leads(step, r, r)
  <2>1. CASE T.kids[3] = Null
    <3>1. step = <<>>
      BY <2>1, <1>4 DEF Step
    <3> QED
      BY <3>1, LeadsNone
  <2>2. CASE T.kids[3] # Null
    <3>1. step = <<Kid(3)>>
      BY <2>2, <1>4 DEF Step
    <3>2. PICK k \in Jobs : k = Kid(3) /\ k.do = "gen"
      BY <2>2, <1>2
    <3> QED
      BY <3>1, <3>2, PlainJob
  <2> QED
    BY <2>1, <2>2
<1>6. PICK a \in Jobs, d \in Jobs, b \in Jobs, n \in Jobs, x \in Jobs :
        /\ a = Kid(1) /\ d = Kid(2) /\ b = Kid(4) /\ n = Task("enter", T, P) /\ x = Task("exit", T, P)
        /\ a.do = "gen" /\ d.do = "gen" /\ b.do = "gen" /\ n.do = "enter" /\ x.do = "exit"
  BY <1>2, <1>3
<1>7. /\ <<a, n, b>> \o step \o <<d, x>> \in Seq(Jobs)
      /\ Leads(<<a, n, b>> \o step \o <<d, x>>, K, K)
      /\ <<a, d>> \o step \o <<n, b, x>> \in Seq(Jobs)
      /\ Leads(<<a, d>> \o step \o <<n, b, x>>, K, K)
  BY <1>5, <1>6, ForTasks
<1>8. \/ todo' = (<<a, n, b>> \o step \o <<d, x>>) \o Tail(todo)
      \/ todo' = (<<a, d>> \o step \o <<n, b, x>>) \o Tail(todo)
  BY <1>4, <1>6 DEF ForStarts, Continue
<1> QED
  BY <1>7, <1>8 DEF Puts

LEMMA InitializePuts ==
  ASSUME Data, Initialize, NEW K \in Stacks, EndsWith(K, "var")
  PROVE  Puts(K, K)
<1>1. /\ todo[1] \in Jobs /\ todo[1].do = "initialize" /\ T.name \in Names
      /\ T \in Trees \union Parts /\ P \in Seq(Nat)
      /\ \A i \in Nat : Append(P, i) \in Seq(Nat)
      /\ T.kids[1] = Null \/ T.kids[1] \in Trees
  BY FirstJob, JobIs DEF Initialize, Doing, T, P
<1>2. Task("bind", T, P) \in Jobs /\ Task("bind", T, P).do = "bind"
  BY <1>1, TaskIsJob DEF Task
<1>3. PICK b \in Jobs : b = Task("bind", T, P) /\ b.do = "bind"
  BY <1>2
<1>4. <<b>> \in Seq(Jobs) /\ Leads(<<b>>, K, K)
  BY <1>3, OneJob DEF Turns
<1>5. CASE T.kids[1] = Null
  <2>1. todo' = (<<>> \o <<b>>) \o Tail(todo) /\ <<>> \in Seq(Jobs) /\ Leads(<<>>, K, K)
    BY <1>3, <1>5, LeadsNone DEF Initialize, Continue
  <2>2. <<>> \o <<b>> \in Seq(Jobs) /\ Leads(<<>> \o <<b>>, K, K)
    BY <1>4, <2>1, JoinJobs
  <2> QED
    BY <2>1, <2>2 DEF Puts
<1>6. CASE T.kids[1] # Null
  <2>1. Kid(1) \in Jobs /\ Kid(1).do = "gen"
    BY <1>1, <1>6, TaskIsJob DEF Kid, Task
  <2>2. PICK k \in Jobs : k = Kid(1) /\ k.do = "gen"
    BY <2>1
  <2>3. todo' = (<<k>> \o <<b>>) \o Tail(todo)
    BY <1>3, <1>6, <2>2 DEF Initialize, Continue
  <2>4. <<k>> \o <<b>> \in Seq(Jobs) /\ Leads(<<k>> \o <<b>>, K, K)
    BY <1>4, <2>2, PlainJob, JoinJobs
  <2> QED
    BY <2>3, <2>4 DEF Puts
<1> QED
  BY <1>5, <1>6

LEMMA VarPuts ==
  ASSUME Data, VarStarts, NEW K \in Stacks
  PROVE  Append(K, "var") \in Stacks /\ Puts(Append(K, "var"), K)
<1>1. /\ Doing("gen") /\ T \in Trees /\ P \in Seq(Nat) /\ Len(T.kids) \in Nat \ {0}
      /\ T.kids[Len(T.kids)] \in Trees
      /\ \A i \in 1 .. Len(T.kids) - 1 :
           T.kids[i].name \in Names /\ (T.kids[i].kids[1] = Null \/ T.kids[i].kids[1] \in Trees)
  BY GenIs DEF VarStarts, Generating, IsTree
<1>2. PICK n \in Nat : n = Len(T.kids) - 1 /\ n + 1 = Len(T.kids)
  BY <1>1
<1>3. PICK q \in Stacks : q = Append(K, "var") /\ EndsWith(q, "var") /\ Turns(q, "restore", K)
  BY TurnsAround DEF Kinds
<1>4. \A i \in 1 .. n : T.kids[i] \in Parts
  <2>1. \A i \in 1 .. n : i \in 1 .. Len(T.kids)
    BY <1>2
  <2> QED
    BY <1>1, <2>1 DEF Parts
<1>5. ASSUME NEW i \in 1 .. n
      PROVE  /\ Task("initialize", T.kids[i], Append(P, i)) \in Jobs
             /\ Task("initialize", T.kids[i], Append(P, i)).do = "initialize"
  <2>1. T.kids[i].name \in Names /\ (T.kids[i].kids[1] = Null \/ T.kids[i].kids[1] \in Trees)
    BY <1>1, <1>2
  <2>2. Append(P, i) \in Seq(Nat)
    BY <1>1, AppendProperties
  <2> QED
    BY <1>4, <2>1, <2>2, TaskIsJob DEF Task
<1>6. PICK first : first = [i \in 1 .. n |-> Task("initialize", T.kids[i], Append(P, i))]
  OBVIOUS
<1>7. first \in Seq(Jobs) /\ Len(first) = n /\ \A i \in 1 .. n : first[i].do = "initialize"
  <2>1. /\ first \in [1 .. n -> Jobs]
        /\ \A i \in 1 .. n : first[i] = Task("initialize", T.kids[i], Append(P, i))
    BY <1>5, <1>6
  <2> QED
    BY <2>1, <1>5, SeqDef, LenProperties
<1>8. Leads(first, q, q)
  BY <1>3, <1>7, LeadsSame DEF Turns
<1>9. Kid(n + 1) \in Jobs /\ Kid(n + 1).do = "gen"
  BY <1>1, <1>2, GenIs
<1>10. Task("restore", T, P) \in Jobs /\ Task("restore", T, P).do = "restore"
  BY <1>1, TaskIsJob DEF Task
<1>11. PICK k \in Jobs, r \in Jobs :
         k = Kid(n + 1) /\ r = Task("restore", T, P) /\ k.do = "gen" /\ r.do = "restore"
  BY <1>9, <1>10
<1>12. <<k, r>> \in Seq(Jobs) /\ Leads(<<k, r>>, q, K)
  <2>1. Turns(q, k.do, q) /\ Turns(q, r.do, K)
    BY <1>3, <1>11 DEF Turns
  <2> QED
    BY <2>1, TwoTasks
<1>13. first \o <<k, r>> \in Seq(Jobs) /\ Leads(first \o <<k, r>>, q, K)
  BY <1>7, <1>8, <1>12, JoinJobs
<1>14. todo' = (first \o <<k, r>>) \o Tail(todo)
  <2>1. Len(T.kids) - 1 = n
    BY <1>2
  <2> QED
    BY <2>1, <1>6, <1>11 DEF VarStarts, Continue
<1> QED
  BY <1>3, <1>13, <1>14 DEF Puts

LEMMA GoesOn ==
  ASSUME Data, todo # <<>>, NEW q \in Stacks, NEW r \in Stacks,
         Puts(q, r), Leads(Tail(todo), r, <<>>)
  PROVE  todo' \in Seq(Jobs) /\ Leads(todo', q, <<>>)
<1>1. Tail(todo) \in Seq(Jobs) /\ <<>> \in Stacks
  BY FirstJob DEF Stacks
<1>2. PICK tasks \in Seq(Jobs) : todo' = tasks \o Tail(todo) /\ Leads(tasks, q, r)
  BY DEF Puts
<1> QED
  BY <1>1, <1>2, JoinJobs

-----------------------------------------------------------------------------
(* Which block a frame waits for the code to come to, which ones nothing   *)
(* but the frame's construct may branch to, and the one that may get a     *)
(* phi.                                                                    *)
Awaits(b, k, s, n) ==
  \/ k = "then" /\ n = s.first + 1
  \/ k \in {"then", "else"} /\ n = IF b = "Berlin" THEN s.last ELSE s.first + 2
  \/ k = "loop" /\ b = "Berlin" /\ n = s.last
Owns(b, k, s, n) == Awaits(b, k, s, n) \/ (k = "loop" /\ b # "Berlin" /\ n = s.first)
Target(k, s) == IF k = "loop" THEN s.first ELSE s.first + 2

Incoming(k, s) == IF k = "then" THEN {} ELSE {s.last}

(* m frames as values, and the same frames in two lists.                   *)
Spans(m, K, fs) == \A i \in 1 .. m : K[i] \in Kinds /\ fs[i].first \in Nat /\ fs[i].last \in Nat
Same(m, K, fs, K2, fs2) == \A i \in 1 .. m : K2[i] = K[i] /\ fs2[i] = fs[i]

Flows == [block : Nat, made : Nat, ended : SUBSET Nat]
Blocks(fl) == fl \in Flows /\ fl.block \in 1 .. fl.made /\ fl.ended \subseteq 1 .. fl.made

(* The blocks without terminator are the one code is added to and those    *)
(* the m running constructs wait for, each for its own.                    *)
Layout(b, m, K, fs, fl) ==
  /\ \A i \in 1 .. m, n \in Nat : Owns(b, K[i], fs[i], n) => n \in 1 .. fl.made
  /\ \A i, j \in 1 .. m, n \in Nat : Owns(b, K[i], fs[i], n) /\ Owns(b, K[j], fs[j], n) => i = j
  /\ \A n \in 1 .. fl.made :
       n \notin fl.ended <=> n = fl.block \/ \E i \in 1 .. m : Awaits(b, K[i], fs[i], n)
  /\ \A i \in 1 .. m : ~Awaits(b, K[i], fs[i], fl.block)

LEMMA OpenLayout ==
  ASSUME NEW b, NEW m \in Nat, NEW K, NEW fs, NEW fl, NEW K2, NEW fs2, NEW fl2,
         Blocks(fl), Blocks(fl2), Layout(b, m, K, fs, fl),
         Same(m, K, fs, K2, fs2),
         fl.made <= fl2.made, fl2.block \notin 1 .. fl.made \/ fl2.block = fl.block,
         \A n \in Nat : Owns(b, K2[m + 1], fs2[m + 1], n) =>
           /\ n \in 1 .. fl2.made
           /\ n \notin 1 .. fl.made \/ (b = "Berlin" /\ n = fl.block),
         ~Awaits(b, K2[m + 1], fs2[m + 1], fl2.block),
         \A n \in 1 .. fl2.made : n \notin fl2.ended <=>
           \/ n \in 1 .. fl.made /\ n \notin fl.ended /\ n # fl.block
           \/ n = fl2.block \/ Awaits(b, K2[m + 1], fs2[m + 1], n)
  PROVE  Layout(b, m + 1, K2, fs2, fl2)
<1>1. /\ fl.made \in Nat /\ fl2.made \in Nat /\ fl.block \in 1 .. fl.made
      /\ fl2.block \in 1 .. fl2.made
  BY DEF Blocks, Flows
<1>2. \A i \in 1 .. m + 1 : i \in 1 .. m \/ i = m + 1
  OBVIOUS
<1>3. \A n \in Nat, i \in 1 .. m :
        /\ Owns(b, K2[i], fs2[i], n) <=> Owns(b, K[i], fs[i], n)
        /\ Awaits(b, K2[i], fs2[i], n) <=> Awaits(b, K[i], fs[i], n)
  BY DEF Same
<1>4. \A i \in 1 .. m, n \in Nat : Owns(b, K[i], fs[i], n) => n \in 1 .. fl.made
  BY DEF Layout
<1>5. \A i \in 1 .. m, n \in Nat : b = "Berlin" /\ Owns(b, K[i], fs[i], n) => n # fl.block
  BY <1>1 DEF Layout, Owns
<1>6. ASSUME NEW i \in 1 .. m + 1, NEW n \in Nat, Owns(b, K2[i], fs2[i], n)
      PROVE  n \in 1 .. fl2.made
  <2>1. CASE i \in 1 .. m
    BY <2>1, <1>1, <1>3, <1>4, <1>6
  <2>2. CASE i = m + 1
    BY <2>2, <1>6
  <2> QED
    BY <2>1, <2>2, <1>2
<1>7. \A i, j \in 1 .. m + 1, n \in Nat :
        Owns(b, K2[i], fs2[i], n) /\ Owns(b, K2[j], fs2[j], n) => i = j
  <2> TAKE i, j \in 1 .. m + 1, n \in Nat
  <2> HAVE Owns(b, K2[i], fs2[i], n) /\ Owns(b, K2[j], fs2[j], n)
  <2>1. CASE i \in 1 .. m /\ j \in 1 .. m
    BY <2>1, <1>3 DEF Layout
  <2>2. CASE i \in 1 .. m /\ j = m + 1
    BY <2>2, <1>3, <1>4, <1>5
  <2>3. CASE i = m + 1 /\ j \in 1 .. m
    BY <2>3, <1>3, <1>4, <1>5
  <2> QED
    BY <2>1, <2>2, <2>3, <1>2
<1>8. ASSUME NEW i \in 1 .. m + 1 PROVE ~Awaits(b, K2[i], fs2[i], fl2.block)
  <2>1. CASE i \in 1 .. m
    <3>1. fl2.block = fl.block => ~Awaits(b, K[i], fs[i], fl2.block)
      BY <2>1 DEF Layout
    <3>2. fl2.block \notin 1 .. fl.made => ~Awaits(b, K[i], fs[i], fl2.block)
      BY <2>1, <1>1, <1>4 DEF Owns
    <3> QED
      BY <2>1, <3>1, <3>2, <1>1, <1>3
  <2> QED
    BY <2>1, <1>2
<1>9. ASSUME NEW n \in 1 .. fl2.made
      PROVE  n \notin fl2.ended <=>
               n = fl2.block \/ \E i \in 1 .. m + 1 : Awaits(b, K2[i], fs2[i], n)
  <2>1. n \in 1 .. fl.made =>
          (n \notin fl.ended <=> n = fl.block \/ \E i \in 1 .. m : Awaits(b, K[i], fs[i], n))
    BY DEF Layout
  <2>2. \A i \in 1 .. m : Awaits(b, K[i], fs[i], n) => n \in 1 .. fl.made /\ n # fl.block
    BY <1>1, <1>4 DEF Layout, Owns
  <2>3. (n \in 1 .. fl.made /\ n \notin fl.ended /\ n # fl.block)
          <=> \E i \in 1 .. m : Awaits(b, K[i], fs[i], n)
    BY <2>1, <2>2
  <2>4. (\E i \in 1 .. m + 1 : Awaits(b, K2[i], fs2[i], n)) <=>
          \/ \E i \in 1 .. m : Awaits(b, K[i], fs[i], n)
          \/ Awaits(b, K2[m + 1], fs2[m + 1], n)
    <3>1. m + 1 \in 1 .. m + 1 /\ \A i \in 1 .. m : i \in 1 .. m + 1
      OBVIOUS
    <3> QED
      BY <3>1, <1>2, <1>3
  <2> QED
    BY <2>3, <2>4
<1> QED
  BY <1>6, <1>7, <1>8, <1>9 DEF Layout

LEMMA CloseLayout ==
  ASSUME NEW b, NEW m \in Nat, NEW K, NEW fs, NEW fl, NEW K2, NEW fs2, NEW fl2,
         Blocks(fl), Blocks(fl2), Layout(b, m + 1, K, fs, fl),
         Same(m, K, fs, K2, fs2),
         fl.made <= fl2.made,
         \/ fl2.block \notin 1 .. fl.made \/ fl2.block = fl.block
         \/ Awaits(b, K[m + 1], fs[m + 1], fl2.block),
         \A n \in 1 .. fl2.made : n \notin fl2.ended <=>
           \/ /\ n \in 1 .. fl.made /\ n \notin fl.ended /\ n # fl.block
              /\ ~Awaits(b, K[m + 1], fs[m + 1], n)
           \/ n = fl2.block
  PROVE  Layout(b, m, K2, fs2, fl2)
<1>1. /\ fl.made \in Nat /\ fl2.made \in Nat /\ fl.block \in 1 .. fl.made
      /\ fl2.block \in 1 .. fl2.made
  BY DEF Blocks, Flows
<1>2. m + 1 \in 1 .. m + 1 /\ \A i \in 1 .. m : i \in 1 .. m + 1 /\ i # m + 1
  OBVIOUS
<1>3. \A n \in Nat, i \in 1 .. m :
        /\ Owns(b, K2[i], fs2[i], n) <=> Owns(b, K[i], fs[i], n)
        /\ Awaits(b, K2[i], fs2[i], n) <=> Awaits(b, K[i], fs[i], n)
  BY DEF Same
<1>4. \A i \in 1 .. m, n \in Nat : Owns(b, K[i], fs[i], n) => n \in 1 .. fl.made
  BY <1>2 DEF Layout
<1>5. \A i \in 1 .. m, n \in Nat : Awaits(b, K[i], fs[i], n) =>
        n \in 1 .. fl.made /\ n # fl.block /\ ~Awaits(b, K[m + 1], fs[m + 1], n)
  <2> TAKE i \in 1 .. m, n \in Nat
  <2> HAVE Awaits(b, K[i], fs[i], n)
  <2>1. n \in 1 .. fl.made
    BY <1>4 DEF Owns
  <2>2. n # fl.block
    BY <1>2 DEF Layout
  <2>3. Owns(b, K[i], fs[i], n) /\ (Owns(b, K[m + 1], fs[m + 1], n) => i = m + 1)
    BY <1>2 DEF Layout, Owns
  <2> QED
    BY <2>1, <2>2, <2>3, <1>2 DEF Owns
<1>6. \A i \in 1 .. m, n \in Nat : Owns(b, K2[i], fs2[i], n) => n \in 1 .. fl2.made
  BY <1>1, <1>3, <1>4
<1>7. \A i, j \in 1 .. m, n \in Nat :
        Owns(b, K2[i], fs2[i], n) /\ Owns(b, K2[j], fs2[j], n) => i = j
  BY <1>2, <1>3 DEF Layout
<1>8. ASSUME NEW i \in 1 .. m PROVE ~Awaits(b, K2[i], fs2[i], fl2.block)
  BY <1>1, <1>3, <1>5
<1>9. ASSUME NEW n \in 1 .. fl2.made
      PROVE  n \notin fl2.ended <=>
               n = fl2.block \/ \E i \in 1 .. m : Awaits(b, K2[i], fs2[i], n)
  <2>1. n \in 1 .. fl.made =>
          (n \notin fl.ended <=> n = fl.block \/ \E i \in 1 .. m + 1 : Awaits(b, K[i], fs[i], n))
    BY DEF Layout
  <2>2. \A i \in 1 .. m + 1 : i \in 1 .. m \/ i = m + 1
    OBVIOUS
  <2>3. (/\ n \in 1 .. fl.made /\ n \notin fl.ended /\ n # fl.block
         /\ ~Awaits(b, K[m + 1], fs[m + 1], n))
          <=> \E i \in 1 .. m : Awaits(b, K[i], fs[i], n)
    BY <2>1, <2>2, <1>2, <1>5
  <2> QED
    BY <2>3, <1>3
<1> QED
  BY <1>6, <1>7, <1>8, <1>9 DEF Layout

LEMMA SwapLayout ==
  ASSUME NEW b, NEW m \in Nat, NEW K, NEW fs, NEW fl, NEW K2, NEW fs2, NEW fl2,
         Blocks(fl), Blocks(fl2), Layout(b, m + 1, K, fs, fl),
         Same(m, K, fs, K2, fs2),
         fl.made = fl2.made,
         fl2.block = fl.block \/ Awaits(b, K[m + 1], fs[m + 1], fl2.block),
         \A n \in Nat : Owns(b, K2[m + 1], fs2[m + 1], n) => Owns(b, K[m + 1], fs[m + 1], n),
         ~Awaits(b, K2[m + 1], fs2[m + 1], fl2.block),
         \A n \in 1 .. fl2.made : n \notin fl2.ended <=>
           \/ /\ n \notin fl.ended /\ n # fl.block
              /\ ~Awaits(b, K[m + 1], fs[m + 1], n)
           \/ n = fl2.block \/ Awaits(b, K2[m + 1], fs2[m + 1], n)
  PROVE  Layout(b, m + 1, K2, fs2, fl2)
<1>1. /\ fl.made \in Nat /\ fl2.made \in Nat /\ fl.block \in 1 .. fl.made
      /\ fl2.block \in 1 .. fl2.made
  BY DEF Blocks, Flows
<1>2. /\ m + 1 \in 1 .. m + 1 /\ \A i \in 1 .. m : i \in 1 .. m + 1 /\ i # m + 1
      /\ \A i \in 1 .. m + 1 : i \in 1 .. m \/ i = m + 1
  OBVIOUS
<1>3. \A n \in Nat, i \in 1 .. m :
        /\ Owns(b, K2[i], fs2[i], n) <=> Owns(b, K[i], fs[i], n)
        /\ Awaits(b, K2[i], fs2[i], n) <=> Awaits(b, K[i], fs[i], n)
  BY DEF Same
<1>4. \A i \in 1 .. m + 1, n \in Nat : Owns(b, K2[i], fs2[i], n) => Owns(b, K[i], fs[i], n)
  BY <1>2, <1>3
<1>5. \A i \in 1 .. m, n \in Nat : Awaits(b, K[i], fs[i], n) =>
        n \in 1 .. fl.made /\ n # fl.block /\ ~Awaits(b, K[m + 1], fs[m + 1], n)
  <2> TAKE i \in 1 .. m, n \in Nat
  <2> HAVE Awaits(b, K[i], fs[i], n)
  <2>1. n \in 1 .. fl.made
    BY <1>2 DEF Owns, Layout
  <2>2. n # fl.block
    BY <1>2 DEF Layout
  <2>3. Owns(b, K[i], fs[i], n) /\ (Owns(b, K[m + 1], fs[m + 1], n) => i = m + 1)
    BY <1>2 DEF Layout, Owns
  <2> QED
    BY <2>1, <2>2, <2>3, <1>2 DEF Owns
<1>6. \A i \in 1 .. m + 1, n \in Nat : Owns(b, K2[i], fs2[i], n) => n \in 1 .. fl2.made
  BY <1>4 DEF Layout
<1>7. \A i, j \in 1 .. m + 1, n \in Nat :
        Owns(b, K2[i], fs2[i], n) /\ Owns(b, K2[j], fs2[j], n) => i = j
  BY <1>4 DEF Layout
<1>8. ASSUME NEW i \in 1 .. m + 1 PROVE ~Awaits(b, K2[i], fs2[i], fl2.block)
  BY <1>1, <1>2, <1>3, <1>5
<1>9. ASSUME NEW n \in 1 .. fl2.made
      PROVE  n \notin fl2.ended <=>
               n = fl2.block \/ \E i \in 1 .. m + 1 : Awaits(b, K2[i], fs2[i], n)
  <2>1. n \notin fl.ended <=> n = fl.block \/ \E i \in 1 .. m + 1 : Awaits(b, K[i], fs[i], n)
    BY DEF Layout
  <2>2. (/\ n \notin fl.ended /\ n # fl.block
         /\ ~Awaits(b, K[m + 1], fs[m + 1], n))
          <=> \E i \in 1 .. m : Awaits(b, K[i], fs[i], n)
    BY <2>1, <1>2, <1>5
  <2>3. (\E i \in 1 .. m + 1 : Awaits(b, K2[i], fs2[i], n)) <=>
          \/ \E i \in 1 .. m : Awaits(b, K[i], fs[i], n)
          \/ Awaits(b, K2[m + 1], fs2[m + 1], n)
    BY <1>2, <1>3
  <2> QED
    BY <2>2, <2>3
<1> QED
  BY <1>6, <1>7, <1>8, <1>9 DEF Layout

-----------------------------------------------------------------------------
(* The blocks that branch to a block.                                      *)
Preds(ed, n) == {e[1] : e \in {e \in ed : e[2] = n}}

Adds(ed, ed2, x, y) == ed2 = ed \union {<<x, y>>}
AddsTwo(ed, ed2, x, y, z) == ed2 = ed \union {<<x, y>>, <<x, z>>}

LEMMA PredsAdd ==
  ASSUME NEW ed, NEW x, NEW y, NEW ed2, Adds(ed, ed2, x, y)
  PROVE  /\ Preds(ed2, y) = Preds(ed, y) \union {x}
         /\ \A n : n # y => Preds(ed2, n) = Preds(ed, n)
<1>1. ASSUME NEW n, NEW z
      PROVE  z \in Preds(ed2, n) <=> z \in Preds(ed, n) \/ (n = y /\ z = x)
  <2>1. z \in Preds(ed, n) <=> \E e \in ed : e[2] = n /\ z = e[1]
    BY DEF Preds
  <2>2. z \in Preds(ed2, n) <=> \E e \in ed2 : e[2] = n /\ z = e[1]
    BY DEF Preds
  <2>3. PICK e : e = <<x, y>> /\ e[1] = x /\ e[2] = y
    <3>1. <<x, y>>[1] = x /\ <<x, y>>[2] = y
      OBVIOUS
    <3> QED
      BY <3>1
  <2>4. ed2 = ed \union {e}
    BY <2>3 DEF Adds
  <2> QED
    BY <2>1, <2>2, <2>3, <2>4
<1> QED
  BY <1>1

LEMMA PredsAddTwo ==
  ASSUME NEW ed, NEW x, NEW y, NEW z, y # z, NEW ed2, AddsTwo(ed, ed2, x, y, z)
  PROVE  /\ Preds(ed2, y) = Preds(ed, y) \union {x}
         /\ Preds(ed2, z) = Preds(ed, z) \union {x}
         /\ \A n : n \notin {y, z} => Preds(ed2, n) = Preds(ed, n)
<1>1. PICK d : d = ed \union {<<x, y>>}
  OBVIOUS
<1>2. Adds(ed, d, x, y) /\ Adds(d, ed2, x, z)
  BY <1>1 DEF Adds, AddsTwo
<1>3. /\ Preds(d, y) = Preds(ed, y) \union {x}
      /\ \A n : n # y => Preds(d, n) = Preds(ed, n)
  BY <1>2, PredsAdd
<1>4. /\ Preds(ed2, z) = Preds(d, z) \union {x}
      /\ \A n : n # z => Preds(ed2, n) = Preds(d, n)
  BY <1>2, PredsAdd
<1> QED
  BY <1>3, <1>4

LEMMA PredsNew ==
  ASSUME NEW m \in Nat, NEW ed, ed \subseteq (1 .. m) \X (1 .. m), NEW n, n \notin 1 .. m
  PROVE  Preds(ed, n) = {}
BY DEF Preds

(* What the join of each running construct has for edges so far: no phi    *)
(* is made before they are complete.                                       *)
Arrows(m, K, fs, ed, ph) ==
  \A i \in 1 .. m : K[i] # "var" =>
    /\ Preds(ed, Target(K[i], fs[i])) = Incoming(K[i], fs[i])
    /\ \A p \in ph : p.at # Target(K[i], fs[i])

Drawn(fl, ed, ph) ==
  /\ ed \subseteq (1 .. fl.made) \X (1 .. fl.made)
  /\ \A p \in ph : p.at \in 1 .. fl.made
Match(ed, ph) == \A p \in ph : p.from = Preds(ed, p.at)

LEMMA TargetIsOwned ==
  ASSUME NEW b, b # "Berlin", NEW k \in Kinds, k # "var", NEW s
  PROVE  Owns(b, k, s, Target(k, s))
BY DEF Owns, Awaits, Target, Kinds

LEMMA OpenArrows ==
  ASSUME NEW b, b # "Berlin", NEW m \in Nat, NEW K, NEW fs, NEW fl, NEW K2, NEW fs2,
         NEW ed, NEW ed2, NEW ph, Blocks(fl), Layout(b, m, K, fs, fl), Arrows(m, K, fs, ed, ph),
         Drawn(fl, ed, ph), Match(ed, ph),
         Spans(m, K, fs),
         Same(m, K, fs, K2, fs2),
         \A n \in 1 .. fl.made : Preds(ed2, n) = Preds(ed, n),
         K2[m + 1] # "var" =>
           /\ Preds(ed2, Target(K2[m + 1], fs2[m + 1])) = Incoming(K2[m + 1], fs2[m + 1])
           /\ Target(K2[m + 1], fs2[m + 1]) \notin 1 .. fl.made
  PROVE  Arrows(m + 1, K2, fs2, ed2, ph) /\ Match(ed2, ph)
<1>1. ASSUME NEW i \in 1 .. m, K[i] # "var" PROVE Target(K[i], fs[i]) \in 1 .. fl.made
  <2>1. Owns(b, K[i], fs[i], Target(K[i], fs[i]))
    BY <1>1, TargetIsOwned DEF Spans
  <2>2. Target(K[i], fs[i]) \in Nat
    BY DEF Target, Spans
  <2> QED
    BY <2>1, <2>2 DEF Layout
<1>2. ASSUME NEW i \in 1 .. m + 1, K2[i] # "var"
      PROVE  /\ Preds(ed2, Target(K2[i], fs2[i])) = Incoming(K2[i], fs2[i])
             /\ \A p \in ph : p.at # Target(K2[i], fs2[i])
  <2>1. CASE i \in 1 .. m
    BY <2>1, <1>1, <1>2 DEF Arrows, Same
  <2>2. CASE i = m + 1
    BY <2>2, <1>2 DEF Drawn
  <2> QED
    BY <2>1, <2>2
<1>3. Match(ed2, ph)
  BY DEF Match, Drawn
<1> QED
  BY <1>2, <1>3 DEF Arrows

(* The construct on top gives up or keeps its join; what it adds is edges  *)
(* to it and to new blocks, and at most the phi of the join.               *)
LEMMA OtherArrows ==
  ASSUME NEW b, b # "Berlin", NEW m \in Nat, NEW K, NEW fs, NEW fl, NEW x,
         NEW ed, NEW ed2, NEW ph, NEW ph2, Blocks(fl), Layout(b, m + 1, K, fs, fl),
         Arrows(m + 1, K, fs, ed, ph), Drawn(fl, ed, ph), Match(ed, ph),
         Spans(m + 1, K, fs),
         K[m + 1] # "var", x = Target(K[m + 1], fs[m + 1]),
         \A n \in 1 .. fl.made : n # x => Preds(ed2, n) = Preds(ed, n),
         \A p \in ph2 : p \in ph \/ (p.at = x /\ p.from = Preds(ed2, x))
  PROVE  Arrows(m, K, fs, ed2, ph2) /\ Match(ed2, ph2)
<1>1. x \in Nat /\ Owns(b, K[m + 1], fs[m + 1], x) /\ m + 1 \in 1 .. m + 1
  <2>1. m + 1 \in 1 .. m + 1
    OBVIOUS
  <2>2. x \in Nat
    BY <2>1 DEF Target, Spans
  <2> QED
    BY <2>1, <2>2, TargetIsOwned DEF Spans
<1>2. ASSUME NEW i \in 1 .. m, K[i] # "var"
      PROVE  Target(K[i], fs[i]) \in 1 .. fl.made /\ Target(K[i], fs[i]) # x
  <2>1. i \in 1 .. m + 1 /\ i # m + 1
    OBVIOUS
  <2>2. Owns(b, K[i], fs[i], Target(K[i], fs[i]))
    BY <1>2, <2>1, TargetIsOwned DEF Spans
  <2>3. Target(K[i], fs[i]) \in Nat
    BY <2>1 DEF Target, Spans
  <2> QED
    BY <2>1, <2>2, <2>3, <1>1 DEF Layout
<1>3. ASSUME NEW i \in 1 .. m, K[i] # "var"
      PROVE  /\ Preds(ed2, Target(K[i], fs[i])) = Incoming(K[i], fs[i])
             /\ \A p \in ph2 : p.at # Target(K[i], fs[i])
  <2>1. i \in 1 .. m + 1
    OBVIOUS
  <2> QED
    BY <2>1, <1>2, <1>3 DEF Arrows
<1>4. \A p \in ph : p.at # x /\ p.at \in 1 .. fl.made
  BY <1>1 DEF Arrows, Drawn
<1>5. Match(ed2, ph2)
  BY <1>4 DEF Match
<1> QED
  BY <1>3, <1>5 DEF Arrows

(* Berlin has neither edges nor phis; a block of the function's own runs   *)
(* when no construct with blocks does, and the outermost of them returns   *)
(* to it.                                                                  *)
Home(m, K, fs, fl, ed, ph) ==
  /\ ed = {} /\ ph = {}
  /\ fl.block = 1 \/ \E j \in 1 .. m : K[j] # "var"
  /\ \A i \in 1 .. m : K[i] # "var" =>
       /\ fs[i].last < fs[i].first
       /\ fs[i].last = 1 \/ \E j \in 1 .. i - 1 : K[j] # "var"

LEMMA OpenHome ==
  ASSUME NEW m \in Nat, NEW K, NEW fs, NEW fl, NEW K2, NEW fs2, NEW fl2, NEW ed, NEW ph,
         Home(m, K, fs, fl, ed, ph),
         Same(m, K, fs, K2, fs2),
         \/ K2[m + 1] # "var" /\ fs2[m + 1].last = fl.block /\ fs2[m + 1].last < fs2[m + 1].first
         \/ K2[m + 1] = "var" /\ fl2 = fl
  PROVE  Home(m + 1, K2, fs2, fl2, ed, ph)
<1>1. /\ m + 1 \in 1 .. m + 1 /\ m + 1 - 1 = m
      /\ \A i \in 1 .. m + 1 : i \in 1 .. m \/ i = m + 1
      /\ \A i \in 1 .. m : i \in 1 .. m + 1 /\ \A j \in 1 .. i - 1 : j \in 1 .. m
  OBVIOUS
<1>2. fl2.block = 1 \/ \E j \in 1 .. m + 1 : K2[j] # "var"
  BY <1>1 DEF Home, Same
<1>3. ASSUME NEW i \in 1 .. m + 1, K2[i] # "var"
      PROVE  /\ fs2[i].last < fs2[i].first
             /\ fs2[i].last = 1 \/ \E j \in 1 .. i - 1 : K2[j] # "var"
  <2>1. CASE i \in 1 .. m
    <3>1. /\ fs[i].last < fs[i].first
          /\ fs[i].last = 1 \/ \E j \in 1 .. i - 1 : K[j] # "var"
      BY <2>1, <1>3 DEF Home, Same
    <3> QED
      BY <2>1, <3>1, <1>1 DEF Same
  <2>2. CASE i = m + 1
    <3>1. fl.block = 1 \/ \E j \in 1 .. m : K2[j] # "var"
      BY DEF Home, Same
    <3> QED
      BY <2>2, <3>1, <1>1, <1>3
  <2> QED
    BY <2>1, <2>2, <1>1
<1> QED
  BY <1>2, <1>3 DEF Home

LEMMA CloseHome ==
  ASSUME NEW m \in Nat, NEW K, NEW fs, NEW fl, NEW K2, NEW fs2, NEW fl2, NEW ed, NEW ph,
         Home(m + 1, K, fs, fl, ed, ph),
         Same(m, K, fs, K2, fs2),
         \/ K[m + 1] # "var" /\ fl2.block = fs[m + 1].last
         \/ K[m + 1] = "var" /\ fl2.block = fl.block
  PROVE  Home(m, K2, fs2, fl2, ed, ph)
<1>1. /\ m + 1 \in 1 .. m + 1 /\ m + 1 - 1 = m
      /\ \A i \in 1 .. m + 1 : i \in 1 .. m \/ i = m + 1
      /\ \A i \in 1 .. m : i \in 1 .. m + 1 /\ \A j \in 1 .. i - 1 : j \in 1 .. m
  OBVIOUS
<1>2. fl2.block = 1 \/ \E j \in 1 .. m : K2[j] # "var"
  <2>1. CASE K[m + 1] # "var"
    <3>1. fs[m + 1].last = 1 \/ \E j \in 1 .. m : K[j] # "var"
      BY <2>1, <1>1 DEF Home, Same
    <3> QED
      BY <2>1, <3>1 DEF Same
  <2>2. CASE K[m + 1] = "var"
    <3>1. fl.block = 1 \/ \E j \in 1 .. m + 1 : K[j] # "var"
      BY DEF Home, Same
    <3> QED
      BY <2>2, <3>1, <1>1 DEF Same
  <2> QED
    BY <2>1, <2>2
<1>3. ASSUME NEW i \in 1 .. m, K2[i] # "var"
      PROVE  /\ fs2[i].last < fs2[i].first
             /\ fs2[i].last = 1 \/ \E j \in 1 .. i - 1 : K2[j] # "var"
  <2>1. /\ fs[i].last < fs[i].first
        /\ fs[i].last = 1 \/ \E j \in 1 .. i - 1 : K[j] # "var"
    BY <1>1, <1>3 DEF Home, Same
  <2> QED
    BY <2>1, <1>1 DEF Same
<1> QED
  BY <1>2, <1>3 DEF Home

-----------------------------------------------------------------------------
(* What the constructs do to the blocks, for values.                       *)
Built(b, m, K, fs, fl, ed, ph) ==
  /\ Blocks(fl) /\ Drawn(fl, ed, ph) /\ Match(ed, ph)
  /\ Spans(m, K, fs)
  /\ Layout(b, m, K, fs, fl)
  /\ b # "Berlin" => Arrows(m, K, fs, ed, ph)
  /\ b = "Berlin" => Home(m, K, fs, fl, ed, ph)

Moves(fl, fl2, x, n) ==
  fl2.block = x /\ fl2.made = fl.made + n /\ fl2.ended = fl.ended /\ Blocks(fl2)
Ends(fl, fl2, x, n) ==
  fl2.block = x /\ fl2.made = fl.made + n /\ fl2.ended = fl.ended \union {fl.block} /\ Blocks(fl2)

LEMMA FlowIs ==
  ASSUME NEW fl, Blocks(fl), NEW x \in Nat, NEW n \in Nat, x \in 1 .. fl.made + n
  PROVE  Moves(fl, At(fl, x, n), x, n) /\ Ends(fl, At(Terminated(fl), x, n), x, n)
<1>1. /\ fl \in Flows /\ fl.made \in Nat /\ fl.block \in Nat /\ fl.block \in 1 .. fl.made
      /\ fl.ended \subseteq 1 .. fl.made
  BY DEF Blocks, Flows
<1>2. PICK g : g = Terminated(fl)
  OBVIOUS
<1>3. /\ g \in Flows /\ g.made = fl.made /\ g.block = fl.block
      /\ g.ended = fl.ended \union {fl.block}
  BY <1>1, <1>2 DEF Terminated, Flows
<1>4. ASSUME NEW h \in Flows
      PROVE  At(h, x, n) \in Flows /\ At(h, x, n).block = x /\ At(h, x, n).made = h.made + n
             /\ At(h, x, n).ended = h.ended
  <2>1. h.made + n \in Nat /\ h.ended \in SUBSET Nat
    BY DEF Flows
  <2>2. At(h, x, n).block = x
    BY DEF At, Flows
  <2>3. At(h, x, n).made = h.made + n
    BY DEF At, Flows
  <2>4. At(h, x, n).ended = h.ended
    BY DEF At, Flows
  <2>5. At(h, x, n) \in Flows
    BY <2>1 DEF At, Flows
  <2> QED
    BY <2>2, <2>3, <2>4, <2>5
<1>5. /\ At(g, x, n) \in Flows /\ At(g, x, n).block = x /\ At(g, x, n).made = fl.made + n
      /\ At(g, x, n).ended = fl.ended \union {fl.block}
  BY <1>3, <1>4
<1>6. /\ At(fl, x, n) \in Flows /\ At(fl, x, n).block = x /\ At(fl, x, n).made = fl.made + n
      /\ At(fl, x, n).ended = fl.ended
  BY <1>1, <1>4
<1>7. Blocks(At(fl, x, n)) /\ Blocks(At(g, x, n))
  BY <1>1, <1>5, <1>6 DEF Blocks
<1> QED
  BY <1>2, <1>5, <1>6, <1>7 DEF Moves, Ends

LEMMA SpansOneMore ==
  ASSUME NEW m \in Nat, NEW K, NEW fs, NEW K2, NEW fs2, Spans(m, K, fs), Same(m, K, fs, K2, fs2),
         K2[m + 1] \in Kinds, fs2[m + 1].first \in Nat, fs2[m + 1].last \in Nat
  PROVE  Spans(m + 1, K2, fs2)
<1>1. \A i \in 1 .. m + 1 : i \in 1 .. m \/ i = m + 1
  OBVIOUS
<1> QED
  BY <1>1 DEF Spans, Same

LEMMA BranchBuilds ==
  ASSUME NEW b, NEW m \in Nat, NEW K, NEW fs, NEW fl, NEW ed, NEW ph, NEW K2, NEW fs2, NEW fl2, NEW ed2,
         Built(b, m, K, fs, fl, ed, ph),
         Same(m, K, fs, K2, fs2),
         K2[m + 1] = "then", fs2[m + 1].first = fl.made + 1, fs2[m + 1].last = fl.block,
         IF b = "Berlin"
         THEN fl2 = At(fl, fl.made + 1, 2) /\ ed2 = ed
         ELSE /\ fl2 = At(Terminated(fl), fl.made + 1, 3)
              /\ ed2 = ed \union {<<fl.block, fl.made + 1>>, <<fl.block, fl.made + 1 + 1>>}
  PROVE  Built(b, m + 1, K2, fs2, fl2, ed2, ph)
<1>1. Blocks(fl) /\ Drawn(fl, ed, ph) /\ Match(ed, ph) /\ Layout(b, m, K, fs, fl)
  BY DEF Built
<1>2. PICK n \in Nat : n = fl.made
  BY <1>1 DEF Blocks, Flows
<1>3. fl.block \in Nat /\ fl.block \in 1 .. n /\ fl.ended \subseteq 1 .. n
  BY <1>1, <1>2 DEF Blocks, Flows
<1>4. Spans(m + 1, K2, fs2)
  BY <1>2, <1>3, SpansOneMore DEF Built, Kinds
<1>5. CASE b = "Berlin"
  <2>1. Blocks(fl2) /\ fl2.block = n + 1 /\ fl2.made = n + 2 /\ fl2.ended = fl.ended
    <3>1. PICK x \in Nat, k \in Nat :
            x = n + 1 /\ k = 2 /\ x \in 1 .. fl.made + k /\ fl2 = At(fl, x, k)
      BY <1>2, <1>5
    <3>2. Moves(fl, fl2, x, k)
      BY <3>1, <1>1, FlowIs
    <3> QED
      BY <3>1, <3>2, <1>2 DEF Moves
  <2>2. \A x \in Nat : /\ Awaits(b, K2[m + 1], fs2[m + 1], x) <=> x = n + 2 \/ x = fl.block
                       /\ Owns(b, K2[m + 1], fs2[m + 1], x) <=> x = n + 2 \/ x = fl.block
    BY <1>2, <1>3, <1>5 DEF Awaits, Owns
  <2>3. Layout(b, m + 1, K2, fs2, fl2)
    <3>1. fl.made <= fl2.made /\ fl2.block \notin 1 .. fl.made
      BY <2>1, <1>2
    <3>2. \A x \in Nat : Owns(b, K2[m + 1], fs2[m + 1], x) =>
            x \in 1 .. fl2.made /\ (x \notin 1 .. fl.made \/ (b = "Berlin" /\ x = fl.block))
      BY <2>1, <2>2, <1>2, <1>3, <1>5
    <3>3. ~Awaits(b, K2[m + 1], fs2[m + 1], fl2.block)
      BY <2>1, <2>2, <1>3
    <3>4. \A x \in 1 .. fl2.made : x \notin fl2.ended <=>
            \/ x \in 1 .. fl.made /\ x \notin fl.ended /\ x # fl.block
            \/ x = fl2.block \/ Awaits(b, K2[m + 1], fs2[m + 1], x)
      <4> TAKE x \in 1 .. fl2.made
      <4>1. fl.block \notin fl.ended
        BY <1>1, <1>2, <1>3 DEF Layout
      <4>2. x \in 1 .. n \/ x = n + 1 \/ x = n + 2
        BY <2>1
      <4> QED
        BY <4>1, <4>2, <2>1, <2>2, <1>2, <1>3
    <3> QED
      BY <3>1, <3>2, <3>3, <3>4, <2>1, <1>1, OpenLayout
  <2>4. Home(m + 1, K2, fs2, fl2, ed, ph)
    <3>1. Home(m, K, fs, fl, ed, ph) /\ fs2[m + 1].last < fs2[m + 1].first
      BY <1>2, <1>3, <1>5 DEF Built
    <3> QED
      BY <3>1, OpenHome
  <2>5. Drawn(fl2, ed, ph)
    <3>1. ed = {} /\ ph = {}
      BY <2>4 DEF Home
    <3> QED
      BY <3>1 DEF Drawn
  <2> QED
    BY <1>1, <1>4, <1>5, <2>1, <2>3, <2>4, <2>5 DEF Built
<1>6. CASE b # "Berlin"
  <2>1. Blocks(fl2) /\ fl2.block = n + 1 /\ fl2.made = n + 3 /\ fl2.ended = fl.ended \union {fl.block}
    <3>1. PICK x \in Nat, k \in Nat :
            x = n + 1 /\ k = 3 /\ x \in 1 .. fl.made + k /\ fl2 = At(Terminated(fl), x, k)
      BY <1>2, <1>6
    <3>2. Ends(fl, fl2, x, k)
      BY <3>1, <1>1, FlowIs
    <3> QED
      BY <3>1, <3>2, <1>2 DEF Ends
  <2>2. \A x \in Nat : /\ Awaits(b, K2[m + 1], fs2[m + 1], x) <=> x = n + 2 \/ x = n + 3
                       /\ Owns(b, K2[m + 1], fs2[m + 1], x) <=> x = n + 2 \/ x = n + 3
    BY <1>2, <1>3, <1>6 DEF Awaits, Owns
  <2>3. Layout(b, m + 1, K2, fs2, fl2)
    <3>1. fl.made <= fl2.made /\ fl2.block \notin 1 .. fl.made
      BY <2>1, <1>2
    <3>2. \A x \in Nat : Owns(b, K2[m + 1], fs2[m + 1], x) =>
            x \in 1 .. fl2.made /\ (x \notin 1 .. fl.made \/ (b = "Berlin" /\ x = fl.block))
      BY <2>1, <2>2, <1>2
    <3>3. ~Awaits(b, K2[m + 1], fs2[m + 1], fl2.block)
      BY <2>1, <2>2
    <3>4. \A x \in 1 .. fl2.made : x \notin fl2.ended <=>
            \/ x \in 1 .. fl.made /\ x \notin fl.ended /\ x # fl.block
            \/ x = fl2.block \/ Awaits(b, K2[m + 1], fs2[m + 1], x)
      <4> TAKE x \in 1 .. fl2.made
      <4>1. x \in 1 .. n \/ x = n + 1 \/ x = n + 2 \/ x = n + 3
        BY <2>1
      <4> QED
        BY <4>1, <2>1, <2>2, <1>2, <1>3
    <3> QED
      BY <3>1, <3>2, <3>3, <3>4, <2>1, <1>1, OpenLayout
  <2>4. ed2 = ed \union {<<fl.block, n + 1>>, <<fl.block, n + 2>>}
    <3>1. fl.made + 1 + 1 = n + 2
      BY <1>2
    <3> QED
      BY <3>1, <1>2, <1>6
  <2>5. \A x : x # n + 1 /\ x # n + 2 => Preds(ed2, x) = Preds(ed, x)
    <3>1. n + 1 # n + 2 /\ AddsTwo(ed, ed2, fl.block, n + 1, n + 2)
      BY <2>4 DEF AddsTwo
    <3>2. \A x : x \notin {n + 1, n + 2} => Preds(ed2, x) = Preds(ed, x)
      BY <3>1, PredsAddTwo
    <3> QED
      BY <3>2
  <2>6. Drawn(fl2, ed2, ph)
    <3>1. fl.block \in 1 .. n + 3 /\ n + 1 \in 1 .. n + 3 /\ n + 2 \in 1 .. n + 3
      BY <1>3
    <3>2. \A e \in ed : e \in (1 .. n + 3) \X (1 .. n + 3)
      BY <1>1, <1>2 DEF Drawn
    <3>3. \A p \in ph : p.at \in 1 .. n + 3
      BY <1>1, <1>2 DEF Drawn
    <3> QED
      BY <3>1, <3>2, <3>3, <2>1, <2>4 DEF Drawn
  <2>7. Arrows(m + 1, K2, fs2, ed2, ph) /\ Match(ed2, ph)
    <3>1. Target(K2[m + 1], fs2[m + 1]) = n + 3
      BY <1>2 DEF Target
    <3>2. n + 3 \notin 1 .. fl.made /\ n + 3 # n + 2 /\ n + 3 # n + 1
      BY <1>2
    <3>3. Preds(ed2, n + 3) = {}
      <4>1. ed \subseteq (1 .. n) \X (1 .. n) /\ n + 3 \notin 1 .. n
        BY <1>1, <1>2 DEF Drawn
      <4>2. Preds(ed, n + 3) = {}
        BY <4>1, PredsNew
      <4> QED
        BY <4>2, <3>2, <2>5
    <3>4. \A x \in 1 .. fl.made : Preds(ed2, x) = Preds(ed, x)
      <4>1. \A x \in 1 .. fl.made : x # n + 1 /\ x # n + 2
        BY <1>2
      <4> QED
        BY <4>1, <2>5
    <3>5. Spans(m, K, fs) /\ Arrows(m, K, fs, ed, ph)
      BY <1>6 DEF Built
    <3>6. K2[m + 1] # "var" =>
            /\ Preds(ed2, Target(K2[m + 1], fs2[m + 1])) = Incoming(K2[m + 1], fs2[m + 1])
            /\ Target(K2[m + 1], fs2[m + 1]) \notin 1 .. fl.made
      BY <3>1, <3>2, <3>3 DEF Incoming
    <3> QED
      BY <3>4, <3>5, <3>6, <1>1, <1>6, OpenArrows
  <2> QED
    BY <1>1, <1>4, <1>6, <2>1, <2>3, <2>6, <2>7 DEF Built
<1> QED
  BY <1>5, <1>6

LEMMA EnterBuilds ==
  ASSUME NEW b, NEW m \in Nat, NEW K, NEW fs, NEW fl, NEW ed, NEW ph, NEW K2, NEW fs2, NEW fl2, NEW ed2,
         Built(b, m, K, fs, fl, ed, ph), Same(m, K, fs, K2, fs2),
         K2[m + 1] = "loop", fs2[m + 1].first = fl.made + 1, fs2[m + 1].last = fl.block,
         IF b = "Berlin"
         THEN fl2 = At(fl, fl.made + 1, 1) /\ ed2 = ed
         ELSE fl2 = At(Terminated(fl), fl.made + 1, 1) /\ ed2 = ed \union {<<fl.block, fl.made + 1>>}
  PROVE  Built(b, m + 1, K2, fs2, fl2, ed2, ph)
<1>1. Blocks(fl) /\ Drawn(fl, ed, ph) /\ Match(ed, ph) /\ Layout(b, m, K, fs, fl)
  BY DEF Built
<1>2. PICK n \in Nat : n = fl.made
  BY <1>1 DEF Blocks, Flows
<1>3. fl.block \in Nat /\ fl.block \in 1 .. n /\ fl.ended \subseteq 1 .. n
  BY <1>1, <1>2 DEF Blocks, Flows
<1>4. Spans(m + 1, K2, fs2)
  BY <1>2, <1>3, SpansOneMore DEF Built, Kinds
<1>5. CASE b = "Berlin"
  <2>1. Blocks(fl2) /\ fl2.block = n + 1 /\ fl2.made = n + 1 /\ fl2.ended = fl.ended
    <3>1. PICK x \in Nat, k \in Nat :
            x = n + 1 /\ k = 1 /\ x \in 1 .. fl.made + k /\ fl2 = At(fl, x, k)
      BY <1>2, <1>5
    <3>2. Moves(fl, fl2, x, k)
      BY <3>1, <1>1, FlowIs
    <3> QED
      BY <3>1, <3>2, <1>2 DEF Moves
  <2>2. \A x \in Nat : /\ Awaits(b, K2[m + 1], fs2[m + 1], x) <=> x = fl.block
                       /\ Owns(b, K2[m + 1], fs2[m + 1], x) <=> x = fl.block
    BY <1>2, <1>3, <1>5 DEF Awaits, Owns
  <2>3. Layout(b, m + 1, K2, fs2, fl2)
    <3>1. fl.made <= fl2.made /\ fl2.block \notin 1 .. fl.made
      BY <2>1, <1>2
    <3>2. \A x \in Nat : Owns(b, K2[m + 1], fs2[m + 1], x) =>
            x \in 1 .. fl2.made /\ (x \notin 1 .. fl.made \/ (b = "Berlin" /\ x = fl.block))
      BY <2>1, <2>2, <1>2, <1>3, <1>5
    <3>3. ~Awaits(b, K2[m + 1], fs2[m + 1], fl2.block)
      BY <2>1, <2>2, <1>3
    <3>4. \A x \in 1 .. fl2.made : x \notin fl2.ended <=>
            \/ x \in 1 .. fl.made /\ x \notin fl.ended /\ x # fl.block
            \/ x = fl2.block \/ Awaits(b, K2[m + 1], fs2[m + 1], x)
      <4> TAKE x \in 1 .. fl2.made
      <4>1. fl.block \notin fl.ended
        BY <1>1, <1>2, <1>3 DEF Layout
      <4>2. x \in 1 .. n \/ x = n + 1
        BY <2>1
      <4> QED
        BY <4>1, <4>2, <2>1, <2>2, <1>2, <1>3
    <3> QED
      BY <3>1, <3>2, <3>3, <3>4, <2>1, <1>1, OpenLayout
  <2>4. Home(m + 1, K2, fs2, fl2, ed, ph)
    <3>1. Home(m, K, fs, fl, ed, ph) /\ fs2[m + 1].last < fs2[m + 1].first
      BY <1>2, <1>3, <1>5 DEF Built
    <3> QED
      BY <3>1, OpenHome
  <2>5. Drawn(fl2, ed, ph)
    <3>1. ed = {} /\ ph = {}
      BY <2>4 DEF Home
    <3> QED
      BY <3>1 DEF Drawn
  <2> QED
    BY <1>1, <1>4, <1>5, <2>1, <2>3, <2>4, <2>5 DEF Built
<1>6. CASE b # "Berlin"
  <2>1. Blocks(fl2) /\ fl2.block = n + 1 /\ fl2.made = n + 1 /\ fl2.ended = fl.ended \union {fl.block}
    <3>1. PICK x \in Nat, k \in Nat :
            x = n + 1 /\ k = 1 /\ x \in 1 .. fl.made + k /\ fl2 = At(Terminated(fl), x, k)
      BY <1>2, <1>6
    <3>2. Ends(fl, fl2, x, k)
      BY <3>1, <1>1, FlowIs
    <3> QED
      BY <3>1, <3>2, <1>2 DEF Ends
  <2>2. \A x \in Nat : /\ ~Awaits(b, K2[m + 1], fs2[m + 1], x)
                       /\ Owns(b, K2[m + 1], fs2[m + 1], x) <=> x = n + 1
    BY <1>2, <1>3, <1>6 DEF Awaits, Owns
  <2>3. Layout(b, m + 1, K2, fs2, fl2)
    <3>1. fl.made <= fl2.made /\ fl2.block \notin 1 .. fl.made
      BY <2>1, <1>2
    <3>2. \A x \in Nat : Owns(b, K2[m + 1], fs2[m + 1], x) =>
            x \in 1 .. fl2.made /\ (x \notin 1 .. fl.made \/ (b = "Berlin" /\ x = fl.block))
      BY <2>1, <2>2, <1>2
    <3>3. ~Awaits(b, K2[m + 1], fs2[m + 1], fl2.block)
      BY <2>1, <2>2
    <3>4. \A x \in 1 .. fl2.made : x \notin fl2.ended <=>
            \/ x \in 1 .. fl.made /\ x \notin fl.ended /\ x # fl.block
            \/ x = fl2.block \/ Awaits(b, K2[m + 1], fs2[m + 1], x)
      <4> TAKE x \in 1 .. fl2.made
      <4>1. x \in 1 .. n \/ x = n + 1
        BY <2>1
      <4> QED
        BY <4>1, <2>1, <2>2, <1>2, <1>3
    <3> QED
      BY <3>1, <3>2, <3>3, <3>4, <2>1, <1>1, OpenLayout
  <2>4. Adds(ed, ed2, fl.block, n + 1)
    BY <1>2, <1>6 DEF Adds
  <2>5. /\ Preds(ed2, n + 1) = Preds(ed, n + 1) \union {fl.block}
        /\ \A x : x # n + 1 => Preds(ed2, x) = Preds(ed, x)
    BY <2>4, PredsAdd
  <2>6. Drawn(fl2, ed2, ph)
    <3>1. fl.block \in 1 .. n + 1 /\ n + 1 \in 1 .. n + 1
      BY <1>3
    <3>2. \A e \in ed : e \in (1 .. n + 1) \X (1 .. n + 1)
      BY <1>1, <1>2 DEF Drawn
    <3>3. \A p \in ph : p.at \in 1 .. n + 1
      BY <1>1, <1>2 DEF Drawn
    <3> QED
      BY <3>1, <3>2, <3>3, <2>1, <2>4 DEF Drawn, Adds
  <2>7. Arrows(m + 1, K2, fs2, ed2, ph) /\ Match(ed2, ph)
    <3>1. Target(K2[m + 1], fs2[m + 1]) = n + 1
      BY <1>2 DEF Target
    <3>2. n + 1 \notin 1 .. fl.made
      BY <1>2
    <3>3. Preds(ed2, n + 1) = {fl.block}
      <4>1. ed \subseteq (1 .. n) \X (1 .. n) /\ n + 1 \notin 1 .. n
        BY <1>1, <1>2 DEF Drawn
      <4>2. Preds(ed, n + 1) = {}
        BY <4>1, PredsNew
      <4> QED
        BY <4>2, <2>5
    <3>4. \A x \in 1 .. fl.made : Preds(ed2, x) = Preds(ed, x)
      BY <3>2, <2>5
    <3>5. Spans(m, K, fs) /\ Arrows(m, K, fs, ed, ph)
      BY <1>6 DEF Built
    <3>6. K2[m + 1] # "var" =>
            /\ Preds(ed2, Target(K2[m + 1], fs2[m + 1])) = Incoming(K2[m + 1], fs2[m + 1])
            /\ Target(K2[m + 1], fs2[m + 1]) \notin 1 .. fl.made
      BY <3>1, <3>2, <3>3 DEF Incoming
    <3> QED
      BY <3>4, <3>5, <3>6, <1>1, <1>6, OpenArrows
  <2> QED
    BY <1>1, <1>4, <1>6, <2>1, <2>3, <2>6, <2>7 DEF Built
<1> QED
  BY <1>5, <1>6

LEMMA ArrowsOneMore ==
  ASSUME NEW m \in Nat, NEW K, NEW fs, NEW K2, NEW fs2, NEW ed, NEW ph,
         Arrows(m, K, fs, ed, ph), Same(m, K, fs, K2, fs2),
         K2[m + 1] # "var" =>
           /\ Preds(ed, Target(K2[m + 1], fs2[m + 1])) = Incoming(K2[m + 1], fs2[m + 1])
           /\ \A p \in ph : p.at # Target(K2[m + 1], fs2[m + 1])
  PROVE  Arrows(m + 1, K2, fs2, ed, ph)
<1>1. \A i \in 1 .. m + 1 : i \in 1 .. m \/ i = m + 1
  OBVIOUS
<1> QED
  BY <1>1 DEF Arrows, Same

LEMMA SwapHome ==
  ASSUME NEW m \in Nat, NEW K, NEW fs, NEW fl, NEW K2, NEW fs2, NEW fl2, NEW ed, NEW ph,
         Home(m + 1, K, fs, fl, ed, ph), Same(m, K, fs, K2, fs2),
         fs2[m + 1].first = fs[m + 1].first, fs2[m + 1].last = fs[m + 1].last,
         K[m + 1] = "var" <=> K2[m + 1] = "var",
         K[m + 1] = "var" => fl2.block = fl.block
  PROVE  Home(m + 1, K2, fs2, fl2, ed, ph)
<1>1. /\ m + 1 \in 1 .. m + 1
      /\ \A i \in 1 .. m + 1 : i \in 1 .. m \/ i = m + 1
      /\ \A i \in 1 .. m : i \in 1 .. m + 1
      /\ \A i \in 1 .. m + 1 : \A j \in 1 .. i - 1 : j \in 1 .. m
  OBVIOUS
<1>2. \A i \in 1 .. m + 1 : /\ K2[i] # "var" <=> K[i] # "var"
                            /\ fs2[i].first = fs[i].first /\ fs2[i].last = fs[i].last
  BY <1>1 DEF Same
<1>3. fl2.block = 1 \/ \E j \in 1 .. m + 1 : K2[j] # "var"
  <2>1. fl.block = 1 \/ \E j \in 1 .. m + 1 : K[j] # "var"
    BY DEF Home
  <2> QED
    BY <2>1, <1>1, <1>2
<1>4. ASSUME NEW i \in 1 .. m + 1, K2[i] # "var"
      PROVE  /\ fs2[i].last < fs2[i].first
             /\ fs2[i].last = 1 \/ \E j \in 1 .. i - 1 : K2[j] # "var"
  <2>1. /\ fs[i].last < fs[i].first
        /\ fs[i].last = 1 \/ \E j \in 1 .. i - 1 : K[j] # "var"
    BY <1>2, <1>4 DEF Home
  <2> QED
    BY <2>1, <1>1, <1>2
<1> QED
  BY <1>3, <1>4 DEF Home

LEMMA ElseBuilds ==
  ASSUME NEW b, NEW m \in Nat, NEW K, NEW fs, NEW fl, NEW ed, NEW ph, NEW K2, NEW fs2, NEW fl2, NEW ed2,
         Built(b, m + 1, K, fs, fl, ed, ph), Same(m, K, fs, K2, fs2),
         K[m + 1] = "then", K2[m + 1] = "else", fs2[m + 1].first = fs[m + 1].first,
         fl2 = At(Terminated(fl), fs[m + 1].first + 1, 0),
         IF b = "Berlin"
         THEN fs2[m + 1].last = fs[m + 1].last /\ ed2 = ed
         ELSE fs2[m + 1].last = fl.block /\ ed2 = ed \union {<<fl.block, fs[m + 1].first + 2>>}
  PROVE  Built(b, m + 1, K2, fs2, fl2, ed2, ph)
<1>1. Blocks(fl) /\ Drawn(fl, ed, ph) /\ Match(ed, ph) /\ Layout(b, m + 1, K, fs, fl)
  BY DEF Built
<1>2. PICK n \in Nat : n = fl.made
  BY <1>1 DEF Blocks, Flows
<1>3. fl.block \in Nat /\ fl.block \in 1 .. n /\ fl.ended \subseteq 1 .. n
  BY <1>1, <1>2 DEF Blocks, Flows
<1>4. m + 1 \in 1 .. m + 1 /\ Spans(m + 1, K, fs)
  BY DEF Built
<1>5. PICK f \in Nat, l \in Nat : f = fs[m + 1].first /\ l = fs[m + 1].last
  BY <1>4 DEF Spans
<1>6. Spans(m + 1, K2, fs2)
  <2>1. Spans(m, K, fs) /\ K2[m + 1] \in Kinds /\ fs2[m + 1].first \in Nat /\ fs2[m + 1].last \in Nat
    BY <1>3, <1>4, <1>5 DEF Spans, Kinds
  <2> QED
    BY <2>1, SpansOneMore
<1>7. \A x \in Nat : Awaits(b, "then", fs[m + 1], x) => x \in 1 .. n
  BY <1>1, <1>2, <1>4 DEF Layout, Owns
<1>8. f + 1 \in 1 .. n
  BY <1>5, <1>7 DEF Awaits
<1>9. Blocks(fl2) /\ fl2.block = f + 1 /\ fl2.made = n /\ fl2.ended = fl.ended \union {fl.block}
  <2>1. PICK x \in Nat, k \in Nat :
          x = f + 1 /\ k = 0 /\ x \in 1 .. fl.made + k /\ fl2 = At(Terminated(fl), x, k)
    BY <1>2, <1>5, <1>8
  <2>2. Ends(fl, fl2, x, k)
    BY <2>1, <1>1, FlowIs
  <2> QED
    BY <2>1, <2>2, <1>2 DEF Ends
<1>10. PICK t \in Nat : t = IF b = "Berlin" THEN l ELSE f + 2
  OBVIOUS
<1>11. t # f + 1
  BY <1>4, <1>5, <1>10 DEF Built, Home
<1>12. \A x \in Nat :
         /\ Awaits(b, K[m + 1], fs[m + 1], x) <=> x = f + 1 \/ x = t
         /\ Owns(b, K[m + 1], fs[m + 1], x) <=> x = f + 1 \/ x = t
         /\ Awaits(b, K2[m + 1], fs2[m + 1], x) <=> x = t
         /\ Owns(b, K2[m + 1], fs2[m + 1], x) <=> x = t
  BY <1>5, <1>10 DEF Awaits, Owns
<1>13. Layout(b, m + 1, K2, fs2, fl2)
  <2>1. fl.made = fl2.made /\ Awaits(b, K[m + 1], fs[m + 1], fl2.block)
    BY <1>2, <1>9, <1>12
  <2>2. \A x \in Nat : Owns(b, K2[m + 1], fs2[m + 1], x) => Owns(b, K[m + 1], fs[m + 1], x)
    BY <1>12
  <2>3. ~Awaits(b, K2[m + 1], fs2[m + 1], fl2.block)
    BY <1>9, <1>11, <1>12
  <2>4. \A x \in 1 .. fl2.made : x \notin fl2.ended <=>
          \/ /\ x \notin fl.ended /\ x # fl.block
             /\ ~Awaits(b, K[m + 1], fs[m + 1], x)
          \/ x = fl2.block \/ Awaits(b, K2[m + 1], fs2[m + 1], x)
    <3> TAKE x \in 1 .. fl2.made
    <3>1. \A y \in Nat : Awaits(b, K[m + 1], fs[m + 1], y) => y \in 1 .. n /\ y \notin fl.ended /\ y # fl.block
      BY <1>1, <1>2, <1>4 DEF Layout, Owns
    <3>2. /\ f + 1 \notin fl.ended /\ f + 1 # fl.block
          /\ t \notin fl.ended /\ t # fl.block
      BY <3>1, <1>12
    <3> QED
      BY <3>2, <1>9, <1>12
  <2> QED
    BY <2>1, <2>2, <2>3, <2>4, <1>1, <1>9, SwapLayout
<1>14. CASE b = "Berlin"
  <2>1. Home(m + 1, K2, fs2, fl2, ed, ph)
    <3>1. Home(m + 1, K, fs, fl, ed, ph)
      BY <1>14 DEF Built
    <3> QED
      BY <3>1, <1>14, SwapHome
  <2>2. Drawn(fl2, ed, ph)
    <3>1. ed = {} /\ ph = {}
      BY <2>1 DEF Home
    <3> QED
      BY <3>1 DEF Drawn
  <2> QED
    BY <2>1, <2>2, <1>1, <1>6, <1>9, <1>13, <1>14 DEF Built
<1>15. CASE b # "Berlin"
  <2>1. t = f + 2 /\ t \in 1 .. n
    BY <1>7, <1>10, <1>12, <1>15
  <2>2. Adds(ed, ed2, fl.block, t)
    BY <2>1, <1>5, <1>15 DEF Adds
  <2>3. /\ Preds(ed2, t) = Preds(ed, t) \union {fl.block}
        /\ \A x : x # t => Preds(ed2, x) = Preds(ed, x)
    BY <2>2, PredsAdd
  <2>4. /\ Target(K[m + 1], fs[m + 1]) = t /\ Target(K2[m + 1], fs2[m + 1]) = t
        /\ Incoming(K2[m + 1], fs2[m + 1]) = {fl.block} /\ Incoming(K[m + 1], fs[m + 1]) = {}
    BY <2>1, <1>5, <1>15 DEF Target, Incoming
  <2>5. Arrows(m + 1, K, fs, ed, ph)
    BY <1>15 DEF Built
  <2>6. Preds(ed, t) = {} /\ \A p \in ph : p.at # t
    BY <2>4, <2>5, <1>4 DEF Arrows
  <2>7. Arrows(m, K, fs, ed2, ph) /\ Match(ed2, ph)
    <3>1. /\ \A x \in 1 .. fl.made : x # t => Preds(ed2, x) = Preds(ed, x)
          /\ \A p \in ph : p \in ph \/ (p.at = t /\ p.from = Preds(ed2, t))
          /\ K[m + 1] # "var" /\ t = Target(K[m + 1], fs[m + 1])
      BY <2>3, <2>4
    <3> QED
      BY <3>1, <2>5, <1>1, <1>4, <1>15, OtherArrows
  <2>8. Arrows(m + 1, K2, fs2, ed2, ph)
    <3>1. Preds(ed2, t) = {fl.block}
      BY <2>3, <2>6
    <3> QED
      BY <3>1, <2>4, <2>6, <2>7, ArrowsOneMore
  <2>9. Drawn(fl2, ed2, ph)
    BY <2>1, <2>2, <1>1, <1>2, <1>3, <1>9 DEF Drawn, Adds
  <2> QED
    BY <2>7, <2>8, <2>9, <1>6, <1>9, <1>13, <1>15 DEF Built
<1> QED
  BY <1>14, <1>15

LEMMA SpansOneLess ==
  ASSUME NEW m \in Nat, NEW K, NEW fs, NEW K2, NEW fs2, Spans(m + 1, K, fs), Same(m, K, fs, K2, fs2)
  PROVE  Spans(m, K2, fs2)
<1>1. \A i \in 1 .. m : i \in 1 .. m + 1
  OBVIOUS
<1> QED
  BY <1>1 DEF Spans, Same

(* The back ends whose constructs have no merge block return to the block  *)
(* they came from.                                                         *)
LEMMA ReturnBuilds ==
  ASSUME NEW m \in Nat, NEW K, NEW fs, NEW fl, NEW ed, NEW ph, NEW K2, NEW fs2, NEW fl2,
         Built("Berlin", m + 1, K, fs, fl, ed, ph), Same(m, K, fs, K2, fs2),
         K[m + 1] \in {"else", "loop"}, fl2 = At(Terminated(fl), fs[m + 1].last, 0)
  PROVE  Built("Berlin", m, K2, fs2, fl2, ed, ph)
<1>1. /\ Blocks(fl) /\ Drawn(fl, ed, ph) /\ Match(ed, ph) /\ Layout("Berlin", m + 1, K, fs, fl)
      /\ Home(m + 1, K, fs, fl, ed, ph)
  BY DEF Built
<1>2. PICK n \in Nat : n = fl.made
  BY <1>1 DEF Blocks, Flows
<1>3. fl.block \in Nat /\ fl.block \in 1 .. n /\ fl.ended \subseteq 1 .. n
  BY <1>1, <1>2 DEF Blocks, Flows
<1>4. m + 1 \in 1 .. m + 1 /\ Spans(m + 1, K, fs)
  BY DEF Built
<1>5. PICK l \in Nat : l = fs[m + 1].last
  BY <1>4 DEF Spans
<1>6. \A x \in Nat : Awaits("Berlin", K[m + 1], fs[m + 1], x) <=> x = l
  BY <1>5 DEF Awaits
<1>7. l \in 1 .. n /\ l \notin fl.ended /\ l # fl.block
  <2>1. Awaits("Berlin", K[m + 1], fs[m + 1], l)
    BY <1>6
  <2>2. l \in 1 .. n
    BY <2>1, <1>1, <1>2, <1>4 DEF Layout, Owns
  <2> QED
    BY <2>1, <2>2, <1>1, <1>2, <1>4 DEF Layout
<1>8. Blocks(fl2) /\ fl2.block = l /\ fl2.made = n /\ fl2.ended = fl.ended \union {fl.block}
  <2>1. PICK x \in Nat, k \in Nat :
          x = l /\ k = 0 /\ x \in 1 .. fl.made + k /\ fl2 = At(Terminated(fl), x, k)
    BY <1>2, <1>5, <1>7
  <2>2. Ends(fl, fl2, x, k)
    BY <2>1, <1>1, FlowIs
  <2> QED
    BY <2>1, <2>2, <1>2 DEF Ends
<1>9. Layout("Berlin", m, K2, fs2, fl2)
  <2>1. fl.made <= fl2.made /\ Awaits("Berlin", K[m + 1], fs[m + 1], fl2.block)
    BY <1>2, <1>6, <1>8
  <2>2. \A x \in 1 .. fl2.made : x \notin fl2.ended <=>
          \/ /\ x \in 1 .. fl.made /\ x \notin fl.ended /\ x # fl.block
             /\ ~Awaits("Berlin", K[m + 1], fs[m + 1], x)
          \/ x = fl2.block
    BY <1>2, <1>6, <1>7, <1>8
  <2> QED
    BY <2>1, <2>2, <1>1, <1>8, CloseLayout
<1>10. Home(m, K2, fs2, fl2, ed, ph)
  <2>1. K[m + 1] # "var" /\ fl2.block = fs[m + 1].last
    BY <1>5, <1>8
  <2> QED
    BY <2>1, <1>1, CloseHome
<1>11. Drawn(fl2, ed, ph)
  BY <1>10 DEF Drawn, Home
<1>12. Spans(m, K2, fs2)
  BY <1>4, SpansOneLess
<1> QED
  BY <1>1, <1>8, <1>9, <1>10, <1>11, <1>12 DEF Built

LEMMA ArrowsSame ==
  ASSUME NEW m \in Nat, NEW K, NEW fs, NEW K2, NEW fs2, NEW ed, NEW ph,
         Arrows(m, K, fs, ed, ph), Same(m, K, fs, K2, fs2)
  PROVE  Arrows(m, K2, fs2, ed, ph)
BY DEF Arrows, Same

LEMMA MergeBuilds ==
  ASSUME NEW b, b # "Berlin", NEW m \in Nat, NEW K, NEW fs, NEW fl, NEW ed, NEW ph,
         NEW K2, NEW fs2, NEW fl2, NEW ed2, NEW ph2,
         Built(b, m + 1, K, fs, fl, ed, ph), Same(m, K, fs, K2, fs2), K[m + 1] = "else",
         fl2 = At(Terminated(fl), fs[m + 1].first + 2, 0),
         Adds(ed, ed2, fl.block, fs[m + 1].first + 2),
         ph2 = ph \union {[at |-> fs[m + 1].first + 2, from |-> {fs[m + 1].last, fl.block}]}
  PROVE  Built(b, m, K2, fs2, fl2, ed2, ph2)
<1>1. /\ Blocks(fl) /\ Drawn(fl, ed, ph) /\ Match(ed, ph) /\ Layout(b, m + 1, K, fs, fl)
      /\ Arrows(m + 1, K, fs, ed, ph)
  BY DEF Built
<1>2. PICK n \in Nat : n = fl.made
  BY <1>1 DEF Blocks, Flows
<1>3. fl.block \in Nat /\ fl.block \in 1 .. n /\ fl.ended \subseteq 1 .. n
  BY <1>1, <1>2 DEF Blocks, Flows
<1>4. m + 1 \in 1 .. m + 1 /\ Spans(m + 1, K, fs)
  BY DEF Built
<1>5. PICK t \in Nat, l \in Nat : t = fs[m + 1].first + 2 /\ l = fs[m + 1].last
  BY <1>4 DEF Spans
<1>6. \A x \in Nat : Awaits(b, K[m + 1], fs[m + 1], x) <=> x = t
  BY <1>5 DEF Awaits
<1>7. t \in 1 .. n /\ t \notin fl.ended /\ t # fl.block
  <2>1. Awaits(b, K[m + 1], fs[m + 1], t)
    BY <1>6
  <2>2. t \in 1 .. n
    BY <2>1, <1>1, <1>2, <1>4 DEF Layout, Owns
  <2> QED
    BY <2>1, <2>2, <1>1, <1>2, <1>4 DEF Layout
<1>8. Blocks(fl2) /\ fl2.block = t /\ fl2.made = n /\ fl2.ended = fl.ended \union {fl.block}
  <2>1. PICK x \in Nat, k \in Nat :
          x = t /\ k = 0 /\ x \in 1 .. fl.made + k /\ fl2 = At(Terminated(fl), x, k)
    BY <1>2, <1>5, <1>7
  <2>2. Ends(fl, fl2, x, k)
    BY <2>1, <1>1, FlowIs
  <2> QED
    BY <2>1, <2>2, <1>2 DEF Ends
<1>9. Layout(b, m, K2, fs2, fl2)
  <2>1. fl.made <= fl2.made /\ Awaits(b, K[m + 1], fs[m + 1], fl2.block)
    BY <1>2, <1>6, <1>8
  <2>2. \A x \in 1 .. fl2.made : x \notin fl2.ended <=>
          \/ /\ x \in 1 .. fl.made /\ x \notin fl.ended /\ x # fl.block
             /\ ~Awaits(b, K[m + 1], fs[m + 1], x)
          \/ x = fl2.block
    BY <1>2, <1>6, <1>7, <1>8
  <2> QED
    BY <2>1, <2>2, <1>1, <1>8, CloseLayout
<1>10. Adds(ed, ed2, fl.block, t)
  BY <1>5
<1>11. /\ Preds(ed2, t) = Preds(ed, t) \union {fl.block}
       /\ \A x : x # t => Preds(ed2, x) = Preds(ed, x)
  BY <1>10, PredsAdd
<1>12. /\ K[m + 1] # "var" /\ t = Target(K[m + 1], fs[m + 1])
       /\ Incoming(K[m + 1], fs[m + 1]) = {l}
  BY <1>5 DEF Target, Incoming
<1>13. Preds(ed, t) = {l}
  BY <1>1, <1>4, <1>12 DEF Arrows
<1>14. PICK q : q = [at |-> t, from |-> {l, fl.block}]
  OBVIOUS
<1>15. ph2 = ph \union {q} /\ q.at = t /\ q.from = {l, fl.block}
  BY <1>5, <1>14
<1>16. Arrows(m, K, fs, ed2, ph2) /\ Match(ed2, ph2)
  <2>1. Preds(ed2, t) = {l, fl.block}
    BY <1>11, <1>13
  <2>2. /\ \A x \in 1 .. fl.made : x # t => Preds(ed2, x) = Preds(ed, x)
        /\ \A p \in ph2 : p \in ph \/ (p.at = t /\ p.from = Preds(ed2, t))
    BY <2>1, <1>11, <1>15
  <2> QED
    BY <2>2, <1>1, <1>4, <1>12, OtherArrows
<1>17. Drawn(fl2, ed2, ph2)
  BY <1>1, <1>2, <1>3, <1>7, <1>8, <1>10, <1>15 DEF Drawn, Adds
<1>18. Spans(m, K2, fs2) /\ Arrows(m, K2, fs2, ed2, ph2)
  BY <1>4, <1>16, SpansOneLess, ArrowsSame
<1> QED
  BY <1>8, <1>9, <1>16, <1>17, <1>18 DEF Built

(* Only Cairo's loops have a phi.                                          *)
LEMMA ExitBuilds ==
  ASSUME NEW b, b # "Berlin", NEW m \in Nat, NEW K, NEW fs, NEW fl, NEW ed, NEW ph,
         NEW K2, NEW fs2, NEW fl2, NEW ed2, NEW ph2,
         Built(b, m + 1, K, fs, fl, ed, ph), Same(m, K, fs, K2, fs2), K[m + 1] = "loop",
         fl2 = At(Terminated(fl), fl.made + 1, 1),
         AddsTwo(ed, ed2, fl.block, fs[m + 1].first, fl.made + 1),
         \/ ph2 = ph
         \/ ph2 = ph \union {[at |-> fs[m + 1].first, from |-> {fs[m + 1].last, fl.block}]}
  PROVE  Built(b, m, K2, fs2, fl2, ed2, ph2)
<1>1. /\ Blocks(fl) /\ Drawn(fl, ed, ph) /\ Match(ed, ph) /\ Layout(b, m + 1, K, fs, fl)
      /\ Arrows(m + 1, K, fs, ed, ph)
  BY DEF Built
<1>2. PICK n \in Nat : n = fl.made
  BY <1>1 DEF Blocks, Flows
<1>3. fl.block \in Nat /\ fl.block \in 1 .. n /\ fl.ended \subseteq 1 .. n
  BY <1>1, <1>2 DEF Blocks, Flows
<1>4. m + 1 \in 1 .. m + 1 /\ Spans(m + 1, K, fs)
  BY DEF Built
<1>5. PICK t \in Nat, l \in Nat : t = fs[m + 1].first /\ l = fs[m + 1].last
  BY <1>4 DEF Spans
<1>6. \A x \in Nat : /\ ~Awaits(b, K[m + 1], fs[m + 1], x)
                     /\ Owns(b, K[m + 1], fs[m + 1], x) <=> x = t
  BY <1>5 DEF Awaits, Owns
<1>7. t \in 1 .. n
  BY <1>1, <1>2, <1>4, <1>6 DEF Layout
<1>8. Blocks(fl2) /\ fl2.block = n + 1 /\ fl2.made = n + 1 /\ fl2.ended = fl.ended \union {fl.block}
  <2>1. PICK x \in Nat, k \in Nat :
          x = n + 1 /\ k = 1 /\ x \in 1 .. fl.made + k /\ fl2 = At(Terminated(fl), x, k)
    BY <1>2
  <2>2. Ends(fl, fl2, x, k)
    BY <2>1, <1>1, FlowIs
  <2> QED
    BY <2>1, <2>2, <1>2 DEF Ends
<1>9. Layout(b, m, K2, fs2, fl2)
  <2>1. fl.made <= fl2.made /\ fl2.block \notin 1 .. fl.made
    BY <1>2, <1>8
  <2>2. \A x \in 1 .. fl2.made : x \notin fl2.ended <=>
          \/ /\ x \in 1 .. fl.made /\ x \notin fl.ended /\ x # fl.block
             /\ ~Awaits(b, K[m + 1], fs[m + 1], x)
          \/ x = fl2.block
    <3> TAKE x \in 1 .. fl2.made
    <3>1. x \in 1 .. n \/ x = n + 1
      BY <1>8
    <3> QED
      BY <3>1, <1>2, <1>3, <1>6, <1>8
  <2> QED
    BY <2>1, <2>2, <1>1, <1>8, CloseLayout
<1>10. AddsTwo(ed, ed2, fl.block, t, n + 1) /\ t # n + 1
  BY <1>2, <1>5, <1>7
<1>11. /\ Preds(ed2, t) = Preds(ed, t) \union {fl.block}
       /\ \A x : x \notin {t, n + 1} => Preds(ed2, x) = Preds(ed, x)
  BY <1>10, PredsAddTwo
<1>12. /\ K[m + 1] # "var" /\ t = Target(K[m + 1], fs[m + 1])
       /\ Incoming(K[m + 1], fs[m + 1]) = {l}
  BY <1>5 DEF Target, Incoming
<1>13. Preds(ed, t) = {l}
  BY <1>1, <1>4, <1>12 DEF Arrows
<1>14. PICK q : q = [at |-> t, from |-> {l, fl.block}]
  OBVIOUS
<1>15. q.at = t /\ q.from = {l, fl.block} /\ \A p \in ph2 : p \in ph \/ p = q
  BY <1>5, <1>14
<1>16. Arrows(m, K, fs, ed2, ph2) /\ Match(ed2, ph2)
  <2>1. Preds(ed2, t) = {l, fl.block}
    BY <1>11, <1>13
  <2>2. \A x \in 1 .. fl.made : x # t => Preds(ed2, x) = Preds(ed, x)
    <3>1. \A x \in 1 .. fl.made : x # n + 1
      BY <1>2
    <3> QED
      BY <3>1, <1>11
  <2>3. \A p \in ph2 : p \in ph \/ (p.at = t /\ p.from = Preds(ed2, t))
    BY <2>1, <1>15
  <2> QED
    BY <2>2, <2>3, <1>1, <1>4, <1>12, OtherArrows
<1>17. Drawn(fl2, ed2, ph2)
  <2>1. fl.block \in 1 .. n + 1 /\ t \in 1 .. n + 1 /\ n + 1 \in 1 .. n + 1
    BY <1>3, <1>7
  <2>2. \A e \in ed : e \in (1 .. n + 1) \X (1 .. n + 1)
    BY <1>1, <1>2 DEF Drawn
  <2>3. \A p \in ph2 : p.at \in 1 .. n + 1
    BY <2>1, <1>1, <1>2, <1>15 DEF Drawn
  <2> QED
    BY <2>1, <2>2, <2>3, <1>8, <1>10 DEF Drawn, AddsTwo
<1>18. Spans(m, K2, fs2) /\ Arrows(m, K2, fs2, ed2, ph2)
  BY <1>4, <1>16, SpansOneLess, ArrowsSame
<1> QED
  BY <1>8, <1>9, <1>16, <1>17, <1>18 DEF Built

(* The frame of a var has no blocks.                                       *)
LEMMA VarBuilds ==
  ASSUME NEW b, NEW m \in Nat, NEW K, NEW fs, NEW fl, NEW ed, NEW ph, NEW K2, NEW fs2,
         Built(b, m, K, fs, fl, ed, ph), Same(m, K, fs, K2, fs2),
         K2[m + 1] = "var", fs2[m + 1].first \in Nat, fs2[m + 1].last \in Nat
  PROVE  Built(b, m + 1, K2, fs2, fl, ed, ph)
<1>1. Blocks(fl) /\ Drawn(fl, ed, ph) /\ Match(ed, ph) /\ Layout(b, m, K, fs, fl) /\ Spans(m, K, fs)
  BY DEF Built
<1>2. Spans(m + 1, K2, fs2)
  BY <1>1, SpansOneMore DEF Kinds
<1>3. \A x \in Nat : ~Awaits(b, K2[m + 1], fs2[m + 1], x) /\ ~Owns(b, K2[m + 1], fs2[m + 1], x)
  BY DEF Awaits, Owns
<1>4. fl.block \in Nat /\ fl.block \in 1 .. fl.made /\ fl.made \in Nat
  BY <1>1 DEF Blocks, Flows
<1>5. Layout(b, m + 1, K2, fs2, fl)
  <2>1. fl.block \notin fl.ended
    BY <1>1, <1>4 DEF Layout
  <2>2. \A x \in 1 .. fl.made : x \notin fl.ended <=>
          \/ x \in 1 .. fl.made /\ x \notin fl.ended /\ x # fl.block
          \/ x = fl.block \/ Awaits(b, K2[m + 1], fs2[m + 1], x)
    BY <2>1, <1>3, <1>4
  <2>3. /\ fl.made <= fl.made /\ (fl.block \notin 1 .. fl.made \/ fl.block = fl.block)
        /\ ~Awaits(b, K2[m + 1], fs2[m + 1], fl.block)
    BY <1>3, <1>4
  <2>4. \A x \in Nat : Owns(b, K2[m + 1], fs2[m + 1], x) =>
          x \in 1 .. fl.made /\ (x \notin 1 .. fl.made \/ (b = "Berlin" /\ x = fl.block))
    BY <1>3
  <2> QED
    BY <2>2, <2>3, <2>4, <1>1, OpenLayout
<1>6. b # "Berlin" => Arrows(m + 1, K2, fs2, ed, ph)
  BY ArrowsOneMore DEF Built
<1>7. b = "Berlin" => Home(m + 1, K2, fs2, fl, ed, ph)
  BY OpenHome DEF Built
<1> QED
  BY <1>1, <1>2, <1>5, <1>6, <1>7 DEF Built

LEMMA RestoreBuilds ==
  ASSUME NEW b, NEW m \in Nat, NEW K, NEW fs, NEW fl, NEW ed, NEW ph, NEW K2, NEW fs2,
         Built(b, m + 1, K, fs, fl, ed, ph), Same(m, K, fs, K2, fs2), K[m + 1] = "var"
  PROVE  Built(b, m, K2, fs2, fl, ed, ph)
<1>1. /\ Blocks(fl) /\ Drawn(fl, ed, ph) /\ Match(ed, ph)
      /\ Layout(b, m + 1, K, fs, fl) /\ Spans(m + 1, K, fs)
  BY DEF Built
<1>2. Spans(m, K2, fs2)
  BY <1>1, SpansOneLess
<1>3. \A x \in Nat : ~Awaits(b, K[m + 1], fs[m + 1], x)
  BY DEF Awaits
<1>4. fl.block \in Nat /\ fl.block \in 1 .. fl.made /\ fl.made \in Nat
  BY <1>1 DEF Blocks, Flows
<1>5. Layout(b, m, K2, fs2, fl)
  <2>1. fl.block \notin fl.ended
    BY <1>1, <1>4 DEF Layout
  <2>2. \A x \in 1 .. fl.made : x \notin fl.ended <=>
          \/ /\ x \in 1 .. fl.made /\ x \notin fl.ended /\ x # fl.block
             /\ ~Awaits(b, K[m + 1], fs[m + 1], x)
          \/ x = fl.block
    BY <2>1, <1>3, <1>4
  <2>3. fl.made <= fl.made /\ fl.block = fl.block
    BY <1>4
  <2> QED
    BY <2>2, <2>3, <1>1, CloseLayout
<1>6. b # "Berlin" => Arrows(m, K2, fs2, ed, ph)
  <2>1. \A i \in 1 .. m : i \in 1 .. m + 1
    OBVIOUS
  <2> QED
    BY <2>1 DEF Built, Arrows, Same
<1>7. b = "Berlin" => Home(m, K2, fs2, fl, ed, ph)
  BY CloseHome DEF Built
<1> QED
  BY <1>1, <1>2, <1>5, <1>6, <1>7 DEF Built

LEMMA BindBuilds ==
  ASSUME NEW b, NEW m \in Nat, NEW K, NEW fs, NEW fl, NEW ed, NEW ph, NEW fs2,
         Built(b, m, K, fs, fl, ed, ph),
         \A i \in 1 .. m : fs2[i].first = fs[i].first /\ fs2[i].last = fs[i].last
  PROVE  Built(b, m, K, fs2, fl, ed, ph)
<1>1. /\ Blocks(fl) /\ Drawn(fl, ed, ph) /\ Match(ed, ph)
      /\ Layout(b, m, K, fs, fl) /\ Spans(m, K, fs)
  BY DEF Built
<1>2. Spans(m, K, fs2)
  BY <1>1 DEF Spans
<1>3. \A i \in 1 .. m : \A x :
        /\ Awaits(b, K[i], fs2[i], x) <=> Awaits(b, K[i], fs[i], x)
        /\ Owns(b, K[i], fs2[i], x) <=> Owns(b, K[i], fs[i], x)
  BY DEF Awaits, Owns
<1>4. Layout(b, m, K, fs2, fl)
  BY <1>1, <1>3 DEF Layout
<1>5. ASSUME b # "Berlin" PROVE Arrows(m, K, fs2, ed, ph)
  <2>1. Arrows(m, K, fs, ed, ph)
    BY <1>5 DEF Built
  <2>2. \A i \in 1 .. m : /\ Target(K[i], fs2[i]) = Target(K[i], fs[i])
                          /\ Incoming(K[i], fs2[i]) = Incoming(K[i], fs[i])
    BY DEF Target, Incoming
  <2> QED
    BY <2>1, <2>2 DEF Arrows
<1>6. ASSUME b = "Berlin" PROVE Home(m, K, fs2, fl, ed, ph)
  BY <1>6 DEF Built, Home
<1> QED
  BY <1>1, <1>2, <1>4, <1>5, <1>6 DEF Built

-----------------------------------------------------------------------------
(* The table of names.                                                     *)
LEMMA SlotIs ==
  ASSUME NEW f \in Nat \ {0}, NEW p \in Seq(Nat)
  PROVE  <<f, p>> \in Slots(f) /\ Null \in Slots(f)
BY DEF Slots

LEMMA SlotsGrow ==
  ASSUME NEW f \in Nat
  PROVE  Slots(f) \subseteq Slots(f + 1)
<1>1. 1 .. f \subseteq 1 .. f + 1
  OBVIOUS
<1> QED
  BY <1>1 DEF Slots

LEMMA LenIs ==
  ASSUME NEW S, NEW n \in Nat, NEW s \in [1 .. n -> S]
  PROVE  Len(s) = n
<1>1. s \in Seq(S)
  BY SeqDef
<1>2. /\ Len(s) \in Nat
      /\ DOMAIN s = 1 .. Len(s)
  BY <1>1, LenProperties
<1> QED
  BY <1>2

LEMMA KeysAre ==
  ASSUME NEW f, f.params \in Seq(Names), f.declared \in Seq(Names), backend \in Backends
  PROVE  Len(Keys(f)) \in Nat
<1>1. \A ps \in Seq(Names) : \A slots : Len(ArgNames(ps, slots)) \in Nat
  <2> TAKE ps \in Seq(Names)
  <2> TAKE slots
  <2>1. PICK n \in Nat : n = Len(ps)
    BY LenProperties
  <2> DEFINE upTo == CHOOSE u : u = [k \in 0 .. Len(ps) |->
                       IF k = 0 THEN Unnamed(slots) ELSE Argument(u[k - 1], ps[k], slots)]
  <2>2. ArgNames(ps, slots) = [k \in 1 .. Len(ps) |-> upTo[k].name]
    BY DEF ArgNames
  <2> HIDE DEF upTo
  <2>3. PICK ns : ns = [k \in 1 .. n |-> upTo[k].name]
    OBVIOUS
  <2>4. PICK S : S = {upTo[k].name : k \in 1 .. n}
    OBVIOUS
  <2>5. ns \in [1 .. n -> S]
    BY <2>3, <2>4
  <2>6. Len(ns) = n
    BY <2>1, <2>5, LenIs
  <2> QED
    BY <2>1, <2>2, <2>3, <2>6
<1>2. Len(f.params) \in Nat
  BY LenProperties
<1>3. backend \in {"Athens", "Berlin", "Cairo"}
  BY CodegenAssumption
<1> QED
  BY <1>1, <1>2, <1>3 DEF Keys

LEMMA ParametersAre ==
  ASSUME NEW f, f.params \in Seq(Names), f.declared \in Seq(Names), backend \in Backends,
         NEW i \in Nat \ {0}
  PROVE  Parameters(f, i) \in [Names -> Slots(i)]
<1>1. PICK n \in Nat : n = Len(Keys(f))
  BY KeysAre
<1>2. ASSUME NEW x \in Names, NEW at, at = {k \in 1 .. n : Keys(f)[k] = x}
      PROVE  (IF at = {} THEN Null ELSE <<i, <<0, CHOOSE k \in at : \A j \in at : j <= k>>>>) \in Slots(i)
  <2>1. CASE at = {}
    BY <2>1 DEF Slots
  <2>2. CASE at # {}
    <3>1. PICK k : k = CHOOSE l \in at : \A j \in at : j <= l
      OBVIOUS
    <3>2. \E m \in at : \A j \in at : j <= m
      <4>1. at \subseteq 0 .. n
        BY <1>2
      <4> QED
        BY <4>1, <2>2, GreatestExists
    <3>3. k \in at
      BY <3>1, <3>2
    <3>4. k \in Nat /\ 0 \in Nat
      BY <3>3, <1>2
    <3>5. <<0, k>> \in Seq(Nat)
      BY <3>4
    <3>6. <<i, <<0, k>>>> \in Slots(i)
      BY <3>5, SlotIs
    <3> QED
      BY <2>2, <3>1, <3>6
  <2> QED
    BY <2>1, <2>2
<1> QED
  BY <1>1, <1>2 DEF Parameters

LEMMA FrameIs ==
  ASSUME NEW f, NEW a \in Nat, NEW l \in Nat, NEW old \in Seq([name : Names, slot : Slots(f)])
  PROVE  /\ Frame(a, l, old) \in Frames(f)
         /\ Frame(a, l, old).first = a /\ Frame(a, l, old).last = l /\ Frame(a, l, old).old = old
BY DEF Frame, Frames

LEMMA EmptyFrameIs ==
  ASSUME NEW f, NEW a \in Nat, NEW l \in Nat
  PROVE  /\ Frame(a, l, <<>>) \in Frames(f)
         /\ Frame(a, l, <<>>).first = a /\ Frame(a, l, <<>>).last = l
BY DEF Frame, Frames

LEMMA OldIs ==
  ASSUME NEW f, NEW s \in Frames(f), NEW i \in 1 .. Len(s.old)
  PROVE  s.old[i].name \in Names /\ s.old[i].slot \in Slots(f)
<1>1. s.old \in Seq([name : Names, slot : Slots(f)])
  BY DEF Frames
<1>2. s.old[i] \in [name : Names, slot : Slots(f)]
  BY <1>1, ElementOfSeq
<1> QED
  BY <1>2

LEMMA RestoredIs ==
  ASSUME NEW f, table \in [Names -> Slots(f)], NEW s \in Frames(f)
  PROVE  Restored(s.old) \in [Names -> Slots(f)]
<1>1. s.old \in Seq([name : Names, slot : Slots(f)])
  BY DEF Frames
<1>2. PICK n \in Nat : n = Len(s.old)
  BY <1>1, LenProperties
<1>3. ASSUME NEW x \in Names, NEW at, at = {k \in 1 .. n : s.old[k].name = x}
      PROVE  (IF at = {} THEN table[x]
              ELSE s.old[CHOOSE k \in at : \A j \in at : j <= k].slot) \in Slots(f)
  <2>1. CASE at = {}
    BY <2>1
  <2>2. CASE at # {}
    <3>1. PICK k : k = CHOOSE l \in at : \A j \in at : j <= l
      OBVIOUS
    <3>2. \E m \in at : \A j \in at : j <= m
      <4>1. at \subseteq 0 .. n
        BY <1>3
      <4> QED
        BY <4>1, <2>2, GreatestExists
    <3>3. k \in at
      BY <3>1, <3>2
    <3>4. k \in 1 .. Len(s.old)
      BY <3>3, <1>2, <1>3
    <3>5. s.old[k].slot \in Slots(f)
      BY <3>4, OldIs
    <3> QED
      BY <2>2, <3>1, <3>5
  <2> QED
    BY <2>1, <2>2
<1> QED
  BY <1>2, <1>3 DEF Restored

-----------------------------------------------------------------------------
(* The invariant: K is the constructs that run, from the outermost in; the *)
(* rest of the walk leads out of all of them, and what they keep fits the  *)
(* blocks that are there.                                                  *)
Fits(K) ==
  /\ K \in Stacks /\ Len(K) = Len(saved) /\ Leads(todo, K, <<>>)
  /\ \A i \in 1 .. Len(K) : K[i] = "loop" => Len(saved[i].old) = 1
Running(K) == Fits(K) /\ Built(backend, Len(K), K, saved, flow, edges, phis)

CodegenInv ==
  /\ Data
  /\ Blocks(flow) /\ Drawn(flow, edges, phis) /\ Match(edges, phis)
  /\ status = "running" => \E K \in Stacks : Running(K)
  /\ status = "done" => /\ flow.ended = 1 .. flow.made
                        /\ backend = "Berlin" => flow.block = 1

LEMMA TurnIs ==
  ASSUME Data, todo # <<>>, NEW K \in Stacks, Fits(K)
  PROVE  \E r \in Stacks : Turns(K, todo[1].do, r) /\ Leads(Tail(todo), r, <<>>)
<1>1. todo \in Seq(Jobs) /\ <<>> \in Stacks /\ Leads(todo, K, <<>>)
  BY DEF Data, Stacks, Fits
<1> QED
  BY <1>1, LeadsFirst

(* Steps that only put tasks in front.                                     *)
LEMMA StraightStep ==
  ASSUME Data, Doing("gen") \/ Doing("store") \/ Doing("initialize"),
         NEW K \in Stacks, Running(K), Puts(K, K),
         Unscoped, Straight, UNCHANGED <<saved, status>>
  PROVE  Data' /\ Running(K)'
<1>1. todo # <<>> /\ todo[1].do \in {"gen", "store", "initialize"}
  BY DEF Doing
<1>2. PICK r \in Stacks : Turns(K, todo[1].do, r) /\ Leads(Tail(todo), r, <<>>)
  BY <1>1, TurnIs DEF Running
<1>3. r = K
  BY <1>1, <1>2 DEF Turns
<1>4. todo' \in Seq(Jobs) /\ Leads(todo', K, <<>>)
  BY <1>1, <1>2, <1>3, GoesOn
<1>5. Data'
  BY <1>4 DEF Data, Unscoped
<1>6. Running(K)'
  BY <1>4 DEF Running, Fits, Unscoped, Straight
<1> QED
  BY <1>5, <1>6

LEMMA AccessStep ==
  ASSUME Data, NEW x, NEW p, Access(x, p), Doing("gen") \/ Doing("store"), NEW K \in Stacks, Running(K)
  PROVE  \/ Fail
         \/ Data' /\ Running(K)' /\ Straight /\ status' = status /\ backend' = backend
<1>1. CASE Continue(<<>>) /\ Unscoped /\ Straight /\ UNCHANGED <<saved, status>>
  <2>1. Puts(K, K)
    BY <1>1, PutsNothing
  <2> QED
    BY <2>1, <1>1, StraightStep DEF Unscoped
<1> QED
  BY <1>1 DEF Access

(* Steps at which a construct begins, goes on or ends.                     *)
LEMMA TurnStep ==
  ASSUME Data, NEW K \in Stacks, Fits(K), NEW do, Doing(do), Continue(<<>>)
  PROVE  /\ todo' \in Seq(Jobs)
         /\ \E r \in Stacks : Turns(K, do, r) /\ Leads(todo', r, <<>>)
<1>1. todo # <<>> /\ todo[1].do = do
  BY DEF Doing
<1>2. PICK r \in Stacks : Turns(K, do, r) /\ Leads(Tail(todo), r, <<>>)
  BY <1>1, TurnIs
<1>3. todo' \in Seq(Jobs) /\ Leads(todo', r, <<>>)
  <2>1. Puts(r, r)
    BY PutsNothing
  <2> QED
    BY <2>1, <1>1, <1>2, GoesOn
<1> QED
  BY <1>2, <1>3

(* What a push, a swap and a pop do to the frames and to their kinds.      *)
LEMMA PushFrame ==
  ASSUME NEW S, NEW K \in Stacks, NEW fs \in Seq(S), Len(K) = Len(fs), NEW k \in Kinds, NEW s \in S
  PROVE  /\ Append(K, k) \in Stacks /\ Append(fs, s) \in Seq(S)
         /\ Len(K) \in Nat /\ Len(Append(K, k)) = Len(K) + 1 /\ Len(Append(fs, s)) = Len(K) + 1
         /\ Same(Len(K), K, fs, Append(K, k), Append(fs, s))
         /\ Append(K, k)[Len(K) + 1] = k /\ Append(fs, s)[Len(K) + 1] = s
<1>1. K \in Seq(Kinds)
  BY DEF Stacks
<1>2. /\ Append(K, k) \in Seq(Kinds) /\ Len(K) \in Nat /\ Len(Append(K, k)) = Len(K) + 1
      /\ \A i \in 1 .. Len(K) : Append(K, k)[i] = K[i]
      /\ Append(K, k)[Len(K) + 1] = k
  BY <1>1, PushIs
<1>3. /\ Append(fs, s) \in Seq(S) /\ Len(Append(fs, s)) = Len(fs) + 1
      /\ \A i \in 1 .. Len(fs) : Append(fs, s)[i] = fs[i]
      /\ Append(fs, s)[Len(fs) + 1] = s
  BY PushIs
<1> QED
  BY <1>2, <1>3 DEF Stacks, Same

LEMMA SwapFrame ==
  ASSUME NEW S, NEW K \in Stacks, NEW fs \in Seq(S), Len(K) = Len(fs), K # <<>>, NEW k \in Kinds, NEW s \in S
  PROVE  /\ Append(Cut(K), k) \in Stacks /\ Append(Cut(fs), s) \in Seq(S)
         /\ Len(Append(Cut(K), k)) = Len(K) /\ Len(Append(Cut(fs), s)) = Len(K)
         /\ Same(Len(K) - 1, K, fs, Append(Cut(K), k), Append(Cut(fs), s))
         /\ Append(Cut(K), k)[Len(K)] = k /\ Append(Cut(fs), s)[Len(K)] = s
<1>1. K \in Seq(Kinds) /\ Len(K) \in Nat \ {0}
  BY EmptySeq DEF Stacks
<1>2. fs # <<>>
  BY <1>1, EmptySeq
<1>3. /\ Append(Cut(K), k) \in Seq(Kinds) /\ Len(Append(Cut(K), k)) = Len(K)
      /\ \A i \in 1 .. Len(K) - 1 : Append(Cut(K), k)[i] = K[i]
      /\ Append(Cut(K), k)[Len(K)] = k
  BY <1>1, SwapIs
<1>4. /\ Append(Cut(fs), s) \in Seq(S) /\ Len(Append(Cut(fs), s)) = Len(fs)
      /\ \A i \in 1 .. Len(fs) - 1 : Append(Cut(fs), s)[i] = fs[i]
      /\ Append(Cut(fs), s)[Len(fs)] = s
  BY <1>2, SwapIs
<1> QED
  BY <1>3, <1>4 DEF Stacks, Same

LEMMA PopFrame ==
  ASSUME NEW S, NEW K \in Stacks, NEW fs \in Seq(S), Len(K) = Len(fs), K # <<>>
  PROVE  /\ Cut(K) \in Stacks /\ Cut(fs) \in Seq(S)
         /\ Len(K) \in Nat \ {0} /\ Len(Cut(K)) = Len(K) - 1 /\ Len(Cut(fs)) = Len(K) - 1
         /\ Same(Len(K) - 1, K, fs, Cut(K), Cut(fs))
<1>1. K \in Seq(Kinds) /\ Len(K) \in Nat \ {0}
  BY EmptySeq DEF Stacks
<1>2. fs # <<>>
  BY <1>1, EmptySeq
<1>3. Cut(K) \in Seq(Kinds) /\ Len(Cut(K)) = Len(K) - 1 /\ \A i \in 1 .. Len(K) - 1 : Cut(K)[i] = K[i]
  BY <1>1, CutIs
<1>4. Cut(fs) \in Seq(S) /\ Len(Cut(fs)) = Len(fs) - 1 /\ \A i \in 1 .. Len(fs) - 1 : Cut(fs)[i] = fs[i]
  BY <1>2, CutIs
<1> QED
  BY <1>1, <1>3, <1>4 DEF Stacks, Same

-----------------------------------------------------------------------------
(* The steps of the constructs.                                            *)
Runs == Data' /\ \E R \in Stacks : Running(R)'

LEMMA RunningIs ==
  ASSUME Data, NEW K \in Stacks, Running(K)
  PROVE  /\ Fits(K) /\ Built(backend, Len(K), K, saved, flow, edges, phis)
         /\ saved \in Seq(Frames(fn)) /\ Len(K) = Len(saved) /\ Len(K) \in Nat /\ fn \in Nat \ {0}
         /\ flow.block \in Nat /\ flow.made \in Nat
<1>1. Fits(K) /\ Built(backend, Len(K), K, saved, flow, edges, phis)
  BY DEF Running
<1>2. saved \in Seq(Frames(fn)) /\ Len(K) = Len(saved) /\ Len(K) \in Nat
  BY <1>1, LenProperties DEF Data, Fits
<1>3. fn \in Nat \ {0}
  <2>1. program \in Seq([kernel : BOOLEAN, params : Seq(Names), declared : Seq(Names), body : Trees])
    BY CodegenAssumption DEF Data
  <2>2. Len(program) \in Nat
    BY <2>1, LenProperties
  <2> QED
    BY <2>2 DEF Data
<1>4. flow.block \in Nat /\ flow.made \in Nat
  BY <1>1 DEF Built, Blocks, Flows
<1> QED
  BY <1>1, <1>2, <1>3, <1>4

LEMMA RunsWith ==
  ASSUME Data', NEW R \in Stacks, Len(R) = Len(saved'), Leads(todo', R, <<>>),
         \A i \in 1 .. Len(R) : R[i] = "loop" => Len(saved'[i].old) = 1,
         Built(backend', Len(R), R, saved', flow', edges', phis')
  PROVE  Runs
BY DEF Runs, Running, Fits

LEMMA BranchStep ==
  ASSUME Data, NEW K \in Stacks, Running(K), Branch
  PROVE  Runs
<1>1. /\ Fits(K) /\ Built(backend, Len(K), K, saved, flow, edges, phis)
      /\ saved \in Seq(Frames(fn)) /\ Len(K) = Len(saved) /\ fn \in Nat \ {0}
      /\ flow.block \in Nat /\ flow.made \in Nat
  BY RunningIs
<1>2. PICK m \in Nat : m = Len(K)
  BY RunningIs
<1>3. PICK R \in Stacks : Turns(K, "branch", R) /\ Leads(todo', R, <<>>) /\ todo' \in Seq(Jobs)
  BY <1>1, TurnStep DEF Branch
<1>4. R = Append(K, "then")
  BY <1>3 DEF Turns
<1>5. PICK s \in Frames(fn) :
        /\ s = Frame(flow.made + 1, flow.block, <<>>)
        /\ s.first = flow.made + 1 /\ s.last = flow.block
  <2>1. PICK a \in Nat, l \in Nat : a = flow.made + 1 /\ l = flow.block
    BY <1>1
  <2>2. Frame(a, l, <<>>) \in Frames(fn) /\ Frame(a, l, <<>>).first = a /\ Frame(a, l, <<>>).last = l
    BY EmptyFrameIs
  <2> QED
    BY <2>1, <2>2
<1>6. saved' = Append(saved, s)
  BY <1>5 DEF Branch
<1>7. /\ saved' \in Seq(Frames(fn)) /\ Len(R) = m + 1 /\ Len(saved') = m + 1
      /\ Same(m, K, saved, R, saved') /\ R[m + 1] = "then" /\ saved'[m + 1] = s
  BY <1>1, <1>2, <1>4, <1>6, PushFrame DEF Kinds
<1>8. Built(backend, m + 1, R, saved', flow', edges', phis)
  <2>1. /\ Built(backend, m, K, saved, flow, edges, phis)
        /\ saved'[m + 1].first = flow.made + 1 /\ saved'[m + 1].last = flow.block
    BY <1>1, <1>2, <1>5, <1>7
  <2>2. IF backend = "Berlin"
        THEN flow' = At(flow, flow.made + 1, 2) /\ edges' = edges
        ELSE /\ flow' = At(Terminated(flow), flow.made + 1, 3)
             /\ edges' = edges \union {<<flow.block, flow.made + 1>>, <<flow.block, flow.made + 1 + 1>>}
    BY DEF Branch
  <2> QED
    BY <2>1, <2>2, <1>7, BranchBuilds
<1>9. Data' /\ backend' = backend /\ phis' = phis
  BY <1>3, <1>7 DEF Data, Branch, Unscoped
<1>10. ASSUME NEW i \in 1 .. m + 1, R[i] = "loop" PROVE Len(saved'[i].old) = 1
  <2>1. i \in 1 .. m
    <3>1. i \in 1 .. m \/ i = m + 1
      OBVIOUS
    <3> QED
      BY <3>1, <1>7, <1>10
  <2> QED
    BY <2>1, <1>1, <1>2, <1>7, <1>10 DEF Same, Fits
<1> QED
  BY <1>3, <1>7, <1>8, <1>9, <1>10, RunsWith

LEMMA ElseStep ==
  ASSUME Data, NEW K \in Stacks, Running(K), Else
  PROVE  Runs
<1>1. /\ Fits(K) /\ Built(backend, Len(K), K, saved, flow, edges, phis)
      /\ saved \in Seq(Frames(fn)) /\ Len(K) = Len(saved) /\ fn \in Nat \ {0}
      /\ flow.block \in Nat /\ flow.made \in Nat
  BY RunningIs
<1>2. PICK R \in Stacks : Turns(K, "else", R) /\ Leads(todo', R, <<>>) /\ todo' \in Seq(Jobs)
  BY <1>1, TurnStep DEF Else
<1>3. EndsWith(K, "then") /\ R = Append(Cut(K), "else")
  BY <1>2 DEF Turns
<1>4. Len(K) \in Nat \ {0} /\ K # <<>>
  BY <1>1, <1>3, PopFrame DEF EndsWith
<1>5. PICK m \in Nat : m + 1 = Len(K) /\ Len(K) - 1 = m
  <2>1. Len(K) - 1 \in Nat /\ (Len(K) - 1) + 1 = Len(K)
    BY <1>4
  <2> QED
    BY <2>1
<1>6. Top = saved[m + 1] /\ Top \in Frames(fn) /\ Drop = Cut(saved)
  <2>1. m + 1 \in 1 .. Len(saved)
    BY <1>1, <1>5
  <2> QED
    BY <2>1, <1>1, <1>5, ElementOfSeq DEF Top, Drop, Cut
<1>7. PICK f \in Nat, l \in Nat : f = Top.first /\ l = Top.last
  BY <1>6 DEF Frames
<1>8. PICK s \in Frames(fn) : s = Frame(f, flow.block, <<>>) /\ s.first = f /\ s.last = flow.block
  <2>1. PICK n \in Nat : n = flow.block
    BY <1>1
  <2>2. Frame(f, n, <<>>) \in Frames(fn) /\ Frame(f, n, <<>>).first = f /\ Frame(f, n, <<>>).last = n
    BY EmptyFrameIs
  <2> QED
    BY <2>1, <2>2
<1>9. K[m + 1] = "then" /\ Built(backend, m + 1, K, saved, flow, edges, phis)
  BY <1>1, <1>3, <1>5 DEF EndsWith
<1>10. /\ flow' = At(Terminated(flow), saved[m + 1].first + 1, 0)
       /\ IF backend = "Berlin"
          THEN saved' = saved /\ edges' = edges
          ELSE saved' = Append(Cut(saved), s) /\ edges' = edges \union {<<flow.block, saved[m + 1].first + 2>>}
  BY <1>6, <1>7, <1>8 DEF Else, ThenEnd
<1>11. /\ saved' \in Seq(Frames(fn)) /\ Len(R) = m + 1 /\ Len(saved') = m + 1
       /\ Same(m, K, saved, R, saved') /\ R[m + 1] = "else"
       /\ saved'[m + 1].first = saved[m + 1].first
       /\ backend = "Berlin" => saved'[m + 1].last = saved[m + 1].last
       /\ backend # "Berlin" => saved'[m + 1].last = flow.block
  <2>1. \A q \in Frames(fn) :
          /\ Append(Cut(saved), q) \in Seq(Frames(fn)) /\ Len(R) = m + 1
          /\ Len(Append(Cut(saved), q)) = m + 1
          /\ Same(m, K, saved, R, Append(Cut(saved), q))
          /\ R[m + 1] = "else" /\ Append(Cut(saved), q)[m + 1] = q
    BY <1>1, <1>3, <1>4, <1>5, SwapFrame DEF Kinds
  <2>2. CASE backend = "Berlin"
    <3>1. Same(m, K, saved, R, saved)
      BY <2>1, <1>6 DEF Same
    <3> QED
      BY <2>1, <2>2, <3>1, <1>1, <1>5, <1>6, <1>10
  <2>3. CASE backend # "Berlin"
    BY <2>1, <2>3, <1>6, <1>7, <1>8, <1>10
  <2> QED
    BY <2>2, <2>3
<1>12. Built(backend, m + 1, R, saved', flow', edges', phis)
  <2>1. IF backend = "Berlin"
        THEN saved'[m + 1].last = saved[m + 1].last /\ edges' = edges
        ELSE /\ saved'[m + 1].last = flow.block
             /\ edges' = edges \union {<<flow.block, saved[m + 1].first + 2>>}
    BY <1>10, <1>11
  <2> QED
    BY <2>1, <1>9, <1>10, <1>11, ElseBuilds
<1>13. Data' /\ backend' = backend /\ phis' = phis
  BY <1>2, <1>11 DEF Data, Else, Unscoped
<1>14. ASSUME NEW i \in 1 .. m + 1, R[i] = "loop" PROVE Len(saved'[i].old) = 1
  <2>1. i \in 1 .. m /\ i \in 1 .. Len(K)
    <3>1. i \in 1 .. m \/ i = m + 1
      OBVIOUS
    <3> QED
      BY <3>1, <1>5, <1>11, <1>14
  <2> QED
    BY <2>1, <1>1, <1>11, <1>14 DEF Same, Fits
<1> QED
  BY <1>2, <1>11, <1>12, <1>13, <1>14, RunsWith

LEMMA MergeStep ==
  ASSUME Data, NEW K \in Stacks, Running(K), Merge
  PROVE  Runs
<1>1. /\ Fits(K) /\ Built(backend, Len(K), K, saved, flow, edges, phis)
      /\ saved \in Seq(Frames(fn)) /\ Len(K) = Len(saved) /\ fn \in Nat \ {0}
      /\ flow.block \in Nat /\ flow.made \in Nat
  BY RunningIs
<1>2. PICK R \in Stacks : Turns(K, "merge", R) /\ Leads(todo', R, <<>>) /\ todo' \in Seq(Jobs)
  BY <1>1, TurnStep DEF Merge
<1>3. EndsWith(K, "else") /\ R = Cut(K)
  BY <1>2 DEF Turns
<1>4. PICK m \in Nat :
        /\ m + 1 = Len(K) /\ Len(R) = m /\ Top = saved[m + 1] /\ saved' = Cut(saved)
        /\ saved' \in Seq(Frames(fn)) /\ Len(saved') = m /\ Same(m, K, saved, R, saved')
  <2>1. Drop = Cut(saved) /\ saved' = Drop
    BY DEF Drop, Cut, Merge
  <2>2. /\ Cut(saved) \in Seq(Frames(fn)) /\ Len(K) \in Nat \ {0}
        /\ Len(Cut(K)) = Len(K) - 1 /\ Len(Cut(saved)) = Len(K) - 1
        /\ Same(Len(K) - 1, K, saved, Cut(K), Cut(saved))
    BY <1>1, <1>3, PopFrame DEF EndsWith
  <2>3. PICK m \in Nat : m + 1 = Len(K) /\ Len(K) - 1 = m
    BY <2>2
  <2> QED
    BY <2>1, <2>2, <2>3, <1>1, <1>3 DEF Top
<1>5. K[m + 1] = "else" /\ Built(backend, m + 1, K, saved, flow, edges, phis)
  BY <1>1, <1>3, <1>4 DEF EndsWith
<1>6. Built(backend, m, R, saved', flow', edges', phis')
  <2>1. CASE backend = "Berlin"
    <3>1. flow' = At(Terminated(flow), saved[m + 1].last, 0) /\ edges' = edges /\ phis' = phis
      BY <2>1, <1>4 DEF Merge, AfterIf
    <3> QED
      BY <2>1, <3>1, <1>4, <1>5, ReturnBuilds
  <2>2. CASE backend # "Berlin"
    <3>1. /\ flow' = At(Terminated(flow), saved[m + 1].first + 2, 0)
          /\ edges' = edges \union {<<flow.block, saved[m + 1].first + 2>>}
          /\ phis' = phis \union {[at |-> saved[m + 1].first + 2, from |-> {saved[m + 1].last, flow.block}]}
      BY <2>2, <1>4 DEF Merge, AfterIf
    <3>2. Adds(edges, edges', flow.block, saved[m + 1].first + 2)
      BY <3>1 DEF Adds
    <3> QED
      BY <2>2, <3>1, <3>2, <1>4, <1>5, MergeBuilds
  <2> QED
    BY <2>1, <2>2
<1>7. Data' /\ backend' = backend
  BY <1>2, <1>4 DEF Data, Merge, Unscoped
<1>8. \A i \in 1 .. m : R[i] = "loop" => Len(saved'[i].old) = 1
  <2>1. \A i \in 1 .. m : i \in 1 .. Len(K)
    BY <1>4
  <2> QED
    BY <2>1, <1>1, <1>4 DEF Same, Fits
<1> QED
  BY <1>2, <1>4, <1>6, <1>7, <1>8, RunsWith

LEMMA EnterStep ==
  ASSUME Data, NEW K \in Stacks, Running(K), EnterLoop
  PROVE  Runs
<1>1. /\ Fits(K) /\ Built(backend, Len(K), K, saved, flow, edges, phis)
      /\ saved \in Seq(Frames(fn)) /\ Len(K) = Len(saved) /\ fn \in Nat \ {0}
      /\ flow.block \in Nat /\ flow.made \in Nat
  BY RunningIs
<1>2. PICK m \in Nat : m = Len(K)
  BY RunningIs
<1>3. PICK R \in Stacks : Turns(K, "enter", R) /\ Leads(todo', R, <<>>) /\ todo' \in Seq(Jobs)
  BY <1>1, TurnStep DEF EnterLoop
<1>4. R = Append(K, "loop")
  BY <1>3 DEF Turns
<1>5. T.name \in Names /\ P \in Seq(Nat)
  BY FirstJob, JobIs DEF EnterLoop, Doing, T, P
<1>6. table[T.name] \in Slots(fn) /\ Slot \in Slots(fn)
  BY <1>1, <1>5, SlotIs DEF Data, Slot
<1>7. PICK s \in Frames(fn) :
        /\ s = Frame(flow.made + 1, flow.block, <<[name |-> T.name, slot |-> table[T.name]]>>)
        /\ s.first = flow.made + 1 /\ s.last = flow.block /\ Len(s.old) = 1
  <2>1. PICK o : o = <<[name |-> T.name, slot |-> table[T.name]]>>
    OBVIOUS
  <2>2. o \in Seq([name : Names, slot : Slots(fn)]) /\ Len(o) = 1
    BY <2>1, <1>5, <1>6
  <2>3. PICK a \in Nat, l \in Nat : a = flow.made + 1 /\ l = flow.block
    BY <1>1
  <2>4. /\ Frame(a, l, o) \in Frames(fn)
        /\ Frame(a, l, o).first = a /\ Frame(a, l, o).last = l /\ Frame(a, l, o).old = o
    BY <2>2, FrameIs
  <2> QED
    BY <2>1, <2>2, <2>3, <2>4
<1>8. saved' = Append(saved, s)
  BY <1>7 DEF EnterLoop
<1>9. /\ saved' \in Seq(Frames(fn)) /\ Len(R) = m + 1 /\ Len(saved') = m + 1
      /\ Same(m, K, saved, R, saved') /\ R[m + 1] = "loop" /\ saved'[m + 1] = s
  BY <1>1, <1>2, <1>4, <1>8, PushFrame DEF Kinds
<1>10. Built(backend, m + 1, R, saved', flow', edges', phis)
  <2>1. /\ Built(backend, m, K, saved, flow, edges, phis)
        /\ saved'[m + 1].first = flow.made + 1 /\ saved'[m + 1].last = flow.block
    BY <1>1, <1>2, <1>7, <1>9
  <2>2. IF backend = "Berlin"
        THEN flow' = At(flow, flow.made + 1, 1) /\ edges' = edges
        ELSE /\ flow' = At(Terminated(flow), flow.made + 1, 1)
             /\ edges' = edges \union {<<flow.block, flow.made + 1>>}
    BY DEF EnterLoop
  <2> QED
    BY <2>1, <2>2, <1>9, EnterBuilds
<1>11. table' \in [Names -> Slots(fn)]
  BY <1>5, <1>6 DEF Data, EnterLoop
<1>12. Data' /\ backend' = backend /\ phis' = phis
  BY <1>3, <1>9, <1>11 DEF Data, EnterLoop
<1>13. ASSUME NEW i \in 1 .. m + 1, R[i] = "loop" PROVE Len(saved'[i].old) = 1
  <2>1. CASE i \in 1 .. m
    BY <2>1, <1>1, <1>2, <1>9, <1>13 DEF Same, Fits
  <2>2. CASE i = m + 1
    BY <2>2, <1>7, <1>9
  <2> QED
    BY <2>1, <2>2
<1> QED
  BY <1>3, <1>9, <1>10, <1>12, <1>13, RunsWith

LEMMA ExitStep ==
  ASSUME Data, NEW K \in Stacks, Running(K), ExitLoop
  PROVE  Runs
<1>1. /\ Fits(K) /\ Built(backend, Len(K), K, saved, flow, edges, phis)
      /\ saved \in Seq(Frames(fn)) /\ Len(K) = Len(saved) /\ fn \in Nat \ {0}
      /\ flow.block \in Nat /\ flow.made \in Nat
  BY RunningIs
<1>2. PICK R \in Stacks : Turns(K, "exit", R) /\ Leads(todo', R, <<>>) /\ todo' \in Seq(Jobs)
  BY <1>1, TurnStep DEF ExitLoop
<1>3. EndsWith(K, "loop") /\ R = Cut(K)
  BY <1>2 DEF Turns
<1>4. PICK m \in Nat :
        /\ m + 1 = Len(K) /\ Len(R) = m /\ Top = saved[m + 1] /\ saved' = Cut(saved)
        /\ saved' \in Seq(Frames(fn)) /\ Len(saved') = m /\ Same(m, K, saved, R, saved')
  <2>1. Drop = Cut(saved) /\ saved' = Drop
    BY DEF Drop, Cut, ExitLoop
  <2>2. /\ Cut(saved) \in Seq(Frames(fn)) /\ Len(K) \in Nat \ {0}
        /\ Len(Cut(K)) = Len(K) - 1 /\ Len(Cut(saved)) = Len(K) - 1
        /\ Same(Len(K) - 1, K, saved, Cut(K), Cut(saved))
    BY <1>1, <1>3, PopFrame DEF EndsWith
  <2>3. PICK m \in Nat : m + 1 = Len(K) /\ Len(K) - 1 = m
    BY <2>2
  <2> QED
    BY <2>1, <2>2, <2>3, <1>1, <1>3 DEF Top
<1>5. K[m + 1] = "loop" /\ Built(backend, m + 1, K, saved, flow, edges, phis)
  BY <1>1, <1>3, <1>4 DEF EndsWith
<1>6. Built(backend, m, R, saved', flow', edges', phis')
  <2>1. CASE backend = "Berlin"
    <3>1. flow' = At(Terminated(flow), saved[m + 1].last, 0) /\ edges' = edges /\ phis' = phis
      BY <2>1, <1>4 DEF ExitLoop
    <3> QED
      BY <2>1, <3>1, <1>4, <1>5, ReturnBuilds
  <2>2. CASE backend # "Berlin"
    <3>1. /\ flow' = At(Terminated(flow), flow.made + 1, 1)
          /\ edges' = edges \union {<<flow.block, saved[m + 1].first>>, <<flow.block, flow.made + 1>>}
          /\ \/ phis' = phis
             \/ phis' = phis \union {[at |-> saved[m + 1].first, from |-> {saved[m + 1].last, flow.block}]}
      BY <2>2, <1>4 DEF ExitLoop
    <3>2. AddsTwo(edges, edges', flow.block, saved[m + 1].first, flow.made + 1)
      BY <3>1 DEF AddsTwo
    <3> QED
      BY <2>2, <3>1, <3>2, <1>4, <1>5, ExitBuilds
  <2> QED
    BY <2>1, <2>2
<1>7. Top.old[1].slot \in Slots(fn) /\ Null \in Slots(fn)
  <2>1. m + 1 \in 1 .. Len(saved) /\ m + 1 \in 1 .. Len(K)
    BY <1>1, <1>4
  <2>2. PICK s \in Frames(fn) : s = Top /\ Len(s.old) = 1
    BY <2>1, <1>1, <1>4, <1>5, ElementOfSeq DEF Fits
  <2>3. 1 \in 1 .. Len(s.old)
    BY <2>2
  <2> QED
    BY <2>2, <2>3, OldIs DEF Slots
<1>8. table' \in [Names -> Slots(fn)]
  BY <1>7 DEF Data, ExitLoop, AfterLoop
<1>9. Data' /\ backend' = backend
  BY <1>2, <1>4, <1>8 DEF Data, ExitLoop
<1>10. \A i \in 1 .. m : R[i] = "loop" => Len(saved'[i].old) = 1
  <2>1. \A i \in 1 .. m : i \in 1 .. Len(K)
    BY <1>4
  <2> QED
    BY <2>1, <1>1, <1>4 DEF Same, Fits
<1> QED
  BY <1>2, <1>4, <1>6, <1>9, <1>10, RunsWith

LEMMA VarStep ==
  ASSUME Data, NEW K \in Stacks, Running(K), VarStarts
  PROVE  Runs
<1>1. /\ Fits(K) /\ Built(backend, Len(K), K, saved, flow, edges, phis)
      /\ saved \in Seq(Frames(fn)) /\ Len(K) = Len(saved)
  BY RunningIs
<1>2. PICK m \in Nat : m = Len(K)
  BY RunningIs
<1>3. todo # <<>> /\ todo[1].do = "gen"
  BY DEF VarStarts, Generating, Doing
<1>4. PICK R \in Stacks : R = Append(K, "var") /\ Puts(R, K)
  BY VarPuts
<1>5. todo' \in Seq(Jobs) /\ Leads(todo', R, <<>>)
  <2>1. PICK r \in Stacks : Turns(K, todo[1].do, r) /\ Leads(Tail(todo), r, <<>>)
    BY <1>1, <1>3, TurnIs
  <2>2. r = K
    BY <2>1, <1>3 DEF Turns
  <2> QED
    BY <2>1, <2>2, <1>3, <1>4, GoesOn
<1>6. PICK s \in Frames(fn) : s = Frame(0, 0, <<>>) /\ s.first = 0 /\ s.last = 0
  BY EmptyFrameIs
<1>7. saved' = Append(saved, s)
  BY <1>6 DEF VarStarts
<1>8. /\ saved' \in Seq(Frames(fn)) /\ Len(R) = m + 1 /\ Len(saved') = m + 1
      /\ Same(m, K, saved, R, saved') /\ R[m + 1] = "var" /\ saved'[m + 1] = s
  BY <1>1, <1>2, <1>4, <1>7, PushFrame DEF Kinds
<1>9. Built(backend, m + 1, R, saved', flow, edges, phis)
  <2>1. /\ Built(backend, m, K, saved, flow, edges, phis)
        /\ saved'[m + 1].first \in Nat /\ saved'[m + 1].last \in Nat
    BY <1>1, <1>2, <1>6, <1>8
  <2> QED
    BY <2>1, <1>8, VarBuilds
<1>10. Data' /\ backend' = backend /\ flow' = flow /\ edges' = edges /\ phis' = phis
  BY <1>5, <1>8 DEF Data, VarStarts, Unscoped, Straight
<1>11. ASSUME NEW i \in 1 .. m + 1, R[i] = "loop" PROVE Len(saved'[i].old) = 1
  <2>1. i \in 1 .. m
    <3>1. i \in 1 .. m \/ i = m + 1
      OBVIOUS
    <3> QED
      BY <3>1, <1>8, <1>11
  <2> QED
    BY <2>1, <1>1, <1>2, <1>8, <1>11 DEF Same, Fits
<1> QED
  BY <1>5, <1>8, <1>9, <1>10, <1>11, RunsWith

LEMMA BindStep ==
  ASSUME Data, NEW K \in Stacks, Running(K), Bind
  PROVE  Runs
<1>1. /\ Fits(K) /\ Built(backend, Len(K), K, saved, flow, edges, phis)
      /\ saved \in Seq(Frames(fn)) /\ Len(K) = Len(saved) /\ fn \in Nat \ {0}
  BY RunningIs
<1>2. EndsWith(K, "var") /\ Leads(todo', K, <<>>) /\ todo' \in Seq(Jobs)
  <2>1. PICK R \in Stacks : Turns(K, "bind", R) /\ Leads(todo', R, <<>>) /\ todo' \in Seq(Jobs)
    BY <1>1, TurnStep DEF Bind
  <2> QED
    BY <2>1 DEF Turns
<1>3. PICK m \in Nat :
        m + 1 = Len(K) /\ K[m + 1] = "var" /\ Top = saved[m + 1] /\ Top \in Frames(fn)
  <2>1. Len(K) \in Nat \ {0}
    BY <1>1, <1>2, PopFrame DEF EndsWith
  <2>2. PICK m \in Nat : m + 1 = Len(K)
    <3>1. Len(K) - 1 \in Nat /\ (Len(K) - 1) + 1 = Len(K)
      BY <2>1
    <3> QED
      BY <3>1
  <2>3. m + 1 \in 1 .. Len(saved)
    BY <2>2, <1>1
  <2> QED
    BY <2>2, <2>3, <1>1, <1>2, ElementOfSeq DEF Top, EndsWith
<1>4. T.name \in Names /\ P \in Seq(Nat)
  BY FirstJob, JobIs DEF Bind, Doing, T, P
<1>5. table[T.name] \in Slots(fn) /\ Slot \in Slots(fn)
  BY <1>1, <1>4, SlotIs DEF Data, Slot
<1>6. PICK s \in Frames(fn) :
        /\ s = [Top EXCEPT !.old = Append(@, [name |-> T.name, slot |-> table[T.name]])]
        /\ s.first = Top.first /\ s.last = Top.last
  <2>1. PICK t \in Frames(fn) : t = Top
    BY <1>3
  <2>2. PICK e \in [name : Names, slot : Slots(fn)] : e = [name |-> T.name, slot |-> table[T.name]]
    BY <1>4, <1>5
  <2>3. t.first \in Nat /\ t.last \in Nat /\ t.old \in Seq([name : Names, slot : Slots(fn)])
    BY DEF Frames
  <2>4. PICK o \in Seq([name : Names, slot : Slots(fn)]) : o = Append(t.old, e)
    BY <2>3, PushIs
  <2>5. [t EXCEPT !.old = o] \in Frames(fn)
    BY <2>3 DEF Frames
  <2>6. [t EXCEPT !.old = o].first = t.first
    BY DEF Frames
  <2>7. [t EXCEPT !.old = o].last = t.last
    BY DEF Frames
  <2> QED
    BY <2>1, <2>2, <2>4, <2>5, <2>6, <2>7
<1>7. saved' = Append(Cut(saved), s)
  BY <1>6 DEF Bind, Drop, Cut
<1>8. PICK R \in Stacks : R = Append(Cut(K), "var")
  <2>1. K # <<>> /\ "var" \in Kinds /\ K \in Seq(Kinds)
    BY <1>2 DEF EndsWith, Kinds, Stacks
  <2>2. Append(Cut(K), "var") \in Seq(Kinds)
    BY <2>1, SwapIs
  <2> QED
    BY <2>2 DEF Stacks
<1>9. /\ saved' \in Seq(Frames(fn)) /\ Len(R) = m + 1 /\ Len(saved') = m + 1
      /\ Same(m, K, saved, R, saved') /\ R[m + 1] = "var" /\ saved'[m + 1] = s
  <2>1. Len(K) - 1 = m
    BY <1>3
  <2> QED
    BY <2>1, <1>1, <1>2, <1>3, <1>7, <1>8, SwapFrame DEF EndsWith, Kinds
<1>10. \A i \in 1 .. m + 1 : i \in 1 .. m \/ i = m + 1
  OBVIOUS
<1>11. R = K
  <2>1. \A i \in 1 .. m + 1 : R[i] = K[i]
    BY <1>3, <1>9, <1>10 DEF Same
  <2>2. R \in Seq(Kinds) /\ K \in Seq(Kinds)
    BY DEF Stacks
  <2> QED
    BY <2>1, <2>2, <1>3, <1>9, SeqEqual
<1>12. Built(backend, m + 1, K, saved', flow, edges, phis)
  <2>1. \A i \in 1 .. m + 1 : saved'[i].first = saved[i].first /\ saved'[i].last = saved[i].last
    BY <1>3, <1>6, <1>9, <1>10 DEF Same
  <2>2. Built(backend, m + 1, K, saved, flow, edges, phis)
    BY <1>1, <1>3
  <2> QED
    BY <2>1, <2>2, BindBuilds
<1>13. table' \in [Names -> Slots(fn)]
  BY <1>4, <1>5 DEF Data, Bind
<1>14. Data' /\ backend' = backend /\ flow' = flow /\ edges' = edges /\ phis' = phis
  BY <1>2, <1>9, <1>13 DEF Data, Bind, Straight
<1>15. ASSUME NEW i \in 1 .. m + 1, K[i] = "loop" PROVE Len(saved'[i].old) = 1
  <2>1. i \in 1 .. m /\ i \in 1 .. Len(K)
    BY <1>3, <1>10, <1>15
  <2> QED
    BY <2>1, <1>1, <1>9, <1>15 DEF Same, Fits
<1> QED
  BY <1>2, <1>3, <1>9, <1>12, <1>14, <1>15, RunsWith

LEMMA RestoreStep ==
  ASSUME Data, NEW K \in Stacks, Running(K), Restore
  PROVE  Runs
<1>1. /\ Fits(K) /\ Built(backend, Len(K), K, saved, flow, edges, phis)
      /\ saved \in Seq(Frames(fn)) /\ Len(K) = Len(saved)
  BY RunningIs
<1>2. PICK R \in Stacks : Turns(K, "restore", R) /\ Leads(todo', R, <<>>) /\ todo' \in Seq(Jobs)
  BY <1>1, TurnStep DEF Restore
<1>3. EndsWith(K, "var") /\ R = Cut(K)
  BY <1>2 DEF Turns
<1>4. PICK m \in Nat :
        /\ m + 1 = Len(K) /\ Len(R) = m /\ Top = saved[m + 1] /\ saved' = Cut(saved)
        /\ saved' \in Seq(Frames(fn)) /\ Len(saved') = m /\ Same(m, K, saved, R, saved')
  <2>1. Drop = Cut(saved) /\ saved' = Drop
    BY DEF Drop, Cut, Restore
  <2>2. /\ Cut(saved) \in Seq(Frames(fn)) /\ Len(K) \in Nat \ {0}
        /\ Len(Cut(K)) = Len(K) - 1 /\ Len(Cut(saved)) = Len(K) - 1
        /\ Same(Len(K) - 1, K, saved, Cut(K), Cut(saved))
    BY <1>1, <1>3, PopFrame DEF EndsWith
  <2>3. PICK m \in Nat : m + 1 = Len(K) /\ Len(K) - 1 = m
    BY <2>2
  <2> QED
    BY <2>1, <2>2, <2>3, <1>1, <1>3 DEF Top
<1>5. K[m + 1] = "var" /\ Built(backend, m + 1, K, saved, flow, edges, phis)
  BY <1>1, <1>3, <1>4 DEF EndsWith
<1>6. Built(backend, m, R, saved', flow, edges, phis)
  BY <1>4, <1>5, RestoreBuilds
<1>7. table' \in [Names -> Slots(fn)]
  <2>1. m + 1 \in 1 .. Len(saved)
    BY <1>1, <1>4
  <2>2. PICK s \in Frames(fn) : s = Top
    BY <2>1, <1>1, <1>4, ElementOfSeq
  <2>3. table \in [Names -> Slots(fn)]
    BY DEF Data
  <2>4. Restored(s.old) \in [Names -> Slots(fn)]
    BY <2>3, RestoredIs
  <2> QED
    BY <2>2, <2>4 DEF Restore
<1>8. Data' /\ backend' = backend /\ flow' = flow /\ edges' = edges /\ phis' = phis
  BY <1>2, <1>4, <1>7 DEF Data, Restore, Straight
<1>9. \A i \in 1 .. m : R[i] = "loop" => Len(saved'[i].old) = 1
  <2>1. \A i \in 1 .. m : i \in 1 .. Len(K)
    BY <1>4
  <2> QED
    BY <2>1, <1>1, <1>4 DEF Same, Fits
<1> QED
  BY <1>2, <1>4, <1>6, <1>8, <1>9, RunsWith

(* The steps that put tasks in front, or only look at a name.              *)
LEMMA StraightRuns ==
  ASSUME Data, NEW K \in Stacks, Running(K),
         Number \/ Assignment \/ Operands \/ IfStarts \/ ForStarts \/ Initialize
  PROVE  Runs /\ status' = status
<1>1. Puts(K, K)
  <2>1. CASE Number
    BY <2>1, PutsNothing DEF Number
  <2>2. CASE Initialize
    <3>1. Fits(K) /\ todo # <<>> /\ todo[1].do = "initialize"
      BY <2>2 DEF Initialize, Doing, Running
    <3>2. EndsWith(K, "var")
      BY <3>1, TurnIs DEF Turns
    <3> QED
      BY <2>2, <3>2, InitializePuts
  <2> QED
    BY <2>1, <2>2, AssignmentPuts, OperandsPut, IfPuts, ForPuts
<1>2. /\ Doing("gen") \/ Doing("initialize")
      /\ Unscoped /\ Straight /\ UNCHANGED <<saved, status>>
  BY DEF Number, Assignment, Operands, IfStarts, ForStarts, Initialize, Generating
<1>3. Data' /\ Running(K)'
  BY <1>1, <1>2, StraightStep
<1> QED
  BY <1>2, <1>3 DEF Runs

LEMMA AccessRuns ==
  ASSUME Data, NEW K \in Stacks, Running(K), Variable \/ Store
  PROVE  Fail \/ (Runs /\ status' = status)
<1>1. PICK x, p : Access(x, p) /\ (Doing("gen") \/ Doing("store"))
  BY DEF Variable, Store, Generating
<1>2. Fail \/ (Data' /\ Running(K)' /\ status' = status)
  BY <1>1, AccessStep
<1> QED
  BY <1>2 DEF Runs

-----------------------------------------------------------------------------
(* The invariant.                                                          *)
LEMMA RunsKeep ==
  ASSUME Runs, status' = "running"
  PROVE  CodegenInv'
<1>1. Data' /\ \E R \in Stacks : Running(R)'
  BY DEF Runs
<1>2. PICK R \in Stacks : Running(R)'
  BY <1>1
<1>3. Built(backend', Len(R), R, saved', flow', edges', phis')
  BY <1>2 DEF Running
<1>4. Blocks(flow') /\ Drawn(flow', edges', phis') /\ Match(edges', phis')
  BY <1>3 DEF Built
<1> QED
  BY <1>1, <1>4 DEF CodegenInv

LEMMA FailKeeps ==
  ASSUME CodegenInv, status' \in {"failed", "crashed"},
         UNCHANGED <<backend, program, fn, todo, saved, table, flow, edges, phis>>
  PROVE  CodegenInv'
<1>1. Data' /\ Blocks(flow') /\ Drawn(flow', edges', phis') /\ Match(edges', phis')
  BY DEF CodegenInv, Data
<1> QED
  BY <1>1 DEF CodegenInv

(* A function begins: nothing runs, and the walk leads from there to there.*)
LEMMA FunctionIs ==
  ASSUME NEW p \in Programs, NEW i \in 1 .. Len(p)
  PROVE  /\ p[i].params \in Seq(Names) /\ p[i].declared \in Seq(Names)
         /\ Body(p[i]) \in Seq(Jobs) /\ Leads(Body(p[i]), <<>>, <<>>) /\ i \in Nat \ {0}
<1>1. p \in Seq([kernel : BOOLEAN, params : Seq(Names), declared : Seq(Names), body : Trees])
  BY CodegenAssumption
<1>2. Len(p) \in Nat /\ i \in Nat \ {0}
  BY <1>1, LenProperties
<1>3. p[i] \in [kernel : BOOLEAN, params : Seq(Names), declared : Seq(Names), body : Trees]
  BY <1>1, ElementOfSeq
<1>4. p[i].params \in Seq(Names) /\ p[i].declared \in Seq(Names) /\ p[i].body \in Trees
  BY <1>3
<1>5. Task("gen", p[i].body, <<>>) \in Jobs /\ Task("gen", p[i].body, <<>>).do = "gen"
  <2>1. <<>> \in Seq(Nat)
    OBVIOUS
  <2> QED
    BY <2>1, <1>4, TaskIsJob DEF Task
<1>6. PICK t \in Jobs : t = Task("gen", p[i].body, <<>>) /\ t.do = "gen"
  BY <1>5
<1>7. <<>> \in Stacks
  BY DEF Stacks
<1>8. <<t>> \in Seq(Jobs) /\ Leads(<<t>>, <<>>, <<>>)
  BY <1>6, <1>7, PlainJob
<1> QED
  BY <1>2, <1>4, <1>6, <1>8 DEF Body

LEMMA EntryIsBuilt ==
  ASSUME NEW b
  PROVE  Built(b, 0, <<>>, <<>>, Entry, {}, {})
<1>1. PICK fl : fl = Entry
  OBVIOUS
<1>2. fl.block = 1 /\ fl.made = 1 /\ fl.ended = {} /\ fl \in Flows
  BY <1>1 DEF Entry, Flows
<1>3. Blocks(fl)
  BY <1>2 DEF Blocks
<1>4. Layout(b, 0, <<>>, <<>>, fl)
  <2>1. \A n \in 1 .. 1 : n = 1
    OBVIOUS
  <2>2. \A i \in 1 .. 0 : FALSE
    OBVIOUS
  <2>3. \A n \in 1 .. fl.made : n \notin fl.ended /\ n = fl.block
    BY <1>2, <2>1
  <2> QED
    BY <2>2, <2>3 DEF Layout
<1>5. \A i \in 1 .. 0 : FALSE
  OBVIOUS
<1>6. Drawn(fl, {}, {}) /\ Match({}, {})
  BY DEF Drawn, Match
<1>7. /\ Spans(0, <<>>, <<>>) /\ Arrows(0, <<>>, <<>>, {}, {})
      /\ Home(0, <<>>, <<>>, fl, {}, {})
  BY <1>2, <1>5 DEF Spans, Arrows, Home
<1> QED
  BY <1>1, <1>3, <1>4, <1>6, <1>7 DEF Built

LEMMA InitRuns ==
  ASSUME Init
  PROVE  CodegenInv
<1>1. /\ program \in Programs /\ fn = 1 /\ todo = Body(program[1]) /\ saved = <<>>
      /\ backend \in Backends /\ flow = Entry /\ edges = {} /\ phis = {} /\ status = "running"
  BY DEF Init
<1>2. 1 \in 1 .. Len(program)
  <2>1. program \in Seq([kernel : BOOLEAN, params : Seq(Names), declared : Seq(Names), body : Trees]) /\ program # <<>>
    BY <1>1, CodegenAssumption
  <2>2. Len(program) \in Nat \ {0}
    BY <2>1, EmptySeq
  <2> QED
    BY <2>2
<1>3. /\ program[1].params \in Seq(Names) /\ program[1].declared \in Seq(Names) /\ todo \in Seq(Jobs) /\ Leads(todo, <<>>, <<>>)
  BY <1>1, <1>2, FunctionIs
<1>4. table \in [Names -> Slots(fn)]
  <2>1. Parameters(program[1], 1) \in [Names -> Slots(1)]
    BY <1>1, <1>3, ParametersAre
  <2>2. [x \in Names |-> Null] \in [Names -> Slots(1)]
    BY SlotIs DEF Slots
  <2> QED
    BY <2>1, <2>2, <1>1 DEF Init
<1>5. Data
  BY <1>1, <1>2, <1>3, <1>4 DEF Data
<1>6. Built(backend, 0, <<>>, saved, flow, edges, phis)
  BY <1>1, EntryIsBuilt
<1>7. <<>> \in Stacks /\ Len(<<>>) = 0 /\ \A i \in 1 .. 0 : FALSE
  BY DEF Stacks
<1>8. Running(<<>>)
  BY <1>1, <1>3, <1>6, <1>7 DEF Running, Fits
<1> QED
  BY <1>1, <1>5, <1>6, <1>7, <1>8 DEF CodegenInv, Built

LEMMA NextRuns ==
  ASSUME CodegenInv, NextFunction
  PROVE  Runs
<1>1. /\ program' = program /\ backend' = backend /\ fn' = fn + 1 /\ todo' = Body(program[fn + 1])
      /\ saved' = <<>> /\ flow' = Entry /\ edges' = {} /\ phis' = {} /\ status' = "running"
      /\ fn < Len(program) /\ table' = TableFor(program[fn + 1], fn + 1)
  BY DEF NextFunction
<1>2. /\ Data /\ program \in Programs /\ fn \in 1 .. Len(program)
      /\ backend \in Backends /\ table \in [Names -> Slots(fn)]
  BY DEF CodegenInv, Data
<1>3. fn + 1 \in 1 .. Len(program) /\ fn \in Nat
  <2>1. program \in Seq([kernel : BOOLEAN, params : Seq(Names), declared : Seq(Names), body : Trees])
    BY <1>2, CodegenAssumption
  <2>2. Len(program) \in Nat
    BY <2>1, LenProperties
  <2> QED
    BY <2>2, <1>1, <1>2
<1>4. PICK i \in 1 .. Len(program) : i = fn + 1
  BY <1>3
<1>5. /\ program[i].params \in Seq(Names) /\ program[i].declared \in Seq(Names) /\ todo' \in Seq(Jobs) /\ Leads(todo', <<>>, <<>>)
      /\ i \in Nat \ {0}
  BY <1>1, <1>2, <1>4, FunctionIs
<1>6. table' \in [Names -> Slots(fn')]
  <2>1. Parameters(program[i], i) \in [Names -> Slots(i)]
    BY <1>2, <1>5, ParametersAre
  <2>2. table \in [Names -> Slots(fn + 1)]
    BY <1>2, <1>3, SlotsGrow
  <2> QED
    BY <2>1, <2>2, <1>1, <1>4 DEF TableFor
<1>7. Data'
  BY <1>1, <1>2, <1>3, <1>5, <1>6 DEF Data
<1>8. Built(backend', 0, <<>>, saved', flow', edges', phis')
  BY <1>1, EntryIsBuilt
<1>9. <<>> \in Stacks /\ Len(<<>>) = 0 /\ \A j \in 1 .. 0 : FALSE
  BY DEF Stacks
<1>10. Len(saved') = 0
  BY <1>1, <1>9
<1> QED
  BY <1>5, <1>7, <1>8, <1>9, <1>10, RunsWith

(* All blocks have a terminator: the last one that had none gets it.       *)
LEMMA EndKeeps ==
  ASSUME CodegenInv, EndFunction
  PROVE  CodegenInv'
<1>1. /\ status = "running" /\ todo = <<>> /\ flow' = Terminated(flow)
      /\ status' \in {"failed", "done"}
      /\ UNCHANGED <<backend, program, fn, todo, saved, table, edges, phis>>
  BY DEF EndFunction
<1>2. PICK K \in Stacks : Running(K)
  BY <1>1 DEF CodegenInv
<1>3. K = <<>> /\ Len(K) = 0
  <2>1. Leads(<<>>, K, <<>>) /\ <<>> \in Stacks
    BY <1>1, <1>2 DEF Running, Fits, Stacks
  <2> QED
    BY <2>1, LeadsNone
<1>4. Built(backend, 0, K, saved, flow, edges, phis)
  BY <1>2, <1>3 DEF Running
<1>5. /\ Blocks(flow) /\ Drawn(flow, edges, phis) /\ Match(edges, phis)
      /\ Layout(backend, 0, K, saved, flow)
      /\ backend = "Berlin" => Home(0, K, saved, flow, edges, phis)
  BY <1>4 DEF Built
<1>6. /\ flow \in Flows /\ flow.block \in 1 .. flow.made /\ flow.ended \subseteq 1 .. flow.made
      /\ flow.made \in Nat
  BY <1>5 DEF Blocks, Flows
<1>7. \A i \in 1 .. 0 : FALSE
  OBVIOUS
<1>8. \A n \in 1 .. flow.made : n \notin flow.ended <=> n = flow.block
  BY <1>5, <1>7 DEF Layout
<1>9. backend = "Berlin" => flow.block = 1
  BY <1>5, <1>7 DEF Home
<1>10. /\ flow'.block = flow.block /\ flow'.made = flow.made
       /\ flow'.ended = flow.ended \union {flow.block}
  BY <1>1, <1>6 DEF Terminated, Flows
<1>11. flow'.ended = 1 .. flow.made
  BY <1>6, <1>8, <1>10
<1>12. flow' \in Flows
  <2>1. PICK x \in SUBSET Nat : x = flow.ended \union {flow.block}
    <3>1. flow.ended \subseteq Nat /\ flow.block \in Nat
      BY <1>6 DEF Flows
    <3>2. flow.ended \union {flow.block} \in SUBSET Nat
      BY <3>1
    <3> QED
      BY <3>2
  <2>2. flow' = [flow EXCEPT !.ended = x]
    BY <1>1, <2>1 DEF Terminated
  <2> QED
    BY <2>2, <1>6 DEF Flows
<1>13. Blocks(flow')
  BY <1>6, <1>10, <1>11, <1>12 DEF Blocks
<1>14. Drawn(flow', edges', phis') /\ Match(edges', phis')
  BY <1>1, <1>5, <1>10 DEF Drawn
<1>15. Data'
  BY <1>1 DEF CodegenInv, Data
<1> QED
  BY <1>1, <1>9, <1>10, <1>11, <1>13, <1>14, <1>15 DEF CodegenInv

LEMMA NextKeeps ==
  ASSUME CodegenInv, [Next]_vars
  PROVE  CodegenInv'
<1>1. CASE UNCHANGED vars
  <2>1. UNCHANGED <<backend, program, fn, todo, saved, table, flow, edges, phis, status>>
    BY <1>1 DEF vars
  <2>2. Data' /\ Blocks(flow') /\ Drawn(flow', edges', phis') /\ Match(edges', phis')
    BY <2>1 DEF CodegenInv, Data
  <2>3. ASSUME status = "running" PROVE \E K \in Stacks : Running(K)'
    <3>1. PICK K \in Stacks : Running(K)
      BY <2>3 DEF CodegenInv
    <3>2. Running(K)'
      BY <3>1, <2>1 DEF Running, Fits
    <3> QED
      BY <3>2
  <2> QED
    BY <2>1, <2>2, <2>3 DEF CodegenInv
<1>2. CASE NextFunction
  BY <1>2, NextRuns, RunsKeep DEF NextFunction
<1>3. CASE EndFunction
  BY <1>3, EndKeeps
<1>4. CASE AssignmentToNoVariable
  BY <1>4, FailKeeps DEF AssignmentToNoVariable, Fail
<1>5. ASSUME status = "running", ~EndFunction, ~NextFunction, ~AssignmentToNoVariable, Next
      PROVE  CodegenInv'
  <2>1. PICK K \in Stacks : Running(K)
    BY <1>5 DEF CodegenInv
  <2>2. Data
    BY DEF CodegenInv
  <2>3. CASE Number \/ Assignment \/ Operands \/ IfStarts \/ ForStarts \/ Initialize
    BY <2>1, <2>2, <2>3, <1>5, StraightRuns, RunsKeep
  <2>4. CASE Variable \/ Store
    <3>1. Fail \/ (Runs /\ status' = status)
      BY <2>1, <2>2, <2>4, AccessRuns
    <3> QED
      BY <3>1, <1>5, RunsKeep, FailKeeps DEF Fail
  <2>5. CASE Branch
    BY <2>1, <2>2, <2>5, <1>5, BranchStep, RunsKeep DEF Branch
  <2>6. CASE Else
    BY <2>1, <2>2, <2>6, <1>5, ElseStep, RunsKeep DEF Else
  <2>7. CASE Merge
    BY <2>1, <2>2, <2>7, <1>5, MergeStep, RunsKeep DEF Merge
  <2>8. CASE EnterLoop
    BY <2>1, <2>2, <2>8, <1>5, EnterStep, RunsKeep DEF EnterLoop
  <2>9. CASE ExitLoop
    BY <2>1, <2>2, <2>9, <1>5, ExitStep, RunsKeep DEF ExitLoop
  <2>10. CASE VarStarts
    BY <2>1, <2>2, <2>10, <1>5, VarStep, RunsKeep DEF VarStarts
  <2>11. CASE Bind
    BY <2>1, <2>2, <2>11, <1>5, BindStep, RunsKeep DEF Bind
  <2>12. CASE Restore
    BY <2>1, <2>2, <2>12, <1>5, RestoreStep, RunsKeep DEF Restore
  <2> QED
    BY <1>5, <2>3, <2>4, <2>5, <2>6, <2>7, <2>8, <2>9, <2>10, <2>11, <2>12 DEF Next
<1>6. Next => status = "running" \/ NextFunction
  BY DEF Next, Number, Variable, Assignment, Store, AssignmentToNoVariable, Operands, IfStarts,
         Branch, Else, Merge, ForStarts, EnterLoop, ExitLoop, VarStarts, Initialize, Bind, Restore,
         EndFunction, Generating, Doing
<1> QED
  BY <1>1, <1>2, <1>3, <1>4, <1>5, <1>6

LEMMA CodegenInvHolds == Spec => []CodegenInv
<1>1. Init => CodegenInv
  BY InitRuns
<1>2. CodegenInv /\ [Next]_vars => CodegenInv'
  BY NextKeeps
<1> QED
  BY <1>1, <1>2, PTL DEF Spec

-----------------------------------------------------------------------------
(* Every slot in the table belongs to the function being generated or to   *)
(* an earlier one, and blocks, edges and phis stay among the blocks made.  *)
THEOREM TypeCorrect == Spec => []TypeOK
<1>1. ASSUME CodegenInv PROVE TypeOK
  <2>1. Data /\ Blocks(flow) /\ Drawn(flow, edges, phis)
    BY <1>1 DEF CodegenInv
  <2>2. \A i \in 1 .. Len(todo) : todo[i].do \in Tasks
    <3>1. \A i \in 1 .. Len(todo) : todo[i] \in Jobs
      BY <2>1, ElementOfSeq DEF Data
    <3> QED
      BY <3>1, JobIs
  <2>3. DOMAIN table = Names /\ \A x \in Names : table[x] = Null \/ table[x][1] \in 1 .. fn
    BY <2>1 DEF Data, Slots
  <2> QED
    BY <2>1, <2>2, <2>3 DEF TypeOK, Data, Blocks, Drawn
<1> QED
  BY <1>1, CodegenInvHolds, PTL

(* IfExprAST::codegen, genIf and genFor: a phi of an if or a loop names    *)
(* exactly the blocks that branch to its own, however many blocks the arms *)
(* and the body were cut into.                                             *)
THEOREM PhisNameTheirBranches == Spec => []PhisMatchBranches
<1>1. CodegenInv => PhisMatchBranches
  BY DEF CodegenInv, Match, Preds, PhisMatchBranches
<1> QED
  BY <1>1, CodegenInvHolds, PTL

(* The code is always added to a block without terminator; a complete      *)
(* function has one in every block, and in Berlin returns from its first.  *)
THEOREM BlocksEndOnce == Spec => []EveryBlockEndsOnce
<1>1. ASSUME CodegenInv PROVE EveryBlockEndsOnce
  <2>1. ASSUME status = "running" PROVE flow.block \notin flow.ended
    <3>1. PICK K \in Stacks : Running(K)
      BY <1>1, <2>1 DEF CodegenInv
    <3>2. Blocks(flow) /\ Layout(backend, Len(K), K, saved, flow)
      BY <3>1 DEF Running, Built
    <3> QED
      BY <3>2 DEF Blocks, Layout
  <2> QED
    BY <1>1, <2>1 DEF CodegenInv, EveryBlockEndsOnce
<1> QED
  BY <1>1, CodegenInvHolds, PTL
=============================================================================
