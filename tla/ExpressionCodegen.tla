-------------------------- MODULE ExpressionCodegen --------------------------
(***************************************************************************)
(* How the back ends of Athens, Berlin and Cairo walk the body of a        *)
(* function: which binding a name refers to, and how the code is cut into  *)
(* blocks.  The three walks are recursive functions of the same shape, so  *)
(* the model is one machine over a list of what is still to do; where the  *)
(* back ends differ, backend decides.                                      *)
(*                                                                         *)
(* A tree is [node, name, kids] as the parser builds it.  A slot (alloca)  *)
(* is named by the function and the place in its body that made it.        *)
(* Values, types and the callees of calls are left out; a name without a   *)
(* slot is the only reason to reject a body, besides an assignment to what *)
(* is no variable.  Berlin's structured operations are blocks without      *)
(* edges: a then, an else, a loop body.                                    *)
(***************************************************************************)
EXTENDS Integers, Sequences, FiniteSets

CONSTANTS
  Backends,   (* some of "Athens", "Berlin", "Cairo"                       *)
  Programs,   (* sequences of functions [kernel, params, declared, body];  *)
              (* declared are the parameters of the declaration the module *)
              (* has of the function by then, or its own                   *)
  Trees,      (* the expressions of the programs and all their parts       *)
  Names,      (* variable names                                            *)
  Numbered(_, _),  (* external: a name followed by a number                *)
  Null

ASSUME CodegenAssumption ==
  /\ Backends \subseteq {"Athens", "Berlin", "Cairo"}
  /\ Programs \subseteq
       Seq([kernel : BOOLEAN, params : Seq(Names), declared : Seq(Names), body : Trees]) \ {<<>>}

(* What the parser builds: a node, its name and its kids, which are of the *)
(* given trees.  An argument of a call that makeBinary gave up without a   *)
(* diagnostic is left out: it has no tree to walk over.                    *)
IsTree(t, trees) ==
  /\ t.node \in {"number", "variable", "unary", "binary", "call", "if", "for", "var"}
  /\ t.node \in {"variable", "for"} => t.name \in Names
  /\ t.node \in {"number", "variable"} => t.kids = <<>>
  /\ t.node \in {"unary", "binary", "call", "if"} => t.kids \in Seq(trees)
  /\ t.node = "binary" => Len(t.kids) = 2
  /\ t.node = "if" => Len(t.kids) = 3
  /\ t.node = "for" => Len(t.kids) = 4
  /\ t.node = "for" => {t.kids[1], t.kids[2], t.kids[4]} \union ({t.kids[3]} \ {Null}) \subseteq trees
  /\ t.node = "var" =>
       /\ Len(t.kids) \in Nat \ {0} /\ t.kids[Len(t.kids)] \in trees
       /\ \A i \in 1 .. Len(t.kids) - 1 :
            /\ t.kids[i] # Null /\ t.kids[i].node = "binding" /\ Len(t.kids[i].kids) = 1
            /\ t.kids[i].name \in Names /\ (t.kids[i].kids[1] = Null \/ t.kids[i].kids[1] \in trees)

(* Null is neither a tree nor a slot.                                      *)
ASSUME NullAssumption == Null \notin Trees /\ Null \notin Nat \X Seq(Nat)

ASSUME TreesAssumption == LET trees == Trees IN \A t \in trees : IsTree(t, trees)

VARIABLES
  backend, program,
  fn,       (* the function being generated                                *)
  todo,     (* the rest of the walk: tasks [do, tree, path]                *)
  saved,    (* what running constructs keep in their local variables       *)
  table,    (* namedValues_: the slot of each name, or Null                *)
  flow,     (* [block, made, ended]: the insertion point, how many blocks  *)
            (* there are, which of them have their terminator              *)
  edges,    (* branches between blocks                                     *)
  phis,     (* [at, from]: phi nodes and their incoming blocks             *)
  uses,     (* history: [path, slot] of every load and store of a name     *)
  status    (* of the function: "running", "done", "failed", "crashed"     *)

vars == <<backend, program, fn, todo, saved, table, flow, edges, phis, uses, status>>

Task(do, tree, path) == [do |-> do, tree |-> tree, path |-> path]
Body(f) == <<Task("gen", f.body, <<>>)>>

Doing(what) == status = "running" /\ todo # <<>> /\ todo[1].do = what
T == todo[1].tree
P == todo[1].path
Generating(node) == Doing("gen") /\ T.node = node

Kid(i) == Task("gen", T.kids[i], Append(P, i))
Continue(tasks) == todo' = tasks \o Tail(todo)

Slot == <<fn, P>>

Top == saved[Len(saved)]
Drop == SubSeq(saved, 1, Len(saved) - 1)
Frame(first, last, old) == [first |-> first, last |-> last, old |-> old]

(* Mutant of At: new blocks are not counted.                               *)
AtUncounted(f, b, n) == [f EXCEPT !.block = b]
(* The insertion point moves to a block; n blocks are new.                 *)
At(f, b, n) == [f EXCEPT !.block = b, !.made = @ + n]
(* The block at the insertion point gets its terminator.                   *)
Terminated(f) == [f EXCEPT !.ended = @ \union {f.block}]

Unscoped == UNCHANGED <<backend, program, fn, table>>
Straight == UNCHANGED <<flow, edges, phis>>

-----------------------------------------------------------------------------
(* Names and assignments.                                                  *)

Fail ==
  /\ status' = "failed"
  /\ UNCHANGED <<backend, program, fn, todo, saved, table, flow, edges, phis, uses>>

Access(name, path) ==
  \/ /\ table[name] # Null
     /\ uses' = uses \union {[path |-> path, slot |-> table[name]]}
     /\ Continue(<<>>)
     /\ Unscoped /\ Straight /\ UNCHANGED <<saved, status>>
  \/ table[name] = Null /\ Fail

Number ==
  /\ Generating("number") /\ Continue(<<>>)
  /\ Unscoped /\ Straight /\ UNCHANGED <<saved, uses, status>>

Variable == Generating("variable") /\ Access(T.name, P)

IsAssignment == T.node = "binary" /\ T.name = "="

(* Athens casts the left side unchecked, which is undefined behaviour: a   *)
(* call or a loop begins with a string as a variable does, and can be      *)
(* taken for the variable its callee or its own variable is named like.    *)
Misread(t) == backend = "Athens" /\ t.node \in {"call", "for"} /\ t.name \in Names

(* The right side first, then the left side is looked up.                  *)
Assignment ==
  /\ Doing("gen") /\ IsAssignment /\ (T.kids[1].node = "variable" \/ Misread(T.kids[1]))
  /\ Continue(<<Kid(2), Task("store", T.kids[1], Append(P, 1))>>)
  /\ Unscoped /\ Straight /\ UNCHANGED <<saved, uses, status>>

Store == Doing("store") /\ Access(T.name, P)

(* Or Athens reads something that is no name at all.                       *)
AssignmentToNoVariable ==
  /\ Doing("gen") /\ IsAssignment /\ T.kids[1].node # "variable"
  /\ \/ Fail
     \/ /\ backend = "Athens" /\ status' = "crashed"
        /\ UNCHANGED <<backend, program, fn, todo, saved, table, flow, edges, phis, uses>>

(* Operands and arguments in order.                                        *)
Operands ==
  /\ Doing("gen") /\ T.node \in {"unary", "binary", "call"} /\ ~IsAssignment
  /\ Continue([i \in 1 .. Len(T.kids) |-> Kid(i)])
  /\ Unscoped /\ Straight /\ UNCHANGED <<saved, uses, status>>

-----------------------------------------------------------------------------
(* if: then, else and merge blocks, and a phi over the blocks that end the *)
(* arms.  Berlin has no merge block and returns to the block of the if.    *)

IfStarts ==
  /\ Generating("if")
  /\ Continue(<<Kid(1), Task("branch", T, P), Kid(2), Task("else", T, P), Kid(3),
                Task("merge", T, P)>>)
  /\ Unscoped /\ Straight /\ UNCHANGED <<saved, uses, status>>

Branch ==
  LET then == flow.made + 1
  IN  /\ Doing("branch") /\ Continue(<<>>)
      /\ saved' = Append(saved, Frame(then, flow.block, <<>>))
      /\ IF backend = "Berlin"
         THEN flow' = At(flow, then, 2) /\ UNCHANGED edges
         ELSE /\ flow' = At(Terminated(flow), then, 3)
              /\ edges' = edges \union {<<flow.block, then>>, <<flow.block, then + 1>>}
      /\ Unscoped /\ UNCHANGED <<phis, uses, status>>

(* Mutant of ThenEnd: the block the arm began in, not the one it ends in.  *)
ThenBegin == Top.first
(* "codegen of Then can change the current block".                         *)
ThenEnd == flow.block

Else ==
  LET merge == Top.first + 2
  IN  /\ Doing("else") /\ Continue(<<>>)
      /\ flow' = At(Terminated(flow), Top.first + 1, 0)
      /\ IF backend = "Berlin"
         THEN UNCHANGED <<saved, edges>>
         ELSE /\ saved' = Append(Drop, Frame(Top.first, ThenEnd, <<>>))
              /\ edges' = edges \union {<<flow.block, merge>>}
      /\ Unscoped /\ UNCHANGED <<phis, uses, status>>

(* Mutant of AfterIf: Berlin stays in the else block.                      *)
AfterElse == IF backend = "Berlin" THEN Top.first + 1 ELSE Top.first + 2
AfterIf == IF backend = "Berlin" THEN Top.last ELSE Top.first + 2

Merge ==
  LET merge == Top.first + 2
  IN  /\ Doing("merge") /\ Continue(<<>>)
      /\ flow' = At(Terminated(flow), AfterIf, 0)
      /\ saved' = Drop
      /\ IF backend = "Berlin"
         THEN UNCHANGED <<edges, phis>>
         ELSE /\ edges' = edges \union {<<flow.block, merge>>}
              /\ phis' = phis \union {[at |-> merge, from |-> {Top.last, flow.block}]}
      /\ Unscoped /\ UNCHANGED <<uses, status>>

-----------------------------------------------------------------------------
(* for: kids are start, end, step (or Null) and body.  Athens generates    *)
(* step and end behind the body with the variable in scope; Berlin and     *)
(* Cairo generate them before the loop.                                    *)

Step == IF T.kids[3] = Null THEN <<>> ELSE <<Kid(3)>>

ForStarts ==
  /\ Generating("for")
  /\ IF backend = "Athens"
     THEN Continue(<<Kid(1), Task("enter", T, P), Kid(4)>> \o Step \o <<Kid(2), Task("exit", T, P)>>)
     ELSE Continue(<<Kid(1), Kid(2)>> \o Step \o <<Task("enter", T, P), Kid(4), Task("exit", T, P)>>)
  /\ Unscoped /\ Straight /\ UNCHANGED <<saved, uses, status>>

EnterLoop ==
  LET loop == flow.made + 1
  IN  /\ Doing("enter") /\ Continue(<<>>)
      /\ saved' = Append(saved, Frame(loop, flow.block, <<[name |-> T.name, slot |-> table[T.name]]>>))
      /\ table' = [table EXCEPT ![T.name] = Slot]
      /\ IF backend = "Berlin"
         THEN flow' = At(flow, loop, 1) /\ UNCHANGED edges
         ELSE /\ flow' = At(Terminated(flow), loop, 1)
              /\ edges' = edges \union {<<flow.block, loop>>}
      /\ UNCHANGED <<backend, program, fn, phis, uses, status>>

(* Mutant of AfterLoop: every back end forgets the shadowed variable.      *)
AfterLoopErased == [table EXCEPT ![T.name] = Null]
(* Cairo erases the name whether or not it was shadowed.                   *)
AfterLoop ==
  [table EXCEPT ![T.name] = IF backend = "Cairo" THEN Null ELSE Top.old[1].slot]

(* Cairo's induction variable is a phi, the others keep it in the slot.    *)
ExitLoop ==
  LET after == flow.made + 1
  IN  /\ Doing("exit") /\ Continue(<<>>)
      /\ table' = AfterLoop
      /\ saved' = Drop
      /\ IF backend = "Berlin"
         THEN flow' = At(Terminated(flow), Top.last, 0) /\ UNCHANGED edges
         ELSE /\ flow' = At(Terminated(flow), after, 1)
              /\ edges' = edges \union {<<flow.block, Top.first>>, <<flow.block, after>>}
      /\ phis' = IF backend = "Cairo"
                 THEN phis \union {[at |-> Top.first, from |-> {Top.last, flow.block}]} ELSE phis
      /\ UNCHANGED <<backend, program, fn, uses, status>>

-----------------------------------------------------------------------------
(* var: kids are the bindings, then the body.                              *)

VarStarts ==
  LET n == Len(T.kids) - 1
  IN  /\ Generating("var")
      /\ Continue([i \in 1 .. n |-> Task("initialize", T.kids[i], Append(P, i))]
                  \o <<Kid(n + 1), Task("restore", T, P)>>)
      /\ saved' = Append(saved, Frame(0, 0, <<>>))
      /\ Unscoped /\ Straight /\ UNCHANGED <<uses, status>>

(* The initializer before the name is in scope.                            *)
Initialize ==
  /\ Doing("initialize")
  /\ Continue((IF T.kids[1] = Null THEN <<>> ELSE <<Kid(1)>>) \o <<Task("bind", T, P)>>)
  /\ Unscoped /\ Straight /\ UNCHANGED <<saved, uses, status>>

Bind ==
  /\ Doing("bind") /\ Continue(<<>>)
  /\ saved' = Append(Drop, [Top EXCEPT !.old = Append(@, [name |-> T.name, slot |-> table[T.name]])])
  /\ table' = [table EXCEPT ![T.name] = Slot]
  /\ Straight /\ UNCHANGED <<backend, program, fn, uses, status>>

(* Mutant of Restored: the first binding stays in scope.                   *)
RestoredButFirst(old) ==
  [x \in Names |->
    LET entries == {i \in 2 .. Len(old) : old[i].name = x}
    IN  IF entries = {} THEN table[x]
        ELSE old[CHOOSE i \in entries : \A j \in entries : j <= i].slot]

(* Restoring from first to last: the last entry of a name is what stays.   *)
Restored(old) ==
  [x \in Names |->
    LET entries == {i \in 1 .. Len(old) : old[i].name = x}
    IN  IF entries = {} THEN table[x]
        ELSE old[CHOOSE i \in entries : \A j \in entries : j <= i].slot]

Restore ==
  /\ Doing("restore") /\ Continue(<<>>)
  /\ table' = Restored(Top.old)
  /\ saved' = Drop
  /\ Straight /\ UNCHANGED <<backend, program, fn, uses, status>>

-----------------------------------------------------------------------------
(* Functions.                                                              *)

Entry == [block |-> 1, made |-> 1, ended |-> {}]

(* LLVM gives no two values of a function one name: a taken one is         *)
(* followed by the next number with which it is free.                      *)
Named(st, x) ==
  LET free == {n \in st.count + 1 .. st.count + Cardinality(st.taken) + 1 :
                 Numbered(x, n) \notin st.taken}
      n == CHOOSE n \in free : \A m \in free : n <= m
  IN  IF x \notin st.taken THEN [st EXCEPT !.name = x, !.taken = @ \union {x}]
      ELSE [name |-> Numbered(x, n), taken |-> st.taken \union {Numbered(x, n)}, count |-> n]

(* The parameters are named in order; with slots behind the entry block,   *)
(* and each with its slot before the next one.                             *)
Argument(st, x, slots) ==
  LET arg == Named(st, x)
  IN  IF slots THEN [Named(arg, arg.name) EXCEPT !.name = arg.name] ELSE arg
Unnamed(slots) == [name |-> "", taken |-> IF slots THEN {"entry"} ELSE {}, count |-> 0]
ArgNames(params, slots) ==
  LET upTo[k \in 0 .. Len(params)] ==
        IF k = 0 THEN Unnamed(slots) ELSE Argument(upTo[k - 1], params[k], slots)
  IN  [k \in 1 .. Len(params) |-> upTo[k].name]

(* The names under which the table has the parameters: those of LLVM's     *)
(* arguments, in Athens of the function the module has, or the source's.   *)
Keys(f) ==
  CASE backend = "Athens" -> ArgNames(f.declared, FALSE)
    [] backend = "Berlin" -> f.params
    [] backend = "Cairo" -> ArgNames(f.params, TRUE)

(* Slots of the parameters; a kernel of Cairo has none (kernelParams_).    *)
Parameters(f, i) ==
  [x \in Names |->
    LET at == {k \in 1 .. Len(Keys(f)) : Keys(f)[k] = x}
    IN  IF at = {} THEN Null
        ELSE <<i, <<0, CHOOSE k \in at : \A j \in at : j <= k>>>>]

IsCairoKernel(f) == backend = "Cairo" /\ f.kernel

(* Mutant of TableFor: no function forgets the names of the one before.    *)
TableKept(f, i) ==
  [x \in Names |-> IF Parameters(f, i)[x] = Null THEN table[x] ELSE Parameters(f, i)[x]]
(* namedValues_ is cleared, but not for a kernel of Cairo.                 *)
TableFor(f, i) == IF IsCairoKernel(f) THEN table ELSE Parameters(f, i)

(* return; Cairo refuses what verifyFunction refuses, a slot of another    *)
(* function.                                                               *)
EndFunction ==
  /\ status = "running" /\ todo = <<>>
  /\ flow' = Terminated(flow)
  /\ status' = IF backend = "Cairo" /\ \E u \in uses : u.slot[1] # fn
               THEN "failed" ELSE "done"
  /\ UNCHANGED <<backend, program, fn, todo, saved, table, edges, phis, uses>>

(* A failed function is dropped, and for Cairo the whole program.          *)
NextFunction ==
  /\ status \in {"done", "failed"} /\ fn < Len(program)
  /\ ~(backend = "Cairo" /\ status = "failed")
  /\ fn' = fn + 1
  /\ todo' = Body(program[fn + 1])
  /\ table' = TableFor(program[fn + 1], fn + 1)
  /\ saved' = <<>> /\ flow' = Entry
  /\ edges' = {} /\ phis' = {} /\ uses' = {} /\ status' = "running"
  /\ UNCHANGED <<backend, program>>

(* Berlin's builder over several functions is not part of this module.     *)
Init ==
  /\ backend \in Backends /\ program \in Programs
  /\ backend = "Berlin" => Len(program) = 1
  /\ fn = 1
  /\ todo = Body(program[1])
  /\ table = IF IsCairoKernel(program[1]) THEN [x \in Names |-> Null]
             ELSE Parameters(program[1], 1)
  /\ saved = <<>> /\ flow = Entry
  /\ edges = {} /\ phis = {} /\ uses = {} /\ status = "running"

Next ==
  \/ Number \/ Variable \/ Assignment \/ Store \/ AssignmentToNoVariable \/ Operands
  \/ IfStarts \/ Branch \/ Else \/ Merge
  \/ ForStarts \/ EnterLoop \/ ExitLoop
  \/ VarStarts \/ Initialize \/ Bind \/ Restore
  \/ EndFunction \/ NextFunction

Spec == Init /\ [][Next]_vars

-----------------------------------------------------------------------------
Tasks == {"gen", "store", "branch", "else", "merge", "enter", "exit", "initialize", "bind", "restore"}

TypeOK ==
  /\ fn \in 1 .. Len(program)
  /\ \A i \in 1 .. Len(todo) : todo[i].do \in Tasks
  /\ DOMAIN table = Names
  /\ \A x \in Names : table[x] = Null \/ table[x][1] \in 1 .. fn
  /\ flow.block \in 1 .. flow.made /\ flow.ended \subseteq 1 .. flow.made
  /\ edges \subseteq (1 .. flow.made) \X (1 .. flow.made)
  /\ \A p \in phis : p.at \in 1 .. flow.made
  /\ status \in {"running", "done", "failed", "crashed"}

(* IfExprAST::codegen, genIf, genFor: a phi names exactly the blocks that  *)
(* branch to its own, whatever blocks the arms and bodies consist of.      *)
PhisMatchBranches ==
  \A p \in phis : p.from = {e[1] : e \in {e \in edges : e[2] = p.at}}

(* Code is only added to a block without terminator, and when a function   *)
(* is complete every block has one; a function of Berlin returns from the  *)
(* block it began with.                                                    *)
EveryBlockEndsOnce ==
  /\ status = "running" => flow.block \notin flow.ended
  /\ status = "done" => /\ flow.ended = 1 .. flow.made
                        /\ backend = "Berlin" => flow.block = 1
=============================================================================
