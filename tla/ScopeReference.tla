--------------------------- MODULE ScopeReference ---------------------------
(***************************************************************************)
(* Lexical scope, defined on the tree alone: which binding an occurrence   *)
(* of a name refers to.                                                    *)
(***************************************************************************)
EXTENDS ExpressionCodegen, FiniteSets

CONSTANT
  Depth       (* of the deepest tree                                       *)

Subtree(t, path) ==
  LET down[n \in 0 .. Len(path)] == IF n = 0 THEN t ELSE down[n - 1].kids[path[n]]
  IN  down[Len(path)]

(* The kids a subtree has (an absent step or initializer is none).         *)
KidsAt(t, path) ==
  LET kids == Subtree(t, path).kids IN {i \in 1 .. Len(kids) : kids[i] # Null}

(* The paths of all subtrees, level by level.                              *)
Places(t) ==
  LET level[n \in 0 .. Depth] ==
        IF n = 0 THEN {<<>>}
        ELSE UNION {{Append(p, i) : i \in KidsAt(t, p)} : p \in level[n - 1]}
  IN  UNION {level[n] : n \in 0 .. Depth}

ASSUME DepthAssumption ==
  /\ Depth \in Nat
  /\ LET trees == Trees IN
     \A t \in trees : \A p \in Places(t) : Len(p) = Depth => KidsAt(t, p) = {}

Prefix(path, n) == SubSeq(path, 1, n)
Function == program[fn]
Part(path) == Subtree(Function.body, path)

(* Athens evaluates the end and the step of a loop in its scope.           *)
LoopScope == IF backend = "Athens" THEN {2, 3, 4} ELSE {4}

(* The binders a place stands in the scope of: [depth, turn, slot].        *)
LoopBinders(path, x) ==
  {[depth |-> k, turn |-> 0, slot |-> <<fn, Prefix(path, k - 1)>>] :
     k \in {k \in 1 .. Len(path) :
              LET t == Part(Prefix(path, k - 1))
              IN  t.node = "for" /\ t.name = x /\ path[k] \in LoopScope}}

(* In a var the bindings before the place, in its body all of them.        *)
VarBinders(path, x) ==
  UNION {{[depth |-> k, turn |-> j, slot |-> <<fn, Append(Prefix(path, k - 1), j)>>] :
            j \in {j \in 1 .. path[k] - 1 :
                     LET t == Part(Prefix(path, k - 1))
                     IN  t.node = "var" /\ t.kids[j].name = x}} :
         k \in 1 .. Len(path)}

ParamBinders(x) ==
  {[depth |-> 0, turn |-> k, slot |-> <<fn, <<0, k>>>>] :
     k \in {k \in 1 .. Len(Function.params) : Function.params[k] = x /\ ~IsCairoKernel(Function)}}

Binders(path, x) == LoopBinders(path, x) \union VarBinders(path, x) \union ParamBinders(x)

Innermost(bs) ==
  CHOOSE b \in bs : \A c \in bs : c.depth < b.depth \/ (c.depth = b.depth /\ c.turn <= b.turn)

Occurrences == {p \in Places(Function.body) : Part(p).node = "variable"}
Bound == {p \in Occurrences : Binders(p, Part(p).name) # {}}
LexicalUses == {[path |-> p, slot |-> Innermost(Binders(p, Part(p).name)).slot] : p \in Bound}

(* What the back ends do not restore: a name bound twice by one var, and   *)
(* in Cairo a variable that a loop shadows.  What they rename: a parameter *)
(* LLVM finds another name for, or of which Athens's module has a          *)
(* declaration under another.  And what Athens takes for a variable.       *)
BindsTwice == \E p \in Places(Function.body) :
  LET t == Part(p) IN t.node = "var" /\ \E i, j \in 1 .. Len(t.kids) - 1 :
                                         i < j /\ t.kids[i].name = t.kids[j].name
LoopShadows == \E p \in Places(Function.body) :
  Part(p).node = "for" /\ Binders(p, Part(p).name) # {}
RenamesParameter == ~IsCairoKernel(Function) /\ Keys(Function) # Function.params
AssignsToNoVariable == \E p \in Places(Function.body) :
  Part(p).node = "binary" /\ Part(p).name = "=" /\ Part(p).kids[1].node # "variable"

LoopsRestore == backend = "Cairo" => ~LoopShadows
CastsVariables == backend = "Athens" => ~AssignsToNoVariable
Regular == ~BindsTwice /\ ~RenamesParameter /\ LoopsRestore /\ CastsVariables

-----------------------------------------------------------------------------
(* VariableExprAST, handleAssignment, genVariable, genBinary over the hand *)
(* kept table: a complete function loads and stores, at every occurrence   *)
(* of a name, the innermost binding around it, and never one that has left *)
(* scope or belongs to another function.                                   *)
ScopesAreLexical ==
  status = "done" /\ Regular => uses = LexicalUses /\ Bound = Occurrences

(* No function is rejected for a name that is bound where it stands.       *)
RejectsOnlyUnbound ==
  status = "failed" /\ Regular => Bound # Occurrences \/ AssignsToNoVariable

(* codegen.cpp:339 and 351: behind a var/in block the names mean what they *)
(* meant before it ("deshadow", "pop all vars out of scope").              *)
VarsArePoppedOutOfScope ==
  status = "done" /\ ~RenamesParameter /\ LoopsRestore /\ CastsVariables => uses = LexicalUses

(* codegen.cpp:209, "Record the function arguments in the NamedValues      *)
(* map": a parameter is in scope in the body under the name it has in the  *)
(* source, so that it is never the reason to reject the function.          *)
ArgumentsAreRecorded ==
  status = "failed" /\ ~BindsTwice /\ LoopsRestore /\ CastsVariables =>
    Bound # Occurrences \/ AssignsToNoVariable
=============================================================================
