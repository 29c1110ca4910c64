---------------------------- MODULE CairoCompiler ----------------------------
(***************************************************************************)
(* Cairo over a whole file (ParseFile, FindFirstKernel, NVPTXCodegen):     *)
(* functions are added to one LLVM module in order, kernels with pointers  *)
(* as parameters, device functions with doubles.  cairoLoad and cairoStore *)
(* name a pointer of the kernel by its index in kernelParams_, which still *)
(* holds those of the last kernel when a device function follows.          *)
(*                                                                         *)
(* A function is [name, params, body]; its body is the set of what can be  *)
(* refused in it:                                                          *)
(*      [op |-> "pointer", index]        cairoLoad, cairoStore             *)
(*      [op |-> "call", callee, passed]  a call that is not built in       *)
(*      [op |-> "misuse"]                a built-in with other arguments   *)
(*                                       than it expects                   *)
(* Names and scopes of variables are the business of ExpressionCodegen.    *)
(***************************************************************************)
EXTENDS Integers, Sequences

CONSTANTS
  Functions,     (* what a file can define                                 *)
  MaxFunctions,  (* bound: of a file                                       *)
  KernelNames    (* the names that start with kernel_                      *)

ASSUME CompilerAssumption ==
  /\ MaxFunctions \in Nat
  /\ "" \notin KernelNames
  /\ \A f \in Functions :
       /\ f.params \in Nat
       /\ \A op \in f.body : /\ op.op \in {"pointer", "call", "misuse"}
                             /\ op.op = "pointer" => op.index \in Nat

VARIABLES
  program,       (* what ParseFile returned: nothing if there are errors   *)
  emitLLVM, runOnGPU,  (* of the command line                              *)
  kernel,        (* [name, argCount] of FindFirstKernel; no name: none     *)
  done,          (* how many functions the module has                      *)
  kernelParams,  (* the pointers: a sequence of [owner, index]             *)
  outcome,       (* "running", or how main ends                            *)
  pc             (* where main stands                                      *)

compilerVars == <<program, emitLLVM, runOnGPU, kernel, done, kernelParams, outcome, pc>>
files == <<program, emitLLVM, runOnGPU>>

At(place) == outcome = "running" /\ pc = place
Fail == outcome' = "error" /\ UNCHANGED pc
GoTo(place) == pc' = place /\ UNCHANGED outcome

IsKernel(k) == program[k].name \in KernelNames
Kernels == {k \in 1 .. Len(program) : IsKernel(k)}
First(S) == CHOOSE k \in S : \A j \in S : k <= j

-----------------------------------------------------------------------------
(* main up to the code generator.                                          *)

(* Mutant of Chosen: the last kernel is launched.                          *)
ChosenLast == CHOOSE k \in Kernels : \A j \in Kernels : j <= k
Chosen == First(Kernels)

NoKernel == [name |-> "", argCount |-> 0]

FindFirstKernel ==
  /\ At("select")
  /\ kernel' = IF Kernels = {} THEN NoKernel
               ELSE [name |-> program[Chosen].name, argCount |-> program[Chosen].params]
  /\ IF program = <<>> \/ (runOnGPU /\ kernel'.name = "") THEN Fail ELSE GoTo("generate")
  /\ UNCHANGED <<files, done, kernelParams>>

-----------------------------------------------------------------------------
(* genFunction.                                                            *)

Pointers(k) == [i \in 1 .. program[k].params |-> [owner |-> k, index |-> i]]

(* Mutant of Table: the parameters of earlier kernels stay in front.       *)
TableGrowing(k) == IF IsKernel(k) THEN kernelParams \o Pointers(k) ELSE kernelParams
Table(k) == IF IsKernel(k) THEN Pointers(k) ELSE kernelParams

(* A function is in the module before its body is generated, and a second  *)
(* one of the same name is renamed: getFunction finds the first.           *)
Named(name, k) == {j \in 1 .. k : program[j].name = name}

GenBody(k, table) ==
  \A op \in program[k].body :
    /\ op.op # "misuse"
    /\ op.op = "pointer" => op.index < Len(table)
    /\ op.op = "call" => Named(op.callee, k) # {}

(* verifyFunction (external): what a function uses is its own, and calls   *)
(* pass what is expected: doubles, and a double comes back.  (An LLVM with *)
(* assertions stops at such a call when it is created.)                    *)
Verifies(k, table) ==
  \A op \in program[k].body :
    /\ op.op = "pointer" => table[op.index + 1].owner = k
    /\ op.op = "call" => LET callee == First(Named(op.callee, k))
                         IN  ~IsKernel(callee) /\ program[callee].params = op.passed

GenFunction ==
  LET k == done + 1
      table == Table(k)
  IN  /\ At("generate") /\ done < Len(program)
      /\ kernelParams' = table
      /\ IF GenBody(k, table) /\ Verifies(k, table)
         THEN done' = k /\ UNCHANGED <<outcome, pc>>
         ELSE Fail /\ UNCHANGED done
      /\ UNCHANGED <<files, kernel>>

(* The target may be missing; an empty text is the only sign of it.        *)
Emit ==
  /\ At("generate") /\ done = Len(program)
  /\ \/ outcome' = "printed" /\ ~(runOnGPU /\ ~emitLLVM) /\ UNCHANGED pc
     \/ ~emitLLVM /\ Fail
     \/ runOnGPU /\ ~emitLLVM /\ GoTo("launcher")
  /\ UNCHANGED <<files, kernel, done, kernelParams>>

CompilerInit ==
  /\ \E n \in 0 .. MaxFunctions : program \in [1 .. n -> Functions]
  /\ emitLLVM \in BOOLEAN /\ runOnGPU \in BOOLEAN
  /\ kernel = NoKernel
  /\ done = 0
  /\ kernelParams = <<>>
  /\ outcome = "running" /\ pc = "select"

CompilerNext == FindFirstKernel \/ GenFunction \/ Emit

-----------------------------------------------------------------------------
(* A function that needs nothing but its own parameters and the functions  *)
(* up to itself.                                                           *)
Closed(k) ==
  \A op \in program[k].body :
    \/ op.op = "pointer" /\ IsKernel(k) /\ op.index < program[k].params
    \/ /\ op.op = "call"
       /\ \E j \in 1 .. k : /\ program[j].name = op.callee /\ ~IsKernel(j)
                            /\ program[j].params = op.passed
                            /\ \A i \in 1 .. j - 1 : program[i].name # op.callee

(* genTopLevel, genFunction: a program is compiled exactly if each of its  *)
(* functions is closed.  No pointer of another kernel gets into a function *)
(* and none that is its own is refused, whatever was generated before.     *)
CompilesClosedPrograms ==
  /\ \A k \in 1 .. done : Closed(k)
  /\ pc = "generate" /\ outcome = "error" /\ done < Len(program) => ~Closed(done + 1)
=============================================================================
