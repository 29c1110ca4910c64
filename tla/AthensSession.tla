--------------------------- MODULE AthensSession ---------------------------
(***************************************************************************)
(* A session of the Athens compiler (langs/athens/driver.cpp): the items   *)
(* of the runtime library, then those of a file or of the lines typed at   *)
(* the REPL, parsed and handled one at a time.  What an item does depends  *)
(* on tables that outlive it: the operator precedences the parser reads,   *)
(* the prototypes seen so far, the LLVM module under construction and the  *)
(* code handed to the JIT.  They are filled at different moments, by the   *)
(* parser, by code generation and by the driver, and the model follows how *)
(* they drift apart when an item fails half way.                           *)
(*                                                                         *)
(* An item is abstracted to its prototype and to what its body uses, in    *)
(* the order the code generator meets it: a body <<u1, u2>> stands for     *)
(* u1 and u2 as the operands of a standard operator the session leaves     *)
(* alone (BinaryExprAST generates both, whether the first failed or not),  *)
(* the empty body for a number, and the use of an operator o for "... o 1" *)
(* applied to all that is left of it.  The symbol of an operator stands    *)
(* for the function "binary<o>" too.                                       *)
(***************************************************************************)
EXTENDS Integers, Sequences

CONSTANTS
  Functions,        (* names of ordinary functions                         *)
  Operators,        (* binary operator characters                          *)
  Names,            (* names of parameters and variables                   *)
  Native,           (* operators BinaryExprAST::codegen emits itself       *)
  Process,          (* functions the JIT finds in the host process         *)
  Standard,         (* the precedences InstallStandardBinaryOperators sets  *)
  Runtime,          (* the items of lib/runtime.ath                        *)
  Items,            (* the items a user may write                          *)
  MaxItems,         (* bound: items read after the runtime                 *)
  None

Symbols  == Functions \union Operators
Params   == Seq(Names)
CallSite == [to : Symbols, args : Nat]
Compiled == [params : Params, calls : SUBSET CallSite]

UseOf == [kind : {"var"}, symbol : Names, args : {0}]
           \union [kind : {"call"}, symbol : Functions, args : Nat]
           \union [kind : {"op", "unary"}, symbol : Operators, args : {2}]

(* prec is 0 where the prototype has none.  "early" and "late" syntax      *)
(* errors lie before and after the point where an operator is installed.   *)
ItemOf == [ kind : {"def", "extern", "expr"}, symbol : Symbols \union {None}, params : Params,
            prec : 0 .. 100, syntax : {"ok", "early", "late"}, body : Seq(UseOf) ]

(* What parsePrototype lets pass: an operator of precedence 1..100 with    *)
(* two operands.                                                           *)
WellFormed(text) ==
  /\ text \in ItemOf
  /\ text.kind = "expr" <=> text.symbol = None
  /\ text.symbol \in Operators =>
       text.prec > 0 /\ (text.syntax = "ok" => Len(text.params) = 2)

ASSUME SessionAssumption ==
  /\ Functions \intersect Operators = {}
  /\ Native \subseteq Operators
  /\ Process \subseteq Functions
  /\ Standard \in [Operators -> 0 .. 100]
  /\ \A o \in Operators : Standard[o] > 0 => o \in Native
  /\ \A text \in Items : WellFormed(text)
  /\ Runtime \in Seq(ItemOf)
  /\ \A i \in 1 .. Len(Runtime) : WellFormed(Runtime[i])
  /\ MaxItems \in Nat
  /\ None \notin Symbols \union Params
  /\ None \notin Compiled
  /\ None \notin ItemOf

VARIABLES
  prec,      (* BinopPrecedence; 0: not in the table                       *)
  protos,    (* FunctionProtos: the parameters, or None                    *)
  module,    (* TheModule: the parameters of a function it declares        *)
  bodies,    (* the functions of TheModule that have a body                *)
  jit,       (* what TheJIT holds: the parameters and the calls compiled in *)
  resolved,  (* functions of the process its generator has defined in it   *)
  item,      (* the item that is handled; its body: what is left of it     *)
  gen,       (* "none", or how the code generation of its body goes        *)
  calls,     (* the calls it has emitted                                   *)
  pending,   (* the items that are already known to follow                 *)
  phase,     (* "runtime", then "file" or "repl"                           *)
  status,    (* "running", "done" (exit 0), "exited" (exit 1), "crashed"   *)
  count,     (* items read                                                 *)
  failed,    (* history: symbols whose body failed to compile              *)
  externs,   (* history: symbols declared by extern                        *)
  leaked,    (* history: operators a syntax error left in prec             *)
  redeclared (* history: symbols given two different prototypes            *)

session == <<pending, phase, status, count>>
history == <<failed, externs, leaked, redeclared>>
vars    == <<prec, protos, module, bodies, jit, resolved, item, gen, calls, session, history>>

Running == status = "running"
Idle    == Running /\ item = None
EmptyModule == [s \in Symbols |-> None]

(* A failed item ends ParseStream: a file ends the process with status 1,  *)
(* the REPL drops the rest of the line and reads the next one.             *)
Abandon ==
  /\ item' = None
  /\ pending' = <<>>
  /\ status' = IF phase = "repl" THEN "running" ELSE "exited"

-----------------------------------------------------------------------------
(* Parsing.                                                                *)

(* Mutants of Installed: the operator enters the table before anything is  *)
(* checked; a syntax error takes it out, whatever it was before.           *)
InstalledUnchecked(text) ==
  IF text.kind # "expr" /\ text.symbol \in Operators
  THEN [prec EXCEPT ![text.symbol] = text.prec] ELSE prec
InstalledOrRemoved(text) ==
  IF text.kind # "expr" /\ text.symbol \in Operators
  THEN [prec EXCEPT ![text.symbol] = IF text.syntax = "ok" THEN text.prec ELSE 0] ELSE prec

(* parsePrototype puts a binary operator into the table as soon as it has  *)
(* read its precedence, before the operands and the body are parsed.       *)
Installed(text) ==
  IF text.symbol \in Operators /\ text.syntax # "early"
  THEN [prec EXCEPT ![text.symbol] = text.prec]
  ELSE prec

(* An operator that is not in the table ends the expression before it: the *)
(* rest of the text is an expression that begins with a unary operator.    *)
Inactive(use, table) == use.kind = "op" /\ table[use.symbol] <= 0

EndsAt(body, cut, table) ==
  /\ \A i \in 1 .. cut - 1 : ~Inactive(body[i], table)
  /\ cut <= Len(body) => Inactive(body[cut], table)

Expression(body) == [ kind |-> "expr", symbol |-> None, params |-> <<>>, prec |-> 0,
                      syntax |-> "ok", body |-> body ]
Rest(body, cut) ==
  IF cut > Len(body) THEN <<>>
  ELSE << Expression(<<[body[cut] EXCEPT !.kind = "unary"]>>
                     \o SubSeq(body, cut + 1, Len(body))) >>

SyntaxError(text) ==
  /\ text.syntax # "ok"
  /\ leaked' = IF text.syntax = "late" THEN leaked \union ({text.symbol} \intersect Operators)
               ELSE leaked
  /\ Abandon

Parsed(text, following) ==
  /\ text.syntax = "ok"
  /\ \E cut \in 1 .. Len(text.body) + 1 :
       /\ EndsAt(text.body, cut, prec')
       /\ item' = [text EXCEPT !.body = SubSeq(@, 1, cut - 1)]
       /\ pending' = Rest(text.body, cut) \o following
  /\ UNCHANGED <<leaked, status>>

(* One turn of the loop of ParseStream reads and parses an item.           *)
Parse(text, following) ==
  /\ prec' = Installed(text)
  /\ SyntaxError(text) \/ Parsed(text, following)
  /\ UNCHANGED <<protos, module, bodies, jit, resolved, gen, calls, phase,
                 failed, externs, redeclared>>

ParsePending ==
  /\ Idle /\ pending # <<>>
  /\ Parse(Head(pending), Tail(pending))
  /\ UNCHANGED count

ParseNext ==
  /\ Idle /\ pending = <<>> /\ phase # "runtime"
  /\ count < MaxItems
  /\ \E text \in Items : Parse(text, <<>>)
  /\ count' = count + 1

AllButSession == <<prec, protos, module, bodies, jit, resolved, item, gen, calls, history>>

(* main: the runtime library is loaded before the file or the REPL.        *)
RuntimeLoaded ==
  /\ Idle /\ pending = <<>> /\ phase = "runtime"
  /\ phase' \in {"file", "repl"}
  /\ UNCHANGED <<AllButSession, pending, status, count>>

EndOfInput ==
  /\ Idle /\ pending = <<>> /\ phase # "runtime"
  /\ status' = "done"
  /\ UNCHANGED <<AllButSession, pending, phase, count>>

-----------------------------------------------------------------------------
(* Code generation.                                                        *)

NoteRedeclared(s, params) ==
  redeclared' = IF protos[s] \notin {None, params} THEN redeclared \union {s}
                ELSE redeclared

(* getFunction: TheModule first, else a declaration from FunctionProtos.   *)
Declared(table, s) ==
  IF module[s] # None THEN module ELSE [module EXCEPT ![s] = table[s]]

Start(s) == gen' = "ok" /\ calls' = {} /\ bodies' = bodies \union {s}

(* FunctionAST::codegen records the prototype, whatever becomes of the     *)
(* body; the function is the one TheModule already declares, with that     *)
(* declaration's parameters, if there is one.                              *)
BeginDefinition ==
  /\ Running /\ item # None /\ item.kind = "def" /\ gen = "none"
  /\ protos' = [protos EXCEPT ![item.symbol] = item.params]
  /\ NoteRedeclared(item.symbol, item.params)
  /\ module' = Declared(protos', item.symbol)
  /\ prec' = IF item.symbol \in Operators THEN [prec EXCEPT ![item.symbol] = item.prec]
             ELSE prec
  /\ Start(item.symbol)
  /\ UNCHANGED <<jit, resolved, item, session, failed, externs, leaked>>

(* A top-level expression is the body of a function without parameters     *)
(* whose name, __anon_expr, no program can write.                          *)
BeginExpression ==
  /\ Running /\ item # None /\ item.kind = "expr" /\ gen = "none"
  /\ Start(None)
  /\ UNCHANGED <<prec, protos, module, jit, resolved, item, session, history>>

Generating(kinds) ==
  Running /\ item # None /\ gen # "none" /\ item.body # <<>> /\ Head(item.body).kind \in kinds
NextUse == Head(item.body)
Callee(s) == Declared(protos, s)[s]

Used ==
  /\ item' = [item EXCEPT !.body = Tail(@)]
  /\ UNCHANGED <<prec, protos, bodies, jit, resolved, session, history>>

(* NamedValues holds the parameters of the function under construction.    *)
Scope == IF item.symbol = None THEN {}
         ELSE {module[item.symbol][i] : i \in 1 .. Len(module[item.symbol])}

UseVariable ==
  /\ Generating({"var"})
  /\ gen' = IF NextUse.symbol \in Scope THEN gen ELSE "fails"
  /\ Used /\ UNCHANGED <<module, calls>>

Emit == calls' = calls \union {[to |-> NextUse.symbol, args |-> NextUse.args]}

(* Mutant of UseFunction: the number of arguments is not compared.         *)
UseFunctionUnchecked ==
  /\ Generating({"call"})
  /\ module' = Declared(protos, NextUse.symbol)
  /\ IF Callee(NextUse.symbol) # None THEN Emit /\ UNCHANGED gen
     ELSE gen' = "fails" /\ UNCHANGED calls
  /\ Used

UseFunction ==
  /\ Generating({"call"})
  /\ module' = Declared(protos, NextUse.symbol)
  /\ IF Callee(NextUse.symbol) # None /\ Len(Callee(NextUse.symbol)) = NextUse.args
     THEN Emit /\ UNCHANGED gen
     ELSE gen' = "fails" /\ UNCHANGED calls
  /\ Used

(* BinaryExprAST::codegen gives up when an operand failed, emits + - * <   *)
(* and = itself, and calls the function of any other operator.             *)
UseOperator ==
  /\ Generating({"op"})
  /\ \/ /\ gen = "fails" \/ NextUse.symbol \in Native
        /\ UNCHANGED <<module, calls>>
     \/ /\ gen = "ok" /\ NextUse.symbol \notin Native
        /\ Callee(NextUse.symbol) # None
        /\ module' = Declared(protos, NextUse.symbol)
        /\ Emit
  /\ UNCHANGED gen
  /\ Used

(* assert(F && "binary operator not found!"), or what follows without it.  *)
OperatorMissing ==
  /\ Generating({"op"}) /\ gen = "ok" /\ NextUse.symbol \notin Native
  /\ Callee(NextUse.symbol) = None
  /\ status' = "crashed"
  /\ UNCHANGED <<prec, protos, module, bodies, jit, resolved, item, gen, calls,
                 pending, phase, count, history>>

(* "Unknown unary operator": no item of the model defines one.             *)
UseUnary ==
  /\ Generating({"unary"})
  /\ gen' = "fails"
  /\ Used /\ UNCHANGED <<module, calls>>

-----------------------------------------------------------------------------
(* The driver, when the code generation of an item has ended.              *)

Generated(result) == Running /\ item # None /\ gen = result /\ item.body = <<>>

(* Mutants: an operator is disabled by -1; the function is not erased; the *)
(* code does not get to the JIT; a redefinition replaces the code.         *)
ErasedToMinusOne == IF item.symbol \in Operators THEN [prec EXCEPT ![item.symbol] = -1] ELSE prec
RemovedNot == bodies
HandedOverNowhere == jit

(* The body fails: the function leaves the module and, whatever it was     *)
(* before, an operator the table.                                          *)
Erased  == IF item.symbol \in Operators THEN [prec EXCEPT ![item.symbol] = 0] ELSE prec
Removed == bodies \ {item.symbol}

BodyFails ==
  /\ Generated("fails")
  /\ module' = [s \in Symbols |-> IF s = item.symbol THEN None ELSE module[s]]
  /\ bodies' = Removed
  /\ prec' = Erased
  /\ failed' = failed \union ({item.symbol} \intersect Symbols)
  /\ gen' = "none"
  /\ Abandon
  /\ UNCHANGED <<protos, jit, resolved, calls, phase, count, externs, leaked, redeclared>>

HandedOver ==
  [jit EXCEPT ![item.symbol] = [params |-> module[item.symbol], calls |-> calls]]

(* addModule and InitializeModuleAndManagers.                              *)
NewModule == module' = EmptyModule /\ bodies' = {} /\ gen' = "none" /\ item' = None

(* A function of the process that a lookup has found is defined in the JIT *)
(* from then on.                                                           *)
InJit(s) == jit[s] # None \/ s \in resolved

DefinitionAdded ==
  /\ Generated("ok") /\ item.kind = "def" /\ ~InJit(item.symbol)
  /\ jit' = HandedOver
  /\ NewModule
  /\ UNCHANGED <<prec, protos, resolved, calls, session, history>>

(* Mutant of DefinitionDuplicated: the new code replaces the old.          *)
DuplicateReplaces ==
  /\ Generated("ok") /\ item.kind = "def" /\ InJit(item.symbol)
  /\ jit' = HandedOver
  /\ NewModule
  /\ UNCHANGED <<prec, protos, resolved, calls, session, history>>

(* ExitOnErr: the JIT has a definition of that name already.               *)
DefinitionDuplicated ==
  /\ Generated("ok") /\ item.kind = "def" /\ InJit(item.symbol)
  /\ status' = "exited"
  /\ UNCHANGED <<prec, protos, module, bodies, jit, resolved, item, gen, calls,
                 pending, phase, count, history>>

(* HandleExtern: a declaration is added to the module; if it has one of    *)
(* that name already, LLVM renames the new one and getFunction finds the   *)
(* old one.  FunctionProtos holds the new prototype either way.            *)
HandleExtern ==
  /\ Running /\ item # None /\ item.kind = "extern"
  /\ module' = [module EXCEPT ![item.symbol] = IF @ # None THEN @ ELSE item.params]
  /\ protos' = [protos EXCEPT ![item.symbol] = item.params]
  /\ NoteRedeclared(item.symbol, item.params)
  /\ externs' = externs \union {item.symbol}
  /\ item' = None
  /\ UNCHANGED <<prec, bodies, jit, resolved, gen, calls, session, failed, leaked>>

(* A set that holds the functions called and all that their code calls.    *)
Closed(S, sites) ==
  /\ \A c \in sites : c.to \in S
  /\ \A s \in S : jit[s] # None => \A c \in jit[s].calls : c.to \in S

(* KaleidoscopeJIT::lookup links calls when all that can be reached from   *)
(* them has code, in the JIT or in the process; its generator then defines *)
(* the functions it found in the process.                                  *)
Linkable(sites) ==
  \E S \in SUBSET Symbols :
    Closed(S, sites) /\ \A s \in S : jit[s] # None \/ s \in Process
Found(sites) ==
  {p \in Process : jit[p] = None /\ \A S \in SUBSET Symbols : Closed(S, sites) => p \in S}

(* HandleTopLevelExpression: the function goes to the JIT, is linked, run  *)
(* and removed again, with --llvmir too (driver.cpp:293 denies it).        *)
ExpressionRun ==
  /\ Generated("ok") /\ item.kind = "expr" /\ Linkable(calls)
  /\ resolved' = resolved \union Found(calls)
  /\ NewModule
  /\ UNCHANGED <<prec, protos, jit, calls, session, history>>

(* ExitOnErr: a symbol is missing.                                         *)
ExpressionUnlinked ==
  /\ Generated("ok") /\ item.kind = "expr" /\ ~Linkable(calls)
  /\ status' = "exited"
  /\ NewModule
  /\ UNCHANGED <<prec, protos, jit, resolved, calls, pending, phase, count, history>>

-----------------------------------------------------------------------------
Init ==
  /\ prec = Standard
  /\ protos = EmptyModule /\ module = EmptyModule /\ jit = EmptyModule
  /\ bodies = {} /\ resolved = {}
  /\ item = None /\ gen = "none" /\ calls = {} /\ pending = Runtime
  /\ phase = "runtime" /\ status = "running"
  /\ count = 0
  /\ failed = {} /\ externs = {} /\ leaked = {} /\ redeclared = {}

Next ==
  \/ ParsePending \/ ParseNext \/ RuntimeLoaded \/ EndOfInput
  \/ BeginDefinition \/ BeginExpression
  \/ UseVariable \/ UseFunction \/ UseOperator \/ OperatorMissing \/ UseUnary
  \/ BodyFails \/ DefinitionAdded \/ DefinitionDuplicated
  \/ HandleExtern \/ ExpressionRun \/ ExpressionUnlinked

Spec == Init /\ [][Next]_vars

-----------------------------------------------------------------------------
TypeOK ==
  /\ prec \in [Operators -> 0 .. 100]
  /\ protos \in [Symbols -> Params \union {None}]
  /\ module \in [Symbols -> Params \union {None}]
  /\ bodies \subseteq Symbols \union {None}
  /\ jit \in [Symbols -> Compiled \union {None}]
  /\ resolved \in SUBSET Process
  /\ item \in ItemOf \union {None}
  /\ item # None => WellFormed(item) /\ item.syntax = "ok"
  /\ gen \in {"none", "ok", "fails"}
  /\ calls \in SUBSET CallSite
  /\ pending \in Seq(ItemOf)
  /\ \A i \in 1 .. Len(pending) : WellFormed(pending[i])
  /\ status \in {"running", "done", "exited", "crashed"}
  /\ phase \in {"runtime", "file", "repl"}
  /\ count \in 0 .. MaxItems
  /\ failed \in SUBSET Symbols /\ externs \in SUBSET Symbols
  /\ leaked \in SUBSET Operators /\ redeclared \in SUBSET Symbols

(* codegen.cpp:241 "remove function": between two items the module under   *)
(* construction declares functions and defines none, so that each module   *)
(* given to the JIT brings exactly the one function it was made for, and   *)
(* no half-built one of an item that failed before.                        *)
ModuleHoldsNoBody == Idle => bodies = {}

(* What the code generator agrees to call has code in the JIT unless the   *)
(* user declared it extern or its body failed to compile: only then can    *)
(* ExitOnErr end a session for a missing symbol.                           *)
CallableHasCode ==
  Idle => \A s \in Symbols :
    protos[s] # None => jit[s] # None \/ s \in failed \union externs

(* The parser accepts a user operator only if code generation finds its    *)
(* function, except for what a syntax error after the operator of a        *)
(* prototype left in the table; without such an error no session reaches   *)
(* the assertion of BinaryExprAST::codegen.                                *)
ActiveOperatorHasFunction ==
  /\ Idle => \A o \in Operators \ Native :
       prec[o] > 0 /\ protos[o] = None => o \in leaked
  /\ status = "crashed" => leaked # {}

(* An operator that is standard, or that has code, stays usable unless a   *)
(* definition of it failed: codegen.cpp:244 erases the precedence also of  *)
(* an operator that existed before.                                        *)
OperatorLostOnlyByFailure ==
  \A o \in Operators :
    (Standard[o] > 0 \/ jit[o] # None) /\ prec[o] = 0 => o \in failed

(* A call compiled into the JIT passes as many arguments as the function   *)
(* there takes ("argument mismatch", codegen.cpp:163), and a function was  *)
(* compiled with the parameters its prototype is known by, unless the      *)
(* program gave the name two different prototypes.                         *)
CallsMatchDefinitions ==
  \A s \in Symbols \ redeclared :
    jit[s] # None =>
      /\ protos[s] = jit[s].params
      /\ \A t \in Symbols : jit[t] # None =>
           \A c \in jit[t].calls : c.to = s => c.args = Len(jit[s].params)

(* What can be linked and run now can be linked and run later: no item,    *)
(* failed or not, takes code away or replaces it, but for a definition     *)
(* that takes over the name of a function of the host process before any   *)
(* expression has been linked with that function.                          *)
RunnableStaysRunnable ==
  [][\A s \in Symbols :
       LET call == {[to |-> s, args |-> 0]}
       IN  Linkable(call) =>
             \/ Linkable(call)'
             \/ \E p \in Process \ resolved : jit[p] = None /\ jit'[p] # None]_vars

(* codegen.cpp:151 assert(F && "binary operator not found!").              *)
BinaryOperatorFound == status # "crashed"
=============================================================================
