# Verification of "Around the World in Compilers"

TLA+ models of the compilers in this repository, the TLC runs that check them on
small instances, and TLAPS proofs of what holds for every instance.  Paths below
are relative to the repository root (`src/` in `PROJECT.json`).

## 1. The system

Five experimental languages share one frontend.  All programs are sequential: the
difficulty is not interleaving but state that outlives the call that wrote it,
and errors half way through an operation.

| Component | State it keeps | Operations | Talks to |
|---|---|---|---|
| `CharStream` (`shared/frontend/lex/src/char_stream.cpp`) | buffer, cursor, line, column | `peek`, `peek2`, `consumeOne`, `advance`, `view` | read by the lexer only |
| `Lexer` (`shared/frontend/lex/src/lexer.cpp`) | the trivia of the current token | `next`, `leadingTrivia` | language rules (keywords, punctuators, comment delimiters) |
| Language rules (`langs/*/src/*_lex_rules.cpp`) | constant tables | `keyword`, `punctuator`, `comments`, `isIdentStart`, `isIdentContinue` | asked by the lexer |
| `TokenStream` (`shared/frontend/parse/include/token_stream.h`) | two deques: tokens and their trivia | `peek`, `current`, `is`, `leadingTrivia`, `consume`, `match`, `matchAny`, `expect` | calls `Lexer::next` on demand, serves the parser |
| `ParserEngine`, `ParserRegistry` | handler tables | `parseExpression` (Pratt loop), `parseStatement`, `parseItem` | handlers of a grammar pack call back into the engine |
| Athens grammar pack | the global `BinopPrecedence`, written while parsing | prototypes, `if`, `for`, `var`, calls, operators | reads and writes the table that steers the Pratt loop |
| Athens code generation (`langs/athens/src/codegen.cpp`) | `TheModule`, `NamedValues`, `FunctionProtos`, `BinopPrecedence` | `codegen` of every AST node | tables shared with parser and driver |
| Athens driver (`langs/athens/driver.cpp`) | `TheJIT`, the session | `ParseStream`, `HandleDefinition`, `HandleExtern`, `HandleTopLevelExpression`, `LoadFile`, `LoadRepl` | parser, code generation, ORC JIT |
| Berlin (`langs/berlin`) | MLIR builder and its insertion point, symbol table | `gen*` | same frontend |
| Cairo (`langs/cairo`) | NVPTX module, `namedValues_`, `kernelParams_`; CUDA launcher: context, module, device buffers | `gen*`, `loadPTX`, `runKernel` | same frontend, CUDA driver |
| Dublin (`langs/dublin`) | SMT emitter: names and text; driver: temporary files, verdict | `emit*`, `exportSmtlib`, `runZ3`, loop over assertions | same frontend, `mlir-translate`, Z3 |
| Edinburgh (`langs/edinburgh`) | none of its own | `tryCandidate` | LLVM MachineScheduler |

### Where it is hard

* **Lexer and token stream.**  The lexer owns one trivia buffer that every call of
  `next()` overwrites; the token stream looks ahead, so the lexer is usually
  further on than the parser.  Trivia must stay with their token.  Loops inside
  loops must each move the cursor, and the cursor moves in two ways (`advance(n)`,
  `consumeOne()`), of which one does not move on a NUL byte.
* **Athens session.**  One item changes four tables at four moments: the parser
  puts an operator into `BinopPrecedence` in the middle of a prototype, code
  generation records the prototype before it generates the body and declares
  functions in the module as it meets calls, the driver hands the module to the
  JIT at the end.  Any of these can fail, the REPL goes on after a failure, and
  nothing is rolled back except what `FunctionAST::codegen` erases by hand.
* **Code generation of scopes.**  `var` and `for` shadow and restore bindings by
  hand; Cairo keeps two symbol tables; Berlin moves the builder's insertion point.
* **Dublin.**  A condition is translated twice, by the emitter and by
  `mlir-translate`, before Z3 sees it, and on the way it is three times the content
  of a file.  Every call can fail, with files already made; writes fail late and
  reads fail silently; and the loop goes on behind a counterexample.
* **The CUDA launcher.**  Every call of the driver can fail with buffers already
  allocated, and `runKernel` then returns at once.  The number of elements goes
  through integers of two widths.

### What makes each component correct

* Lexer: tokens and trivia tile the input; every location is that of its offset;
  tokens are the longest lexemes of the grammar; every call but the last consumes.
* TokenStream: behaves as the sequence of the program's tokens, whatever was
  looked at before; each operation returns.
* Athens session: what the parser accepts code generation can compile; what
  compiles links unless the program asked for something missing; code that runs
  once keeps running; a failed item leaves no half-built function behind.
* Parser engine: the tree is the one precedence and left associativity demand.
* Berlin, Cairo: a variable refers to its innermost binding; each function is
  generated into itself.
* Cairo with its launcher: what is launched is the kernel that was chosen, with a
  buffer for every index its body uses; nothing stays on the device; success
  means that results came back.
* Dublin: a query is satisfied by exactly the inputs that break its assertion;
  the verdict covers every assertion; no temporary file survives.

## 2. The modules

| Module | Kind | Models |
|---|---|---|
| `Lexer` | component | `CharStream` and `Lexer`: one action per piece of trivia, per character of a comment, per way a token is lexed |
| `LexicalReference` | reference | the lexical grammar as a declarative definition: longest lexemes, comment extents, and the token sequence of a buffer |
| `MCLexer` | instance | Athens character classes; a second alphabet with NUL |
| `LexerProofs` | proofs | eight theorems: five about `Lexer` and its agreement with `LexicalReference`, three about `TokenStream`, one of them the refinement of `TokenSource` |
| `TokenSource` | abstract specification | a sequence of tokens one may look at and take from |
| `TokenStream` | composition | the two deques over `Lexer`; refines `TokenSource` |
| `MCTokenStream` | instance | a language with every form of comment delimiter |
| `PrattParser` | component | `ParserEngine::parseExpression` with the expression handlers and builders of Athens |
| `ExpressionReference` | reference | the tree the tokens of an expression stand for, stated declaratively |
| `MCPrattParser` | instance | texts over the operators, every form of expression, one wrong token |
| `PrattParserProofs` | proofs | two theorems about `PrattParser` |
| `ExpressionCodegen` | component | the walk of the three back ends over a function: symbol table, blocks, phi nodes |
| `ScopeReference` | reference | which binding an occurrence of a name refers to, from the tree alone |
| `MCExpressionCodegen` | instance | forms nested in forms with shadowing; programs of two functions |
| `ExpressionCodegenProofs` | proofs | three theorems about `ExpressionCodegen` |
| `ScopeProofs` | proofs | three theorems: the walk of `ExpressionCodegen` agrees with `ScopeReference`, and when parameters keep their names |
| `AthensSession` | component | parser effects, code generation and driver over the items of a session |
| `MCAthensSession` | instance | two functions, three operators, about 70 different items |
| `AthensSessionProofs` | proofs | seven theorems about `AthensSession` |
| `DublinParser` | component | `parseFile`, `parseVerify`, `parseAssert` and `parseStatement` over the tokens of a file |
| `SmtEmitter` | component | the class `SmtEmitter`: the query for one assertion, its names and types; what the tools make of it |
| `DublinVerifier` | composition | `main`, `exportSmtlib`, `runZ3` with temporary files and failing tools, over `DublinParser`; refines `Verdict` |
| `Verdict` | abstract specification | what a verifier promises of a block of assertions |
| `VerifyReference` | reference | how a block is written, which expressions have a type, on which inputs a condition is true |
| `DublinBlocks`, `MCDublinVerifier` | instance | blocks of up to three assertions, broken texts; emitter and meaning tabulated |
| `DublinVerifierProofs` | proofs | six theorems about `DublinVerifier` |
| `CairoCompiler` | component | `main` up to the PTX, `FindFirstKernel`, `genFunction` over the functions of a file |
| `CudaLauncher` | composition | `CUDALauncher` and the rest of `main`, over `CairoCompiler` |
| `MCCudaLauncher` | instance | files of up to three functions, sizes around the ranges of the integers |
| `CudaLauncherProofs` | proofs | six theorems about `CudaLauncher` |
| `Minima` | lemmas | a nonempty set of naturals has a least element; used by the proofs about the launcher, the verifier, the lexer, the stream and code generation |

### Lexer

`buffer`, `loc`, `trivia` are the fields of `CharStream` and `Lexer`; `pc` says
where a running `next()` stands; `out` is the history of what it returned.
Characters are arbitrary values; the language is given by constants (character
classes, keywords, punctuators, comment delimiters in order).  Runs of blanks,
identifier characters and digits are one step: they cannot contain NUL
(`LanguageAssumption`), the only character on which a loop of `consumeOne` stands
still.  Comments can, so they advance character by character.  Token kinds of
keywords and punctuators are abstracted to two kinds; the lexeme tells them apart.
The values of literals are left out except for what makes a number invalid.

`LexicalReference` says from the text alone what pieces it consists of (`PieceAt`) and
reads it from left to right (`Reading`, a function of the offset, so that the theorems
can speak of it).  `LexemesAssumption` is what the tables of every language here satisfy
and the lexer relies on: a keyword is spelled like an identifier, and no two-character
punctuator begins like an identifier or a number.

### TokenStream

An operation (`Begin`) first fills the deques up to its lookahead: `FillCall`
calls `next()`, whose steps are those of `Lexer`, and `FillPush` appends the token
and a copy of the lexer's trivia.  `Peeked`, `Consumed`, `Matched` stand for the
public operations (`match`, `matchAny` and `expect` differ in the set of kinds
and in a diagnostic only).  `program` is a history variable: the tokens the
grammar assigns to the buffer, fixed at the start.

### PrattParser

Engine and handlers are mutually recursive C++ functions, so the model is a
machine with an explicit `stack`: a frame `expression` is a running
`parseExpression(min)`, every other frame the handler that called it, with the
parts it has parsed (`kids`).  `mode` says who runs: `call` (the engine takes its
first token and looks for a prefix handler), `lhs` (the loop has a tree and looks
at the next token), `result` (a handler gets back the tree it asked for).  One
action is what happens between two calls: `InfixOperator` is one turn of the
loop up to the recursive call, `BinaryEnds` the builder after it, `IfContinues`
a `then` or an `else`, and so on.  `Fail` is a diagnostic with the null tree of
`makeErrorExpr`; `Make` is a builder that returns null without saying so, which
the history variable `silent` records.  `NoPrefix` returns before the loop, as the
code does.  Tokens are lexemes; the operator table is a constant, since nothing
writes it inside an expression.

`ExpressionReference` defines, from the text and the table alone, the set of
derivations of an interval of tokens.  What makes precedence and the dangling
`else`, `in` and unary operand declarative is `open`: the least precedences of the
expressions that end at the right edge; an operator may follow only where it is
weaker than all of them.  The definition is recursive and used by TLC only.

### ExpressionCodegen

`codegen` (Athens), `gen*` (Berlin) and `gen*` (Cairo) are recursive functions of
one shape over the same tree; `backend` says where they differ.  `todo` is what
the running calls have still to do, in order, `saved` their local variables
(`OldBindings`, `OldVal`, `ThenBB`, the insertion point to return to).  `table` is
`NamedValues` / `namedValues_`; a slot is named by the place that allocated it, so
that a reference definition can say which one a name should find.  `flow`, `edges`
and `phis` are the basic blocks with the insertion point; for Berlin a block is a
region of a structured operation and there are no edges.  The differences: Athens
generates step and end of a loop behind the body and in its scope, the others
before the loop; Cairo erases the loop variable instead of restoring it, does not
clear the table for a kernel, and rejects what `verifyFunction` rejects (a slot of
another function); Athens casts the left side of an assignment unchecked.  That is undefined
behaviour: a call or a loop, which begin with a string as a variable does, may be taken for the variable
of that name (`Misread`), and everything else may fail or crash (`AssignmentToNoVariable`).

The table has a parameter under a name that is not always the source's (`Keys`).  Berlin
takes the source's, and of a repeated name the last.  Athens and Cairo take the name of LLVM's argument,
and LLVM gives no two values of a function one name (`Named`, external): the second `x` is `x1`, so that
the first is found; in Cairo the entry block and the slots are named as well, so that `x1` behind
`x` is not found at all.  And Athens compiles a body into the declaration the module has of the function,
which an `extern` may have made under other names: a function has `params` and `declared`.

`Trees` is the set of expressions and parts of expressions that occur; `IsTree` is what
the parser builds of them (a number or a variable has no parts, an `if` has three, a `for`
four, a `var` any bindings and a body; a step and an initializer may be absent, which is
`Null`).  It is the assumption under which the theorems hold for every program, and TLC
evaluates it on the programs of the run.

`ScopeReference` names a part of a body by its path, as the slots are named.  `Places` are
the paths of a body, level by level down to `Depth`, and `DepthAssumption` says that no
expression of `Trees` has parts below that: each tree of the program is finite, and
any bound on all of them will do.  `Binders` are the loops, bindings and parameters in
whose scope a place stands, and the meaning of a name there is the innermost of them.

Left out: a call with an argument that was rejected without a diagnostic, what happens
after a failure inside the same function (the function is dropped and the table cleared, or the program ends), types and values, callees,
and in Berlin a second function.  `ScopesAreLexical` and `RejectsOnlyUnbound` except, by name,
the two cases in which the code does not restore, a name bound twice by one `var` (`BindsTwice`)
and in Cairo a loop over a visible name (`LoopShadows`); parameters that do not keep their name
(`RenamesParameter`); and in Athens an assignment to no variable (`AssignsToNoVariable`).

### AthensSession

`prec`, `protos`, `module`/`bodies`, `jit` are `BinopPrecedence`,
`FunctionProtos`, `TheModule`, `TheJIT`.  An item is its prototype and the list of
variables, calls and operators its body uses, in the order code generation meets
them.  Parsing is one action (the table it reads cannot change under it, except
by the item's own prototype, which is part of the action); code generation is one
action per use, because each may declare a function in the module or fail with
what it did before left in place; the driver's handling of the result is one
action per outcome.  `ExitOnErr` ends the session (`exited`), the assertion of
`BinaryExprAST::codegen` ends it as `crashed`.  `KaleidoscopeJIT` forwards to ORC, which is external:
a call links (`Linkable`) when everything reachable from it is in the JIT or in the host
process.  The generator of `KaleidoscopeJIT.h:53-55` then defines in the JIT what it found in the process
(`Found`, `resolved`), and a later definition of such a name is a duplicate like any other (`InJit`);
an earlier one takes the name over.  The history variables `failed`, `externs`, `leaked`, `redeclared` record
why a table may be out of step; the invariants name exactly these reasons.

Left out: the values computed, unary operator definitions (a unary use fails with
"Unknown unary operator"), optimisation passes, the printing of `--llvmir` and
`--verbose`, and trees that a builder rejects without a diagnostic.
The command line has no effect on the session: `HandleTopLevelExpression` is not given the mode
and executes each expression with `--llvmir` too, although the help text (`driver.cpp:293`) says
"Emit LLVM IR instead of executing the program".

### DublinParser

`tokens` and `pos` are the file and the stream (`TokenStream` refines a sequence
of tokens, which is what stands here); `pc` says where the recursive descent
stands.  An error in the header returns an empty item at once (`Reject`).
Behind the header, `ParseAssert` and `NoStatement` are the two ways through
`parseStatement`; both may report an error and go on, and `Acceptable` is the test
`parseFile` makes at the end.  Expressions are left to `PrattParser`: a condition is
one token that carries its tree, `NoTree` where the builder returns null (a float).

### SmtEmitter and VerifyReference

A query is straight-line code: `Define` is one line of output with the name
`nextName` makes, `EmitExpr` and the operators below it are the recursive `emit*`
functions.  `expected` and `RightExpected` carry the type a literal takes; after an error every step is idle.  Names
are strings, because `nextName` appends a number without a separator and so
two different hints can give one name.  `Broken` ends the emission with an error, or
with the dereference of a null expression.  The tools are external:
`Understood` is what `mlir-translate` accepts (operations of the smt dialect, no name defined
twice, literals that fit),
`Satisfying` what Z3 decides: the inputs on which all that is asserted is true, by
evaluating the query line by line.

`VerifyReference` does not know the emitter: types are sets (a literal has every
width that can hold it), values are integers modulo 2^w.  `QueriesAreFaithful`
compares the two.  The dialect (`Dialect`, external) has `smt.bv.add`, `smt.bv.neg` and `smt.bv.mul`, but
no subtraction of bit vectors, while `emitBinary` writes `smt.bv.sub` for a binary minus
(`dublin.cpp:224-227`): `mlir-translate` refuses such a query, so that **no assertion that subtracts
can be verified**, although `langs/dublin/README.md:4` says that each is turned into a query.
`OnlySubtractionIsRefused` states both sides: on source with distinct
arguments that do not end in a digit, with assertions that have types
and without a literal on the left of a comparison (which is 32 bits wide whatever stands on the
right), nothing is rejected or undefined, and `mlir-translate` refuses the query exactly if the
assertion, or one it assumes, subtracts.  Off plain source there is a second defect: an argument such as `c1`
and a later value can get one name, which MLIR refuses too.  A
float literal has no type in the reference, so that the null expression it becomes is not plain.

### DublinVerifier and Verdict

`mode` and `index` are the loop of `main`; `disk` maps the role of each temporary
file that exists (`mlir`, `smt2`, `query`) to the text it holds.  `pc` moves through `exportSmtlib`
and `runZ3`: one action per system call or tool.  Faults: writing may fail at
once or when the stream is closed (the text is then `Cut`, and nobody is told), reading
may find nothing, `mlir-translate` and Z3 may fail or answer anything but a wrong
verdict, `rename` and `remove` may throw, which ends the program.  `reported` and
`unwritten` are history.

`Verdict` is the promise: counterexamples are reported in order and only where some
input fails first, "verified" comes when there are none, "refuted" when all have
been reported, and the program may give up.  `DublinVerifier` refines it
(`Promise`, `ImplementsVerdict`); a step that prints a query or moves a file is a stutter.

### CairoCompiler

`program` is what `ParseFile` returned, a sequence of functions with the operations
in them that can be refused: pointer accesses by index, calls, misused built-ins.
`GenFunction` is `genFunction` with `verifyFunction`; `kernelParams` survives from a
kernel to the device functions after it, so that `cairoLoad(0, i)` in a device
function names a pointer of another function, which only the verifier stops.
`CompilesClosedPrograms` says it always does, and that nothing left over makes a
correct function fail.

### CudaLauncher

One action per call of the CUDA driver, each with its failure: `Return` goes to
the destructor with the buffers as they are, which only the destruction of the context
releases.  `host` and `device` say what is in the two buffers of each argument; `bytes`
and `grid` are what the driver was told, computed modulo `SizeRange` and `UnsignedRange`.
The calls of the destructor, whose results nobody looks at, may fail as well: a context that could
not be destroyed is `kept` with what it holds, the one exception of `DeviceMemoryIsOwned`.
`resize` may throw (`HostRunsOut`), which ends the program.  `PrintResult` with no arguments reads
`host[argCount - 1]` far out of range: outcome `undefined`, the one exception `ReportsWhatRan`
names.  The comment at `cuda_driver_launcher.cpp:105` promises one thread per element;
`LaunchMatchesKernel` shows it for counts below 2^32; from there on the conversion to
`unsigned` at line 106 launches fewer (or, at multiples of 2^32, none, which the driver refuses),
and the property only bounds the threads by the elements.

## 3. The runs

| Run | Checks | Shows |
|---|---|---|
| `lexer_athens` | `TypeOK`, `Lossless`, `LocationsAgree`, `NextConsumes`, `AgreesWithGrammar`, `ReachesEof` | all texts of up to 4 characters over 10 representatives: the tokens are those of the grammar, nothing is lost, locations are true, the lexer ends |
| `lexer_nul` (violation) | `NextConsumes` | with a NUL in the file `next()` returns a token without consuming, against the comment at `lexer.cpp:20` |
| `token_stream` | `StreamTypeOK`, `Window`, `ImplementsSource`, `CallsReturn` | every order of peek (lookahead 0 and 1), match and consume refines the token source, past the end of file too |
| `parser` | `TypeOK`, `RecursionConsumes`, `AcceptsExpressions`, `TakesLongestExpression`, `Terminates` | each expression has one tree and the parser returns it; a text that is none is consumed up to the longest expression or rejected; the parser ends on every text |
| `parser_hole` (violation) | `NullInitializerIsAbsent` | `var a = <= b in a` is accepted without a diagnostic as `var a in a`, against the comment at `athens_grammar_pack.h:192` |
| `codegen` | `TypeOK`, `PhisMatchBranches`, `EveryBlockEndsOnce`, `ScopesAreLexical`, `RejectsOnlyUnbound` | in all three back ends a complete function refers to the innermost binding everywhere, and its blocks are well formed |
| `codegen_var` (violation) | `VarsArePoppedOutOfScope` | `(var a=1, a=2 in a) + a`: the last `a` is the first binding of the `var`, against the comment at `codegen.cpp:351` |
| `codegen_arguments` (violation) | `ArgumentsAreRecorded` | behind `extern f()` (or `extern f(b)`) Athens rejects `def f(a) a` for an unknown variable `a`, against the comment at `codegen.cpp:209` |
| `athens_session` | the six invariants of `AthensSession` and `RunnableStaysRunnable` | all sessions of up to 4 items after the runtime, as a file or at the REPL |
| `athens_session_assert` (violation) | `BinaryOperatorFound` | at the REPL, a syntax error behind `binary@` followed by a use of `@` reaches the assertion of `codegen.cpp:151` |
| `dublin` | `TypeOK`, `VerdictIsExact`, `NothingLeftBehind`, `AcceptsItsText`, `QueriesAreFaithful`, `OnlySubtractionIsRefused`, `ImplementsVerdict`, `Terminates` | from the tokens of a file to the exit of `main`, whatever the file system and the tools do: what is accepted is what was written, queries mean what the source means, plain source is translated unless it subtracts, the verdict is exact |
| `cairo` | `TypeOK`, `CompilesClosedPrograms`, `LaunchMatchesKernel`, `DeviceMemoryIsOwned`, `ReportsWhatRan` | from the functions of a file to the exit of `--run`, whatever calls of the CUDA driver fail |

### Bounds

* `MaxLength` 4: the longest interplay of the lexer is a two-character opening or
  punctuator with one character before and one after it; a number needs three
  characters to have two dots.  `McMaxInteger` 19 makes 91 and 99 overflow with two digits.
* `MaxLookahead` 1 (the parsers of this repository never look further), `MaxTaken`
  3: Eof is taken more than once on short buffers.
* `MaxLength` 6 of `MCPrattParser`: two operators with a prefix operator and a
  parenthesis between them; the operators cover weaker, stronger and as strong as
  the prefix (100).  The forms `if`, `for`, `var` and call have parts that are an
  atom, an operation or rejected by a builder, each also as an operand, cut short
  at every token, and with each token replaced by five others.
* `MCExpressionCodegen`: two names, twelve inner bodies that use, assign, bind or
  shadow them (one assigns to no variable, one binds a name twice), each as part
  of an operation, an `if`, a `for` or a `var` that may shadow again: three levels, which
  is what makes an arm end in another block than it began in.  `Depth` 4 is the longest
  path of these trees.  Functions of none to three parameters, with repeated names, with a name that is
  another one followed by a number (`McNumbered`), and behind declarations with other
  parameters; assignments to a call and to a loop named like a variable or not.
* `MaxItems` 4: define, fail or redefine, use, use again; the counterexamples need
  two items.  The runtime is one operator, enough to have an operator the user
  did not define.
* `DublinBlocks`: bit vectors of 1, 2 and (by default) 3 bits instead of 1 to 64: at one
  bit signed and unsigned order differ on every pair, at two bits every boundary
  and every wrap-around occurs.  Numerals are base 2, so that the counter gets its
  second digit at the third name and collisions of names happen; arguments are called like the emitter's
  hints, with and without a digit behind.  Plain source occurs with and without a
  subtraction.  Up to three assertions: one
  before and one behind a refuted one.  Broken texts have one token missing, doubled,
  replaced by each other one, or end early.
* `MCCudaLauncher`: files of up to three functions over two kernel names and one device
  name, so that a name may be defined twice and a device function may stand
  before, between and behind kernels; up to two arguments (a loop that fails at its first and at
  its last turn).  `UnsignedRange` 4 and `SizeRange` 128 keep the order of
  2^32, `max_size` and 2^64; the sizes lie below, at and above each.
* The alphabets hold one or two members of each class the code distinguishes.

Deadlock is not checked: a lexer that has returned Eof, a token stream at its
bound, a parser that has returned, a program that is generated, a session that
has ended and a `main` that has returned do stop.

### Fairness

`FairSpec` of `Lexer` and `FairStreamSpec` of `TokenStream` assume weak fairness
of the single thread while a call runs (`next()`, or an operation of the stream):
a sequential program that has a step to take takes it.  The parser is not assumed
to make further calls (`CallsReturn`); in `lexer_athens` the client is a loop that
asks until Eof, as all drivers are.  `FairSpec` of `PrattParser` assumes weak
fairness of the one thread for the same reason.  `AthensSession` has no fairness: the user may
leave at any time, and only safety is stated; the same holds of `ExpressionCodegen`.
`FairSpec` of `DublinVerifier` assumes weak fairness of the one thread and with it
that `mlir-translate` and Z3 return, in whatever way: `main` waits for them without a timeout.
`CudaLauncher` states safety only, since a kernel may run for ever.

## 4. The proofs

`PrattParserProofs` proves, from `GrammarAssumption` alone (token classes are
disjoint, precedences lie between 0 and 100), for every text and operator table:
`TypeCorrect` (`TypeOK`) and `RecursionIsBounded` (`RecursionConsumes`: the stack
is at most twice as deep as tokens are consumed).  `TypeOK` is not inductive; the
invariant adds `InTurn`: frames of engine and handlers alternate, with the engine
outermost, and `mode` says which is on top.  Three lemmas (`Calls`, `Returns`,
`Results`) cover the three ways a step leaves the stack, each action is reduced
to one of them.

`AthensSessionProofs` proves, from `SessionAssumption` alone, for any sets of
functions, operators, items and any runtime, and for sessions of any length:

| Theorem | Property | Inductive invariant |
|---|---|---|
| `TypeCorrect` | `TypeOK` | with `UnderConstruction`: the item being generated has a declaration in the module (without it the code handed to the JIT could have no parameters) |
| `NoBodyBetweenItems` | `ModuleHoldsNoBody` | `OnlyItsBody`: during generation the only body is the item's own |
| `CallableFunctionsHaveCode` | `CallableHasCode` | `HasCode`: as the property, plus the item being generated |
| `OperatorsHaveFunctions` | `ActiveOperatorHasFunction` | `ActiveOperators`: also the operators left in the body being generated are in the table, and an operator may wait for its function while its item waits for code generation |
| `OperatorsStay` | `OperatorLostOnlyByFailure` | `OperatorsKept`: the operator under construction is in the table |
| `CallsAgreeWithCode` | `CallsMatchDefinitions` | `OnePrototype`: declaration, code and calls follow the one prototype of a name, in the module, in the calls emitted so far and in all compiled code |
| `CodeIsKept` | `RunnableStaysRunnable` | none needed beyond the types: the JIT only grows, and never by a name it has resolved in the process, so the closure of a call stays closed |

Each invariant was checked with TLC before it was proved.  Sequence facts (cutting
a body, consuming a use, concatenating what follows) are lemmas of their own.

`CudaLauncherProofs` proves, from `CompilerAssumption` and `LauncherAssumption` alone (parameter
counts and indices are natural numbers, the two ranges and the size of a double are
positive, sizes are positive and below `SizeRange`), for any functions, files of any length, any sizes and any widths of the integers:

| Theorem | Property | Conjuncts of `IInv` it rests on |
|---|---|---|
| `TypeCorrect` | `TypeOK` | `PlaceOK`, `ContextOK`: a place inside `runKernel` has a live context and buffers for all arguments |
| `OnlyClosedPrograms` | `CompilesClosedPrograms` | `TableOK`: the pointers are those of a kernel generated before, or none |
| `NoDeviceLeak` | `DeviceMemoryIsOwned` | `BeforeOK`, `ContextOK`; nothing is left unless `cuCtxDestroy` itself fails |
| `HonestReport` | `ReportsWhatRan` | `HostOK`: while `ok`, what has been copied is a result |
| `RightLaunch` | `LaunchMatchesKernel` | `KernelOK` (the kernel is the first of the file from the selection on), `DeviceOK`, `SizesOK` |

`Invariance` is `Spec => []IInv`.  None of the properties is inductive: each speaks of
a place that is reached through loops over arguments, whose progress `DeviceOK` and
`HostOK` describe (all arguments before `arg` are done).  That the first kernel exists and is unique
is the least-element principle, proved in `Minima` from well-founded induction.

`DublinVerifierProofs` proves, for any files, emitter, translator and solver, from `ParserAssumption`
and `NullIsNoBlock` (the null pointer is not a block):

| Theorem | States | Inductive invariant |
|---|---|---|
| `LoopInvariance` | `Spec => []LoopInv` | `LoopInv`: the driver has a block and an index within it, and exactly the temporary files of its place |
| `TypeCorrect`, `NoFileLeak` | `TypeOK`, `NothingLeftBehind` | follow from `LoopInv` |
| `ReportInvariance` | `Spec /\ []QueryIsFaithful => []IInv` | adds `TextOK` (each text on its way is faithful or cut) and `ReportOK` (the reports are those of the assertions done) |
| `ExactVerdict` | `Spec /\ []QueryIsFaithful => []VerdictIsExact` | `IInv`; from no input failing first to every assertion on every input is an induction over assertions, by the least one that fails |
| `KeepsPromise` | `Spec /\ []QueryIsFaithful => ImplementsVerdict` | `IInv`, and every action is a step of `Verdict` or a stutter |

The premise `[]QueryIsFaithful` is what the driver relies on: a query that `mlir-translate` accepts
means its assertion.  The emitter is recursive over expressions, so it is discharged by TLC
only: `QueriesAreFaithful` of run `dublin` has it as its first conjunct.

`LexerProofs` proves, from `LanguageAssumption` and `LexemesAssumption`, for every language and every
set of texts of any length:

| Theorem | Property | Inductive invariant |
|---|---|---|
| `TypeCorrect` | `TypeOK` | itself |
| `NothingIsLost` | `Lossless` | with `TypeOK`: a step either adds a piece that begins where the last one ended, or leaves the pieces alone |
| `LocationsAreExact` | `LocationsAgree` | with `TypeOK`; that `advance(n)` counts lines and columns like n times one character is a lemma about cardinalities |
| `ConsumesUnlessNul` | `NextConsumes` | with `TypeOK`, if no text holds NUL |
| `ReadsTheGrammar` | `AgreesWithGrammar` | `GrammarInv`, if no text holds NUL |

The premise of the last two is `NulFree`: no text of `Inputs` holds NUL.  It is needed, since run
`lexer_nul` shows what happens otherwise.  `GrammarInv` says what the control flow of
`Lexer::next` keeps implicit: inside a comment, that no place passed could have ended it
(`InComment`); at a token, that no trivia begins there (`AtToken`); and that what has been
returned together with the trivia held is `Reading` at the start of the piece under way
(`InProgress`), until Eof has been returned (`PastEnd`).  Each step then finds one piece of the
grammar, part of one or none (`EveryStepFinds`), where finding the longest lexeme is one lemma
per way to lex a token.  `Reading` is a recursive function of the offset; that it satisfies its
defining equation everywhere is proved by the least offset at which it would not.

The same module proves, from these and `StreamAssumption` (the two bounds are natural numbers):
`StreamTypeCorrect` (`StreamTypeOK`), `DequesAreTheWindow` (`Window`) and, with `NulFree`,
`StreamImplementsSource` (`ImplementsSource`).  The invariant adds to the types and `Window` that a
running operation has room for the token it takes (`HasRoom`) and that between its calls the lexer
still holds the trivia of its last output (`HoldsLast`), which is what the stream copies.  For the refinement, `ReadsOn` says that the
lexer has returned the grammar's tokens in order, and Eof again for each call past the end; unlike
the client of `Lexer`, a parser may go on asking there.  Every action of the stream is then a
step of `TokenSource` or a stutter.

`ExpressionCodegenProofs` proves, from `CodegenAssumption` and `TreesAssumption`, for programs of any
number of functions whose forms are nested to any depth, and for the three back ends:

| Theorem | Property |
|---|---|
| `TypeCorrect` | `TypeOK` |
| `PhisNameTheirBranches` | `PhisMatchBranches` |
| `BlocksEndOnce` | `EveryBlockEndsOnce` |

All rest on `CodegenInv`, none of the properties being inductive.  The C++ functions keep
their place in local variables; the invariant reconstructs it.  There is a stack `K` of running
constructs (an arm of an `if`, a loop, a `var`), one for each frame of `saved`, such that what is
to do leads from `K` to the empty stack (`Leads`: each task needs certain constructs on top and leaves
others), so that a `merge` can only come when an `else` arm is on top.  Of that stack:

* `Layout`: a block without terminator is the one code is added to or one that exactly one
  running construct waits for; hence when none runs, all other blocks have theirs.
* `Arrows` (Athens, Cairo): the join of a running construct has exactly the edges its frame
  remembers, and no phi yet; hence nothing a nested form does can add an edge to it.
* `Home` (Berlin): the outermost operation returns to the first block.

The steps that open a construct, go on to its next part and close it are proved once for any stack
(`OpenLayout`, `SwapLayout`, `CloseLayout` and their like for `Arrows` and `Home`); an action
instantiates one of them.

`ScopeProofs` proves, from the same assumptions, `NullAssumption` (`Null` is neither an
expression nor a slot) and `DepthAssumption`, for the same programs and back ends:

| Theorem | Property |
|---|---|
| `OccurrencesAreLexical` | `ScopesAreLexical` |
| `OnlyUnboundIsRejected` | `RejectsOnlyUnbound` |
| `OrdinaryParametersKeepTheirNames` | the exception `RenamesParameter` of the other two is no wider than it should be |

Both properties speak of the end of a function and compare one table, changed in place and
put back by hand, with bindings read off the tree; nothing of that can be seen from one
step.  The inductive invariant `ScopeInv` therefore adds, for a regular body, `Strolls`: the
rest of the work is a walk from the present situation to an end.

* `Meanings` is the scope of every place, the slot of each name there or none.  `Laws` (`LawsHold`)
  is all the proof needs to know of it: how the scope changes from a place to its parts.
  A loop adds its variable to the parts in `LoopScope`, a binding its name to what follows
  it, everything else passes the scope on.  The laws follow from `Binders` and `Innermost`.
* A situation is the constructs that run, with how many names each has bound so
  far, and a scope.  `Goes` says from which situation to which a task leads, `Walks` that the
  tasks to do lead from one to another.  Whatever an expression is replaced by
  leads where it led.
* `Stands`: the table agrees with the scope of the situation, and the frames of the running
  constructs hold what their names meant where they were bound.  This is what makes `restore` and
  `exit` put the scope of the construct itself back.
* `Used`: what has been loaded or stored so far is the meaning of an occurrence.
  `Covered`: an occurrence has been used or lies below an expression still to be generated.

At the end nothing is to do, so that every occurrence has been used, and each use is the innermost
binding.  In Cairo a name without a binding may still find a slot that an earlier function left
in the table; such a use is a slot of another function, so that `verifyFunction` rejects the
function, and `RejectsOnlyUnbound` is right to allow it.  The exceptions of `Regular` are needed:
run `codegen_var` shows a name bound twice, run `codegen_arguments` a renamed parameter, and a loop
of Cairo erases what it shadows.

`RenamesParameter` speaks of names LLVM makes.  `OrdinaryParametersKeepTheirNames` says in terms of
the source when it is false, so that the theorems hold without it: the parameters are distinct, in
Athens they are those of the declaration the module has, and in Cairo none is called `entry` or
like a parameter followed by a number.  The proof follows the naming parameter by
parameter: what is taken so far are the parameters named, their slots and the entry block.

Only model-checked, and why:

* What needs an induction over trees: `AcceptsExpressions` and `TakesLongestExpression` (the
  derivations of a text), `QueriesAreFaithful`, `OnlySubtractionIsRefused` and `AcceptsItsText` (the
  emitter and the reference for it).  These references are recursive operators, which the
  prover does not support.
* Liveness: `ReachesEof`, `CallsReturn` and both `Terminates`.

## 5. Not modelled

* **Berlin over several functions** and its driver: what the MLIR builder points to after
  a function was erased is MLIR's state, and `berlin.cpp` is a fixed sequence of passes.
* **Cairo's values, metadata and PTX back end**: LLVM's.
* **Edinburgh** (`tryCandidate`): a function of two candidates of LLVM's scheduler, without
  state of its own; a model would consist of its inputs.
* **The constant tables**: handler registration, lexical rules beyond one or two members
  of each class, Dublin's operator precedences (`PrattParser` is checked with Athens's).
* **LLVM, ORC, MLIR, Z3 and the CUDA driver**: external; the models have what
  the code in the repository sees of them.
* **Pretty printers, option parsing, smoke tests, build files**: no state.

What would come next: the reference of the parser restated over paths, as was done for
scopes, to prove `AcceptsExpressions` for every text; then Dublin's emitter in the same way.
