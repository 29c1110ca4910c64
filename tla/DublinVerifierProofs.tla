------------------------- MODULE DublinVerifierProofs -------------------------
(***************************************************************************)
(* Proofs about DublinVerifier, for any files, emitter, translator and     *)
(* solver: the loop of main, what it keeps on disk, and that it implements *)
(* the promise of Verdict.  What main prints is only as good as the        *)
(* queries are: []QueryIsFaithful, which is the emitter's business, is a   *)
(* premise of the last two theorems.                                       *)
(***************************************************************************)
EXTENDS DublinVerifier, Minima, SequenceTheorems, TLAPS

ParserPlaces == {"item", "argument", "statement", "rejected"}
Inside == {"export", "exportTo", "write", "written", "translated", "solve", "writeQuery", "answer"}

(* What can become a condition.                                            *)
Conditions == {NoTree, Condition(Eof)} \union {Condition(f[i]) : f \in Files, i \in Nat}

ParserOK ==
  /\ tokens \in Files
  /\ pos \in Nat
  /\ assertions \in Seq(Conditions)
  /\ hadError \in BOOLEAN

Count == Len(block.assertions)

(* Until the parser returns a block the driver has not started.            *)
BlockOK ==
  /\ pc \in ParserPlaces \union {"emit"} \union Inside
  /\ pc \in ParserPlaces =>
       /\ block = Null /\ reported = {} /\ index = 1 /\ allVerified = TRUE
       /\ outcome \in {"running", "error"}
  /\ pc \notin ParserPlaces => block # Null /\ Count \in Nat \ {0} /\ index \in 1 .. Count + 1
  /\ pc \in Inside => index <= Count

OutcomeOK ==
  /\ outcome \in {"running", "verified", "refuted", "printed", "inconclusive", "error",
                   "crashed", "aborted"}
  /\ allVerified \in BOOLEAN /\ unwritten \in BOOLEAN

DiskOK ==
  /\ outcome = "running" => DOMAIN disk = Holding[pc]
  /\ outcome \in {"verified", "refuted", "printed", "inconclusive"} => DOMAIN disk = {}
  /\ outcome = "error" /\ DOMAIN disk # {} => unwritten
  /\ pc = "emit" => DOMAIN disk = {}

LoopInv == ParserOK /\ BlockOK /\ OutcomeOK /\ DiskOK

-----------------------------------------------------------------------------
(* What a text on its way to the solver is: the query at hand, which is    *)
(* satisfied by the inputs that fail first, or cut.                        *)
Faithful(query) == Models(query) = FailsFirst(block, index)

TextOK ==
  outcome = "running" =>
    /\ pc \in {"exportTo", "write", "written"} => (Translatable(smt) => Faithful(smt))
    /\ pc = "written" => disk["mlir"] \in {smt, Cut}
    /\ pc = "translated" => disk["smt2"] = Cut \/ Faithful(disk["smt2"])
    /\ pc \in {"solve", "writeQuery"} => smt2 = Cut \/ Faithful(smt2)
    /\ pc = "answer" => disk["query"] = Cut \/ Faithful(disk["query"])

(* Printed queries go to nobody.                                           *)
Prints == mode \in {"--emit-smt", "--emit-smt2"}

ReportOK ==
  /\ Prints => reported = {}
  /\ ~Prints /\ block # Null => reported = {k \in 1 .. index - 1 : FailsFirst(block, k) # {}}
  /\ allVerified <=> reported = {}
  /\ mode = "--emit-smt" => pc \notin Inside
  /\ mode = "--emit-smt2" => pc \notin {"solve", "writeQuery", "answer"}
  /\ outcome \in {"verified", "refuted"} =>
       /\ mode = "verify" /\ pc = "emit" /\ index = Count + 1
       /\ outcome = IF reported = {} THEN "verified" ELSE "refuted"

IInv == LoopInv /\ TextOK /\ ReportOK

-----------------------------------------------------------------------------
(* The parser.                                                             *)

LEMMA HoldingAt ==
  /\ \A p \in ParserPlaces \union {"emit", "export", "solve"} : Holding[p] = {}
  /\ Holding["exportTo"] = {"mlir"}
  /\ Holding["write"] = {"mlir", "smt2"} /\ Holding["written"] = {"mlir", "smt2"}
  /\ Holding["translated"] = {"smt2"}
  /\ Holding["writeQuery"] = {"query"} /\ Holding["answer"] = {"query"}
BY DEF Holding, Places, ParserPlaces

LEMMA FilesTyped ==
  ASSUME NEW f \in Files
  PROVE  Len(f) \in Nat
BY ParserAssumption, LenProperties

LEMMA PastTyped ==
  ASSUME ParserOK, NEW n \in Nat
  PROVE  Past(n) \in Nat
<1>1. Len(tokens) \in Nat /\ pos \in Nat
  BY FilesTyped DEF ParserOK
<1> QED BY <1>1 DEF Past

LEMMA ConditionTyped ==
  ASSUME ParserOK, NEW n \in Nat
  PROVE  Condition(Tok(n)) \in Conditions
<1>1. CASE pos + n > Len(tokens)
  BY <1>1 DEF Tok, Conditions
<1>2. CASE ~(pos + n > Len(tokens))
  <2>1. Tok(n) = tokens[pos + n] /\ pos + n \in Nat /\ tokens \in Files
    BY <1>2 DEF Tok, ParserOK
  <2> QED BY <2>1 DEF Conditions
<1> QED BY <1>1, <1>2

(* A block is what Null is not.                                            *)
NullIsNoBlock == \A a, s : Null # [args |-> a, assertions |-> s]

LEMMA ParserKeepsTypes ==
  ASSUME ParserOK, ParserNext
  PROVE  ParserOK'
<1>1. CASE CannotOpen \/ EndOfFile
  BY <1>1 DEF CannotOpen, EndOfFile, Reject, ParserOK
<1>2. CASE ParseVerify \/ ParseArgument
  <2>1. tokens' = tokens /\ assertions' = assertions /\ hadError' = hadError
    BY <1>2 DEF ParseVerify, ParseArgument, Reject
  <2>2. pos' \in {pos, Past(3), Past(4)}
    BY <1>2 DEF ParseVerify, ParseArgument, Reject
  <2>3. pos' \in Nat
    BY <2>2, PastTyped DEF ParserOK
  <2> QED BY <2>1, <2>3 DEF ParserOK
<1>3. CASE ParseAssert \/ NoStatement
  <2>1. tokens' = tokens /\ pos' \in {Past(1), Past(2), Past(3)} /\ hadError' \in BOOLEAN
    BY <1>3 DEF ParseAssert, NoStatement, ParserOK
  <2>2. pos' \in Nat
    BY <2>1, PastTyped
  <2>3. \/ assertions' = Append(assertions, Condition(Tok(1)))
        \/ assertions' = Append(assertions, NoTree)
    BY <1>3 DEF ParseAssert, NoStatement
  <2>4. assertions' \in Seq(Conditions)
    BY <2>3, ConditionTyped, AppendProperties DEF ParserOK, Conditions
  <2> QED BY <2>1, <2>2, <2>4 DEF ParserOK
<1> QED BY <1>1, <1>2, <1>3 DEF ParserNext

(* The parser goes on in front of the driver, or hands it a block.         *)
LEMMA ParserMoves ==
  ASSUME NullIsNoBlock, ParserOK, BlockOK, ParserNext
  PROVE  /\ pc \in {"item", "argument", "statement"}
         /\ \/ pc' \in ParserPlaces /\ block' = block
            \/ pc' = "emit" /\ block' # Null /\ Len(block'.assertions) \in Nat \ {0}
<1>1. CASE CannotOpen \/ ParseVerify \/ ParseArgument
  BY <1>1 DEF CannotOpen, ParseVerify, ParseArgument, Reject, ParserPlaces
<1>2. CASE ParseAssert \/ NoStatement
  BY <1>2 DEF ParseAssert, NoStatement, ParserPlaces
<1>3. CASE EndOfFile /\ ~Acceptable
  BY <1>3 DEF EndOfFile, ParserPlaces
<1>4. CASE EndOfFile /\ Acceptable
  <2>1. block' = [args |-> args, assertions |-> assertions] /\ pc' = "emit" /\ pc = "statement"
    BY <1>4 DEF EndOfFile
  <2>2. block' # Null
    BY <2>1 DEF NullIsNoBlock
  <2>3. assertions # <<>> /\ assertions \in Seq(Conditions)
    BY <1>4 DEF Acceptable, ParserOK
  <2>4. Len(assertions) \in Nat /\ Len(assertions) # 0
    BY <2>3, EmptySeq, LenProperties
  <2> QED BY <2>1, <2>2, <2>4
<1> QED BY <1>1, <1>2, <1>3, <1>4 DEF ParserNext

LEMMA ParseStep ==
  ASSUME NullIsNoBlock, LoopInv, Parse
  PROVE  LoopInv'
<1>1. /\ pc \in {"item", "argument", "statement"} /\ outcome = "running"
      /\ \/ pc' \in ParserPlaces /\ block' = block
         \/ pc' = "emit" /\ block' # Null /\ Len(block'.assertions) \in Nat \ {0}
  BY ParserMoves DEF Parse, LoopInv, Running
<1>2. UNCHANGED loopVars
  BY DEF Parse
<1> USE DEF loopVars
<1>3. /\ block = Null /\ reported = {} /\ index = 1 /\ allVerified = TRUE /\ DOMAIN disk = {}
  BY <1>1, HoldingAt DEF LoopInv, BlockOK, DiskOK, ParserPlaces
<1>4. ParserOK'
  BY ParserKeepsTypes DEF Parse, LoopInv
<1>5. BlockOK'
  BY <1>1, <1>2, <1>3 DEF BlockOK, ParserPlaces, Inside, Count
<1>6. OutcomeOK'
  BY <1>2 DEF LoopInv, OutcomeOK
<1>7. Holding[pc'] = {}
  BY <1>1, HoldingAt
<1>8. DiskOK'
  BY <1>1, <1>2, <1>3, <1>7 DEF DiskOK
<1> QED BY <1>4, <1>5, <1>6, <1>8 DEF LoopInv

-----------------------------------------------------------------------------
(* Steps of the driver preserve LoopInv.                                   *)

parsed == <<tokens, pos, args, assertions, hadError, block>>

LEMMA BlockStays ==
  ASSUME UNCHANGED block
  PROVE  /\ Count' = Count
         /\ \A k : FailsFirst(block, k)' = FailsFirst(block, k)
BY DEF Count, FailsFirst

(* The program ends.                                                       *)
LEMMA ExitStep ==
  ASSUME LoopInv, outcome = "running", NEW how, NEW files, Exit(how, files),
         how \in {"verified", "refuted", "printed", "inconclusive", "error", "crashed", "aborted"},
         how \notin {"crashed", "aborted"} \/ pc = "emit" => DOMAIN files = {},
         pc \in ParserPlaces => how = "error"
  PROVE  LoopInv'
<1>1. /\ UNCHANGED parsed /\ pc' = pc /\ outcome' = how /\ disk' = files
      /\ UNCHANGED <<index, allVerified, reported, unwritten>>
  BY DEF Exit, parserVars, parsed
<1>2. ParserOK' /\ BlockOK' /\ OutcomeOK'
  BY <1>1, BlockStays DEF LoopInv, ParserOK, BlockOK, OutcomeOK, parsed
<1>3. DiskOK'
  BY <1>1 DEF DiskOK
<1> QED BY <1>2, <1>3 DEF LoopInv

(* The program goes on.                                                    *)
LEMMA GoStep ==
  ASSUME LoopInv, outcome = "running", outcome' = "running", pc \notin ParserPlaces,
         UNCHANGED parsed, unwritten' = unwritten, allVerified' \in BOOLEAN,
         pc' \in {"emit"} \union Inside, index' \in 1 .. Count + 1,
         pc' \in Inside => index' <= Count,
         DOMAIN disk' = Holding[pc']
  PROVE  LoopInv'
<1>1. ParserOK' /\ BlockOK'
  BY BlockStays DEF LoopInv, ParserOK, BlockOK, parsed, ParserPlaces, Inside
<1>2. OutcomeOK'
  BY DEF LoopInv, OutcomeOK
<1>3. DiskOK'
  BY HoldingAt DEF DiskOK
<1> QED BY <1>1, <1>2, <1>3 DEF LoopInv

(* Where the driver stands when it is not in front of the loop.            *)
LEMMA InsideLoop ==
  ASSUME LoopInv, outcome = "running"
  PROVE  /\ DOMAIN disk = Holding[pc]
         /\ pc = "emit" => Count \in Nat /\ index \in 1 .. Count + 1
         /\ pc \in Inside => Count \in Nat /\ index \in 1 .. Count + 1 /\ index <= Count
         /\ pc \in Inside \union {"emit"} => pc \notin ParserPlaces
BY DEF LoopInv, DiskOK, BlockOK, ParserPlaces, Inside

LEMMA ParseFailsStep ==
  ASSUME LoopInv, ParseFails
  PROVE  LoopInv'
<1>1. pc = "rejected" /\ outcome = "running" /\ Exit("error", disk)
  BY DEF ParseFails, At, Running, Fail
<1>2. DOMAIN disk = {}
  BY <1>1, InsideLoop, HoldingAt DEF ParserPlaces
<1> QED BY <1>1, <1>2, ExitStep

(* What EmitQuery does: it ends the program, stays in the loop over the    *)
(* assertions, or goes on to the export.                                   *)
LEMMA EmitMoves ==
  ASSUME EmitQuery
  PROVE  /\ pc = "emit" /\ outcome = "running" /\ index <= Count
         /\ \/ Exit("error", disk) \/ Exit("crashed", disk)
            \/ /\ UNCHANGED parsed /\ smt' = Emit(block, index)
               /\ UNCHANGED <<mode, smt2, disk, allVerified, outcome, reported, unwritten>>
               /\ \/ mode = "--emit-smt" /\ index' = index + 1 /\ pc' = "emit"
                  \/ mode # "--emit-smt" /\ index' = index /\ pc' = "export"
BY DEF EmitQuery, At, Running, Fail, NextAssertion, GoTo, parsed, Count

LEMMA EmitStep ==
  ASSUME LoopInv, EmitQuery
  PROVE  LoopInv'
<1>1. pc = "emit" /\ outcome = "running" /\ index <= Count
  BY EmitMoves
<1>2. DOMAIN disk = {} /\ Count \in Nat /\ index \in 1 .. Count + 1 /\ pc \notin ParserPlaces
  BY <1>1, InsideLoop, HoldingAt
<1>3. CASE Exit("error", disk) \/ Exit("crashed", disk)
  BY <1>1, <1>2, <1>3, ExitStep
<1>4. CASE ~(Exit("error", disk) \/ Exit("crashed", disk))
  <2>1. /\ UNCHANGED parsed /\ UNCHANGED <<disk, allVerified, outcome, unwritten>>
        /\ \/ index' = index + 1 /\ pc' = "emit"
           \/ index' = index /\ pc' = "export"
    BY <1>4, EmitMoves
  <2>2. index' \in 1 .. Count + 1 /\ (pc' \in Inside => index' <= Count) /\ pc' \in {"emit"} \union Inside
    BY <1>1, <1>2, <2>1 DEF Inside
  <2>3. DOMAIN disk' = Holding[pc']
    BY <1>2, <2>1, HoldingAt
  <2>4. allVerified' \in BOOLEAN
    BY <2>1 DEF LoopInv, OutcomeOK
  <2> QED BY <1>1, <1>2, <2>1, <2>2, <2>3, <2>4, GoStep
<1> QED BY <1>3, <1>4

LEMMA ConcludeStep ==
  ASSUME LoopInv, Conclude
  PROVE  LoopInv'
<1>1. /\ pc = "emit" /\ outcome = "running"
      /\ \E how \in {"verified", "refuted", "printed"} : Exit(how, disk)
  BY DEF Conclude, At, Running, Verified
<1>2. DOMAIN disk = {} /\ pc \notin ParserPlaces
  BY <1>1, InsideLoop, HoldingAt
<1> QED BY <1>1, <1>2, ExitStep

LEMMA ThrowStep ==
  ASSUME LoopInv, ThrowUncaught
  PROVE  LoopInv'
<1>1. outcome = "running" /\ Exit("aborted", disk) /\ pc \in Inside
  BY DEF ThrowUncaught, Running, Inside
<1>2. pc \notin ParserPlaces /\ pc # "emit"
  BY <1>1 DEF Inside, ParserPlaces
<1> QED BY <1>1, <1>2, ExitStep

LEMMA TempMoves ==
  ASSUME MakeTempPath
  PROVE  /\ outcome = "running" /\ UNCHANGED parsed
         /\ UNCHANGED <<mode, index, smt, smt2, allVerified, outcome, reported, unwritten>>
         /\ \/ pc = "export" /\ pc' = "exportTo" /\ disk' = With("mlir", Cut)
            \/ pc = "exportTo" /\ pc' = "write" /\ disk' = With("smt2", Cut)
            \/ pc = "solve" /\ pc' = "writeQuery" /\ disk' = With("query", Cut)
BY DEF MakeTempPath, At, Running, GoTo, parsed

LEMMA TempStep ==
  ASSUME LoopInv, MakeTempPath
  PROVE  LoopInv'
<1>1. /\ outcome = "running" /\ UNCHANGED parsed
      /\ UNCHANGED <<index, allVerified, outcome, unwritten>>
      /\ \/ pc = "export" /\ pc' = "exportTo" /\ disk' = With("mlir", Cut)
         \/ pc = "exportTo" /\ pc' = "write" /\ disk' = With("smt2", Cut)
         \/ pc = "solve" /\ pc' = "writeQuery" /\ disk' = With("query", Cut)
  BY TempMoves
<1>2. pc \in Inside /\ pc' \in Inside
  BY <1>1 DEF Inside
<1>3. DOMAIN disk' = Holding[pc']
  BY <1>1, <1>2, InsideLoop, HoldingAt DEF With
<1>4. allVerified' \in BOOLEAN
  BY <1>1 DEF LoopInv, OutcomeOK
<1> QED BY <1>1, <1>2, <1>3, <1>4, InsideLoop, GoStep

(* A text is written, whole or cut, or its writing is reported as failed.  *)
LEMMA WriteMoves ==
  ASSUME NEW place, NEW role, NEW text, NEW next, WriteFile(place, role, text, next)
  PROVE  /\ pc = place /\ outcome = "running" /\ UNCHANGED parsed
         /\ UNCHANGED <<mode, index, smt, smt2, allVerified, reported>>
         /\ \/ /\ disk' \in {With(role, text), With(role, Cut)}
               /\ pc' = next /\ outcome' = outcome /\ unwritten' = unwritten
            \/ /\ pc' = pc /\ disk' = disk /\ outcome' = "error" /\ unwritten' = TRUE
BY DEF WriteFile, At, Running, GoTo, parserVars, parsed

LEMMA WriteStep ==
  ASSUME LoopInv, NEW place, NEW role, NEW text, NEW next, WriteFile(place, role, text, next),
         place \in Inside, next \in Inside, Holding[place] \union {role} = Holding[next]
  PROVE  LoopInv'
<1>1. /\ pc = place /\ outcome = "running" /\ UNCHANGED parsed
      /\ UNCHANGED <<index, allVerified, reported>>
  BY WriteMoves
<1>2. CASE /\ disk' \in {With(role, text), With(role, Cut)}
           /\ pc' = next /\ outcome' = outcome /\ unwritten' = unwritten
  <2>1. DOMAIN disk' = Holding[pc']
    BY <1>1, <1>2, InsideLoop DEF With
  <2>2. allVerified' \in BOOLEAN
    BY <1>1 DEF LoopInv, OutcomeOK
  <2> QED BY <1>1, <1>2, <2>1, <2>2, InsideLoop, GoStep
<1>3. CASE pc' = pc /\ disk' = disk /\ outcome' = "error" /\ unwritten' = TRUE
  <2>1. ParserOK' /\ BlockOK' /\ OutcomeOK'
    BY <1>1, <1>3, BlockStays, InsideLoop DEF LoopInv, ParserOK, BlockOK, OutcomeOK, parsed
  <2>2. DiskOK'
    BY <1>1, <1>3 DEF DiskOK, Inside
  <2> QED BY <2>1, <2>2 DEF LoopInv
<1> QED BY <1>2, <1>3, WriteMoves

LEMMA WritesStep ==
  ASSUME LoopInv, Write \/ WriteQuery
  PROVE  LoopInv'
<1>1. CASE Write
  <2>1. "write" \in Inside /\ "written" \in Inside /\ Holding["write"] \union {"mlir"} = Holding["written"]
    BY HoldingAt DEF Inside
  <2> QED BY <1>1, <2>1, WriteStep DEF Write
<1>2. CASE WriteQuery
  <2>1. "writeQuery" \in Inside /\ "answer" \in Inside /\ Holding["writeQuery"] \union {"query"} = Holding["answer"]
    BY HoldingAt DEF Inside
  <2> QED BY <1>2, <2>1, WriteStep DEF WriteQuery
<1> QED BY <1>1, <1>2

LEMMA TranslateMoves ==
  ASSUME Translate
  PROVE  /\ pc = "written" /\ outcome = "running"
         /\ \/ Exit("error", AfterTranslation)
            \/ /\ disk["mlir"] # Cut => Translatable(disk["mlir"])
               /\ disk' = [Without("mlir") EXCEPT !["smt2"] = Exported(disk["mlir"])]
               /\ pc' = "translated" /\ UNCHANGED parsed
               /\ UNCHANGED <<mode, index, smt, smt2, allVerified, outcome, reported, unwritten>>
BY DEF Translate, At, Running, Fail, GoTo, parsed

LEMMA TranslateStep ==
  ASSUME LoopInv, Translate
  PROVE  LoopInv'
<1>1. pc = "written" /\ outcome = "running" /\ pc \in Inside
  BY TranslateMoves DEF Inside
<1>2. DOMAIN disk = {"mlir", "smt2"} /\ pc \notin ParserPlaces
  BY <1>1, InsideLoop, HoldingAt
<1>3. CASE Exit("error", AfterTranslation)
  <2>1. DOMAIN AfterTranslation = {}
    BY <1>2 DEF AfterTranslation
  <2> QED BY <1>1, <1>2, <1>3, <2>1, ExitStep
<1>4. CASE ~Exit("error", AfterTranslation)
  <2>1. /\ disk' = [Without("mlir") EXCEPT !["smt2"] = Exported(disk["mlir"])]
        /\ pc' = "translated" /\ UNCHANGED parsed
        /\ UNCHANGED <<index, allVerified, outcome, unwritten>>
    BY <1>4, TranslateMoves
  <2>2. DOMAIN disk' = Holding[pc']
    BY <1>2, <2>1, HoldingAt DEF Without
  <2>3. allVerified' \in BOOLEAN /\ pc' \in Inside
    BY <2>1 DEF LoopInv, OutcomeOK, Inside
  <2> QED BY <1>1, <1>2, <2>1, <2>2, <2>3, InsideLoop, GoStep
<1> QED BY <1>3, <1>4

LEMMA ReadMoves ==
  ASSUME ReadBack
  PROVE  /\ pc = "translated" /\ outcome = "running" /\ UNCHANGED parsed
         /\ smt2' \in {disk["smt2"], Cut} /\ disk' = Without("smt2")
         /\ UNCHANGED <<mode, smt, allVerified, outcome, reported, unwritten>>
         /\ \/ mode = "--emit-smt2" /\ index' = index + 1 /\ pc' = "emit"
            \/ mode # "--emit-smt2" /\ index' = index /\ pc' = "solve"
BY DEF ReadBack, At, Running, NextAssertion, GoTo, parsed

LEMMA ReadStep ==
  ASSUME LoopInv, ReadBack
  PROVE  LoopInv'
<1>1. /\ pc = "translated" /\ outcome = "running" /\ UNCHANGED parsed
      /\ disk' = Without("smt2") /\ UNCHANGED <<allVerified, outcome, unwritten>>
      /\ \/ index' = index + 1 /\ pc' = "emit"
         \/ index' = index /\ pc' = "solve"
  BY ReadMoves
<1>2. pc \in Inside /\ pc' \in {"emit"} \union Inside
  BY <1>1 DEF Inside
<1>3. DOMAIN disk' = {}
  BY <1>1, <1>2, InsideLoop, HoldingAt DEF Without
<1>4. DOMAIN disk' = Holding[pc']
  BY <1>1, <1>3, HoldingAt
<1>5. Count \in Nat /\ index \in 1 .. Count + 1 /\ index <= Count /\ pc \notin ParserPlaces
  BY <1>1, <1>2, InsideLoop
<1>6. index' \in 1 .. Count + 1 /\ (pc' \in Inside => index' <= Count)
  BY <1>1, <1>5 DEF Inside
<1>7. allVerified' \in BOOLEAN
  BY <1>1 DEF LoopInv, OutcomeOK
<1> QED BY <1>1, <1>2, <1>4, <1>5, <1>6, <1>7, GoStep

(* Z3 decides only a whole text, and then it is right.                     *)
LEMMA AnswerMoves ==
  ASSUME Answer, allVerified \in BOOLEAN
  PROVE  /\ pc = "answer" /\ outcome = "running"
         /\ \/ Exit("inconclusive", Without("query")) \/ Exit("error", Without("query"))
            \/ /\ disk["query"] # Cut
               /\ \/ Models(disk["query"]) = {} /\ allVerified' = allVerified /\ reported' = reported
                  \/ /\ Models(disk["query"]) # {} /\ allVerified' = FALSE
                     /\ reported' = reported \union {index}
               /\ disk' = Without("query") /\ index' = index + 1 /\ pc' = "emit"
               /\ UNCHANGED parsed /\ UNCHANGED <<mode, smt, smt2, outcome, unwritten>>
<1>1. pc = "answer" /\ outcome = "running"
  BY DEF Answer, At, Running
<1>2. PICK answer \in Answers(disk["query"]) :
        \/ /\ Proves(answer) \/ Refutes(answer)
           /\ allVerified' = StillVerified(answer)
           /\ reported' = IF Refutes(answer) THEN reported \union {index} ELSE reported
           /\ disk' = Without("query")
           /\ NextAssertion
           /\ UNCHANGED <<mode, smt, smt2, outcome, unwritten>>
        \/ /\ ~Proves(answer) /\ ~Refutes(answer)
           /\ Exit(IF answer = "unknown" THEN "inconclusive" ELSE "error", Without("query"))
  BY DEF Answer
<1>3. CASE answer \in {"unsat", "sat"}
  <2>1. /\ disk["query"] # Cut
        /\ \/ answer = "unsat" /\ Models(disk["query"]) = {}
           \/ answer = "sat" /\ Models(disk["query"]) # {}
    BY <1>3 DEF Answers
  <2>2. /\ reported' = IF answer = "sat" THEN reported \union {index} ELSE reported
        /\ disk' = Without("query") /\ index' = index + 1 /\ pc' = "emit"
        /\ UNCHANGED parsed /\ UNCHANGED <<mode, smt, smt2, outcome, unwritten>>
        /\ allVerified' = (allVerified /\ ~(answer = "sat"))
    BY <1>2, <1>3 DEF Proves, Refutes, StillVerified, NextAssertion, GoTo, parsed
  <2>3. CASE answer = "unsat"
    <3>1. allVerified' = allVerified /\ reported' = reported
      BY <2>2, <2>3
    <3> QED BY <1>1, <2>1, <2>2, <2>3, <3>1
  <2>4. CASE answer = "sat"
    <3>1. allVerified' = FALSE /\ reported' = reported \union {index}
      BY <2>2, <2>4
    <3> QED BY <1>1, <2>1, <2>2, <2>4, <3>1
  <2> QED BY <1>3, <2>3, <2>4
<1>4. CASE answer \notin {"unsat", "sat"}
  <2>1. Exit(IF answer = "unknown" THEN "inconclusive" ELSE "error", Without("query"))
    BY <1>2, <1>4 DEF Proves, Refutes
  <2> QED BY <1>1, <2>1
<1> QED BY <1>3, <1>4

LEMMA AnswerStep ==
  ASSUME LoopInv, Answer
  PROVE  LoopInv'
<1>1. pc = "answer" /\ outcome = "running" /\ pc \in Inside
  BY DEF Answer, At, Running, Inside
<1>2. /\ DOMAIN Without("query") = {} /\ pc \notin ParserPlaces
      /\ Count \in Nat /\ index \in 1 .. Count + 1 /\ index <= Count
  BY <1>1, InsideLoop, HoldingAt DEF Without
<1>3. CASE Exit("inconclusive", Without("query")) \/ Exit("error", Without("query"))
  BY <1>1, <1>2, <1>3, ExitStep
<1>4. CASE ~(Exit("inconclusive", Without("query")) \/ Exit("error", Without("query")))
  <2>1. /\ disk' = Without("query") /\ index' = index + 1 /\ pc' = "emit"
        /\ UNCHANGED parsed /\ UNCHANGED <<outcome, unwritten>>
        /\ allVerified' \in {allVerified, FALSE}
    BY <1>4, AnswerMoves DEF LoopInv, OutcomeOK
  <2>2. DOMAIN disk' = Holding[pc']
    BY <1>2, <2>1, HoldingAt
  <2>4. index' \in 1 .. Count + 1
    BY <1>2, <2>1
  <2>3. allVerified' \in BOOLEAN /\ pc' \in {"emit"} \union Inside /\ pc' \notin Inside
    BY <2>1 DEF LoopInv, OutcomeOK, Inside
  <2> QED BY <1>1, <1>2, <2>1, <2>2, <2>3, <2>4, GoStep
<1> QED BY <1>3, <1>4

-----------------------------------------------------------------------------

LEMMA LoopInitially ==
  ASSUME Init
  PROVE  LoopInv
<1>1. ParserOK
  <2>1. <<>> \in Seq(Conditions)
    BY EmptySeq
  <2> QED BY <2>1 DEF Init, ParserInit, ParserOK
<1>2. BlockOK /\ OutcomeOK
  BY DEF Init, ParserInit, BlockOK, OutcomeOK, ParserPlaces, Inside
<1>3. DOMAIN disk = {} /\ outcome = "running" /\ pc = "item"
  BY DEF Init, ParserInit
<1>4. DiskOK
  BY <1>3, HoldingAt DEF DiskOK, ParserPlaces
<1> QED BY <1>1, <1>2, <1>4 DEF LoopInv

LEMMA LoopStep ==
  ASSUME NullIsNoBlock, LoopInv, [Next]_vars
  PROVE  LoopInv'
<1>1. CASE Parse \/ ParseFails
  BY <1>1, ParseStep, ParseFailsStep
<1>2. CASE EmitQuery \/ Conclude \/ ThrowUncaught
  BY <1>2, EmitStep, ConcludeStep, ThrowStep
<1>3. CASE MakeTempPath \/ Write \/ WriteQuery
  BY <1>3, TempStep, WritesStep
<1>4. CASE Translate \/ ReadBack \/ Answer
  BY <1>4, TranslateStep, ReadStep, AnswerStep
<1>5. CASE UNCHANGED vars
  <2>1. UNCHANGED block
    BY <1>5 DEF vars, parserVars
  <2> QED BY <1>5, <2>1, BlockStays
          DEF vars, parserVars, loopVars, LoopInv, ParserOK, BlockOK, OutcomeOK, DiskOK
<1> QED BY <1>1, <1>2, <1>3, <1>4, <1>5 DEF Next

-----------------------------------------------------------------------------
(* Steps preserve TextOK, as long as the emitter's queries are faithful.   *)

LEMMA FaithfulStays ==
  ASSUME UNCHANGED <<block, index>>
  PROVE  \A query : Faithful(query) <=> Models(query) = FailsFirst(block, index)'
BY DEF Faithful, FailsFirst

LEMMA TextUnneeded ==
  ASSUME outcome' = "running" => pc' \in ParserPlaces \union {"emit", "export"}
  PROVE  TextOK'
BY DEF TextOK, ParserPlaces

LEMMA TextStep ==
  ASSUME NullIsNoBlock, IInv, QueryIsFaithful, [Next]_vars
  PROVE  TextOK'
<1>1. CASE Parse
  BY <1>1, ParserMoves, TextUnneeded DEF Parse, IInv, LoopInv
<1>2. ASSUME NEW how, NEW files, Exit(how, files), how # "running" PROVE TextOK'
  BY <1>2, TextUnneeded DEF Exit
<1>3. CASE ParseFails \/ ThrowUncaught \/ Conclude
  BY <1>2, <1>3 DEF ParseFails, ThrowUncaught, Conclude, Fail, Verified
<1>4. CASE EmitQuery
  BY <1>2, <1>4, EmitMoves, TextUnneeded
<1>5. CASE MakeTempPath
  <2>1. /\ UNCHANGED <<block, index>> /\ smt' = smt /\ smt2' = smt2 /\ outcome = "running"
        /\ \/ pc = "export" /\ pc' = "exportTo"
           \/ pc = "exportTo" /\ pc' = "write"
           \/ pc = "solve" /\ pc' = "writeQuery"
    BY <1>5, TempMoves DEF parsed
  <2>2. CASE pc' \in {"exportTo", "write"}
    <3>1. Translatable(smt) => Faithful(smt)
      BY <2>1, <2>2 DEF IInv, TextOK, QueryIsFaithful, At, Running, Faithful
    <3>2. Translatable(smt') => Faithful(smt)'
      BY <2>1, <3>1, FaithfulStays DEF Faithful
    <3> QED BY <2>2, <3>2 DEF TextOK
  <2>3. CASE pc' = "writeQuery"
    <3>1. smt2 = Cut \/ Faithful(smt2)
      BY <2>1, <2>3 DEF IInv, TextOK
    <3>2. smt2' = Cut \/ Faithful(smt2)'
      BY <2>1, <3>1, FaithfulStays DEF Faithful
    <3> QED BY <2>3, <3>2 DEF TextOK
  <2> QED BY <2>1, <2>2, <2>3
<1>6. CASE Write
  <2>1. /\ pc = "write" /\ outcome = "running" /\ UNCHANGED <<block, index>> /\ smt' = smt
        /\ \/ disk' \in {With("mlir", smt), With("mlir", Cut)} /\ pc' = "written"
           \/ outcome' = "error"
    BY <1>6, WriteMoves DEF Write, parsed
  <2>2. CASE outcome' = "error"
    BY <2>2, TextUnneeded
  <2>3. CASE disk' \in {With("mlir", smt), With("mlir", Cut)} /\ pc' = "written"
    <3>1. disk'["mlir"] \in {smt', Cut}
      BY <2>1, <2>3 DEF With
    <3>2. Translatable(smt) => Faithful(smt)
      BY <2>1 DEF IInv, TextOK
    <3>3. Translatable(smt') => Faithful(smt)'
      BY <2>1, <3>2, FaithfulStays DEF Faithful
    <3> QED BY <2>3, <3>1, <3>3 DEF TextOK
  <2> QED BY <2>1, <2>2, <2>3
<1>7. CASE WriteQuery
  <2>1. /\ pc = "writeQuery" /\ outcome = "running" /\ UNCHANGED <<block, index>> /\ smt2' = smt2
        /\ \/ disk' \in {With("query", smt2), With("query", Cut)} /\ pc' = "answer"
           \/ outcome' = "error"
    BY <1>7, WriteMoves DEF WriteQuery, parsed
  <2>2. CASE outcome' = "error"
    BY <2>2, TextUnneeded
  <2>3. CASE disk' \in {With("query", smt2), With("query", Cut)} /\ pc' = "answer"
    <3>1. disk'["query"] \in {smt2, Cut}
      BY <2>3 DEF With
    <3>2. smt2 = Cut \/ Faithful(smt2)
      BY <2>1 DEF IInv, TextOK
    <3>3. disk'["query"] = Cut \/ Faithful(disk["query"])'
      BY <2>1, <3>1, <3>2, FaithfulStays DEF Faithful
    <3> QED BY <2>3, <3>3 DEF TextOK
  <2> QED BY <2>1, <2>2, <2>3
<1>8. CASE Translate
  <2>1. CASE Exit("error", AfterTranslation)
    BY <1>2, <2>1
  <2>2. CASE ~Exit("error", AfterTranslation)
    <3>1. /\ pc = "written" /\ outcome = "running" /\ UNCHANGED <<block, index>>
          /\ disk["mlir"] # Cut => Translatable(disk["mlir"])
          /\ disk' = [Without("mlir") EXCEPT !["smt2"] = Exported(disk["mlir"])]
          /\ pc' = "translated"
      BY <1>8, <2>2, TranslateMoves DEF parsed
    <3>2. DOMAIN disk = {"mlir", "smt2"}
      BY <3>1, InsideLoop, HoldingAt DEF IInv
    <3>3. disk'["smt2"] = Exported(disk["mlir"])
      BY <3>1, <3>2 DEF Without
    <3>4. disk["mlir"] \in {smt, Cut} /\ (Translatable(smt) => Faithful(smt))
      BY <3>1 DEF IInv, TextOK
    <3>5. disk'["smt2"] = Cut \/ Faithful(disk'["smt2"])
      BY <3>1, <3>3, <3>4 DEF Exported
    <3>6. disk'["smt2"] = Cut \/ Faithful(disk["smt2"])'
      BY <3>1, <3>5, FaithfulStays DEF Faithful
    <3> QED BY <3>1, <3>6 DEF TextOK
  <2> QED BY <2>1, <2>2
<1>9. CASE ReadBack
  <2>1. /\ pc = "translated" /\ outcome = "running" /\ smt2' \in {disk["smt2"], Cut} /\ UNCHANGED block
        /\ \/ pc' = "emit"
           \/ index' = index /\ pc' = "solve"
    BY <1>9, ReadMoves DEF parsed
  <2>2. CASE pc' = "emit"
    BY <2>2, TextUnneeded
  <2>3. CASE index' = index /\ pc' = "solve"
    <3>1. disk["smt2"] = Cut \/ Faithful(disk["smt2"])
      BY <2>1 DEF IInv, TextOK
    <3>2. smt2' = Cut \/ Faithful(smt2)'
      BY <2>1, <2>3, <3>1, FaithfulStays DEF Faithful
    <3> QED BY <2>3, <3>2 DEF TextOK
  <2> QED BY <2>1, <2>2, <2>3
<1>10. CASE Answer
  <2>1. allVerified \in BOOLEAN
    BY DEF IInv, LoopInv, OutcomeOK
  <2> QED BY <1>2, <1>10, <2>1, AnswerMoves, TextUnneeded
<1>11. CASE UNCHANGED vars
  <2> USE <1>11 DEF vars, parserVars, loopVars
  <2>1. \A query : Faithful(query) <=> Models(query) = FailsFirst(block, index)'
    BY FaithfulStays
  <2> QED BY <2>1 DEF IInv, TextOK, Faithful
<1> QED BY <1>1, <1>3, <1>4, <1>5, <1>6, <1>7, <1>8, <1>9, <1>10, <1>11 DEF Next

-----------------------------------------------------------------------------
(* Steps preserve ReportOK.                                                *)

Refuted(last) == {k \in 1 .. last : FailsFirst(block, k) # {}}

LEMMA RefutedStays ==
  ASSUME UNCHANGED block
  PROVE  \A last : {k \in 1 .. last : FailsFirst(block, k) # {}}' = Refuted(last)
BY DEF FailsFirst, Refuted

(* Neither the reports nor what they are about changes.                    *)
LEMMA ReportStays ==
  ASSUME ReportOK, UNCHANGED <<block, mode, index, allVerified, reported>>,
         outcome' \in {"verified", "refuted"} => outcome' = outcome /\ pc' = pc,
         mode = "--emit-smt" => pc' \notin Inside,
         mode = "--emit-smt2" => pc' \notin {"solve", "writeQuery", "answer"}
  PROVE  ReportOK'
<1>1. Refuted(index - 1)' = Refuted(index - 1) /\ Count' = Count
  BY BlockStays DEF Refuted, FailsFirst
<1> QED BY <1>1 DEF ReportOK, Prints, Refuted

LEMMA ReportStep ==
  ASSUME NullIsNoBlock, IInv, [Next]_vars
  PROVE  ReportOK'
<1>1. ReportOK /\ LoopInv /\ TextOK
  BY DEF IInv
<1>2. ASSUME NEW how, NEW files, Exit(how, files), how \notin {"verified", "refuted"} PROVE ReportOK'
  <2>1. UNCHANGED <<block, mode, index, allVerified, reported, pc>> /\ outcome' = how
    BY <1>2 DEF Exit, parserVars
  <2> QED BY <1>1, <1>2, <2>1, ReportStays DEF ReportOK
<1>3. CASE Parse
  <2>1. /\ pc \in ParserPlaces /\ pc' \in ParserPlaces \union {"emit"} /\ outcome = "running"
        /\ UNCHANGED <<mode, index, allVerified, reported, outcome>>
    BY <1>1, <1>3, ParserMoves DEF Parse, Running, loopVars, LoopInv, ParserPlaces
  <2>2. reported = {} /\ index = 1 /\ allVerified = TRUE
    BY <1>1, <2>1 DEF LoopInv, BlockOK
  <2>3. pc' \notin Inside
    BY <2>1 DEF ParserPlaces, Inside
  <2>4. {k \in 1 .. index - 1 : FailsFirst(block, k) # {}}' = {}
    BY <2>1, <2>2
  <2> QED BY <2>1, <2>2, <2>3, <2>4 DEF ReportOK, Prints, Inside
<1>4. CASE ParseFails \/ ThrowUncaught
  BY <1>2, <1>4 DEF ParseFails, ThrowUncaught, Fail
<1>5. CASE EmitQuery
  <2>1. CASE Exit("error", disk) \/ Exit("crashed", disk)
    BY <1>2, <2>1
  <2>2. CASE ~(Exit("error", disk) \/ Exit("crashed", disk))
    <3>1. /\ UNCHANGED <<block, mode, allVerified, reported, outcome>> /\ outcome = "running"
          /\ \/ mode = "--emit-smt" /\ pc' = "emit"
             \/ mode # "--emit-smt" /\ index' = index /\ pc' = "export"
      BY <1>5, <2>2, EmitMoves DEF parsed
    <3>2. CASE mode = "--emit-smt"
      BY <1>1, <3>1, <3>2 DEF ReportOK, Prints, Inside
    <3>3. CASE mode # "--emit-smt"
      BY <1>1, <3>1, <3>3, ReportStays
    <3> QED BY <3>2, <3>3
  <2> QED BY <2>1, <2>2
<1>6. CASE Conclude
  <2>1. CASE mode # "verify"
    BY <1>2, <1>6, <2>1 DEF Conclude
  <2>2. CASE mode = "verify"
    <3>1. /\ pc = "emit" /\ outcome = "running" /\ index > Count
          /\ Exit(IF allVerified THEN "verified" ELSE "refuted", disk)
      BY <1>6, <2>2 DEF Conclude, At, Running, Verified, Count
    <3>2. UNCHANGED <<block, mode, index, allVerified, reported, pc>>
      BY <3>1 DEF Exit, parserVars
    <3>3. outcome' = IF allVerified THEN "verified" ELSE "refuted"
      BY <3>1 DEF Exit
    <3>4. index = Count + 1
      BY <1>1, <3>1, InsideLoop
    <3>5. Refuted(index - 1)' = Refuted(index - 1) /\ Count' = Count
      BY <3>2, BlockStays DEF Refuted, FailsFirst
    <3>6. allVerified <=> reported = {}
      BY <1>1 DEF ReportOK
    <3>7. outcome' = IF reported' = {} THEN "verified" ELSE "refuted"
      BY <3>2, <3>3, <3>6
    <3> QED BY <1>1, <2>2, <3>1, <3>2, <3>4, <3>5, <3>7 DEF ReportOK, Prints, Refuted
  <2> QED BY <2>1, <2>2
<1>7. CASE MakeTempPath
  <2>1. /\ UNCHANGED <<block, mode, index, allVerified, reported, outcome>> /\ outcome = "running"
        /\ \/ pc = "export" /\ pc' = "exportTo"
           \/ pc = "exportTo" /\ pc' = "write"
           \/ pc = "solve" /\ pc' = "writeQuery"
    BY <1>7, TempMoves DEF parsed
  <2> QED BY <1>1, <2>1, ReportStays DEF ReportOK, Inside
<1>8. CASE Write \/ WriteQuery
  <2>1. /\ UNCHANGED <<block, mode, index, allVerified, reported>> /\ outcome = "running"
        /\ \/ outcome' = outcome \/ outcome' = "error"
        /\ \/ pc' = pc
           \/ pc = "write" /\ pc' = "written"
           \/ pc = "writeQuery" /\ pc' = "answer"
    BY <1>8, WriteMoves DEF Write, WriteQuery, parsed
  <2> QED BY <1>1, <2>1, ReportStays DEF ReportOK, Inside
<1>9. CASE Translate
  <2>1. CASE Exit("error", AfterTranslation)
    BY <1>2, <2>1
  <2>2. CASE ~Exit("error", AfterTranslation)
    <3>1. /\ UNCHANGED <<block, mode, index, allVerified, reported, outcome>> /\ outcome = "running"
          /\ pc = "written" /\ pc' = "translated"
      BY <1>9, <2>2, TranslateMoves DEF parsed
    <3> QED BY <1>1, <3>1, ReportStays DEF ReportOK, Inside
  <2> QED BY <2>1, <2>2
<1>10. CASE ReadBack
  <2>1. /\ UNCHANGED <<block, mode, allVerified, reported, outcome>>
        /\ outcome = "running" /\ pc = "translated"
        /\ \/ mode = "--emit-smt2" /\ pc' = "emit"
           \/ mode # "--emit-smt2" /\ index' = index /\ pc' = "solve"
    BY <1>10, ReadMoves DEF parsed
  <2>2. CASE mode = "--emit-smt2"
    BY <1>1, <2>1, <2>2 DEF ReportOK, Prints, Inside
  <2>3. CASE mode # "--emit-smt2"
    BY <1>1, <2>1, <2>3, ReportStays DEF ReportOK, Inside
  <2> QED BY <2>2, <2>3
<1>11. CASE Answer
  <2>1. allVerified \in BOOLEAN
    BY <1>1 DEF LoopInv, OutcomeOK
  <2>2. CASE Exit("inconclusive", Without("query")) \/ Exit("error", Without("query"))
    BY <1>2, <2>2
  <2>3. CASE ~(Exit("inconclusive", Without("query")) \/ Exit("error", Without("query")))
    <3>1. /\ pc = "answer" /\ outcome = "running"
          /\ disk["query"] # Cut
          /\ \/ Models(disk["query"]) = {} /\ allVerified' = allVerified /\ reported' = reported
             \/ /\ Models(disk["query"]) # {} /\ allVerified' = FALSE
                /\ reported' = reported \union {index}
          /\ index' = index + 1 /\ pc' = "emit" /\ UNCHANGED <<block, mode, outcome>>
      BY <1>11, <2>1, <2>3, AnswerMoves DEF parsed
    <3>2. Models(disk["query"]) = FailsFirst(block, index)
      BY <1>1, <3>1 DEF TextOK, Faithful
    <3>3. ~Prints /\ block # Null /\ index \in Nat \ {0}
      BY <1>1, <3>1, InsideLoop DEF ReportOK, Prints, Inside, LoopInv, BlockOK, ParserPlaces
    <3>4. reported = Refuted(index - 1) /\ (allVerified <=> reported = {})
      BY <1>1, <3>3 DEF ReportOK, Refuted
    <3>5. \A k : k \in 1 .. index <=> k \in 1 .. index - 1 \/ k = index
      BY <3>3
    <3>6. Refuted(index) = IF FailsFirst(block, index) = {} THEN Refuted(index - 1)
                           ELSE Refuted(index - 1) \union {index}
      BY <3>5 DEF Refuted
    <3>7. reported' = Refuted(index)
      BY <3>1, <3>2, <3>4, <3>6
    <3>8. allVerified' <=> reported' = {}
      BY <3>1, <3>4
    <3>9. index' - 1 = index
      BY <3>1, <3>3
    <3>10. Refuted(index - 1)' = Refuted(index)
      BY <3>1, <3>9 DEF Refuted, FailsFirst
    <3> QED BY <3>1, <3>3, <3>7, <3>8, <3>10 DEF ReportOK, Prints, Refuted, Inside
  <2> QED BY <2>2, <2>3
<1>12. CASE UNCHANGED vars
  BY <1>1, <1>12, ReportStays DEF vars, parserVars, loopVars, ReportOK
<1> QED BY <1>3, <1>4, <1>5, <1>6, <1>7, <1>8, <1>9, <1>10, <1>11, <1>12 DEF Next

-----------------------------------------------------------------------------
(* What holds whatever the queries are.                                    *)

(* main: no step of the parser or the driver leaves LoopInv.               *)
THEOREM LoopInvariance ==
  ASSUME NullIsNoBlock
  PROVE  Spec => []LoopInv
<1>1. Init => LoopInv
  BY LoopInitially
<1>2. LoopInv /\ [Next]_vars => LoopInv'
  BY LoopStep
<1> QED BY <1>1, <1>2, PTL DEF Spec

(* main: the loop stays within the assertions of the block it was given,   *)
(* and at every place exactly the temporary files of that place exist.     *)
THEOREM TypeCorrect ==
  ASSUME NullIsNoBlock
  PROVE  Spec => []TypeOK
<1>1. LoopInv => TypeOK
  <2> SUFFICES ASSUME LoopInv PROVE TypeOK
    OBVIOUS
  <2>1. pc \in Places
    BY DEF LoopInv, BlockOK, ParserPlaces, Inside, Places
  <2>2. block # Null => index \in 1 .. Len(block.assertions) + 1
    BY DEF LoopInv, BlockOK, Count
  <2>3. block = Null => reported = {} /\ pc \in {"item", "argument", "statement", "rejected"}
    BY DEF LoopInv, BlockOK, ParserPlaces
  <2>4. outcome = "running" => DOMAIN disk = Holding[pc]
    BY DEF LoopInv, DiskOK
  <2>5. allVerified \in BOOLEAN /\ hadError \in BOOLEAN /\ unwritten \in BOOLEAN
    BY DEF LoopInv, OutcomeOK, ParserOK
  <2> QED BY <2>1, <2>2, <2>3, <2>4, <2>5 DEF LoopInv, OutcomeOK, TypeOK
<1> QED BY <1>1, LoopInvariance, PTL

(* exportSmtlib, runZ3: whatever fails, no temporary file is left behind   *)
(* but by a failure to write one.                                          *)
THEOREM NoFileLeak ==
  ASSUME NullIsNoBlock
  PROVE  Spec => []NothingLeftBehind
<1>1. LoopInv => NothingLeftBehind
  BY DEF LoopInv, DiskOK, NothingLeftBehind
<1> QED BY <1>1, LoopInvariance, PTL

-----------------------------------------------------------------------------
(* What holds if the queries are faithful.                                 *)

(* main: no step leaves IInv.                                              *)
THEOREM ReportInvariance ==
  ASSUME NullIsNoBlock
  PROVE  Spec /\ []QueryIsFaithful => []IInv
<1>1. Init => IInv
  <2> SUFFICES ASSUME Init PROVE IInv
    OBVIOUS
  <2>1. pc = "item" /\ block = Null /\ reported = {} /\ index = 1 /\ allVerified = TRUE /\ outcome = "running"
    BY DEF Init, ParserInit
  <2>2. TextOK /\ ReportOK
    BY <2>1 DEF TextOK, ReportOK, Inside
  <2> QED BY <2>2, LoopInitially DEF IInv
<1>2. IInv /\ QueryIsFaithful /\ [Next]_vars => IInv'
  BY LoopStep, TextStep, ReportStep DEF IInv
<1> QED BY <1>1, <1>2, PTL DEF Spec

(* If no input fails first anywhere, no input fails anywhere.              *)
LEMMA NoneFailsFirst ==
  ASSUME NEW b, NEW n \in Nat, \A k \in 1 .. n : FailsFirst(b, k) = {},
         NEW in \in Inputs(b.args)
  PROVE  \A k \in 1 .. n : in \in Meets(b.assertions[k], b.args)
<1> DEFINE S == {k \in 1 .. n : in \notin Meets(b.assertions[k], b.args)}
<1>1. CASE S = {}
  BY <1>1
<1>2. CASE S # {}
  <2>1. S \subseteq Nat
    OBVIOUS
  <2>2. PICK m \in S : \A k \in S : m <= k
    BY <1>2, <2>1, LeastExists
  <2>3. m \in 1 .. n /\ in \notin Meets(b.assertions[m], b.args)
    OBVIOUS
  <2>4. ASSUME NEW j \in 1 .. m - 1 PROVE in \in Meets(b.assertions[j], b.args)
    <3>1. j \in 1 .. n /\ ~(m <= j)
      BY <2>3
    <3>2. j \notin S
      BY <2>2, <3>1
    <3> QED BY <3>1, <3>2
  <2>5. in \in FailsFirst(b, m)
    BY <2>3, <2>4 DEF FailsFirst
  <2> QED BY <2>3, <2>5
<1> QED BY <1>1, <1>2

(* main: a counterexample is reported for exactly the assertions that some *)
(* input fails first, and "verified" means every assertion on every input, *)
(* for blocks of any length and whatever the tools do.                     *)
THEOREM ExactVerdict ==
  ASSUME NullIsNoBlock
  PROVE  Spec /\ []QueryIsFaithful => []VerdictIsExact
<1>1. IInv => VerdictIsExact
  <2> SUFFICES ASSUME IInv PROVE VerdictIsExact
    OBVIOUS
  <2>1. block # Null /\ mode = "verify" =>
          reported = {k \in 1 .. index - 1 : FailsFirst(block, k) # {}}
    BY DEF IInv, ReportOK, Prints
  <2>2. ASSUME outcome = "verified"
        PROVE  \A k \in 1 .. Len(block.assertions) :
                 Inputs(block.args) \subseteq Meets(block.assertions[k], block.args)
    <3>1. reported = {} /\ mode = "verify" /\ pc = "emit" /\ index = Count + 1
      BY <2>2 DEF IInv, ReportOK
    <3>2. block # Null /\ Count \in Nat
      BY <3>1 DEF IInv, LoopInv, BlockOK, ParserPlaces
    <3>3. index - 1 = Count
      BY <3>1, <3>2
    <3>4. \A k \in 1 .. Count : FailsFirst(block, k) = {}
      BY <2>1, <3>1, <3>2, <3>3
    <3>5. \A in \in Inputs(block.args) : \A k \in 1 .. Count :
            in \in Meets(block.assertions[k], block.args)
      BY <3>2, <3>4, NoneFailsFirst
    <3> QED BY <3>5 DEF Count
  <2>3. outcome = "refuted" => reported # {}
    BY DEF IInv, ReportOK
  <2> QED BY <2>1, <2>2, <2>3 DEF VerdictIsExact
<1> QED BY <1>1, ReportInvariance, PTL

-----------------------------------------------------------------------------
(* The refinement.                                                         *)

LEMMA GoalStays ==
  ASSUME UNCHANGED block
  PROVE  Goal' = Goal
BY DEF Goal, FailsFirst

LEMMA GoalOf ==
  ASSUME IInv, pc \notin ParserPlaces
  PROVE  /\ Goal = [k \in 1 .. Count |-> FailsFirst(block, k)]
         /\ Goal # <<>> /\ DOMAIN Goal = 1 .. Count
         /\ Promise!Failing = Refuted(Count)
<1>1. block # Null /\ Count \in Nat \ {0}
  BY DEF IInv, LoopInv, BlockOK
<1>2. Goal = [k \in 1 .. Count |-> FailsFirst(block, k)]
  BY <1>1 DEF Goal, Count
<1>3. DOMAIN Goal = 1 .. Count
  BY <1>2
<1>4. 1 \in DOMAIN Goal
  BY <1>1, <1>3
<1>5. Goal # <<>>
  <2>1. DOMAIN <<>> = {}
    BY EmptySeq, LenProperties
  <2> QED BY <1>4, <2>1
<1>6. Promise!Failing = Refuted(Count)
  BY <1>2, <1>3 DEF Promise!Failing, Refuted
<1> QED BY <1>2, <1>3, <1>5, <1>6

(* A step that ends without a verdict gives up, one that leaves block,     *)
(* reports and outcome alone is none of Verdict's.                         *)
LEMMA GivesUp ==
  ASSUME outcome = "running", NEW how, NEW files, Exit(how, files),
         how \notin {"running", "verified", "refuted"}
  PROVE  [Promise!Next]_(Promise!vars)
<1>1. UNCHANGED <<block, reported>> /\ outcome' = how
  BY DEF Exit, parserVars
<1>2. Given = "none" /\ Given' = "gave up"
  BY <1>1 DEF Given
<1> QED BY <1>1, <1>2, GoalStays DEF Promise!Next, Promise!GiveUp

LEMMA Stutters ==
  ASSUME UNCHANGED <<block, reported, outcome>>
  PROVE  [Promise!Next]_(Promise!vars)
<1>1. Given' = Given
  BY DEF Given
<1> QED BY <1>1, GoalStays DEF Promise!vars

LEMMA RefinementStep ==
  ASSUME NullIsNoBlock, IInv, IInv', [Next]_vars
  PROVE  [Promise!Next]_(Promise!vars)
<1>1. CASE Parse
  <2>1. /\ pc \in {"item", "argument", "statement"} /\ UNCHANGED <<reported, outcome>> /\ outcome = "running"
        /\ block' = block \/ pc' = "emit"
    BY <1>1, ParserMoves DEF Parse, Running, loopVars, IInv, LoopInv
  <2>2. CASE block' = block
    BY <2>1, <2>2, Stutters
  <2>3. CASE pc' = "emit"
    <3>1. Goal = <<>>
      BY <2>1 DEF IInv, LoopInv, BlockOK, ParserPlaces, Goal
    <3>2. pc' \notin ParserPlaces
      BY <2>3 DEF ParserPlaces
    <3>3. block' # Null /\ Count' \in Nat \ {0}
      BY <3>2 DEF IInv, LoopInv, BlockOK
    <3>4. Goal' = [k \in 1 .. Count |-> FailsFirst(block, k)]'
      BY <3>3 DEF Goal, Count
    <3>5. 1 \in DOMAIN Goal'
      BY <3>3, <3>4
    <3>6. Goal' # <<>>
      <4>1. DOMAIN <<>> = {}
        BY EmptySeq, LenProperties
      <4> QED BY <3>5, <4>1
    <3>7. Given = "none" /\ Given' = "none"
      BY <2>1 DEF Given
    <3> QED BY <2>1, <3>1, <3>6, <3>7 DEF Promise!Next, Promise!Read
  <2> QED BY <2>1, <2>2, <2>3
<1>2. CASE ParseFails \/ ThrowUncaught
  BY <1>2, GivesUp DEF ParseFails, ThrowUncaught, Fail, At, Running
<1>3. CASE EmitQuery
  BY <1>3, EmitMoves, GivesUp, Stutters DEF parsed
<1>4. CASE Conclude
  <2>1. pc = "emit" /\ outcome = "running" /\ index > Count
    BY <1>4 DEF Conclude, At, Running, Count
  <2>2. CASE mode # "verify"
    BY <1>4, <2>1, <2>2, GivesUp DEF Conclude
  <2>3. CASE mode = "verify"
    <3>1. Exit(IF allVerified THEN "verified" ELSE "refuted", disk)
      BY <1>4, <2>3 DEF Conclude, Verified
    <3>2. UNCHANGED <<block, reported>> /\ outcome' = IF allVerified THEN "verified" ELSE "refuted"
      BY <3>1 DEF Exit, parserVars
    <3>3. allVerified <=> reported = {}
      BY DEF IInv, ReportOK
    <3>4. Given = "none" /\ Given' = IF reported = {} THEN "verified" ELSE "refuted"
      BY <2>1, <3>2, <3>3 DEF Given
    <3>5. pc \notin ParserPlaces /\ block # Null
      BY <2>1 DEF IInv, LoopInv, BlockOK, ParserPlaces
    <3>6. index - 1 = Count
      BY <2>1, InsideLoop DEF IInv
    <3>7. reported = Refuted(Count)
      BY <2>3, <3>5, <3>6 DEF IInv, ReportOK, Prints, Refuted
    <3>8. Goal # <<>> /\ reported = Promise!Failing
      BY <3>5, <3>7, GoalOf
    <3> QED BY <3>2, <3>4, <3>8, GoalStays DEF Promise!Next, Promise!Conclude
  <2> QED BY <2>2, <2>3
<1>5. CASE MakeTempPath
  BY <1>5, TempMoves, Stutters DEF parsed
<1>6. CASE Write \/ WriteQuery
  <2>1. /\ UNCHANGED <<block, reported>> /\ outcome = "running"
        /\ outcome' = outcome \/ outcome' = "error"
    BY <1>6, WriteMoves DEF Write, WriteQuery, parsed
  <2>2. CASE outcome' = outcome
    BY <2>1, <2>2, Stutters
  <2>3. CASE outcome' = "error"
    <3>1. Given = "none" /\ Given' = "gave up"
      BY <2>1, <2>3 DEF Given
    <3> QED BY <2>1, <3>1, GoalStays DEF Promise!Next, Promise!GiveUp
  <2> QED BY <2>1, <2>2, <2>3
<1>7. CASE Translate
  BY <1>7, TranslateMoves, GivesUp, Stutters DEF parsed
<1>8. CASE ReadBack
  BY <1>8, ReadMoves, Stutters DEF parsed
<1>9. CASE Answer
  <2>1. allVerified \in BOOLEAN
    BY DEF IInv, LoopInv, OutcomeOK
  <2>2. CASE Exit("inconclusive", Without("query")) \/ Exit("error", Without("query"))
    BY <1>9, <2>1, <2>2, AnswerMoves, GivesUp
  <2>3. CASE ~(Exit("inconclusive", Without("query")) \/ Exit("error", Without("query")))
    <3>1. /\ pc = "answer" /\ outcome = "running" /\ disk["query"] # Cut
          /\ \/ Models(disk["query"]) = {} /\ reported' = reported
             \/ Models(disk["query"]) # {} /\ reported' = reported \union {index}
          /\ UNCHANGED <<block, outcome>>
      BY <1>9, <2>1, <2>3, AnswerMoves DEF parsed
    <3>2. CASE reported' = reported
      BY <3>1, <3>2, Stutters
    <3>3. CASE Models(disk["query"]) # {} /\ reported' = reported \union {index}
      <4>1. FailsFirst(block, index) # {}
        BY <3>1, <3>3 DEF IInv, TextOK, Faithful
      <4>2. pc \in Inside /\ pc \notin ParserPlaces
        BY <3>1 DEF Inside, ParserPlaces
      <4>3. Count \in Nat /\ index \in 1 .. Count /\ block # Null
        BY <3>1, <4>2, InsideLoop DEF IInv, LoopInv, BlockOK
      <4>4. Goal # <<>> /\ index \in Promise!Failing
        BY <4>1, <4>2, <4>3, GoalOf DEF Refuted
      <4>5. ~Prints
        BY <3>1 DEF IInv, ReportOK, Prints, Inside
      <4>6. reported \subseteq 1 .. index - 1
        BY <4>3, <4>5 DEF IInv, ReportOK
      <4>7. \A j \in reported : j < index
        BY <4>3, <4>6
      <4>8. Given = "none" /\ Given' = "none"
        BY <3>1 DEF Given
      <4>9. \E k \in Promise!Failing : (\A j \in reported : j < k) /\ reported' = reported \union {k}
        BY <3>3, <4>4, <4>7
      <4> QED BY <3>1, <4>4, <4>8, <4>9, GoalStays DEF Promise!Next, Promise!Report
    <3> QED BY <3>1, <3>2, <3>3
  <2> QED BY <2>2, <2>3
<1>10. CASE UNCHANGED vars
  BY <1>10, Stutters DEF vars, parserVars, loopVars
<1> QED BY <1>1, <1>2, <1>3, <1>4, <1>5, <1>6, <1>7, <1>8, <1>9, <1>10 DEF Next

(* main with exportSmtlib and runZ3 implements what Verdict promises of a  *)
(* block, with all that happens in between.                                *)
THEOREM KeepsPromise ==
  ASSUME NullIsNoBlock
  PROVE  Spec /\ []QueryIsFaithful => ImplementsVerdict
<1>1. Init => Promise!Init
  BY DEF Init, ParserInit, Promise!Init, Goal, Given
<1>2. IInv /\ IInv' /\ [Next]_vars => [Promise!Next]_(Promise!vars)
  BY RefinementStep
<1> QED BY <1>1, <1>2, ReportInvariance, PTL DEF Spec, ImplementsVerdict, Promise!Spec
=============================================================================
