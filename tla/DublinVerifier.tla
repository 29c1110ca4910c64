--------------------------- MODULE DublinVerifier ---------------------------
(***************************************************************************)
(* The driver of Dublin (main, exportSmtlib, runZ3): for each assertion of *)
(* the block it emits the query "the assertions before it hold, it does    *)
(* not", has mlir-translate turn it into SMT-LIB and Z3 decide it, passing *)
(* everything through temporary files.  The loop goes on behind a          *)
(* counterexample and stops at the first failure of a tool.                *)
(*                                                                         *)
(* The file system and the two tools are external and may fail at every    *)
(* call.  A text in a file is the query it holds, or Cut: a prefix of it,  *)
(* possibly empty, without the final (check-sat).  Three temporary files   *)
(* have a role each; mkstemp keeps their names apart, from each other and  *)
(* from those of other processes.                                          *)
(***************************************************************************)
EXTENDS DublinParser

CONSTANTS
  Modes,            (* some of "verify", "--emit-smt", "--emit-smt2"       *)
  Emit(_, _),       (* SmtEmitter: a query, Rejected, or Undefined         *)
  Translatable(_),  (* external: mlir-translate knows what to do with it   *)
  Models(_),        (* external: the inputs that satisfy a query           *)
  Inputs(_),        (* the inputs of a list of arguments                   *)
  Meets(_, _),      (* those of them on which a condition is true          *)
  Rejected, Undefined, Cut

VARIABLES
  mode,       (* of the command line                                       *)
  index,      (* of the assertion in the loop                              *)
  smt,        (* what the emitter returned                                 *)
  smt2,       (* what exportSmtlib returned                                *)
  disk,       (* the temporary files that exist: role -> text              *)
  allVerified,
  outcome,    (* "running", or how main ends                               *)
  reported,   (* history: assertions a counterexample was printed for      *)
  unwritten   (* history: writeFile has reported a failure                 *)

loopVars == <<mode, index, smt, smt2, disk, allVerified, outcome, reported, unwritten>>
vars == <<parserVars, loopVars>>

Running == outcome = "running"
At(place) == Running /\ pc = place

(* The inputs on which assertion k is the first that does not hold.        *)
FailsFirst(b, k) ==
  {in \in Inputs(b.args) \ Meets(b.assertions[k], b.args) :
     \A j \in 1 .. k - 1 : in \in Meets(b.assertions[j], b.args)}

(* Mutant of Without: std::filesystem::remove is not called.               *)
WithoutRemoving(role) == disk
Without(role) == [r \in DOMAIN disk \ {role} |-> disk[r]]
With(role, text) == [r \in DOMAIN disk \union {role} |-> IF r = role THEN text ELSE disk[r]]

(* main returns, or the program ends otherwise.                            *)
Exit(how, files) ==
  /\ outcome' = how /\ disk' = files
  /\ UNCHANGED <<parserVars, mode, index, smt, smt2, allVerified, reported, unwritten>>
Fail(files) == Exit("error", files)
GoTo(place) == pc' = place /\ UNCHANGED <<tokens, pos, args, assertions, hadError, block>>
(* Mutant of NextAssertion: the loop tries the same assertion again.       *)
SameAssertion == UNCHANGED index /\ GoTo("emit")
NextAssertion == index' = index + 1 /\ GoTo("emit")

-----------------------------------------------------------------------------
(* The loop of main: emit, conclude.                                       *)

ParseFails == At("rejected") /\ Fail(disk)

EmitQuery ==
  /\ At("emit") /\ index <= Len(block.assertions)
  /\ \E query \in {Emit(block, index)} :
       \/ query = Rejected /\ Fail(disk)
       \/ query = Undefined /\ Exit("crashed", disk)
       \/ /\ query \notin {Rejected, Undefined}
          /\ IF mode = "--emit-smt" THEN NextAssertion ELSE GoTo("export") /\ UNCHANGED index
          /\ smt' = query
          /\ UNCHANGED <<mode, smt2, disk, allVerified, outcome, reported, unwritten>>

Verified == IF allVerified THEN "verified" ELSE "refuted"

Conclude ==
  /\ At("emit") /\ index > Len(block.assertions)
  /\ Exit(IF mode = "verify" THEN Verified ELSE "printed", disk)

-----------------------------------------------------------------------------
(* Temporary files.  std::filesystem::rename and remove throw when they    *)
(* fail, which nothing catches: the program is aborted with the files it   *)
(* has.  ofstream buffers, so writeFile sees only what fails at once; what *)
(* fails when the stream is closed leaves a cut text.                      *)

ThrowUncaught ==
  /\ Running /\ pc \in {"export", "exportTo", "written", "translated", "solve", "answer"}
  /\ Exit("aborted", disk)

MakeTempPath ==
  \E step \in {<<"export", "mlir", "exportTo">>, <<"exportTo", "smt2", "write">>,
               <<"solve", "query", "writeQuery">>} :
    /\ At(step[1])
    /\ disk' = With(step[2], Cut)
    /\ GoTo(step[3])
    /\ UNCHANGED <<mode, index, smt, smt2, allVerified, outcome, reported, unwritten>>

WriteFile(place, role, text, next) ==
  /\ At(place)
  /\ \/ \E written \in {text, Cut} :
          /\ disk' = With(role, written)
          /\ GoTo(next)
          /\ UNCHANGED <<mode, index, smt, smt2, allVerified, outcome, reported, unwritten>>
     \/ /\ unwritten' = TRUE
        /\ outcome' = "error"
        /\ UNCHANGED <<parserVars, mode, index, smt, smt2, disk, allVerified, reported>>

Write == WriteFile("write", "mlir", smt, "written")
WriteQuery == WriteFile("writeQuery", "query", smt2, "answer")

-----------------------------------------------------------------------------
(* exportSmtlib behind the files.                                          *)

(* What mlir-translate writes: nothing for nothing.                        *)
Exported(text) == IF text = Cut THEN Cut ELSE text

(* Mutant of AfterTranslation: an early return leaves the result behind.   *)
AfterTranslationKept == Without("mlir")
AfterTranslation == [r \in DOMAIN disk \ {"mlir", "smt2"} |-> disk[r]]

Translate ==
  /\ At("written")
  /\ \/ Fail(AfterTranslation)
     \/ /\ disk["mlir"] # Cut => Translatable(disk["mlir"])
        /\ disk' = [Without("mlir") EXCEPT !["smt2"] = Exported(disk["mlir"])]
        /\ GoTo("translated")
        /\ UNCHANGED <<mode, index, smt, smt2, allVerified, outcome, reported, unwritten>>

(* An unreadable file is read as an empty one.                             *)
ReadBack ==
  /\ At("translated")
  /\ smt2' \in {disk["smt2"], Cut}
  /\ disk' = Without("smt2")
  /\ IF mode = "--emit-smt2" THEN NextAssertion ELSE GoTo("solve") /\ UNCHANGED index
  /\ UNCHANGED <<mode, smt, allVerified, outcome, reported, unwritten>>

-----------------------------------------------------------------------------
(* runZ3 and what main makes of the first line of the answer.              *)

(* Z3 gives no verdict on a text without (check-sat), and may fail or give *)
(* up on any.                                                              *)
Answers(text) ==
  {"unknown", "failed", "other"} \union
  IF text = Cut THEN {} ELSE IF Models(text) = {} THEN {"unsat"} ELSE {"sat"}

(* Mutant of Proves: unknown counts as proved.                             *)
ProvesUnknown(answer) == answer \in {"unsat", "unknown"}
Proves(answer) == answer = "unsat"
Refutes(answer) == answer = "sat"

(* Mutant of StillVerified: the last assertion decides.                    *)
StillVerifiedLast(answer) == Proves(answer)
StillVerified(answer) == allVerified /\ ~Refutes(answer)

Answer ==
  /\ At("answer")
  /\ \E answer \in Answers(disk["query"]) :
       \/ /\ Proves(answer) \/ Refutes(answer)
          /\ allVerified' = StillVerified(answer)
          /\ reported' = IF Refutes(answer) THEN reported \union {index} ELSE reported
          /\ disk' = Without("query")
          /\ NextAssertion
          /\ UNCHANGED <<mode, smt, smt2, outcome, unwritten>>
       \/ /\ ~Proves(answer) /\ ~Refutes(answer)
          /\ Exit(IF answer = "unknown" THEN "inconclusive" ELSE "error", Without("query"))

-----------------------------------------------------------------------------
Parse ==
  /\ Running
  /\ ParserNext
  /\ UNCHANGED loopVars

Init ==
  /\ ParserInit
  /\ mode \in Modes
  /\ index = 1
  /\ smt = Null /\ smt2 = Null
  /\ disk = [r \in {} |-> Cut]
  /\ allVerified = TRUE
  /\ outcome = "running"
  /\ reported = {} /\ unwritten = FALSE

Next ==
  \/ Parse \/ ParseFails \/ EmitQuery \/ Conclude
  \/ ThrowUncaught \/ MakeTempPath \/ Write \/ WriteQuery
  \/ Translate \/ ReadBack \/ Answer

Spec == Init /\ [][Next]_vars

(* One thread, and tools that return.                                      *)
FairSpec == Spec /\ WF_vars(Next)

-----------------------------------------------------------------------------
Places == {"item", "argument", "statement", "rejected", "emit", "export", "exportTo",
           "write", "written", "translated", "solve", "writeQuery", "answer"}

(* The temporary files main and its helpers hold at each place.            *)
Holding == [p \in Places |->
  CASE p = "exportTo" -> {"mlir"} [] p \in {"write", "written"} -> {"mlir", "smt2"}
    [] p = "translated" -> {"smt2"} [] p \in {"writeQuery", "answer"} -> {"query"} [] OTHER -> {}]

TypeOK ==
  /\ pc \in Places
  /\ outcome \in {"running", "verified", "refuted", "printed", "inconclusive", "error",
                   "crashed", "aborted"}
  /\ block # Null => index \in 1 .. Len(block.assertions) + 1
  /\ block = Null => reported = {} /\ pc \in {"item", "argument", "statement", "rejected"}
  /\ outcome = "running" => DOMAIN disk = Holding[pc]
  /\ allVerified \in BOOLEAN /\ hadError \in BOOLEAN /\ unwritten \in BOOLEAN

(* What the driver needs of the emitter: a query mlir-translate            *)
(* understands is satisfied by exactly the inputs that fail first at the   *)
(* assertion in question.                                                  *)
QueryIsFaithful ==
  At("export") /\ Translatable(smt) => Models(smt) = FailsFirst(block, index)

(* main: the verdict it prints and returns is that of the block.  A        *)
(* counterexample is reported for exactly those assertions of the ones     *)
(* done that some input fails first, across failures of tools and whatever *)
(* came before; "verified" (exit 0) means every assertion on every input.  *)
VerdictIsExact ==
  /\ block # Null /\ mode = "verify" =>
       reported = {k \in 1 .. index - 1 : FailsFirst(block, k) # {}}
  /\ outcome = "verified" =>
       \A k \in 1 .. Len(block.assertions) :
         Inputs(block.args) \subseteq Meets(block.assertions[k], block.args)
  /\ outcome = "refuted" => reported # {}

(* exportSmtlib, runZ3: no temporary file survives an iteration, a normal  *)
(* end or a failure of a tool; only a failure to write leaves files.       *)
NothingLeftBehind ==
  /\ pc = "emit" \/ outcome \in {"verified", "refuted", "printed", "inconclusive"} => DOMAIN disk = {}
  /\ outcome = "error" /\ DOMAIN disk # {} => unwritten

(* The driver implements the promise of Verdict; ending without a verdict, *)
(* or having only printed queries, is giving up.                           *)
Goal == IF block = Null THEN <<>> ELSE [k \in 1 .. Len(block.assertions) |-> FailsFirst(block, k)]
Given ==
  IF outcome = "running" THEN "none"
  ELSE IF outcome \in {"verified", "refuted"} THEN outcome ELSE "gave up"

Promise == INSTANCE Verdict WITH goal <- Goal, verdict <- Given
ImplementsVerdict == Promise!Spec

(* parseVerify, main: parsing, the loop over assertions and the retry-free *)
(* use of the tools come to an end on every file.                          *)
Terminates == <>(outcome # "running")
=============================================================================
