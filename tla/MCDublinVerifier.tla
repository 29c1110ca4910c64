-------------------------- MODULE MCDublinVerifier --------------------------
(***************************************************************************)
(* Dublin end to end: DublinVerifier with the emitter of SmtEmitter and    *)
(* the meaning of VerifyReference on the files of DublinBlocks.            *)
(***************************************************************************)
EXTENDS DublinBlocks

(* parseFile: a file is accepted exactly if it is the text of a block of   *)
(* at least one assertion, and as that block.                              *)
AcceptsItsText ==
  /\ block # Null =>
       /\ block.assertions # <<>>
       /\ [tokens EXCEPT ![2] = Meaning!Word("identifier", "v")] = Meaning!Text(block)
  /\ pc = "rejected" /\ (pos > 1 \/ hadError) => tokens \notin McTexts

(* SmtEmitter::emit: a query mlir-translate understands has as its models  *)
(* exactly the inputs on which the assertions before hold and the one in   *)
(* question does not: signedness, widths, wrap-around and the negation are *)
(* those of the source, and what is emitted has types.                     *)
QueriesAreFaithful ==
  /\ QueryIsFaithful
  /\ At("export") /\ Translatable(smt) =>
       \A k \in 1 .. index : Meaning!WellTyped(block.assertions[k], block.args)

(* The source from which a query could always be made: distinct arguments  *)
(* whose names do not end in a digit, and assertions that have types, in   *)
(* which no comparison begins with a literal.                              *)
EndsInDigit(x) == SubSeq(x, Len(x), Len(x)) \in ToSet(SubSeq(McNumeral, 1, 2))
Plain(b, i) ==
  /\ \A j, k \in 1 .. Len(b.args) : b.args[j].name = b.args[k].name => j = k
  /\ \A k \in 1 .. Len(b.args) : ~EndsInDigit(b.args[k].name)
  /\ \A e \in ToSet(SubSeq(b.assertions, 1, i)) :
       Meaning!WellTyped(e, b.args) /\ ~Meaning!LiteralFirst(e)
Subtracts(b, i) == \E e \in ToSet(SubSeq(b.assertions, 1, i)) : Meaning!Subtracts(e)

(* emitExpr: types are passed from left to right and from the outside in,  *)
(* and names are counted, so that on plain source no condition that has    *)
(* types is rejected and nothing undefined happens; every literal fits and *)
(* every name is defined once, so that there is one reason, and always     *)
(* that one, for which mlir-translate refuses the query: a binary minus,   *)
(* in the assertion or in one it assumes, is written as smt.bv.sub, an     *)
(* operation the smt dialect does not have.                                *)
OnlySubtractionIsRefused ==
  Running /\ pc = "emit" /\ index <= Len(block.assertions) /\ Plain(block, index) =>
    /\ Emit(block, index) \notin {Rejected, Undefined}
    /\ Translatable(Emit(block, index)) <=> ~Subtracts(block, index)
=============================================================================
