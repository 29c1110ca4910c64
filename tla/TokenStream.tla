---------------------------- MODULE TokenStream ----------------------------
(***************************************************************************)
(* frontend::parse::TokenStream over the lexer: two deques, the tokens     *)
(* that were lexed and not consumed and, at the same index, a copy of the  *)
(* trivia the lexer held when it returned each of them.  An operation      *)
(* first fills the deques up to the lookahead it needs, one call of        *)
(* Lexer::next() at a time, and then reads or pops them.                   *)
(***************************************************************************)
EXTENDS LexicalReference

CONSTANTS
  MaxLookahead,   (* bound: the lookaheads a parser asks for are 0..       *)
  MaxTaken,       (* bound: consumed tokens, Eof tokens included           *)
  Expected,       (* the sets of kinds that match/matchAny/expect ask for  *)
  NoAnswer, NoOperation

ASSUME StreamAssumption == MaxLookahead \in Nat /\ MaxTaken \in Nat

VARIABLES
  tokens_, trivia_,   (* the deques                                        *)
  operation,          (* the call that runs: [name, lookahead, kinds]      *)
  lexing,             (* Lexer::next() was called by fillUntil             *)
  answer,             (* what the last call returned                       *)
  taken,              (* history: how many tokens were consumed            *)
  program             (* history: the tokens of the buffer by the grammar  *)

streamVars == <<tokens_, trivia_, operation, lexing, answer, taken, program>>
allVars == <<vars, streamVars>>

Operations ==
  [name : {"peek"}, lookahead : 0 .. MaxLookahead, kinds : {{}}]
    \union [name : {"consume"}, lookahead : {0}, kinds : {{}}]
    \union [name : {"match"}, lookahead : {0}, kinds : Expected]

Begin(op) ==
  /\ operation = NoOperation
  /\ taken < MaxTaken
  /\ operation' = op
  /\ UNCHANGED <<vars, tokens_, trivia_, lexing, answer, taken, program>>

(* Mutant of FillCall: the lookahead is taken for a length.                *)
FillCallShort ==
  /\ operation # NoOperation /\ ~lexing
  /\ Len(tokens_) < operation.lookahead
  /\ Call /\ lexing' = TRUE
  /\ UNCHANGED <<tokens_, trivia_, operation, answer, taken, program>>

(* fillUntil: while the deque does not reach the lookahead, call next().   *)
FillCall ==
  /\ operation # NoOperation /\ ~lexing
  /\ Len(tokens_) <= operation.lookahead
  /\ Call
  /\ lexing' = TRUE
  /\ UNCHANGED <<tokens_, trivia_, operation, answer, taken, program>>

FillPush ==
  /\ lexing /\ pc = "idle"
  /\ tokens_' = Append(tokens_, out[Len(out)].token)
  /\ trivia_' = Append(trivia_, trivia)
  /\ lexing' = FALSE
  /\ UNCHANGED <<vars, operation, answer, taken, program>>

Filled == operation # NoOperation /\ ~lexing /\ Len(tokens_) > operation.lookahead

(* Mutant of Entry: the trivia the lexer holds now instead of the copy.    *)
EntryOfLexer(k) == [trivia |-> trivia, token |-> tokens_[k + 1]]

Entry(k) == [trivia |-> trivia_[k + 1], token |-> tokens_[k + 1]]

(* peek, current, is and leadingTrivia read the deques.                    *)
Show(k) ==
  /\ answer' = Entry(k)
  /\ UNCHANGED <<vars, tokens_, trivia_, lexing, taken, program>>

(* Mutant of Pop: the trivia deque is not popped with the tokens.          *)
PopToken ==
  /\ answer' = Entry(0) /\ taken' = taken + 1
  /\ tokens_' = Tail(tokens_)
  /\ UNCHANGED <<vars, trivia_, lexing, program>>

Pop ==
  /\ answer' = Entry(0)
  /\ taken' = taken + 1
  /\ tokens_' = Tail(tokens_)
  /\ trivia_' = Tail(trivia_)
  /\ UNCHANGED <<vars, lexing, program>>

Peeked   == Filled /\ operation.name = "peek" /\ Show(operation.lookahead)
Consumed == Filled /\ operation.name = "consume" /\ Pop
Matched  == /\ Filled /\ operation.name = "match"
            /\ IF tokens_[1].kind \in operation.kinds THEN Pop ELSE Show(0)

StreamInit ==
  /\ Init
  /\ tokens_ = <<>> /\ trivia_ = <<>>
  /\ operation = NoOperation /\ lexing = FALSE
  /\ answer = NoAnswer /\ taken = 0
  /\ program = Tokenization

StreamNext ==
  \/ \E op \in Operations : Begin(op)
  \/ FillCall
  \/ lexing /\ Lex /\ UNCHANGED streamVars
  \/ FillPush
  \/ (Peeked \/ Consumed \/ Matched) /\ operation' = NoOperation

StreamSpec == StreamInit /\ [][StreamNext]_allVars

(* A call of the stream runs until it returns; the parser need not call.   *)
FairStreamSpec ==
  StreamSpec /\ WF_allVars(StreamNext /\ operation # NoOperation)

-----------------------------------------------------------------------------
(* The types, the lexer's among them.                                      *)
StreamTypeOK ==
  /\ TypeOK
  /\ tokens_ \in Seq(Token)
  /\ trivia_ \in Seq(Seq(TriviaPiece))
  /\ operation \in Operations \union {NoOperation}
  /\ lexing \in BOOLEAN
  /\ taken \in 0 .. MaxTaken

(* Nothing is lost, doubled or reordered between lexer and parser, and the *)
(* i-th trivia belongs to the i-th token although the lexer overwrites its *)
(* own trivia with every call: the deques are the lexer's last outputs.    *)
Window ==
  LET delivered == IF lexing /\ pc = "idle" THEN Len(out) - 1 ELSE Len(out)
  IN  /\ Len(tokens_) = Len(trivia_)
      /\ taken + Len(tokens_) = delivered
      /\ \A k \in 1 .. Len(tokens_) :
           [trivia |-> trivia_[k], token |-> tokens_[k]] = out[taken + k]

(* The stream over the lexer implements the token source over the lexical  *)
(* grammar: whatever the parser looked ahead, matched or consumed before,  *)
(* each call shows or takes the next token of the program.                 *)
Source == INSTANCE TokenSource WITH source <- program
ImplementsSource == Source!Spec

(* Every call returns, at the end of the file too.                         *)
CallsReturn == (operation # NoOperation) ~> (operation = NoOperation)
=============================================================================
