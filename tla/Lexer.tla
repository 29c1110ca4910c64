------------------------------- MODULE Lexer -------------------------------
(***************************************************************************)
(* The shared lexer (frontend::lex::Lexer over frontend::lex::CharStream)  *)
(* that every language of the repository reads its programs with.  A call  *)
(* of next() clears the trivia of the previous token, consumes the leading *)
(* trivia piece by piece and then lexes one token.  The model has one      *)
(* action per piece, per character of a comment and per way a token is     *)
(* lexed; runs of blanks, identifier characters and digits are consumed in *)
(* one step, because no such run can hold the one character (NUL) on which *)
(* CharStream::consumeOne does not move.                                   *)
(*                                                                         *)
(* A language (ILexLanguageRules) is given by the constants.  Characters   *)
(* are arbitrary values, a lexeme is a sequence of characters, and the     *)
(* token kinds of the keywords and of the punctuators are abstracted to    *)
(* "Keyword" and "Punctuator": the lexeme tells them apart.                *)
(***************************************************************************)
EXTENDS Integers, Sequences, FiniteSets
Seqs == INSTANCE SequencesExt

CONSTANTS
  Char,           (* the characters                                        *)
  Inputs,         (* the buffers a CharStream may be opened on             *)
  Newline, NUL,   (* '\n' and '\0'                                         *)
  Blank,          (* the characters of isspace() other than '\n'           *)
  Digit, Dot,     (* isdigit() and '.'                                     *)
  Alnum,          (* isalnum()                                             *)
  DigitValue,     (* the number each digit denotes                         *)
  MaxInteger,     (* the largest value of a literal (long long)            *)
  IdentStart, IdentContinue,
  Keywords,       (* set of lexemes                                        *)
  Punctuators,    (* set of lexemes of one or two characters               *)
  Comments        (* sequence of delimiters [kind, open, close]            *)

ASSUME LanguageAssumption ==
  /\ Inputs \subseteq Seq(Char)
  /\ IdentStart \subseteq IdentContinue
  /\ Newline \notin Blank
  /\ NUL \notin {Newline, Dot} \union Blank \union Digit \union IdentContinue
  /\ \A w \in Punctuators : Len(w) \in {1, 2}
  /\ Comments \in Seq([kind : {"Line", "Block"}, open : Seq(Char), close : Seq(Char)])

VARIABLES
  buffer,   (* CharStream::buffer_                                         *)
  loc,      (* CharStream::cursor_, line_ and col_                         *)
  trivia,   (* Lexer::trivia_                                              *)
  pc,       (* where next() stands                                         *)
  comment,  (* the comment being consumed: its delimiter and where it began *)
  out       (* history: what each call returned, with its leading trivia   *)

vars == <<buffer, loc, trivia, pc, comment, out>>

NoComment == [delim |-> 0, start |-> [offset |-> 0, line |-> 1, column |-> 1]]
StartOfBuffer == [offset |-> 0, line |-> 1, column |-> 1]

Size  == Len(buffer)
AtEof == loc.offset = Size
CharAt(p)  == buffer[p + 1]
Peek  == IF AtEof THEN NUL ELSE CharAt(loc.offset)
Peek2 == IF Size - loc.offset < 2 THEN NUL ELSE CharAt(loc.offset + 1)
View(from, to) == SubSeq(buffer, from + 1, to)
StartsAt(w, p) == Size - p >= Len(w) /\ View(p, p + Len(w)) = w

(* Where the run of characters of S that begins at offset p ends.          *)
RunEnd(p, S) ==
  CHOOSE q \in p .. Size :
    /\ \A i \in p .. (q - 1) : CharAt(i) \in S
    /\ q = Size \/ CharAt(q) \notin S

(* Mutants of After: columns that begin at zero, columns that never restart. *)
AfterZeroBased(l, to) ==
  LET breaks == {i \in (l.offset + 1) .. to : buffer[i] = Newline}
  IN  [ offset |-> to, line |-> l.line + Cardinality(breaks),
        column |-> IF breaks = {} THEN l.column + (to - l.offset) ELSE 0 ]
AfterNoRestart(l, to) ==
  [ offset |-> to,
    line   |-> l.line + Cardinality({i \in (l.offset + 1) .. to : buffer[i] = Newline}),
    column |-> l.column + (to - l.offset) ]

(* CharStream::advance from l to offset to: the line grows with every      *)
(* newline passed, and the column restarts after the last of them.         *)
After(l, to) ==
  LET breaks == {i \in (l.offset + 1) .. to : buffer[i] = Newline}
  IN  [ offset |-> to,
        line   |-> l.line + Cardinality(breaks),
        column |-> IF breaks = {} THEN l.column + (to - l.offset)
                   ELSE LET last == CHOOSE i \in breaks : \A j \in breaks : j <= i
                        IN  1 + (to - last) ]

(* CharStream::consumeOne: on NUL the cursor stays where it is.            *)
ConsumedOne == After(loc, IF Peek = NUL THEN loc.offset ELSE loc.offset + 1)

Piece(kind, from, to) == [kind |-> kind, start |-> from, end |-> to]

-----------------------------------------------------------------------------
(* Mutant of Call: the trivia of the previous token are kept.              *)
CallKeepsTrivia ==
  /\ pc = "idle" /\ pc' = "trivia"
  /\ UNCHANGED <<buffer, loc, trivia, comment, out>>

(* next(): lexer.cpp clears the trivia of the previous token first.        *)
Call ==
  /\ pc = "idle"
  /\ trivia' = <<>>
  /\ pc' = "trivia"
  /\ UNCHANGED <<buffer, loc, comment, out>>

ConsumeNewline ==
  /\ pc = "trivia" /\ ~AtEof /\ Peek = Newline
  /\ loc' = ConsumedOne
  /\ trivia' = Append(trivia, Piece("Newline", loc, loc'))
  /\ UNCHANGED <<buffer, pc, comment, out>>

ConsumeWhitespace ==
  /\ pc = "trivia" /\ ~AtEof /\ Peek \in Blank
  /\ loc' = After(loc, RunEnd(loc.offset, Blank))
  /\ trivia' = Append(trivia, Piece("Whitespace", loc, loc'))
  /\ UNCHANGED <<buffer, pc, comment, out>>

(* The delimiters that open a comment here: consumeCommentMaybe takes the  *)
(* first in the order of the language, and skips an empty one.             *)
Opening ==
  {i \in 1 .. Len(Comments) :
     Comments[i].open # <<>> /\ StartsAt(Comments[i].open, loc.offset)}

OpenComment ==
  /\ pc = "trivia" /\ ~AtEof /\ Peek \notin Blank \union {Newline}
  /\ \E i \in Opening :
       /\ \A j \in Opening : i <= j
       /\ comment' = [delim |-> i, start |-> loc]
       /\ loc' = After(loc, loc.offset + Len(Comments[i].open))
  /\ pc' = "comment"
  /\ UNCHANGED <<buffer, trivia, out>>

Delim == Comments[comment.delim]
AtLineEnd == Delim.kind = "Line" /\ Peek = Newline
AtClose   == /\ Delim.kind = "Block" /\ Delim.close # <<>>
             /\ StartsAt(Delim.close, loc.offset)

CommentChar ==
  /\ pc = "comment" /\ ~AtEof /\ ~AtLineEnd /\ ~AtClose
  /\ loc' = ConsumedOne
  /\ UNCHANGED <<buffer, trivia, pc, comment, out>>

(* Mutant of CloseComment: a comment may not end with the file.            *)
CloseCommentInFile ==
  /\ pc = "comment" /\ (AtLineEnd \/ AtClose)
  /\ loc' = After(loc, IF AtClose THEN loc.offset + Len(Delim.close) ELSE loc.offset)
  /\ trivia' = Append(trivia, Piece("Comment", comment.start, loc'))
  /\ comment' = NoComment /\ pc' = "trivia"
  /\ UNCHANGED <<buffer, out>>

CloseComment ==
  /\ pc = "comment" /\ (AtEof \/ AtLineEnd \/ AtClose)
  /\ loc' = After(loc, IF AtClose THEN loc.offset + Len(Delim.close)
                       ELSE loc.offset)
  /\ trivia' = Append(trivia, Piece("Comment", comment.start, loc'))
  /\ comment' = NoComment
  /\ pc' = "trivia"
  /\ UNCHANGED <<buffer, out>>

(* The loop of consumeTrivia ends at end of file or when nothing matched.  *)
EndTrivia ==
  /\ pc = "trivia"
  /\ AtEof \/ (Peek \notin Blank \union {Newline} /\ Opening = {})
  /\ pc' = "token"
  /\ UNCHANGED <<buffer, loc, trivia, comment, out>>

-----------------------------------------------------------------------------
(* next() returns a token of this kind that ends at location to.           *)
Return(kind, to) ==
  /\ loc' = to
  /\ out' = Append(out, [trivia |-> trivia, token |-> Piece(kind, loc, to)])
  /\ pc' = "idle"
  /\ UNCHANGED <<buffer, trivia, comment>>

LexEof ==
  /\ pc = "token" /\ AtEof
  /\ Return("Eof", loc)

LexIdentifierOrKeyword ==
  /\ pc = "token" /\ ~AtEof /\ Peek \in IdentStart
  /\ LET end == RunEnd(loc.offset, IdentContinue)
     IN  Return(IF View(loc.offset, end) \in Keywords THEN "Keyword" ELSE "Identifier",
                After(loc, end))

StartsNumber == Peek \in Digit \/ (Peek = Dot /\ Peek2 \in Digit)

(* More than one dot, or an integer that does not fit, is InvalidNumber.   *)
NumberKind(w) ==
  LET dots  == Cardinality({i \in 1 .. Len(w) : w[i] = Dot})
      value == Seqs!FoldLeft(LAMBDA v, d : 10 * v + DigitValue[d], 0, w)
  IN  IF dots = 1 THEN "Float"
      ELSE IF dots = 0 /\ value <= MaxInteger THEN "Integer"
      ELSE "InvalidNumber"

LexNumber ==
  /\ pc = "token" /\ ~AtEof /\ Peek \notin IdentStart /\ StartsNumber
  /\ LET end == RunEnd(loc.offset, Digit \union {Dot})
     IN  Return(NumberKind(View(loc.offset, end)), After(loc, end))

(* Mutant of TwoCharPunctuator: no longest match.                          *)
NeverTwoChars == FALSE

TwoCharPunctuator ==
  Size - loc.offset >= 2 /\ View(loc.offset, loc.offset + 2) \in Punctuators

(* Mutant of LexPunctOrInvalid: an operator character is not consumed.     *)
LexPunctInPlace ==
  /\ pc = "token" /\ ~AtEof /\ Peek \notin IdentStart /\ ~StartsNumber
  /\ IF <<Peek>> \in Punctuators THEN Return("Punctuator", ConsumedOne)
     ELSE Return("Operator", loc)

(* The longest punctuator first; any other character is an operator of its *)
(* own unless it is alphanumeric.                                          *)
LexPunctOrInvalid ==
  /\ pc = "token" /\ ~AtEof /\ Peek \notin IdentStart /\ ~StartsNumber
  /\ \/ /\ TwoCharPunctuator
        /\ Return("Punctuator", After(loc, loc.offset + 2))
     \/ /\ ~TwoCharPunctuator
        /\ Return(IF <<Peek>> \in Punctuators THEN "Punctuator"
                  ELSE IF Peek \notin Alnum THEN "Operator" ELSE "Invalid",
                  ConsumedOne)

-----------------------------------------------------------------------------
Ended == out # <<>> /\ out[Len(out)].token.kind = "Eof"

Init ==
  /\ buffer \in Inputs
  /\ loc = StartOfBuffer
  /\ trivia = <<>>
  /\ pc = "idle"
  /\ comment = NoComment
  /\ out = <<>>

(* One step of a running call of next().                                   *)
Lex ==
  \/ ConsumeNewline \/ ConsumeWhitespace
  \/ OpenComment \/ CommentChar \/ CloseComment \/ EndTrivia
  \/ LexEof \/ LexIdentifierOrKeyword \/ LexNumber \/ LexPunctOrInvalid

(* A client that asks for tokens until it is given the Eof token.          *)
Next == (~Ended /\ Call) \/ Lex

Spec == Init /\ [][Next]_vars

(* The client is a loop around next(), and next() runs to its return.      *)
FairSpec == Spec /\ WF_vars(Next)

-----------------------------------------------------------------------------
Location == [offset : 0 .. Size, line : Nat \ {0}, column : Nat \ {0}]
TriviaPiece == [kind : {"Newline", "Whitespace", "Comment"},
                start : Location, end : Location]
Token == [kind : {"Eof", "Identifier", "Keyword", "Integer", "Float", "InvalidNumber",
                  "Punctuator", "Operator", "Invalid"},
          start : Location, end : Location]

TypeOK ==
  /\ buffer \in Inputs
  /\ loc \in Location
  /\ trivia \in Seq(TriviaPiece)
  /\ pc \in {"idle", "trivia", "comment", "token"}
  /\ comment \in [delim : 0 .. Len(Comments), start : Location]
  /\ pc = "comment" => comment.delim # 0
  /\ out \in Seq([trivia : Seq(TriviaPiece), token : Token])

(* The pieces lead from one location to the other without gap or overlap.  *)
Chain(from, pieces, to) ==
  IF pieces = <<>> THEN from = to
  ELSE /\ pieces[1].start = from
       /\ pieces[Len(pieces)].end = to
       /\ \A i \in 1 .. Len(pieces) - 1 : pieces[i].end = pieces[i + 1].start

(* Where the token before the i-th ended.                                  *)
EndBefore(i) == IF i = 1 THEN StartOfBuffer ELSE out[i - 1].token.end

(* What the lexer hands out is lossless: tokens and their leading trivia   *)
(* tile the buffer from its start to the cursor, so that the location of   *)
(* each piece (offset, line and column) is where the one before it ended.  *)
(* consumeTrivia and the four lexing functions each take their start and   *)
(* end by hand (lexer.cpp).                                                *)
Lossless ==
  /\ \A i \in 1 .. Len(out) : Chain(EndBefore(i), out[i].trivia, out[i].token.start)
  /\ LET last == EndBefore(Len(out) + 1)
     IN  IF pc = "idle" THEN last = loc
         ELSE Chain(last, trivia, IF pc = "comment" THEN comment.start ELSE loc)

(* The line and the column that stand for an offset of the buffer.         *)
LineOf(p) == 1 + Cardinality({i \in 1 .. p : buffer[i] = Newline})
ColumnOf(p) ==
  1 + Cardinality({i \in 1 .. p : \A j \in i .. p : buffer[j] # Newline})
IsLocation(l) == l.line = LineOf(l.offset) /\ l.column = ColumnOf(l.offset)

(* Every line and column reported in a token or a trivia piece is the one  *)
(* its offset has in the buffer, whichever mix of advance(n) and           *)
(* consumeOne() brought the cursor there.                                  *)
LocationsAgree ==
  /\ IsLocation(loc) /\ IsLocation(comment.start)
  /\ \A i \in 1 .. Len(trivia) : IsLocation(trivia[i].start) /\ IsLocation(trivia[i].end)
  /\ \A i \in 1 .. Len(out) : IsLocation(out[i].token.start) /\ IsLocation(out[i].token.end)

(* lexer.cpp:20 "next always consumes at least one char unless EOF": a     *)
(* token that is not Eof is not empty, so that a parser's loop advances.   *)
NextConsumes ==
  \A i \in 1 .. Len(out) :
    out[i].token.kind # "Eof" => out[i].token.end.offset > out[i].token.start.offset

(* A client that calls next() in a loop reaches the Eof token: no loop of  *)
(* the lexer can run without moving the cursor.                            *)
ReachesEof == <>(pc = "idle" /\ Ended)
=============================================================================
