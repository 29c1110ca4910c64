------------------------- MODULE LexicalReference -------------------------
(***************************************************************************)
(* A reading of the lexical grammar that owes nothing to the control flow  *)
(* of Lexer.cpp: which texts are lexemes, which piece of the buffer begins *)
(* at an offset, and the sequence of pieces a whole buffer is made of.     *)
(* The lexer is checked against it.                                        *)
(***************************************************************************)
EXTENDS Lexer

(* The lexemes of different kinds begin differently: no number begins like *)
(* a name, a keyword is a name, and a punctuator of two characters begins  *)
(* neither like a name nor with a digit.                                   *)
ASSUME LexemesAssumption ==
  /\ IdentStart \cap (Digit \union {Dot}) = {}
  /\ \A w \in Keywords : w # <<>> /\ w[1] \in IdentStart
  /\ \A w \in Punctuators : Len(w) = 2 => w[1] \notin IdentStart \union Digit

Chars(w) == {w[i] : i \in 1 .. Len(w)}

IsIdentifier(w) == w[1] \in IdentStart /\ Chars(w) \subseteq IdentContinue
IsNumber(w) ==
  /\ Chars(w) \subseteq Digit \union {Dot}
  /\ w[1] \in Digit \/ (Len(w) >= 2 /\ w[2] \in Digit)
IsLexeme(w) ==
  Len(w) = 1 \/ IsIdentifier(w) \/ IsNumber(w) \/ w \in Punctuators

(* The largest end of a text that begins at p and is in the language L.    *)
LongestFrom(p, L(_)) ==
  LET ends == {q \in (p + 1) .. Size : L(View(p, q))}
  IN  CHOOSE q \in ends : \A r \in ends : r <= q

CommentOpensAt(p, i) == Comments[i].open # <<>> /\ StartsAt(Comments[i].open, p)
OpensAt(p) == {i \in 1 .. Len(Comments) : CommentOpensAt(p, i)}

(* A comment runs to the first place where it may end.                     *)
CommentEnd(p) ==
  LET d    == Comments[CHOOSE i \in OpensAt(p) : \A j \in OpensAt(p) : i <= j]
      body == p + Len(d.open)
      ends == IF d.kind = "Line"
              THEN {q \in body .. Size - 1 : CharAt(q) = Newline}
              ELSE IF d.close = <<>> THEN {}
              ELSE {q + Len(d.close) : q \in {r \in body .. Size : StartsAt(d.close, r)}}
  IN  CHOOSE q \in ends \union {Size} : \A r \in ends \union {Size} : q <= r

TokenKindOf(w) ==
  IF w \in Keywords THEN "Keyword"
  ELSE IF IsIdentifier(w) THEN "Identifier"
  ELSE IF IsNumber(w) THEN NumberKind(w)
  ELSE IF w \in Punctuators THEN "Punctuator"
  ELSE IF w[1] \notin Alnum THEN "Operator" ELSE "Invalid"

LocationOf(p) == [offset |-> p, line |-> LineOf(p), column |-> ColumnOf(p)]

(* The piece that begins at offset p of a buffer.                          *)
PieceAt(p) ==
  LET from(kind, q) == Piece(kind, LocationOf(p), LocationOf(q))
      blanks == LongestFrom(p, LAMBDA w : Chars(w) \subseteq Blank)
      lexeme == LongestFrom(p, IsLexeme)
  IN  IF p = Size THEN from("Eof", p)
      ELSE IF CharAt(p) = Newline THEN from("Newline", p + 1)
      ELSE IF CharAt(p) \in Blank THEN from("Whitespace", blanks)
      ELSE IF OpensAt(p) # {} THEN from("Comment", CommentEnd(p))
      ELSE from(TokenKindOf(View(p, lexeme)), lexeme)

IsTrivia(piece) == piece.kind \in {"Newline", "Whitespace", "Comment"}

(* The tokens of the buffer, each with the trivia that leads to it: from   *)
(* left to right, a piece begins where the one before it ended.            *)
Extend(read, piece) ==
  IF IsTrivia(piece)
  THEN [read EXCEPT !.at = piece.end.offset, !.trivia = Append(@, piece)]
  ELSE [ at     |-> piece.end.offset,
         trivia |-> <<>>,
         tokens |-> Append(read.tokens, [trivia |-> read.trivia, token |-> piece]) ]

(* What was read when the offsets before n were looked at: at is where the *)
(* next piece begins.                                                      *)
Reading[n \in 0 .. Size + 1] ==
  IF n = 0 THEN [at |-> 0, trivia |-> <<>>, tokens |-> <<>>]
  ELSE LET read == Reading[n - 1]
       IN  IF n - 1 = read.at THEN Extend(read, PieceAt(n - 1)) ELSE read

Tokenization == Reading[Size + 1].tokens

(* What next() has returned so far is what the grammar says of the buffer: *)
(* the longest lexeme, no token where a comment opens, a comment to the    *)
(* end of its line and not past it, and every piece of trivia with the     *)
(* token it leads to.                                                      *)
AgreesWithGrammar ==
  Len(out) <= Len(Tokenization) /\ out = SubSeq(Tokenization, 1, Len(out))
=============================================================================
