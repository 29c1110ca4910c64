----------------------------- MODULE LexerProofs -----------------------------
(***************************************************************************)
(* For every language and every buffer: the lexer's pieces and tokens tile *)
(* the text, their lines and columns are the right ones, and on a text     *)
(* without NUL every call of next() moves on and returns what the lexical  *)
(* grammar reads there.  Then, for every sequence of calls: the deques of  *)
(* the token stream are the lexer's last outputs, and on texts without NUL *)
(* the stream over the lexer implements the token source over the lexical  *)
(* grammar.                                                                *)
(***************************************************************************)
EXTENDS TokenStream, Minima, SequenceTheorems, FiniteSetTheorems

(* The texts on which CharStream::consumeOne always moves.                 *)
NulFree == \A b \in Inputs : \A i \in 1 .. Len(b) : b[i] # NUL

TriviaKinds == {"Newline", "Whitespace", "Comment"}
TokenKinds == {"Eof", "Identifier", "Keyword", "Integer", "Float", "InvalidNumber",
               "Punctuator", "Operator", "Invalid"}

-----------------------------------------------------------------------------
LEMMA BufferIsText ==
  ASSUME TypeOK
  PROVE  /\ buffer \in Seq(Char) /\ Size \in Nat
         /\ loc \in Location /\ loc.offset \in 0 .. Size
BY LanguageAssumption DEF TypeOK, Size, Location

(* RunEnd is where the run ends.                                           *)
LEMMA RunEndIs ==
  ASSUME Size \in Nat, NEW p \in 0 .. Size, NEW S
  PROVE  /\ RunEnd(p, S) \in p .. Size
         /\ \A i \in p .. (RunEnd(p, S) - 1) : CharAt(i) \in S
         /\ RunEnd(p, S) = Size \/ CharAt(RunEnd(p, S)) \notin S
<1> DEFINE Stops == {q \in p .. Size : q = Size \/ CharAt(q) \notin S}
<1>1. Stops \subseteq Nat /\ Stops # {}
  OBVIOUS
<1>2. PICK q \in Stops : \A k \in Stops : q <= k
  BY <1>1, LeastExists
<1>3. \A i \in p .. (q - 1) : CharAt(i) \in S
  <2> SUFFICES ASSUME NEW i \in p .. (q - 1) PROVE CharAt(i) \in S
    OBVIOUS
  <2>1. i \in p .. Size /\ i < q
    BY <1>2
  <2>2. i \notin Stops
    BY <2>1, <1>2
  <2> QED
    BY <2>1, <2>2
<1>4. \E e \in p .. Size :
        (\A i \in p .. (e - 1) : CharAt(i) \in S) /\ (e = Size \/ CharAt(e) \notin S)
  BY <1>2, <1>3
<1> QED
  BY <1>4 DEF RunEnd

(* A run that has begun is not empty.                                      *)
LEMMA RunMoves ==
  ASSUME Size \in Nat, NEW p \in 0 .. Size, p # Size, NEW S, CharAt(p) \in S
  PROVE  RunEnd(p, S) > p
BY RunEndIs

-----------------------------------------------------------------------------
(* CharStream::advance.                                                    *)
Breaks(from, to) == {i \in (from + 1) .. to : buffer[i] = Newline}

LEMMA BreaksAreFinite ==
  ASSUME NEW from \in Nat, NEW to \in Nat
  PROVE  /\ IsFiniteSet(Breaks(from, to)) /\ Cardinality(Breaks(from, to)) \in Nat
<1>1. IsFiniteSet((from + 1) .. to)
  BY FS_Interval
<1>2. IsFiniteSet(Breaks(from, to))
  BY <1>1, FS_Subset DEF Breaks
<1> QED
  BY <1>2, FS_CardinalityType

LEMMA AfterIs ==
  ASSUME Size \in Nat, NEW l \in Location, NEW to \in l.offset .. Size
  PROVE  /\ After(l, to) \in Location
         /\ After(l, to).offset = to
         /\ After(l, to).line = l.line + Cardinality(Breaks(l.offset, to))
         /\ Breaks(l.offset, to) = {} => After(l, to).column = l.column + (to - l.offset)
         /\ Breaks(l.offset, to) # {} =>
              \E last \in Breaks(l.offset, to) :
                /\ \A j \in Breaks(l.offset, to) : j <= last
                /\ After(l, to).column = 1 + (to - last)
<1> DEFINE B == Breaks(l.offset, to)
<1>1. l.offset \in 0 .. Size /\ l.line \in Nat \ {0} /\ l.column \in Nat \ {0} /\ to \in Nat
  BY DEF Location
<1>2. Cardinality(B) \in Nat
  <2>1. l.offset \in Nat
    BY <1>1
  <2> QED
    BY <1>1, <2>1, BreaksAreFinite
<1>3. B \subseteq 0 .. to
  BY <1>1 DEF Breaks
<1>4. ASSUME B # {}
      PROVE  (CHOOSE i \in B : \A j \in B : j <= i) \in B
             /\ \A j \in B : j <= (CHOOSE i \in B : \A k \in B : k <= i)
  <2> HIDE DEF B
  <2>1. \E i \in B : \A j \in B : j <= i
    BY <1>1, <1>3, <1>4, GreatestExists
  <2> QED
    BY <2>1
<1>5. After(l, to) =
        [offset |-> to, line |-> l.line + Cardinality(B),
         column |-> IF B = {} THEN l.column + (to - l.offset)
                    ELSE 1 + (to - (CHOOSE i \in B : \A j \in B : j <= i))]
  BY DEF After, Breaks
<1> DEFINE last == CHOOSE i \in B : \A j \in B : j <= i
<1>6. B # {} => last \in B /\ last \in 0 .. to /\ (\A j \in B : j <= last)
  BY <1>3, <1>4
<1> HIDE DEF last, B
<1>7. /\ After(l, to).offset = to
      /\ After(l, to).line = l.line + Cardinality(B)
      /\ B = {} => After(l, to).column = l.column + (to - l.offset)
      /\ B # {} => After(l, to).column = 1 + (to - last)
  BY <1>5 DEF last
<1>8. After(l, to) \in Location
  <2>1. B = {} \/ B # {}
    OBVIOUS
  <2>2. (IF B = {} THEN l.column + (to - l.offset) ELSE 1 + (to - last)) \in Nat \ {0}
    BY <1>1, <1>6
  <2>3. to \in 0 .. Size /\ l.line + Cardinality(B) \in Nat \ {0}
    BY <1>1, <1>2
  <2> QED
    BY <1>5, <2>2, <2>3 DEF Location, last
<1> QED
  BY <1>6, <1>7, <1>8 DEF B

(* advance(0).                                                             *)
LEMMA AfterNothing ==
  ASSUME Size \in Nat, NEW l \in Location
  PROVE  After(l, l.offset) = l
<1>1. l.offset \in 0 .. Size /\ l.line \in Nat /\ l.column \in Nat
  BY DEF Location
<1>2. Breaks(l.offset, l.offset) = {}
  BY <1>1 DEF Breaks
<1>3. Cardinality(Breaks(l.offset, l.offset)) = 0
  BY <1>2, FS_EmptySet
<1>4. l.offset \in l.offset .. Size
  BY <1>1
<1>5. After(l, l.offset) = [offset |-> l.offset, line |-> l.line + 0, column |-> l.column + 0]
  BY <1>1, <1>2, <1>3 DEF After, Breaks
<1> QED
  BY <1>1, <1>5 DEF Location

LEMMA DisjointUnion ==
  ASSUME NEW S, NEW T, IsFiniteSet(S), IsFiniteSet(T), S \cap T = {}
  PROVE  /\ Cardinality(S \union T) = Cardinality(S) + Cardinality(T)
         /\ Cardinality(S) \in Nat /\ Cardinality(T) \in Nat
<1>1. Cardinality(S) \in Nat /\ Cardinality(T) \in Nat
  BY FS_CardinalityType
<1>2. Cardinality(S \cap T) = 0
  BY FS_EmptySet
<1>3. Cardinality(S \union T) = Cardinality(S) + Cardinality(T) - Cardinality(S \cap T)
  BY FS_Union
<1> QED
  BY <1>1, <1>2, <1>3

LEMMA IntervalSize ==
  ASSUME NEW a \in Nat, NEW b \in Nat, a <= b
  PROVE  IsFiniteSet((a + 1) .. b) /\ Cardinality((a + 1) .. b) = b - a
<1>1. PICK c \in Nat : c = a + 1
  OBVIOUS
<1>2. IsFiniteSet(c .. b) /\ Cardinality(c .. b) = IF c > b THEN 0 ELSE b - c + 1
  BY FS_Interval
<1>3. (IF c > b THEN 0 ELSE b - c + 1) = b - a
  BY <1>1
<1> QED
  BY <1>1, <1>2, <1>3

(* The offsets of the line that ends with offset p.                        *)
LineRun(p) == {i \in 1 .. p : \A j \in i .. p : buffer[j] # Newline}

LEMMA AfterKeepsLocation ==
  ASSUME Size \in Nat, NEW l \in Location, NEW to \in l.offset .. Size, IsLocation(l)
  PROVE  IsLocation(After(l, to))
<1> DEFINE p == l.offset
           B == Breaks(p, to)
           C == {i \in 1 .. p : buffer[i] = Newline}
<1>1. p \in Nat /\ to \in Nat /\ p <= to
  BY DEF Location
<1>2. l.line = 1 + Cardinality(C) /\ l.column = 1 + Cardinality(LineRun(p))
  BY DEF IsLocation, LineOf, ColumnOf, LineRun
<1>3. After(l, to).line = LineOf(to)
  <2>1. IsFiniteSet(B)
    BY <1>1, BreaksAreFinite
  <2>2. IsFiniteSet(C)
    <3>1. IsFiniteSet(1 .. p)
      BY <1>1, FS_Interval
    <3> QED
      BY <3>1, FS_Subset
  <2>3. C \cap B = {} /\ C \union B = {i \in 1 .. to : buffer[i] = Newline}
    BY <1>1 DEF Breaks
  <2>4. LineOf(to) = 1 + Cardinality(C \union B)
    BY <2>3 DEF LineOf
  <2>5. After(l, to).line = l.line + Cardinality(B)
    BY AfterIs
  <2> HIDE DEF B, C
  <2>6. /\ Cardinality(C \union B) = Cardinality(C) + Cardinality(B)
        /\ Cardinality(C) \in Nat /\ Cardinality(B) \in Nat
    BY <2>1, <2>2, <2>3, DisjointUnion
  <2> QED
    BY <1>2, <2>4, <2>5, <2>6
<1>4. CASE B = {}
  <2> DEFINE rest == (p + 1) .. to
  <2>1. LineRun(to) = LineRun(p) \union rest
    <3>1. \A j \in (p + 1) .. to : buffer[j] # Newline
      BY <1>4 DEF Breaks
    <3> QED
      BY <1>1, <3>1 DEF LineRun
  <2>2. IsFiniteSet(LineRun(p))
    <3>1. IsFiniteSet(1 .. p)
      BY <1>1, FS_Interval
    <3> QED
      BY <3>1, FS_Subset DEF LineRun
  <2>3. IsFiniteSet(rest) /\ Cardinality(rest) = to - p
    BY <1>1, IntervalSize
  <2>4. LineRun(p) \cap rest = {}
    BY <1>1 DEF LineRun
  <2> HIDE DEF rest
  <2>5. /\ Cardinality(LineRun(to)) = Cardinality(LineRun(p)) + Cardinality(rest)
        /\ Cardinality(LineRun(p)) \in Nat
    BY <2>1, <2>2, <2>3, <2>4, DisjointUnion
  <2>6. After(l, to).column = l.column + (to - p)
    BY <1>4, AfterIs
  <2>7. ColumnOf(to) = 1 + Cardinality(LineRun(to))
    BY DEF ColumnOf, LineRun
  <2>8. After(l, to).column = ColumnOf(to)
    BY <1>1, <1>2, <2>3, <2>5, <2>6, <2>7
  <2> QED
    BY <1>3, <2>8, AfterIs DEF IsLocation
<1>5. CASE B # {}
  <2>1. PICK last \in B : /\ \A j \in B : j <= last
                         /\ After(l, to).column = 1 + (to - last)
    BY <1>5, AfterIs
  <2>2. last \in (p + 1) .. to /\ buffer[last] = Newline
    BY DEF Breaks
  <2>3. LineRun(to) = (last + 1) .. to
    <3>1. \A j \in (last + 1) .. to : buffer[j] # Newline
      BY <1>1, <2>1, <2>2 DEF Breaks
    <3> QED
      BY <1>1, <2>2, <3>1 DEF LineRun
  <2>4. last \in Nat /\ last <= to
    BY <1>1, <2>2
  <2>5. Cardinality(LineRun(to)) = to - last
    BY <1>1, <2>3, <2>4, IntervalSize
  <2>6. ColumnOf(to) = 1 + Cardinality(LineRun(to))
    BY DEF ColumnOf, LineRun
  <2> QED
    BY <1>3, <2>1, <2>5, <2>6, AfterIs DEF IsLocation
<1> QED
  BY <1>4, <1>5

-----------------------------------------------------------------------------
(* What one step of next() does, by its effect.                            *)
Moves == \E to \in loc.offset .. Size : loc' = After(loc, to)

AddsPiece ==
  /\ pc = "trivia" /\ pc' = "trivia"
  /\ \E kind \in TriviaKinds : trivia' = Append(trivia, Piece(kind, loc, loc'))
  /\ UNCHANGED <<comment, out>>

OpensComment ==
  /\ pc = "trivia" /\ pc' = "comment"
  /\ comment' \in [delim : 1 .. Len(Comments), start : {loc}]
  /\ UNCHANGED <<trivia, out>>

ReadsComment ==
  /\ pc = "comment"
  /\ UNCHANGED <<pc, comment, trivia, out>>

ClosesComment ==
  /\ pc = "comment" /\ pc' = "trivia"
  /\ trivia' = Append(trivia, Piece("Comment", comment.start, loc'))
  /\ comment' = NoComment
  /\ UNCHANGED out

EndsTrivia ==
  /\ pc = "trivia" /\ pc' = "token"
  /\ UNCHANGED <<loc, comment, trivia, out>>

ReturnsToken ==
  /\ pc = "token" /\ pc' = "idle"
  /\ \E kind \in TokenKinds :
       /\ out' = Append(out, [trivia |-> trivia, token |-> Piece(kind, loc, loc')])
       /\ NulFree /\ kind # "Eof" => loc'.offset > loc.offset
  /\ UNCHANGED <<comment, trivia>>

LexesOneStep ==
  \/ AddsPiece \/ OpensComment \/ ReadsComment \/ ClosesComment \/ EndsTrivia \/ ReturnsToken

-----------------------------------------------------------------------------
LEMMA DelimiterTypes ==
  ASSUME NEW i \in 1 .. Len(Comments)
  PROVE  /\ Comments[i].kind \in {"Line", "Block"}
         /\ Comments[i].open \in Seq(Char) /\ Len(Comments[i].open) \in Nat
         /\ Comments[i].close \in Seq(Char) /\ Len(Comments[i].close) \in Nat
<1>1. Comments[i] \in [kind : {"Line", "Block"}, open : Seq(Char), close : Seq(Char)]
  BY LanguageAssumption, ElementOfSeq
<1> QED
  BY <1>1

LEMMA OneMore ==
  ASSUME TypeOK
  PROVE  /\ \E to \in loc.offset .. Size : ConsumedOne = After(loc, to)
         /\ ~AtEof /\ Peek # NUL => ConsumedOne.offset = loc.offset + 1
<1>1. Size \in Nat /\ loc.offset \in 0 .. Size /\ loc \in Location
  BY BufferIsText
<1>2. CASE Peek = NUL
  <2>1. ConsumedOne = After(loc, loc.offset)
    BY <1>2 DEF ConsumedOne
  <2> QED
    BY <1>1, <1>2, <2>1
<1>3. CASE Peek # NUL
  <2>1. ~AtEof
    BY <1>3 DEF Peek
  <2>2. loc.offset + 1 \in loc.offset .. Size
    BY <1>1, <2>1 DEF AtEof
  <2>3. ConsumedOne = After(loc, loc.offset + 1)
    BY <1>3 DEF ConsumedOne
  <2>4. ConsumedOne.offset = loc.offset + 1
    BY <1>1, <2>2, <2>3, AfterIs
  <2> QED
    BY <2>2, <2>3, <2>4
<1> QED
  BY <1>2, <1>3

LEMMA NulFreePeek ==
  ASSUME TypeOK, NulFree, ~AtEof
  PROVE  Peek # NUL
<1>1. Size \in Nat /\ loc.offset \in 0 .. Size /\ loc.offset # Size
  BY BufferIsText DEF AtEof
<1>2. loc.offset + 1 \in 1 .. Len(buffer)
  BY <1>1 DEF Size
<1> QED
  BY <1>2 DEF TypeOK, NulFree, Peek, CharAt

LEMMA LexStep ==
  ASSUME TypeOK, Lex
  PROVE  buffer' = buffer /\ Moves /\ LexesOneStep
<1>0. Size \in Nat /\ loc.offset \in 0 .. Size /\ loc \in Location
  BY BufferIsText
<1>a. loc = After(loc, loc.offset) /\ loc.offset \in loc.offset .. Size
  BY <1>0, AfterNothing
<1>1. CASE ConsumeNewline
  BY <1>1, OneMore DEF ConsumeNewline, Moves, LexesOneStep, AddsPiece, TriviaKinds
<1>2. CASE ConsumeWhitespace
  BY <1>0, <1>2, RunEndIs DEF ConsumeWhitespace, Moves, LexesOneStep, AddsPiece, TriviaKinds
<1>3. CASE OpenComment
  <2>1. PICK i \in Opening : /\ comment' = [delim |-> i, start |-> loc]
                             /\ loc' = After(loc, loc.offset + Len(Comments[i].open))
    BY <1>3 DEF OpenComment
  <2>2. i \in 1 .. Len(Comments) /\ Size - loc.offset >= Len(Comments[i].open)
    BY DEF Opening, StartsAt
  <2>3. loc.offset + Len(Comments[i].open) \in loc.offset .. Size
    BY <1>0, <2>2, DelimiterTypes
  <2> QED
    BY <1>3, <2>1, <2>2, <2>3 DEF OpenComment, Moves, LexesOneStep, OpensComment
<1>4. CASE CommentChar
  BY <1>4, OneMore DEF CommentChar, Moves, LexesOneStep, ReadsComment
<1>5. CASE CloseComment
  <2>1. comment.delim \in 1 .. Len(Comments)
    <3>1. comment.delim \in 0 .. Len(Comments) /\ comment.delim # 0
      BY <1>5 DEF CloseComment, TypeOK
    <3>2. Len(Comments) \in Nat
      BY LanguageAssumption
    <3> QED
      BY <3>1, <3>2
  <2>2. AtClose => loc.offset + Len(Delim.close) \in loc.offset .. Size
    BY <1>0, <2>1, DelimiterTypes DEF AtClose, StartsAt, Delim
  <2>3. Moves
    BY <1>5, <1>a, <2>2 DEF CloseComment, Moves
  <2> QED
    BY <1>5, <2>3 DEF CloseComment, LexesOneStep, ClosesComment
<1>6. CASE EndTrivia
  BY <1>6, <1>a DEF EndTrivia, Moves, LexesOneStep, EndsTrivia
<1>7. CASE LexEof
  BY <1>7, <1>a DEF LexEof, Return, Moves, LexesOneStep, ReturnsToken, TokenKinds
<1>8. CASE LexIdentifierOrKeyword
  <2> DEFINE end == RunEnd(loc.offset, IdentContinue)
  <2>1. loc.offset # Size /\ CharAt(loc.offset) \in IdentContinue
    BY <1>8, LanguageAssumption DEF LexIdentifierOrKeyword, AtEof, Peek
  <2>2. end \in loc.offset .. Size /\ end > loc.offset
    BY <1>0, <2>1, RunEndIs, RunMoves
  <2>3. After(loc, end).offset = end
    BY <1>0, <2>2, AfterIs
  <2> QED
    BY <1>8, <2>2, <2>3
       DEF LexIdentifierOrKeyword, Return, Moves, LexesOneStep, ReturnsToken, TokenKinds
<1>9. CASE LexNumber
  <2> DEFINE end == RunEnd(loc.offset, Digit \union {Dot})
  <2>1. loc.offset # Size /\ CharAt(loc.offset) \in Digit \union {Dot}
    BY <1>9 DEF LexNumber, StartsNumber, AtEof, Peek
  <2>2. end \in loc.offset .. Size /\ end > loc.offset
    BY <1>0, <2>1, RunEndIs, RunMoves
  <2>3. After(loc, end).offset = end
    BY <1>0, <2>2, AfterIs
  <2>4. NumberKind(View(loc.offset, end)) \in TokenKinds
    BY DEF NumberKind, TokenKinds
  <2> QED
    BY <1>9, <2>2, <2>3, <2>4 DEF LexNumber, Return, Moves, LexesOneStep, ReturnsToken
<1>10. CASE LexPunctOrInvalid
  <2>1. CASE TwoCharPunctuator
    <3>1. loc.offset + 2 \in loc.offset .. Size
      BY <1>0, <2>1 DEF TwoCharPunctuator
    <3>2. After(loc, loc.offset + 2).offset > loc.offset
      BY <1>0, <3>1, AfterIs
    <3> QED
      BY <1>10, <2>1, <3>1, <3>2
         DEF LexPunctOrInvalid, Return, Moves, LexesOneStep, ReturnsToken, TokenKinds
  <2>2. CASE ~TwoCharPunctuator
    <3>1. NulFree => ConsumedOne.offset > loc.offset
      BY <1>0, <1>10, OneMore, NulFreePeek DEF LexPunctOrInvalid
    <3>2. PICK kind \in {"Punctuator", "Operator", "Invalid"} : Return(kind, ConsumedOne)
      BY <1>10, <2>2 DEF LexPunctOrInvalid
    <3> QED
      BY <1>10, <3>1, <3>2, OneMore
         DEF LexPunctOrInvalid, Return, Moves, LexesOneStep, ReturnsToken, TokenKinds
  <2> QED
    BY <2>1, <2>2
<1> QED
  BY <1>1, <1>2, <1>3, <1>4, <1>5, <1>6, <1>7, <1>8, <1>9, <1>10 DEF Lex

-----------------------------------------------------------------------------
(* Type correctness.                                                       *)
LEMMA NoCommentIsTyped ==
  ASSUME Size \in Nat
  PROVE  /\ StartOfBuffer \in Location
         /\ NoComment \in [delim : 0 .. Len(Comments), start : Location]
<1>1. StartOfBuffer \in Location
  BY DEF StartOfBuffer, Location
<1>2. Len(Comments) \in Nat
  BY LanguageAssumption
<1>3. 0 \in 0 .. Len(Comments)
  BY <1>2
<1> QED
  BY <1>1, <1>3 DEF NoComment, StartOfBuffer

LEMMA TypeInitially == Init => TypeOK
<1> SUFFICES ASSUME Init PROVE TypeOK
  OBVIOUS
<1>1. Size \in Nat
  BY LanguageAssumption DEF Init, Size
<1> QED
  BY <1>1, NoCommentIsTyped DEF Init, TypeOK

LEMMA EntryAppended ==
  ASSUME NEW S, NEW s \in Seq(S), NEW e \in S
  PROVE  /\ Append(s, e) \in Seq(S) /\ Append(s, e) # <<>>
         /\ Len(s) \in Nat /\ Len(Append(s, e)) = Len(s) + 1
         /\ \A i \in 1 .. Len(s) : Append(s, e)[i] = s[i]
         /\ Append(s, e)[Len(s) + 1] = e
BY AppendProperties, LenProperties

LEMMA MovesToLocation ==
  ASSUME TypeOK, buffer' = buffer, Moves
  PROVE  /\ loc' \in Location /\ loc'.offset \in loc.offset .. Size
         /\ IsLocation(loc) => IsLocation(loc')
         /\ Location' = Location /\ TriviaPiece' = TriviaPiece /\ Token' = Token
<1>1. Size \in Nat /\ loc \in Location
  BY BufferIsText
<1>2. PICK to \in loc.offset .. Size : loc' = After(loc, to)
  BY DEF Moves
<1>3. Location' = Location
  BY DEF Location, Size
<1>4. TriviaPiece' = TriviaPiece /\ Token' = Token
  BY <1>3 DEF TriviaPiece, Token
<1> QED
  BY <1>1, <1>2, <1>3, <1>4, AfterIs, AfterKeepsLocation

LEMMA TypeKeptByStep ==
  ASSUME TypeOK, buffer' = buffer, Moves, LexesOneStep
  PROVE  TypeOK'
<1>1. /\ Size \in Nat /\ loc \in Location /\ comment.start \in Location
      /\ loc' \in Location
      /\ Location' = Location /\ TriviaPiece' = TriviaPiece /\ Token' = Token
  BY BufferIsText, MovesToLocation DEF TypeOK
<1>2. NoComment \in [delim : 0 .. Len(Comments), start : Location]
  BY <1>1, NoCommentIsTyped
<1>3. buffer' \in Inputs /\ loc' \in Location'
  BY <1>1 DEF TypeOK
<1>4. trivia' \in Seq(TriviaPiece)
  <2>1. ASSUME NEW kind \in TriviaKinds, NEW from \in Location
        PROVE  Append(trivia, Piece(kind, from, loc')) \in Seq(TriviaPiece)
    <3>1. Piece(kind, from, loc') \in TriviaPiece
      BY <1>1, <2>1 DEF Piece, TriviaPiece, TriviaKinds
    <3> QED
      BY <3>1, EntryAppended DEF TypeOK
  <2>2. CASE AddsPiece
    BY <1>1, <2>1, <2>2 DEF AddsPiece
  <2>3. CASE ClosesComment
    BY <1>1, <2>1, <2>3 DEF ClosesComment, TriviaKinds
  <2>4. CASE ~AddsPiece /\ ~ClosesComment
    BY <2>4 DEF LexesOneStep, OpensComment, ReadsComment, EndsTrivia, ReturnsToken, TypeOK
  <2> QED
    BY <2>2, <2>3, <2>4
<1>5. /\ comment' \in [delim : 0 .. Len(Comments), start : Location]
      /\ pc' = "comment" => comment'.delim # 0
      /\ pc' \in {"idle", "trivia", "comment", "token"}
  <2>1. CASE OpensComment
    <3>1. Len(Comments) \in Nat
      BY LanguageAssumption
    <3> QED
      BY <1>1, <2>1, <3>1 DEF OpensComment, TypeOK
  <2>2. CASE ClosesComment
    BY <1>2, <2>2 DEF ClosesComment
  <2>3. CASE ~OpensComment /\ ~ClosesComment
    BY <2>3 DEF LexesOneStep, AddsPiece, ReadsComment, EndsTrivia, ReturnsToken, TypeOK
  <2> QED
    BY <2>1, <2>2, <2>3
<1>6. out' \in Seq([trivia : Seq(TriviaPiece), token : Token])
  <2>1. CASE ReturnsToken
    <3>1. PICK kind \in TokenKinds :
            out' = Append(out, [trivia |-> trivia, token |-> Piece(kind, loc, loc')])
      BY <2>1 DEF ReturnsToken
    <3>2. Piece(kind, loc, loc') \in Token
      BY <1>1 DEF Piece, Token, TokenKinds
    <3>3. [trivia |-> trivia, token |-> Piece(kind, loc, loc')]
            \in [trivia : Seq(TriviaPiece), token : Token]
      BY <3>2 DEF TypeOK
    <3> QED
      BY <3>1, <3>3, EntryAppended DEF TypeOK
  <2>2. CASE ~ReturnsToken
    BY <2>2 DEF LexesOneStep, AddsPiece, OpensComment, ReadsComment, ClosesComment,
                EndsTrivia, TypeOK
  <2> QED
    BY <2>1, <2>2
<1> QED
  BY <1>1, <1>3, <1>4, <1>5, <1>6 DEF TypeOK

LEMMA TypeKept ==
  ASSUME TypeOK, Call \/ Lex \/ UNCHANGED vars
  PROVE  TypeOK'
<1>1. CASE Lex
  BY <1>1, LexStep, TypeKeptByStep
<1>2. CASE Call
  BY <1>2 DEF Call, TypeOK, TriviaPiece, Token, Location, Size
<1>3. CASE UNCHANGED vars
  BY <1>3 DEF vars, TypeOK, TriviaPiece, Token, Location, Size
<1> QED
  BY <1>1, <1>2, <1>3

(* The state of the lexer keeps its types, for every language and text:    *)
(* the cursor of CharStream stays in the buffer and next() leaves nothing  *)
(* half done.                                                              *)
THEOREM TypeCorrect == Spec => []TypeOK
<1>1. Init => TypeOK
  BY TypeInitially
<1>2. TypeOK /\ [Next]_vars => TypeOK'
  BY TypeKept DEF Next
<1> QED
  BY <1>1, <1>2, PTL DEF Spec

-----------------------------------------------------------------------------
(* Losslessness.                                                           *)
LEMMA ChainGrows ==
  ASSUME NEW S, NEW t \in Seq(S), NEW from, NEW to, NEW piece \in S,
         Chain(from, t, piece.start)
  PROVE  Chain(from, Append(t, piece), piece.end)
<1>1. /\ Append(t, piece) # <<>> /\ Len(Append(t, piece)) = Len(t) + 1 /\ Len(t) \in Nat
      /\ \A i \in 1 .. Len(t) : Append(t, piece)[i] = t[i]
      /\ Append(t, piece)[Len(t) + 1] = piece
  BY EntryAppended
<1>2. CASE t = <<>>
  BY <1>1, <1>2 DEF Chain
<1>3. CASE t # <<>>
  <2>1. Len(t) \in Nat \ {0}
    BY <1>3
  <2>2. /\ t[1].start = from /\ t[Len(t)].end = piece.start
        /\ \A i \in 1 .. Len(t) - 1 : t[i].end = t[i + 1].start
    BY <1>3 DEF Chain
  <2>3. Append(t, piece)[1].start = from
    BY <1>1, <2>1, <2>2
  <2>4. ASSUME NEW i \in 1 .. Len(t)
        PROVE  Append(t, piece)[i].end = Append(t, piece)[i + 1].start
    <3>1. CASE i = Len(t)
      BY <1>1, <2>1, <2>2, <3>1
    <3>2. CASE i # Len(t)
      <4>1. i \in 1 .. Len(t) - 1 /\ i + 1 \in 1 .. Len(t)
        BY <2>1, <3>2
      <4> QED
        BY <1>1, <2>2, <4>1
    <3> QED
      BY <3>1, <3>2
  <2>5. 1 .. Len(Append(t, piece)) - 1 = 1 .. Len(t)
    BY <1>1
  <2> QED
    BY <1>1, <2>3, <2>4, <2>5 DEF Chain
<1> QED
  BY <1>2, <1>3

LEMMA LosslessKeptByStep ==
  ASSUME TypeOK, Lossless, buffer' = buffer, Moves, LexesOneStep
  PROVE  Lossless'
<1> DEFINE E == [trivia : Seq(TriviaPiece), token : Token]
<1>1. /\ trivia \in Seq(TriviaPiece) /\ out \in Seq(E) /\ Len(out) \in Nat
      /\ loc \in Location /\ comment.start \in Location /\ loc' \in Location
  BY MovesToLocation DEF TypeOK
<1>2. ASSUME UNCHANGED out,
             LET last == EndBefore(Len(out) + 1)
             IN  IF pc' = "idle" THEN last = loc'
                 ELSE Chain(last, trivia', IF pc' = "comment" THEN comment'.start ELSE loc')
      PROVE  Lossless'
  BY <1>2 DEF Lossless, EndBefore
<1>3. ASSUME NEW kind \in TriviaKinds, NEW from \in Location,
             Chain(EndBefore(Len(out) + 1), trivia, from)
      PROVE  Chain(EndBefore(Len(out) + 1), Append(trivia, Piece(kind, from, loc')), loc')
  <2>1. Piece(kind, from, loc') \in TriviaPiece
    BY <1>1 DEF Piece, TriviaPiece, TriviaKinds
  <2>2. Piece(kind, from, loc').start = from /\ Piece(kind, from, loc').end = loc'
    BY DEF Piece
  <2>3. Chain(EndBefore(Len(out) + 1), trivia, Piece(kind, from, loc').start)
    BY <1>3, <2>2
  <2>4. Chain(EndBefore(Len(out) + 1), Append(trivia, Piece(kind, from, loc')),
              Piece(kind, from, loc').end)
    BY <1>1, <2>1, <2>3, ChainGrows
  <2> QED
    BY <2>2, <2>4
<1>4. CASE AddsPiece
  <2>1. PICK kind \in TriviaKinds : trivia' = Append(trivia, Piece(kind, loc, loc'))
    BY <1>4 DEF AddsPiece
  <2>2. Chain(EndBefore(Len(out) + 1), trivia, loc)
    BY <1>4 DEF AddsPiece, Lossless
  <2> QED
    BY <1>1, <1>2, <1>3, <1>4, <2>1, <2>2 DEF AddsPiece
<1>5. CASE OpensComment
  BY <1>2, <1>5 DEF OpensComment, Lossless
<1>6. CASE ReadsComment
  BY <1>2, <1>6 DEF ReadsComment, Lossless
<1>7. CASE ClosesComment
  <2>1. Chain(EndBefore(Len(out) + 1), trivia, comment.start)
    BY <1>7 DEF ClosesComment, Lossless
  <2> QED
    BY <1>1, <1>2, <1>3, <1>7, <2>1 DEF ClosesComment, TriviaKinds
<1>8. CASE EndsTrivia
  BY <1>2, <1>8 DEF EndsTrivia, Lossless
<1>9. CASE ReturnsToken
  <2>1. PICK kind \in TokenKinds :
          out' = Append(out, [trivia |-> trivia, token |-> Piece(kind, loc, loc')])
    BY <1>9 DEF ReturnsToken
  <2> DEFINE entry == [trivia |-> trivia, token |-> Piece(kind, loc, loc')]
  <2>2. entry \in E
    BY <1>1 DEF Piece, Token, TokenKinds
  <2>3. entry.trivia = trivia /\ entry.token.start = loc /\ entry.token.end = loc'
    BY DEF Piece
  <2> HIDE DEF entry, E
  <2>4. /\ Len(out') = Len(out) + 1
        /\ \A i \in 1 .. Len(out) : out'[i] = out[i]
        /\ out'[Len(out) + 1] = entry
    BY <1>1, <2>1, <2>2, EntryAppended DEF entry
  <2>5. ASSUME NEW i \in 1 .. Len(out) + 1 PROVE EndBefore(i)' = EndBefore(i)
    <3>1. i # 1 => i - 1 \in 1 .. Len(out)
      BY <1>1
    <3> QED
      BY <2>4, <3>1 DEF EndBefore
  <2>6. Chain(EndBefore(Len(out) + 1), trivia, loc)
    BY <1>9 DEF ReturnsToken, Lossless
  <2>7. ASSUME NEW i \in 1 .. Len(out')
        PROVE  Chain(EndBefore(i)', out'[i].trivia, out'[i].token.start)
    <3>1. CASE i = Len(out) + 1
      BY <1>1, <2>3, <2>4, <2>5, <2>6, <3>1
    <3>2. CASE i \in 1 .. Len(out)
      BY <1>1, <2>4, <2>5, <3>2 DEF Lossless
    <3> QED
      BY <1>1, <2>4, <3>1, <3>2
  <2>8. EndBefore(Len(out) + 1)' = loc'
    <3>1. EndBefore(Len(out) + 1)' = out'[Len(out')].token.end
      BY <1>1, <2>4 DEF EndBefore
    <3> QED
      BY <2>3, <2>4, <3>1
  <2>9. pc' = "idle"
    BY <1>9 DEF ReturnsToken
  <2> QED
    BY <2>7, <2>8, <2>9 DEF Lossless
<1> QED
  BY <1>4, <1>5, <1>6, <1>7, <1>8, <1>9 DEF LexesOneStep

LEMMA LosslessInitially == Init => Lossless
BY DEF Init, Lossless, EndBefore

LEMMA LosslessKept ==
  ASSUME TypeOK, Lossless, Call \/ Lex \/ UNCHANGED vars
  PROVE  Lossless'
<1>1. CASE Lex
  BY <1>1, LexStep, LosslessKeptByStep
<1>2. CASE Call
  BY <1>2 DEF Call, Lossless, EndBefore, Chain
<1>3. CASE UNCHANGED vars
  BY <1>3 DEF vars, Lossless, EndBefore
<1> QED
  BY <1>1, <1>2, <1>3

(* What next() hands out is lossless for every language and every text,    *)
(* NUL bytes, open comments and malformed numbers included.                *)
THEOREM NothingIsLost == Spec => []Lossless
<1>1. Init => Lossless
  BY LosslessInitially
<1>2. TypeOK /\ Lossless /\ [Next]_vars => Lossless'
  BY LosslessKept DEF Next
<1> QED
  BY <1>1, <1>2, TypeCorrect, PTL DEF Spec

-----------------------------------------------------------------------------
(* Lines and columns.                                                      *)
LEMMA StartIsLocation == IsLocation(StartOfBuffer)
<1>1. {i \in 1 .. 0 : buffer[i] = Newline} = {}
  OBVIOUS
<1>2. {i \in 1 .. 0 : \A j \in i .. 0 : buffer[j] # Newline} = {}
  OBVIOUS
<1>3. LineOf(0) = 1 /\ ColumnOf(0) = 1
  BY <1>1, <1>2, FS_EmptySet DEF LineOf, ColumnOf
<1> QED
  BY <1>3 DEF IsLocation, StartOfBuffer

(* IsLocation and LocationsAgree with the state as an argument.            *)
LocationIn(text, l) ==
  /\ l.line = 1 + Cardinality({i \in 1 .. l.offset : text[i] = Newline})
  /\ l.column = 1 + Cardinality({i \in 1 .. l.offset :
                                   \A j \in i .. l.offset : text[j] # Newline})
AgreeIn(text, cursor, held, pieces, returned) ==
  /\ LocationIn(text, cursor) /\ LocationIn(text, held.start)
  /\ \A i \in 1 .. Len(pieces) :
       LocationIn(text, pieces[i].start) /\ LocationIn(text, pieces[i].end)
  /\ \A i \in 1 .. Len(returned) :
       LocationIn(text, returned[i].token.start) /\ LocationIn(text, returned[i].token.end)

LEMMA AgreeInState ==
  /\ LocationsAgree <=> AgreeIn(buffer, loc, comment, trivia, out)
  /\ LocationsAgree' <=> AgreeIn(buffer', loc', comment', trivia', out')
  /\ \A l : IsLocation(l) <=> LocationIn(buffer, l)
BY DEF LocationsAgree, IsLocation, LineOf, ColumnOf, AgreeIn, LocationIn

LEMMA LocationsInitially == Init => LocationsAgree
BY StartIsLocation DEF Init, LocationsAgree, NoComment, StartOfBuffer

LEMMA LocationsKeptByStep ==
  ASSUME TypeOK, LocationsAgree, buffer' = buffer, Moves, LexesOneStep
  PROVE  LocationsAgree'
<1> DEFINE E == [trivia : Seq(TriviaPiece), token : Token]
<1>1. /\ trivia \in Seq(TriviaPiece) /\ out \in Seq(E) /\ Len(out) \in Nat
      /\ loc \in Location /\ comment.start \in Location /\ loc' \in Location
      /\ IsLocation(loc) /\ IsLocation(loc') /\ IsLocation(comment.start)
  BY MovesToLocation DEF TypeOK, LocationsAgree
<1>3. IsLocation(comment'.start)
  <2>1. IsLocation(NoComment.start)
    BY StartIsLocation DEF NoComment, StartOfBuffer
  <2> QED
    BY <1>1, <2>1 DEF LexesOneStep, AddsPiece, OpensComment, ReadsComment, ClosesComment,
                      EndsTrivia, ReturnsToken
<1>4. \A i \in 1 .. Len(trivia') : IsLocation(trivia'[i].start) /\ IsLocation(trivia'[i].end)
  <2>1. ASSUME NEW kind \in TriviaKinds, NEW from \in Location, IsLocation(from),
               trivia' = Append(trivia, Piece(kind, from, loc'))
        PROVE  \A i \in 1 .. Len(trivia') :
                 IsLocation(trivia'[i].start) /\ IsLocation(trivia'[i].end)
    <3>1. Piece(kind, from, loc') \in TriviaPiece
      BY <1>1, <2>1 DEF Piece, TriviaPiece, TriviaKinds
    <3>2. Piece(kind, from, loc').start = from /\ Piece(kind, from, loc').end = loc'
      BY DEF Piece
    <3>3. /\ Len(trivia') = Len(trivia) + 1 /\ Len(trivia) \in Nat
          /\ \A i \in 1 .. Len(trivia) : trivia'[i] = trivia[i]
          /\ trivia'[Len(trivia) + 1] = Piece(kind, from, loc')
      BY <1>1, <2>1, <3>1, EntryAppended
    <3> SUFFICES ASSUME NEW i \in 1 .. Len(trivia) + 1
                 PROVE  IsLocation(trivia'[i].start) /\ IsLocation(trivia'[i].end)
      BY <3>3
    <3>4. CASE i = Len(trivia) + 1
      BY <1>1, <2>1, <3>2, <3>3, <3>4
    <3>5. CASE i \in 1 .. Len(trivia)
      BY <3>3, <3>5 DEF LocationsAgree
    <3> QED
      BY <3>3, <3>4, <3>5
  <2>2. CASE AddsPiece
    BY <1>1, <2>1, <2>2 DEF AddsPiece
  <2>3. CASE ClosesComment
    BY <1>1, <2>1, <2>3 DEF ClosesComment, TriviaKinds
  <2>4. CASE ~AddsPiece /\ ~ClosesComment
    BY <2>4 DEF LexesOneStep, OpensComment, ReadsComment, EndsTrivia, ReturnsToken,
                LocationsAgree
  <2> QED
    BY <2>2, <2>3, <2>4
<1>5. \A i \in 1 .. Len(out') :
        IsLocation(out'[i].token.start) /\ IsLocation(out'[i].token.end)
  <2>1. CASE ReturnsToken
    <3>1. PICK kind \in TokenKinds :
            out' = Append(out, [trivia |-> trivia, token |-> Piece(kind, loc, loc')])
      BY <2>1 DEF ReturnsToken
    <3> DEFINE entry == [trivia |-> trivia, token |-> Piece(kind, loc, loc')]
    <3>2. entry \in E /\ entry.token.start = loc /\ entry.token.end = loc'
      BY <1>1 DEF Piece, Token, TokenKinds
    <3> HIDE DEF entry, E
    <3>3. /\ Len(out') = Len(out) + 1
          /\ \A i \in 1 .. Len(out) : out'[i] = out[i]
          /\ out'[Len(out) + 1] = entry
      BY <1>1, <3>1, <3>2, EntryAppended DEF entry
    <3> SUFFICES ASSUME NEW i \in 1 .. Len(out) + 1
                 PROVE  IsLocation(out'[i].token.start) /\ IsLocation(out'[i].token.end)
      BY <3>3
    <3>4. CASE i = Len(out) + 1
      BY <1>1, <3>2, <3>3, <3>4
    <3>5. CASE i \in 1 .. Len(out)
      BY <3>3, <3>5 DEF LocationsAgree
    <3> QED
      BY <1>1, <3>4, <3>5
  <2>2. CASE ~ReturnsToken
    BY <2>2 DEF LexesOneStep, AddsPiece, OpensComment, ReadsComment, ClosesComment,
                EndsTrivia, LocationsAgree
  <2> QED
    BY <2>1, <2>2
<1>6. AgreeIn(buffer', loc', comment', trivia', out')
  BY <1>1, <1>3, <1>4, <1>5, AgreeInState DEF AgreeIn
<1> QED
  BY <1>6, AgreeInState

LEMMA LocationsKept ==
  ASSUME TypeOK, LocationsAgree, Call \/ Lex \/ UNCHANGED vars
  PROVE  LocationsAgree'
<1>1. CASE Lex
  BY <1>1, LexStep, LocationsKeptByStep
<1>2. CASE Call
  BY <1>2, AgreeInState DEF Call, AgreeIn
<1>3. CASE UNCHANGED vars
  BY <1>3, AgreeInState DEF vars
<1> QED
  BY <1>1, <1>2, <1>3

(* Whatever mix of advance(n) and consumeOne() brought the cursor to a     *)
(* place, line and column are those the place has in the text: across      *)
(* newlines inside comments, blocks of blanks and tokens alike.            *)
THEOREM LocationsAreExact == Spec => []LocationsAgree
<1>1. Init => LocationsAgree
  BY LocationsInitially
<1>2. TypeOK /\ LocationsAgree /\ [Next]_vars => LocationsAgree'
  BY LocationsKept DEF Next
<1> QED
  BY <1>1, <1>2, TypeCorrect, PTL DEF Spec

-----------------------------------------------------------------------------
(* Progress of next().                                                     *)
LEMMA ConsumesKept ==
  ASSUME TypeOK, NulFree, NextConsumes, Call \/ Lex \/ UNCHANGED vars
  PROVE  NextConsumes'
<1> DEFINE E == [trivia : Seq(TriviaPiece), token : Token]
<1>1. CASE UNCHANGED out
  BY <1>1 DEF NextConsumes
<1>2. CASE Lex
  <2>1. buffer' = buffer /\ Moves /\ LexesOneStep
    BY <1>2, LexStep
  <2>2. CASE ReturnsToken
    <3>1. PICK kind \in TokenKinds :
            /\ out' = Append(out, [trivia |-> trivia, token |-> Piece(kind, loc, loc')])
            /\ kind # "Eof" => loc'.offset > loc.offset
      BY <2>2 DEF ReturnsToken
    <3> DEFINE entry == [trivia |-> trivia, token |-> Piece(kind, loc, loc')]
    <3>2. loc \in Location /\ loc' \in Location /\ trivia \in Seq(TriviaPiece)
      BY <2>1, MovesToLocation DEF TypeOK
    <3>3. /\ entry \in E
          /\ entry.token.kind = kind /\ entry.token.start = loc /\ entry.token.end = loc'
      BY <3>2 DEF Piece, Token, TokenKinds
    <3>4. out \in Seq(E)
      BY DEF TypeOK
    <3> HIDE DEF entry, E
    <3>5. /\ Len(out) \in Nat /\ Len(out') = Len(out) + 1
          /\ \A i \in 1 .. Len(out) : out'[i] = out[i]
          /\ out'[Len(out) + 1] = entry
      BY <3>1, <3>3, <3>4, EntryAppended DEF entry
    <3> SUFFICES ASSUME NEW i \in 1 .. Len(out) + 1, out'[i].token.kind # "Eof"
                 PROVE  out'[i].token.end.offset > out'[i].token.start.offset
      BY <3>5 DEF NextConsumes
    <3>6. CASE i = Len(out) + 1
      BY <3>1, <3>3, <3>5, <3>6
    <3>7. CASE i \in 1 .. Len(out)
      BY <3>5, <3>7 DEF NextConsumes
    <3> QED
      BY <3>5, <3>6, <3>7
  <2>3. CASE ~ReturnsToken
    BY <1>1, <2>1, <2>3 DEF LexesOneStep, AddsPiece, OpensComment, ReadsComment,
                            ClosesComment, EndsTrivia
  <2> QED
    BY <2>2, <2>3
<1> QED
  BY <1>1, <1>2 DEF Call, vars

(* lexer.cpp:20 "next always consumes at least one char unless EOF", in    *)
(* every language: true as long as the text holds no NUL.  With one it is  *)
(* false, which the run lexer_nul shows.                                   *)
THEOREM ConsumesUnlessNul ==
  ASSUME NulFree
  PROVE  Spec => []NextConsumes
<1>1. Init => NextConsumes
  BY DEF Init, NextConsumes
<1>2. TypeOK /\ NextConsumes /\ [Next]_vars => NextConsumes'
  BY ConsumesKept DEF Next
<1> QED
  BY <1>1, <1>2, TypeCorrect, PTL DEF Spec

-----------------------------------------------------------------------------
-----------------------------------------------------------------------------
(* From here on: what next() returns is the reading of the buffer that the *)
(* lexical grammar prescribes.  Reading is a recursive function; that it   *)
(* has a value for every offset, and only one, is shown first.             *)
(* The empty reading, and a reading with one offset more.                  *)
Fresh == [at |-> 0, trivia |-> <<>>, tokens |-> <<>>]
ReadAt(read, p) == IF p = read.at THEN Extend(read, PieceAt(p)) ELSE read

(* A reading of the first n offsets.                                       *)
IsReading(f, n) ==
  /\ f = [m \in 0 .. n |-> f[m]]
  /\ f[0] = Fresh
  /\ \A m \in 1 .. n : f[m] = ReadAt(f[m - 1], m - 1)

LEMMA ReadingGrows ==
  ASSUME NEW n \in Nat, NEW f, IsReading(f, n)
  PROVE  \E g : IsReading(g, n + 1)
<1> DEFINE g == [m \in 0 .. n + 1 |-> IF m <= n THEN f[m] ELSE ReadAt(f[n], n)]
<1>1. \A m \in 0 .. n : g[m] = f[m]
  OBVIOUS
<1>2. g[n + 1] = ReadAt(f[n], n)
  OBVIOUS
<1>3. g = [m \in 0 .. n + 1 |-> g[m]]
  OBVIOUS
<1> HIDE DEF g
<1>4. g[0] = Fresh
  BY <1>1 DEF IsReading
<1>5. ASSUME NEW m \in 1 .. n + 1 PROVE g[m] = ReadAt(g[m - 1], m - 1)
  <2>1. CASE m = n + 1
    <3>1. m - 1 = n /\ n \in 0 .. n
      BY <2>1
    <3>2. g[n] = f[n]
      BY <1>1, <3>1
    <3> QED
      BY <1>2, <2>1, <3>1, <3>2
  <2>2. CASE m # n + 1
    <3>1. m \in 1 .. n /\ m \in 0 .. n /\ m - 1 \in 0 .. n
      BY <2>2
    <3>2. f[m] = ReadAt(f[m - 1], m - 1)
      BY <3>1 DEF IsReading
    <3> QED
      BY <1>1, <3>1, <3>2
  <2> QED
    BY <2>1, <2>2
<1> QED
  BY <1>3, <1>4, <1>5 DEF IsReading

LEMMA ReadingExists ==
  ASSUME NEW n \in Nat
  PROVE  \E f : IsReading(f, n)
<1> DEFINE Bad == {m \in Nat : ~ \E f : IsReading(f, m)}
<1>1. IsReading([m \in 0 .. 0 |-> Fresh], 0)
  BY DEF IsReading
<1>2. Bad = {}
  <2> SUFFICES ASSUME Bad # {} PROVE FALSE
    OBVIOUS
  <2>1. PICK m \in Bad : \A k \in Bad : m <= k
    BY LeastExists
  <2>2. m \in Nat /\ m # 0
    BY <1>1
  <2>3. m - 1 \in Nat /\ ~(m <= m - 1) /\ m - 1 + 1 = m
    BY <2>2
  <2>4. m - 1 \notin Bad
    BY <2>1, <2>3
  <2>5. PICK f : IsReading(f, m - 1)
    BY <2>3, <2>4
  <2>6. \E g : IsReading(g, m)
    BY <2>3, <2>5, ReadingGrows
  <2> QED
    BY <2>1, <2>6
<1> QED
  BY <1>2

(* The recursive definition of Reading has a solution.                     *)
LEMMA ReadingIs ==
  ASSUME Size \in Nat
  PROVE  IsReading(Reading, Size + 1)
<1> DEFINE Body(f) == [n \in 0 .. Size + 1 |->
                         IF n = 0 THEN Fresh ELSE ReadAt(f[n - 1], n - 1)]
<1>1. \E f : f = Body(f)
  <2>1. Size + 1 \in Nat
    OBVIOUS
  <2>2. PICK f : IsReading(f, Size + 1)
    BY <2>1, ReadingExists
  <2>3. f = [n \in 0 .. Size + 1 |-> f[n]]
    BY <2>2 DEF IsReading
  <2>4. \A n \in 0 .. Size + 1 : f[n] = IF n = 0 THEN Fresh ELSE ReadAt(f[n - 1], n - 1)
    <3> SUFFICES ASSUME NEW n \in 0 .. Size + 1
                 PROVE  f[n] = IF n = 0 THEN Fresh ELSE ReadAt(f[n - 1], n - 1)
      OBVIOUS
    <3>1. n = 0 \/ n \in 1 .. Size + 1
      OBVIOUS
    <3> HIDE DEF Body
    <3> QED
      BY <2>2, <3>1, Zenon DEF IsReading
  <2>5. f = Body(f)
    BY <2>3, <2>4
  <2> QED
    BY <2>5
<1>2. Reading = CHOOSE f : f = Body(f)
  BY DEF Reading, ReadAt, Fresh
<1>3. Reading = Body(Reading)
  <2> HIDE DEF Body
  <2> QED
    BY <1>1, <1>2
<1>4. \A n \in 0 .. Size + 1 :
        Reading[n] = IF n = 0 THEN Fresh ELSE ReadAt(Reading[n - 1], n - 1)
  BY <1>3, Zenon
<1>5. Reading = [n \in 0 .. Size + 1 |-> Reading[n]]
  BY <1>3, Zenon
<1> HIDE DEF Body
<1>6. 0 \in 0 .. Size + 1 /\ \A n \in 1 .. Size + 1 : n \in 0 .. Size + 1 /\ n # 0
  OBVIOUS
<1>7. Reading[0] = Fresh
  BY <1>4, <1>6
<1>8. \A n \in 1 .. Size + 1 : Reading[n] = ReadAt(Reading[n - 1], n - 1)
  BY <1>4, <1>6
<1> QED
  BY <1>5, <1>7, <1>8 DEF IsReading

-----------------------------------------------------------------------------
(* What a reading consists of.                                             *)
Pieces == {PieceAt(p) : p \in 0 .. Size}
Entries == [trivia : Seq(Pieces), token : Pieces]
Readings == [at : {0} \union {q.end.offset : q \in Pieces},
             trivia : Seq(Pieces), tokens : Seq(Entries)]

LEMMA ExtendIs ==
  ASSUME NEW read \in Readings, NEW piece \in Pieces
  PROVE  /\ Extend(read, piece) \in Readings
         /\ Extend(read, piece).at = piece.end.offset
         /\ IsTrivia(piece) => /\ Extend(read, piece).tokens = read.tokens
                               /\ Extend(read, piece).trivia = Append(read.trivia, piece)
         /\ ~IsTrivia(piece) =>
              /\ Extend(read, piece).tokens
                   = Append(read.tokens, [trivia |-> read.trivia, token |-> piece])
              /\ Extend(read, piece).trivia = <<>>
<1> DEFINE A == {0} \union {q.end.offset : q \in Pieces}
<1>1. /\ read = [at |-> read.at, trivia |-> read.trivia, tokens |-> read.tokens]
      /\ read.trivia \in Seq(Pieces) /\ read.tokens \in Seq(Entries)
  BY DEF Readings
<1>2. piece.end.offset \in A
  OBVIOUS
<1>3. [trivia |-> read.trivia, token |-> piece] \in Entries
  BY <1>1 DEF Entries
<1>4. /\ Append(read.trivia, piece) \in Seq(Pieces)
      /\ Append(read.tokens, [trivia |-> read.trivia, token |-> piece]) \in Seq(Entries)
  <2> HIDE DEF A
  <2> QED
    BY <1>1, <1>3, AppendProperties
<1>5. CASE IsTrivia(piece)
  <2>1. Extend(read, piece) = [at |-> piece.end.offset, trivia |-> Append(read.trivia, piece),
                               tokens |-> read.tokens]
    BY <1>1, <1>5 DEF Extend
  <2> QED
    BY <1>1, <1>2, <1>4, <1>5, <2>1 DEF Readings
<1>6. CASE ~IsTrivia(piece)
  <2>1. Extend(read, piece) =
          [at |-> piece.end.offset, trivia |-> <<>>,
           tokens |-> Append(read.tokens, [trivia |-> read.trivia, token |-> piece])]
    BY <1>6 DEF Extend
  <2>2. <<>> \in Seq(Pieces)
    OBVIOUS
  <2> QED
    BY <1>2, <1>4, <1>6, <2>1, <2>2 DEF Readings
<1> QED
  BY <1>5, <1>6

(* t is s with more behind it.                                             *)
Continues(t, s) == Len(s) <= Len(t) /\ \A i \in 1 .. Len(s) : t[i] = s[i]

LEMMA ContinuesOn ==
  ASSUME NEW r, NEW s, NEW t, Len(r) \in Nat, Len(s) \in Nat, Len(t) \in Nat,
         Continues(t, s), Continues(s, r)
  PROVE  Continues(t, r)
<1>1. Len(r) <= Len(t)
  BY DEF Continues
<1>2. ASSUME NEW i \in 1 .. Len(r) PROVE t[i] = r[i]
  <2>1. i \in 1 .. Len(s)
    BY DEF Continues
  <2> QED
    BY <2>1 DEF Continues
<1> QED
  BY <1>1, <1>2 DEF Continues

LEMMA ReadAtIs ==
  ASSUME NEW read \in Readings, NEW p \in 0 .. Size
  PROVE  ReadAt(read, p) \in Readings /\ Continues(ReadAt(read, p).tokens, read.tokens)
<1>1. PieceAt(p) \in Pieces
  BY DEF Pieces
<1>2. read.trivia \in Seq(Pieces) /\ read.tokens \in Seq(Entries) /\ Len(read.tokens) \in Nat
  BY DEF Readings
<1>3. CASE p = read.at
  <2>1. ReadAt(read, p) = Extend(read, PieceAt(p))
    BY <1>3 DEF ReadAt
  <2>2. [trivia |-> read.trivia, token |-> PieceAt(p)] \in Entries
    BY <1>1, <1>2 DEF Entries
  <2>3. Continues(Append(read.tokens, [trivia |-> read.trivia, token |-> PieceAt(p)]),
                  read.tokens)
    BY <1>2, <2>2, EntryAppended DEF Continues
  <2>4. Continues(read.tokens, read.tokens)
    BY <1>2 DEF Continues
  <2> QED
    BY <1>1, <2>1, <2>3, <2>4, ExtendIs
<1>4. CASE p # read.at
  BY <1>2, <1>4 DEF ReadAt, Continues
<1> QED
  BY <1>3, <1>4

LEMMA ReadingTyped ==
  ASSUME Size \in Nat
  PROVE  \A n \in 0 .. Size + 1 : Reading[n] \in Readings
<1> DEFINE Bad == {n \in 0 .. Size + 1 : Reading[n] \notin Readings}
<1>1. Reading[0] \in Readings
  <2>1. Reading[0] = Fresh
    BY ReadingIs DEF IsReading
  <2>2. <<>> \in Seq(Pieces) /\ <<>> \in Seq(Entries)
    OBVIOUS
  <2> QED
    BY <2>1, <2>2 DEF Fresh, Readings
<1>2. Bad = {}
  <2> SUFFICES ASSUME Bad # {} PROVE FALSE
    OBVIOUS
  <2>1. Bad \subseteq Nat
    OBVIOUS
  <2>2. PICK n \in Bad : \A k \in Bad : n <= k
    BY <2>1, LeastExists
  <2>3. n \in 1 .. Size + 1 /\ n - 1 \in 0 .. Size /\ n - 1 \in 0 .. Size + 1 /\ ~(n <= n - 1)
    BY <1>1, <2>2
  <2>4. Reading[n - 1] \in Readings
    BY <2>2, <2>3
  <2>5. Reading[n] = ReadAt(Reading[n - 1], n - 1)
    BY <2>3, ReadingIs DEF IsReading
  <2>6. Reading[n] \in Readings
    BY <2>3, <2>4, <2>5, ReadAtIs
  <2> QED
    BY <2>2, <2>6
<1> QED
  BY <1>2

LEMMA OneOffsetMore ==
  ASSUME Size \in Nat, NEW p \in 0 .. Size
  PROVE  /\ Reading[p] \in Readings /\ Reading[p + 1] \in Readings
         /\ Reading[p + 1] = ReadAt(Reading[p], p)
<1>1. p \in 0 .. Size + 1 /\ p + 1 \in 0 .. Size + 1 /\ p + 1 \in 1 .. Size + 1 /\ p + 1 - 1 = p
  OBVIOUS
<1>2. Reading[p + 1] = ReadAt(Reading[p + 1 - 1], p + 1 - 1)
  BY <1>1, ReadingIs DEF IsReading
<1> QED
  BY <1>1, <1>2, ReadingTyped

(* What was read is never taken back.                                      *)
LEMMA TokensStay ==
  ASSUME Size \in Nat, NEW m \in 0 .. Size + 1, NEW n \in m .. Size + 1
  PROVE  Continues(Reading[n].tokens, Reading[m].tokens)
<1> DEFINE Bad == {k \in m .. Size + 1 : ~Continues(Reading[k].tokens, Reading[m].tokens)}
<1>1. Continues(Reading[m].tokens, Reading[m].tokens)
  <2>1. Len(Reading[m].tokens) \in Nat
    BY ReadingTyped DEF Readings
  <2> QED
    BY <2>1 DEF Continues
<1>2. Bad = {}
  <2> SUFFICES ASSUME Bad # {} PROVE FALSE
    OBVIOUS
  <2>1. Bad \subseteq Nat
    OBVIOUS
  <2>2. PICK k \in Bad : \A j \in Bad : k <= j
    BY <2>1, LeastExists
  <2>3. PICK p \in 0 .. Size : k = p + 1 /\ p \in m .. Size + 1 /\ ~(k <= p)
    <3>1. k \in m .. Size + 1 /\ k # m
      BY <1>1
    <3>2. k - 1 \in 0 .. Size /\ k = (k - 1) + 1 /\ k - 1 \in m .. Size + 1 /\ ~(k <= k - 1)
      BY <3>1
    <3> QED
      BY <3>2
  <2>4. Continues(Reading[p].tokens, Reading[m].tokens)
    BY <2>2, <2>3
  <2>5. Continues(Reading[p + 1].tokens, Reading[p].tokens)
    BY OneOffsetMore, ReadAtIs
  <2>6. /\ Len(Reading[m].tokens) \in Nat /\ Len(Reading[p].tokens) \in Nat
        /\ Len(Reading[p + 1].tokens) \in Nat
    <3>1. p \in 0 .. Size + 1 /\ p + 1 \in 0 .. Size + 1
      OBVIOUS
    <3> QED
      BY <3>1, ReadingTyped DEF Readings
  <2>7. Continues(Reading[p + 1].tokens, Reading[m].tokens)
    BY <2>4, <2>5, <2>6, ContinuesOn
  <2> QED
    BY <2>2, <2>3, <2>7
<1> QED
  BY <1>2

(* Inside a piece nothing is read.                                         *)
LEMMA NothingInside ==
  ASSUME Size \in Nat, NEW m \in 0 .. Size + 1, Reading[m].at \in Nat,
         NEW n \in m .. Size + 1, n <= Reading[m].at
  PROVE  Reading[n] = Reading[m]
<1> DEFINE Bad == {k \in m .. n : Reading[k] # Reading[m]}
<1>1. Bad = {}
  <2> SUFFICES ASSUME Bad # {} PROVE FALSE
    OBVIOUS
  <2>1. Bad \subseteq Nat
    OBVIOUS
  <2>2. PICK k \in Bad : \A j \in Bad : k <= j
    BY <2>1, LeastExists
  <2>3. PICK p \in 0 .. Size : k = p + 1 /\ p \in m .. n /\ ~(k <= p) /\ p < Reading[m].at
    <3>1. k \in m .. n /\ k # m
      OBVIOUS
    <3>2. k - 1 \in 0 .. Size /\ k = (k - 1) + 1 /\ k - 1 \in m .. n /\ ~(k <= k - 1)
          /\ k - 1 < Reading[m].at
      BY <3>1
    <3> QED
      BY <3>2
  <2>4. Reading[p] = Reading[m]
    BY <2>2, <2>3
  <2>5. Reading[p + 1] = Reading[p]
    BY <2>3, <2>4, OneOffsetMore DEF ReadAt
  <2> QED
    BY <2>2, <2>3, <2>4, <2>5
<1> QED
  BY <1>1

(* From one piece to the next.                                             *)
LEMMA NextPiece ==
  ASSUME Size \in Nat, NEW p \in 0 .. Size, Reading[p].at = p,
         PieceAt(p).end.offset \in (p + 1) .. Size
  PROVE  Reading[PieceAt(p).end.offset] = Extend(Reading[p], PieceAt(p))
<1>1. PieceAt(p) \in Pieces
  BY DEF Pieces
<1>2. Reading[p + 1] = Extend(Reading[p], PieceAt(p)) /\ Reading[p] \in Readings
  BY OneOffsetMore DEF ReadAt
<1>3. Reading[p + 1].at = PieceAt(p).end.offset
  BY <1>1, <1>2, ExtendIs
<1> DEFINE e == PieceAt(p).end.offset
<1>4. e \in (p + 1) .. Size /\ e \in Nat /\ p + 1 \in 0 .. Size + 1 /\ e \in (p + 1) .. Size + 1
  OBVIOUS
<1> HIDE DEF e
<1>5. Reading[e] = Reading[p + 1]
  <2>1. Reading[p + 1].at = e
    BY <1>3 DEF e
  <2> QED
    BY <1>4, <2>1, NothingInside
<1> QED
  BY <1>2, <1>5 DEF e

-----------------------------------------------------------------------------
(* The grammar reads the buffer, which no step changes.                    *)
BlanksEnd(p) == LongestFrom(p, LAMBDA w : Chars(w) \subseteq Blank)
LexemeEnd(p) == LongestFrom(p, IsLexeme)
Found(kind, p, q) == Piece(kind, LocationOf(p), LocationOf(q))

LEMMA PieceAtIs ==
  ASSUME NEW p
  PROVE  PieceAt(p) =
           IF p = Size THEN Found("Eof", p, p)
           ELSE IF CharAt(p) = Newline THEN Found("Newline", p, p + 1)
           ELSE IF CharAt(p) \in Blank THEN Found("Whitespace", p, BlanksEnd(p))
           ELSE IF OpensAt(p) # {} THEN Found("Comment", p, CommentEnd(p))
           ELSE Found(TokenKindOf(View(p, LexemeEnd(p))), p, LexemeEnd(p))
BY DEF PieceAt, BlanksEnd, LexemeEnd, Found

LEMMA PieceStays ==
  ASSUME buffer' = buffer, NEW p
  PROVE  PieceAt(p)' = PieceAt(p)
<1> DEFINE P(q) ==
      LET from(kind, r) == Piece(kind, LocationOf(q), LocationOf(r))
      IN  IF q = Size THEN from("Eof", q)
          ELSE IF CharAt(q) = Newline THEN from("Newline", q + 1)
          ELSE IF CharAt(q) \in Blank THEN from("Whitespace", BlanksEnd(q))
          ELSE IF OpensAt(q) # {} THEN from("Comment", CommentEnd(q))
          ELSE from(TokenKindOf(View(q, LexemeEnd(q))), LexemeEnd(q))
<1>1. PieceAt(p)' = P(p)' /\ PieceAt(p) = P(p)
  BY DEF PieceAt, BlanksEnd, LexemeEnd
<1>2. CommentEnd(p)' = CommentEnd(p)
  BY DEF CommentEnd, OpensAt, CommentOpensAt, StartsAt, View, CharAt, Size
<1>3. OpensAt(p)' = OpensAt(p)
  BY DEF OpensAt, CommentOpensAt, StartsAt, View, Size
<1>4. LexemeEnd(p)' = LexemeEnd(p)
  BY DEF LexemeEnd, LongestFrom, View, Size
<1>5. BlanksEnd(p)' = BlanksEnd(p)
  BY DEF BlanksEnd, LongestFrom, View, Size
<1>6. \A r : LocationOf(r)' = LocationOf(r)
  BY DEF LocationOf, LineOf, ColumnOf
<1>7. LocationOf(LexemeEnd(p))' = LocationOf(LexemeEnd(p)')
  BY DEF LocationOf, LineOf, ColumnOf
<1>8. P(p)' = P(p)
  BY <1>2, <1>3, <1>4, <1>5, <1>6, <1>7 DEF View, Size, CharAt
<1> QED
  BY <1>1, <1>8

LEMMA OneReading ==
  ASSUME NEW n \in Nat, NEW f, NEW g, IsReading(f, n), IsReading(g, n)
  PROVE  f = g
<1> DEFINE Bad == {m \in 0 .. n : f[m] # g[m]}
<1>1. Bad = {}
  <2> SUFFICES ASSUME Bad # {} PROVE FALSE
    OBVIOUS
  <2>1. Bad \subseteq Nat
    OBVIOUS
  <2>2. PICK m \in Bad : \A k \in Bad : m <= k
    BY <2>1, LeastExists
  <2>3. m # 0
    BY DEF IsReading
  <2>4. m \in 1 .. n /\ m - 1 \in 0 .. n /\ ~(m <= m - 1)
    BY <2>3
  <2>5. f[m - 1] = g[m - 1]
    BY <2>2, <2>4
  <2>6. f[m] = g[m]
    BY <2>4, <2>5 DEF IsReading
  <2> QED
    BY <2>6
<1>2. \A m \in 0 .. n : f[m] = g[m]
  BY <1>1
<1>3. f = [m \in 0 .. n |-> f[m]] /\ g = [m \in 0 .. n |-> g[m]]
  BY DEF IsReading
<1>4. [m \in 0 .. n |-> f[m]] = [m \in 0 .. n |-> g[m]]
  BY <1>2
<1> QED
  BY <1>3, <1>4, Zenon

LEMMA ReadingNow == Size \in Nat => IsReading(Reading, Size + 1)
BY ReadingIs

LEMMA ReadingNext == (Size \in Nat => IsReading(Reading, Size + 1))'
BY ReadingNow, PTL

LEMMA ReadingStays ==
  ASSUME buffer' = buffer, Size \in Nat
  PROVE  /\ Reading' = Reading /\ Tokenization' = Tokenization
<1>1. \A read, p : ReadAt(read, p)' = ReadAt(read', p)
  BY PieceStays DEF ReadAt
<1>2. Size' = Size
  BY DEF Size
<1>3. IsReading(Reading, Size + 1)'
  BY <1>2, ReadingNext
<1>4. (Reading[0])' = Fresh
  BY <1>3 DEF IsReading
<1>5. \A m \in 1 .. Size + 1 : (Reading[m])' = ReadAt(Reading[m - 1], m - 1)'
  BY <1>2, <1>3 DEF IsReading
<1>6. \A m \in 1 .. Size + 1 : Reading'[m] = ReadAt(Reading'[m - 1], m - 1)
  BY <1>1, <1>5
<1>7. IsReading(Reading', Size + 1)
  BY <1>2, <1>3, <1>6 DEF IsReading
<1>8. IsReading(Reading, Size + 1) /\ Size + 1 \in Nat
  BY ReadingIs
<1>9. Reading' = Reading
  BY <1>7, <1>8, OneReading
<1> QED
  BY <1>2, <1>9 DEF Tokenization

-----------------------------------------------------------------------------
(* Texts of the buffer.                                                    *)
LEMMA ViewIs ==
  ASSUME buffer \in Seq(Char), NEW p \in 0 .. Size, NEW q \in p .. Size
  PROVE  /\ View(p, q) \in Seq(Char)
         /\ Len(View(p, q)) = q - p
         /\ \A i \in 1 .. (q - p) : View(p, q)[i] = CharAt(p + i - 1)
<1>1. Size \in Nat /\ Size = Len(buffer)
  BY DEF Size
<1>2. PICK m \in Int : m = p + 1
  OBVIOUS
<1>3. \A i \in m .. q : buffer[i] \in Char
  BY <1>1, <1>2
<1>4. /\ SubSeq(buffer, m, q) \in Seq(Char)
      /\ Len(SubSeq(buffer, m, q)) = IF m <= q THEN q - m + 1 ELSE 0
      /\ \A i \in 1 .. q - m + 1 : SubSeq(buffer, m, q)[i] = buffer[m + i - 1]
  BY <1>1, <1>3, SubSeqProperties
<1>5. (IF m <= q THEN q - m + 1 ELSE 0) = q - p /\ q - m + 1 = q - p
  BY <1>1, <1>2
<1>6. View(p, q) = SubSeq(buffer, m, q)
  BY <1>2 DEF View
<1>7. ASSUME NEW i \in 1 .. (q - p) PROVE View(p, q)[i] = CharAt(p + i - 1)
  <2>1. m + i - 1 = p + i - 1 + 1
    BY <1>2
  <2> QED
    BY <1>4, <1>5, <1>6, <2>1 DEF CharAt
<1> QED
  BY <1>4, <1>5, <1>6, <1>7

LEMMA ViewChars ==
  ASSUME buffer \in Seq(Char), NEW p \in 0 .. Size, NEW q \in p .. Size, NEW S
  PROVE  Chars(View(p, q)) \subseteq S <=> \A j \in p .. (q - 1) : CharAt(j) \in S
<1>1. Size \in Nat
  BY DEF Size
<1>2. Chars(View(p, q)) = {View(p, q)[i] : i \in 1 .. (q - p)}
  BY ViewIs DEF Chars
<1>3. ASSUME Chars(View(p, q)) \subseteq S, NEW j \in p .. (q - 1)
      PROVE  CharAt(j) \in S
  <2>1. PICK i \in 1 .. (q - p) : i = j - p + 1 /\ p + i - 1 = j
    BY <1>1
  <2>2. View(p, q)[i] = CharAt(j)
    BY <2>1, ViewIs
  <2> QED
    BY <1>2, <1>3, <2>2
<1>4. ASSUME \A j \in p .. (q - 1) : CharAt(j) \in S, NEW i \in 1 .. (q - p)
      PROVE  View(p, q)[i] \in S
  <2>1. p + i - 1 \in p .. (q - 1)
    BY <1>1
  <2> QED
    BY <1>4, <2>1, ViewIs
<1> QED
  BY <1>2, <1>3, <1>4

LEMMA FirstChars ==
  ASSUME buffer \in Seq(Char), NEW p \in 0 .. Size, NEW q \in (p + 1) .. Size
  PROVE  /\ View(p, q)[1] = CharAt(p)
         /\ q >= p + 2 => View(p, q)[2] = CharAt(p + 1)
<1>1. Size \in Nat /\ q \in p .. Size /\ 1 \in 1 .. (q - p) /\ p + 1 - 1 = p
  BY DEF Size
<1>2. q >= p + 2 => 2 \in 1 .. (q - p) /\ p + 2 - 1 = p + 1
  BY <1>1
<1> QED
  BY <1>1, <1>2, ViewIs

-----------------------------------------------------------------------------
(* The longest text of a kind.                                             *)
LEMMA LexemeEndIs ==
  ASSUME NEW p, NEW e \in (p + 1) .. Size, p \in Nat, Size \in Nat,
         IsLexeme(View(p, e)), \A q \in (e + 1) .. Size : ~IsLexeme(View(p, q))
  PROVE  LexemeEnd(p) = e
<1> DEFINE ends == {q \in (p + 1) .. Size : IsLexeme(View(p, q))}
<1>1. e \in ends
  OBVIOUS
<1>2. ASSUME NEW q \in ends PROVE q <= e
  <2>1. q \in Nat /\ q <= Size /\ e \in Nat
    OBVIOUS
  <2>2. q \notin (e + 1) .. Size
    OBVIOUS
  <2> QED
    BY <2>1, <2>2
<1>3. LexemeEnd(p) = CHOOSE q \in ends : \A r \in ends : r <= q
  BY DEF LexemeEnd, LongestFrom
<1>4. \A q \in ends : (\A r \in ends : r <= q) => q = e
  BY <1>1, <1>2
<1>5. \E q \in ends : \A r \in ends : r <= q
  BY <1>1, <1>2
<1> HIDE DEF ends
<1> QED
  BY <1>3, <1>4, <1>5

LEMMA BlanksEndIs ==
  ASSUME buffer \in Seq(Char), NEW p \in 0 .. Size, p # Size, CharAt(p) \in Blank
  PROVE  BlanksEnd(p) = RunEnd(p, Blank) /\ RunEnd(p, Blank) \in (p + 1) .. Size
<1>1. Size \in Nat
  BY DEF Size
<1> DEFINE e == RunEnd(p, Blank)
           ends == {q \in (p + 1) .. Size : Chars(View(p, q)) \subseteq Blank}
<1>2. /\ e \in p .. Size /\ e > p
      /\ \A i \in p .. (e - 1) : CharAt(i) \in Blank
      /\ e = Size \/ CharAt(e) \notin Blank
  BY <1>1, RunEndIs, RunMoves
<1> HIDE DEF e
<1>3. e \in (p + 1) .. Size
  BY <1>1, <1>2
<1>4. e \in ends
  BY <1>2, <1>3, ViewChars
<1>5. ASSUME NEW q \in ends PROVE q <= e
  <2> SUFFICES ASSUME ~(q <= e) PROVE FALSE
    OBVIOUS
  <2>1. q \in p .. Size /\ e \in p .. (q - 1) /\ e # Size
    BY <1>1, <1>3
  <2>2. CharAt(e) \in Blank
    BY <2>1, ViewChars
  <2> QED
    BY <1>2, <2>1, <2>2
<1>6. BlanksEnd(p) = CHOOSE q \in ends : \A r \in ends : r <= q
  BY DEF BlanksEnd, LongestFrom
<1>7. \A q \in ends : q \in Nat
  BY <1>1
<1> HIDE DEF ends
<1>8. \A q \in ends : (\A r \in ends : r <= q) => q = e
  BY <1>3, <1>4, <1>5, <1>7
<1>9. BlanksEnd(p) = e
  BY <1>4, <1>5, <1>6, <1>8
<1> QED
  BY <1>3, <1>9 DEF e

-----------------------------------------------------------------------------
(* Where the piece begins that next() is reading, and the trivia it has.   *)
PieceStart == IF pc = "comment" THEN comment.start.offset ELSE loc.offset
Held == IF pc = "idle" THEN <<>> ELSE trivia

(* In a comment: which one it is, and that it could not end before here.   *)
MayEnd(d, q) ==
  \/ d.kind = "Line" /\ CharAt(q) = Newline
  \/ d.kind = "Block" /\ d.close # <<>> /\ StartsAt(d.close, q)
CommentReaches(c, cursor) ==
  LET p == c.start.offset
      d == Comments[c.delim]
  IN  /\ p < Size /\ CharAt(p) \notin Blank \union {Newline}
      /\ c.delim \in OpensAt(p) /\ \A j \in OpensAt(p) : c.delim <= j
      /\ p + Len(d.open) <= cursor
      /\ \A q \in (p + Len(d.open)) .. (cursor - 1) : ~MayEnd(d, q)
InComment == pc = "comment" => CommentReaches(comment, loc.offset)

(* Behind the trivia there is no more of it.                               *)
AtToken ==
  pc = "token" =>
    AtEof \/ (CharAt(loc.offset) \notin Blank \union {Newline} /\ OpensAt(loc.offset) = {})

(* What a step adds is what the grammar finds.                             *)
FindsTrivia ==
  /\ pc \in {"trivia", "comment"} /\ pc' = "trivia" /\ UNCHANGED out
  /\ IsTrivia(PieceAt(PieceStart)) /\ PieceAt(PieceStart).end = loc'
  /\ trivia' = Append(trivia, PieceAt(PieceStart))
  /\ loc'.offset \in (PieceStart + 1) .. Size

FindsToken ==
  /\ pc = "token" /\ pc' = "idle"
  /\ ~IsTrivia(PieceAt(PieceStart)) /\ PieceAt(PieceStart).end = loc'
  /\ out' = Append(out, [trivia |-> trivia, token |-> PieceAt(PieceStart)])
  /\ IF PieceStart = Size THEN loc' = loc /\ PieceAt(PieceStart) = Piece("Eof", loc, loc)
     ELSE loc'.offset \in (PieceStart + 1) .. Size

-----------------------------------------------------------------------------
LEMMA Lands ==
  ASSUME TypeOK, LocationsAgree
  PROVE  /\ LocationOf(loc.offset) = loc
         /\ LocationOf(comment.start.offset) = comment.start
         /\ \A to \in loc.offset .. Size : After(loc, to) = LocationOf(to)
<1>1. ASSUME NEW l \in Location, IsLocation(l) PROVE LocationOf(l.offset) = l
  BY <1>1 DEF LocationOf, IsLocation, Location
<1>2. /\ Size \in Nat /\ loc \in Location /\ IsLocation(loc)
      /\ comment.start \in Location /\ IsLocation(comment.start)
  BY BufferIsText DEF TypeOK, LocationsAgree
<1>3. ASSUME NEW to \in loc.offset .. Size PROVE After(loc, to) = LocationOf(to)
  <2>1. After(loc, to) \in Location /\ After(loc, to).offset = to /\ IsLocation(After(loc, to))
    BY <1>2, AfterIs, AfterKeepsLocation
  <2> QED
    BY <1>1, <2>1
<1> QED
  BY <1>1, <1>2, <1>3

LEMMA NewlineFound ==
  ASSUME TypeOK, LocationsAgree, ConsumeNewline
  PROVE  FindsTrivia
<1> DEFINE p == loc.offset
<1>1. Size \in Nat /\ p \in 0 .. Size /\ p # Size /\ CharAt(p) = Newline /\ Peek = Newline
  BY BufferIsText DEF ConsumeNewline, AtEof, Peek
<1>2. Newline # NUL
  BY LanguageAssumption
<1>3. loc' = After(loc, p + 1) /\ p + 1 \in p .. Size
  BY <1>1, <1>2 DEF ConsumeNewline, ConsumedOne
<1>4. PieceAt(p) = Piece("Newline", loc, loc')
  BY <1>1, <1>3, PieceAtIs, Lands DEF Found
<1>5. loc'.offset = p + 1
  BY <1>1, <1>3, BufferIsText, AfterIs
<1> QED
  BY <1>1, <1>4, <1>5 DEF ConsumeNewline, FindsTrivia, PieceStart, IsTrivia, Piece

LEMMA WhitespaceFound ==
  ASSUME TypeOK, LocationsAgree, ConsumeWhitespace
  PROVE  FindsTrivia
<1> DEFINE p == loc.offset
           e == RunEnd(p, Blank)
<1>1. /\ buffer \in Seq(Char) /\ Size \in Nat /\ p \in 0 .. Size /\ p # Size
      /\ CharAt(p) \in Blank /\ CharAt(p) # Newline
  BY BufferIsText, LanguageAssumption DEF ConsumeWhitespace, AtEof, Peek
<1>2. BlanksEnd(p) = e /\ e \in (p + 1) .. Size
  BY <1>1, BlanksEndIs
<1>3. loc' = After(loc, e) /\ e \in p .. Size
  BY <1>1, <1>2 DEF ConsumeWhitespace
<1> HIDE DEF e
<1>4. PieceAt(p) = Piece("Whitespace", loc, loc')
  BY <1>1, <1>2, <1>3, PieceAtIs, Lands DEF Found
<1>5. loc'.offset = e
  BY <1>1, <1>3, BufferIsText, AfterIs
<1> QED
  BY <1>1, <1>2, <1>4, <1>5 DEF ConsumeWhitespace, FindsTrivia, PieceStart, IsTrivia, Piece

(* A comment is closed where the grammar says that it ends.                *)
LEMMA CommentEndIs ==
  ASSUME TypeOK, InComment, pc = "comment", AtEof \/ AtLineEnd \/ AtClose,
         NEW e, e = IF AtClose THEN loc.offset + Len(Delim.close) ELSE loc.offset
  PROVE  /\ CommentEnd(comment.start.offset) = e
         /\ e \in (comment.start.offset + 1) .. Size
<1> DEFINE p == comment.start.offset
           d == Delim
           body == p + Len(d.open)
           ends == IF d.kind = "Line"
                   THEN {q \in body .. Size - 1 : CharAt(q) = Newline}
                   ELSE IF d.close = <<>> THEN {}
                   ELSE {q + Len(d.close) : q \in {r \in body .. Size : StartsAt(d.close, r)}}
<1>1. /\ Size \in Nat /\ loc.offset \in 0 .. Size /\ p \in Nat /\ p < Size
      /\ comment.delim \in OpensAt(p) /\ \A j \in OpensAt(p) : comment.delim <= j
      /\ body <= loc.offset
      /\ \A q \in body .. (loc.offset - 1) : ~MayEnd(d, q)
  <2>1. comment.start \in Location
    BY DEF TypeOK
  <2> QED
    BY <2>1, BufferIsText DEF InComment, CommentReaches, Delim, Location
<1>2. comment.delim \in 1 .. Len(Comments) /\ d.open # <<>>
  BY <1>1 DEF OpensAt, CommentOpensAt, Delim
<1>3. /\ d.kind \in {"Line", "Block"}
      /\ Len(d.open) \in Nat \ {0} /\ Len(d.close) \in Nat /\ (d.close # <<>> => Len(d.close) # 0)
  <2>1. d.open \in Seq(Char) /\ d.close \in Seq(Char) /\ d.kind \in {"Line", "Block"}
    BY <1>2, DelimiterTypes DEF Delim
  <2> QED
    BY <1>2, <2>1, EmptySeq
<1>4. body \in Nat /\ body > p
  BY <1>1, <1>3
<1>5. (CHOOSE i \in OpensAt(p) : \A j \in OpensAt(p) : i <= j) = comment.delim
  <2>1. \A i \in OpensAt(p) : i \in Nat
    BY DEF OpensAt
  <2>2. \A i \in OpensAt(p) : (\A j \in OpensAt(p) : i <= j) => i = comment.delim
    BY <1>1, <2>1
  <2> QED
    BY <1>1, <2>2
<1>6. CommentEnd(p) = CHOOSE q \in ends \union {Size} : \A r \in ends \union {Size} : q <= r
  <2> DEFINE first == CHOOSE i \in OpensAt(p) : \A j \in OpensAt(p) : i <= j
             End(i) ==
               LET b == Comments[i]
                   from == p + Len(b.open)
                   at == IF b.kind = "Line" THEN {q \in from .. Size - 1 : CharAt(q) = Newline}
                         ELSE IF b.close = <<>> THEN {}
                         ELSE {q + Len(b.close) : q \in {r \in from .. Size : StartsAt(b.close, r)}}
               IN  CHOOSE q \in at \union {Size} : \A r \in at \union {Size} : q <= r
  <2>1. CommentEnd(p) = End(first)
    BY DEF CommentEnd
  <2>2. End(comment.delim) = CHOOSE q \in ends \union {Size} : \A r \in ends \union {Size} : q <= r
    BY DEF Delim
  <2>3. End(first) = End(comment.delim)
    <3> HIDE DEF End
    <3> QED
      BY <1>5
  <2> QED
    BY <2>1, <2>2, <2>3
<1> HIDE DEF d
<1>7. /\ e \in ends \union {Size} /\ e \in Nat /\ loc.offset <= e /\ e <= Size
      /\ \A r \in ends \union {Size} : r \in Nat /\ e <= r
  <2>1. CASE d.kind = "Line"
    <3>1. ~AtClose /\ e = loc.offset
      BY <2>1 DEF AtClose, d
    <3>2. ends = {q \in body .. Size - 1 : CharAt(q) = Newline}
      BY <2>1
    <3>3. \A r \in ends : r \in Nat /\ e <= r
      <4> SUFFICES ASSUME NEW r \in ends, ~(e <= r) PROVE FALSE
        BY <1>4, <3>2
      <4>1. r \in body .. (loc.offset - 1) /\ CharAt(r) = Newline
        BY <1>1, <1>4, <3>1, <3>2
      <4> QED
        BY <1>1, <2>1, <4>1 DEF MayEnd
    <3>4. e \in ends \union {Size}
      <4>1. CASE AtEof
        BY <3>1, <4>1 DEF AtEof
      <4>2. CASE ~AtEof
        <5>1. CharAt(loc.offset) = Newline /\ loc.offset # Size
          BY <3>1, <4>2 DEF AtLineEnd, Peek, AtEof
        <5>2. loc.offset \in body .. Size - 1
          BY <1>1, <1>4, <5>1
        <5> QED
          BY <3>1, <3>2, <5>1, <5>2
      <4> QED
        BY <4>1, <4>2
    <3>5. e \in Nat /\ loc.offset <= e /\ e <= Size /\ Size \in Nat
      BY <1>1, <3>1
    <3>6. \A r \in ends \union {Size} : r \in Nat /\ e <= r
      <4> HIDE DEF ends
      <4> QED
        BY <3>3, <3>5
    <3> QED
      BY <3>4, <3>5, <3>6
  <2>2. CASE d.kind = "Block" /\ d.close = <<>>
    <3>1. ~AtClose /\ ~AtLineEnd /\ e = Size /\ ends = {}
      BY <2>2 DEF AtClose, AtLineEnd, AtEof, d
    <3> QED
      BY <1>1, <3>1
  <2>3. CASE d.kind = "Block" /\ d.close # <<>>
    <3>1. ends = {q + Len(d.close) : q \in {r \in body .. Size : StartsAt(d.close, r)}}
      BY <2>3
    <3>2. \A q \in body .. Size : StartsAt(d.close, q) =>
            loc.offset <= q /\ q + Len(d.close) <= Size
      <4> SUFFICES ASSUME NEW q \in body .. Size, StartsAt(d.close, q)
                   PROVE  loc.offset <= q /\ q + Len(d.close) <= Size
        OBVIOUS
      <4>1. q + Len(d.close) <= Size
        BY <1>1, <1>3, <1>4 DEF StartsAt
      <4>2. ~(q < loc.offset)
        <5> SUFFICES ASSUME q < loc.offset PROVE FALSE
          OBVIOUS
        <5>1. q \in body .. (loc.offset - 1)
          BY <1>1, <1>4
        <5> QED
          BY <1>1, <2>3, <5>1 DEF MayEnd
      <4> QED
        BY <1>1, <1>4, <4>1, <4>2
    <3>3. ~AtLineEnd
      BY <2>3 DEF AtLineEnd, d
    <3>4. CASE AtClose
      <4>1. e = loc.offset + Len(d.close) /\ StartsAt(d.close, loc.offset)
        BY <3>4 DEF AtClose, d
      <4>2. loc.offset \in body .. Size
        BY <1>1, <1>4
      <4>3. e \in ends /\ e <= Size /\ e \in Nat /\ loc.offset <= e
        BY <1>1, <1>3, <3>1, <3>2, <4>1, <4>2
      <4>4. ASSUME NEW r \in ends PROVE r \in Nat /\ e <= r
        <5>1. PICK q \in body .. Size : StartsAt(d.close, q) /\ r = q + Len(d.close)
          BY <3>1
        <5>2. loc.offset <= q
          BY <3>2, <5>1
        <5> QED
          BY <1>1, <1>3, <1>4, <4>1, <5>1, <5>2
      <4> QED
        BY <1>1, <4>3, <4>4
    <3>5. CASE ~AtClose
      <4>1. e = Size /\ loc.offset = Size
        BY <3>3, <3>5 DEF AtEof
      <4>2. ends = {}
        <5> SUFFICES ASSUME NEW q \in body .. Size, StartsAt(d.close, q) PROVE FALSE
          BY <3>1
        <5> QED
          BY <1>1, <1>3, <1>4, <2>3, <3>2, <4>1
      <4> QED
        BY <1>1, <4>1, <4>2
    <3> QED
      BY <3>4, <3>5
  <2> QED
    BY <1>3, <2>1, <2>2, <2>3
<1> HIDE DEF ends
<1>8. \A q \in ends \union {Size} : (\A r \in ends \union {Size} : q <= r) => q = e
  BY <1>7
<1>9. CommentEnd(p) = e
  BY <1>6, <1>7, <1>8
<1> QED
  BY <1>1, <1>4, <1>7, <1>9

LEMMA CommentFound ==
  ASSUME TypeOK, LocationsAgree, InComment, CloseComment
  PROVE  FindsTrivia
<1> DEFINE p == comment.start.offset
           e == IF AtClose THEN loc.offset + Len(Delim.close) ELSE loc.offset
<1>1. CommentEnd(p) = e /\ e \in (p + 1) .. Size
  BY CommentEndIs DEF CloseComment
<1>2. Size \in Nat /\ loc.offset \in 0 .. Size /\ loc \in Location
  BY BufferIsText
<1>3. loc.offset <= e
  <2>1. CASE AtClose
    <3>1. comment.delim \in 1 .. Len(Comments)
      BY DEF CloseComment, InComment, CommentReaches, OpensAt
    <3>2. Len(Delim.close) \in Nat
      BY <3>1, DelimiterTypes DEF Delim
    <3> QED
      BY <1>2, <2>1, <3>2
  <2>2. CASE ~AtClose
    BY <1>2, <2>2
  <2> QED
    BY <2>1, <2>2
<1>4. loc' = After(loc, e)
  BY DEF CloseComment
<1>5. p # Size /\ CharAt(p) # Newline /\ CharAt(p) \notin Blank /\ OpensAt(p) # {} /\ p \in Nat
  <2>1. comment.start \in Location
    BY DEF TypeOK
  <2> QED
    BY <1>2, <2>1 DEF CloseComment, InComment, CommentReaches, Location
<1> HIDE DEF e
<1>6. e \in loc.offset .. Size
  BY <1>1, <1>2, <1>3, <1>5
<1>7. PieceAt(p) = Piece("Comment", comment.start, loc')
  BY <1>1, <1>4, <1>5, <1>6, PieceAtIs, Lands DEF Found
<1>8. loc'.offset = e
  BY <1>2, <1>4, <1>6, AfterIs
<1> QED
  BY <1>1, <1>7, <1>8 DEF CloseComment, FindsTrivia, PieceStart, IsTrivia, Piece

-----------------------------------------------------------------------------
(* What makes a text of the buffer a lexeme of each kind.                  *)
NamesOnly(p, q) == CharAt(p) \in IdentStart /\ \A j \in p .. (q - 1) : CharAt(j) \in IdentContinue
NumbersOnly(p, q) ==
  /\ \A j \in p .. (q - 1) : CharAt(j) \in Digit \union {Dot}
  /\ CharAt(p) \in Digit \/ (q >= p + 2 /\ CharAt(p + 1) \in Digit)

LEMMA LexemeShapes ==
  ASSUME buffer \in Seq(Char), NEW p \in 0 .. Size, NEW q \in (p + 1) .. Size
  PROVE  /\ Len(View(p, q)) = q - p
         /\ View(p, q)[1] = CharAt(p)
         /\ IsIdentifier(View(p, q)) <=> NamesOnly(p, q)
         /\ IsNumber(View(p, q)) <=> NumbersOnly(p, q)
         /\ View(p, q) \in Punctuators =>
              q <= p + 2 /\ (q = p + 2 => CharAt(p) \notin IdentStart \union Digit)
         /\ View(p, q) \in Keywords => CharAt(p) \in IdentStart
<1>1. Size \in Nat /\ q \in p .. Size
  BY DEF Size
<1>2. Len(View(p, q)) = q - p /\ View(p, q)[1] = CharAt(p)
      /\ (q >= p + 2 => View(p, q)[2] = CharAt(p + 1))
  BY <1>1, ViewIs, FirstChars
<1>3. IsIdentifier(View(p, q)) <=> NamesOnly(p, q)
  BY <1>1, <1>2, ViewChars DEF IsIdentifier, NamesOnly
<1>4. Len(View(p, q)) >= 2 <=> q >= p + 2
  BY <1>1, <1>2
<1>5. IsNumber(View(p, q)) <=> NumbersOnly(p, q)
  <2>1. Chars(View(p, q)) \subseteq Digit \union {Dot}
          <=> \A j \in p .. (q - 1) : CharAt(j) \in Digit \union {Dot}
    BY <1>1, ViewChars
  <2> QED
    BY <1>2, <1>4, <2>1 DEF IsNumber, NumbersOnly
<1>6. ASSUME View(p, q) \in Punctuators
      PROVE  q <= p + 2 /\ (q = p + 2 => CharAt(p) \notin IdentStart \union Digit)
  <2>1. Len(View(p, q)) \in {1, 2}
    BY <1>6, LanguageAssumption
  <2>2. q = p + 2 => Len(View(p, q)) = 2
    BY <1>1, <1>2
  <2>3. q <= p + 2
    BY <1>1, <1>2, <2>1
  <2>4. q = p + 2 => View(p, q)[1] \notin IdentStart \union Digit
    BY <1>6, <2>2, LexemesAssumption
  <2> QED
    BY <1>2, <2>3, <2>4
<1>7. ASSUME View(p, q) \in Keywords PROVE CharAt(p) \in IdentStart
  BY <1>2, <1>7, LexemesAssumption
<1> QED
  BY <1>2, <1>3, <1>5, <1>6, <1>7

LEMMA NumberKindIs == \A w : NumberKind(w) \in {"Float", "Integer", "InvalidNumber"}
BY DEF NumberKind

LEMMA TokenFound ==
  ASSUME TypeOK, LocationsAgree, AtToken, pc = "token", ~AtEof,
         NEW e \in (loc.offset + 1) .. Size, IsLexeme(View(loc.offset, e)),
         \A q \in (e + 1) .. Size : ~IsLexeme(View(loc.offset, q)),
         Return(TokenKindOf(View(loc.offset, e)), After(loc, e))
  PROVE  FindsToken
<1> DEFINE p == loc.offset
           kind == TokenKindOf(View(p, e))
<1>1. Size \in Nat /\ p \in 0 .. Size /\ p \in Nat /\ p # Size /\ loc \in Location
  BY BufferIsText DEF AtEof
<1>2. LexemeEnd(p) = e
  BY <1>1, LexemeEndIs
<1>3. CharAt(p) # Newline /\ CharAt(p) \notin Blank /\ OpensAt(p) = {}
  BY DEF AtToken
<1>4. e \in p .. Size
  BY <1>1
<1>5. loc' = After(loc, e) /\ loc'.offset = e
  BY <1>1, <1>4, AfterIs DEF Return
<1>6. kind \notin TriviaKinds
  BY NumberKindIs DEF TokenKindOf, TriviaKinds
<1>7. PieceAt(p) = Piece(kind, loc, loc')
  <2>1. PieceAt(p) = Found(kind, p, e)
    BY <1>1, <1>2, <1>3, PieceAtIs
  <2> HIDE DEF kind
  <2> QED
    BY <1>4, <1>5, <2>1, Lands DEF Found
<1>8. out' = Append(out, [trivia |-> trivia, token |-> Piece(kind, loc, loc')]) /\ pc' = "idle"
  BY <1>5 DEF Return
<1> HIDE DEF kind
<1>9. PieceStart = p
  BY DEF PieceStart
<1> QED
  BY <1>1, <1>5, <1>6, <1>7, <1>8, <1>9 DEF FindsToken, IsTrivia, Piece, TriviaKinds

LEMMA NameFound ==
  ASSUME TypeOK, LocationsAgree, AtToken, LexIdentifierOrKeyword
  PROVE  FindsToken
<1> DEFINE p == loc.offset
           e == RunEnd(p, IdentContinue)
<1>1. /\ buffer \in Seq(Char) /\ Size \in Nat /\ p \in 0 .. Size /\ p # Size
      /\ CharAt(p) \in IdentStart /\ CharAt(p) \in IdentContinue /\ ~AtEof /\ pc = "token"
  BY BufferIsText, LanguageAssumption DEF LexIdentifierOrKeyword, AtEof, Peek
<1>2. /\ e \in p .. Size /\ e > p
      /\ \A j \in p .. (e - 1) : CharAt(j) \in IdentContinue
      /\ e = Size \/ CharAt(e) \notin IdentContinue
  BY <1>1, RunEndIs, RunMoves
<1>3. Return(IF View(p, e) \in Keywords THEN "Keyword" ELSE "Identifier", After(loc, e))
  BY DEF LexIdentifierOrKeyword
<1> HIDE DEF e
<1>4. e \in (p + 1) .. Size
  BY <1>1, <1>2
<1>5. IsIdentifier(View(p, e))
  BY <1>1, <1>2, <1>4, LexemeShapes DEF NamesOnly
<1>6. TokenKindOf(View(p, e)) = IF View(p, e) \in Keywords THEN "Keyword" ELSE "Identifier"
  BY <1>5 DEF TokenKindOf
<1>7. ASSUME NEW q \in (e + 1) .. Size PROVE ~IsLexeme(View(p, q))
  <2>1. q \in (p + 1) .. Size /\ e \in p .. (q - 1) /\ e # Size /\ q - p # 1 /\ q \in Nat
        /\ p \in p .. (q - 1) /\ (q <= p + 2 => q = p + 2)
    BY <1>1, <1>4
  <2>2. ~NamesOnly(p, q)
    BY <1>2, <2>1 DEF NamesOnly
  <2>3. ~NumbersOnly(p, q)
    BY <1>1, <2>1, LexemesAssumption DEF NumbersOnly
  <2>4. View(p, q) \notin Punctuators
    BY <1>1, <2>1, LexemeShapes
  <2> QED
    BY <1>1, <2>1, <2>2, <2>3, <2>4, LexemeShapes DEF IsLexeme
<1>8. IsLexeme(View(p, e))
  BY <1>5 DEF IsLexeme
<1> QED
  BY <1>1, <1>3, <1>4, <1>6, <1>7, <1>8, TokenFound

LEMMA NumberFound ==
  ASSUME TypeOK, LocationsAgree, AtToken, LexNumber
  PROVE  FindsToken
<1> DEFINE p == loc.offset
           e == RunEnd(p, Digit \union {Dot})
<1>1. /\ buffer \in Seq(Char) /\ Size \in Nat /\ p \in 0 .. Size /\ p # Size
      /\ CharAt(p) \notin IdentStart /\ CharAt(p) \in Digit \union {Dot}
      /\ ~AtEof /\ pc = "token"
  BY BufferIsText DEF LexNumber, StartsNumber, AtEof, Peek
<1>2. /\ e \in p .. Size /\ e > p
      /\ \A j \in p .. (e - 1) : CharAt(j) \in Digit \union {Dot}
      /\ e = Size \/ CharAt(e) \notin Digit \union {Dot}
  BY <1>1, RunEndIs, RunMoves
<1>3. Return(NumberKind(View(p, e)), After(loc, e))
  BY DEF LexNumber
<1> HIDE DEF e
<1>4. e \in (p + 1) .. Size /\ e \in Nat
  BY <1>1, <1>2
<1>5. CharAt(p) \in Digit \/ (e >= p + 2 /\ CharAt(p + 1) \in Digit)
  <2> SUFFICES ASSUME CharAt(p) \notin Digit PROVE e >= p + 2 /\ CharAt(p + 1) \in Digit
    OBVIOUS
  <2>1. Peek2 \in Digit
    BY <1>1 DEF LexNumber, StartsNumber, Peek
  <2>2. p + 1 < Size /\ CharAt(p + 1) \in Digit
    BY <1>1, <2>1, LanguageAssumption DEF Peek2
  <2>3. e # p + 1
    BY <1>1, <1>2, <2>2
  <2> QED
    BY <1>1, <1>4, <2>2, <2>3
<1>6. IsNumber(View(p, e))
  BY <1>1, <1>2, <1>4, <1>5, LexemeShapes DEF NumbersOnly
<1>7. TokenKindOf(View(p, e)) = NumberKind(View(p, e))
  <2>1. View(p, e) \notin Keywords /\ ~IsIdentifier(View(p, e))
    BY <1>1, <1>4, LexemeShapes DEF NamesOnly
  <2> QED
    BY <1>6, <2>1 DEF TokenKindOf
<1>8. ASSUME NEW q \in (e + 1) .. Size PROVE ~IsLexeme(View(p, q))
  <2>1. q \in (p + 1) .. Size /\ e \in p .. (q - 1) /\ e # Size /\ q - p # 1 /\ q \in Nat
        /\ (q <= p + 2 => q = p + 2 /\ e = p + 1)
    BY <1>1, <1>4
  <2>2. ~NamesOnly(p, q)
    BY <1>1 DEF NamesOnly
  <2>3. ~NumbersOnly(p, q)
    BY <1>2, <2>1 DEF NumbersOnly
  <2>4. View(p, q) \notin Punctuators
    <3> SUFFICES ASSUME View(p, q) \in Punctuators PROVE FALSE
      OBVIOUS
    <3>1. q = p + 2 /\ e = p + 1 /\ CharAt(p) \notin Digit
      BY <1>1, <2>1, LexemeShapes
    <3> QED
      BY <1>1, <1>5, <3>1
  <2> QED
    BY <1>1, <2>1, <2>2, <2>3, <2>4, LexemeShapes DEF IsLexeme
<1>9. IsLexeme(View(p, e))
  BY <1>6 DEF IsLexeme
<1> QED
  BY <1>1, <1>3, <1>4, <1>7, <1>8, <1>9, TokenFound

LEMMA PunctuatorFound ==
  ASSUME NulFree, TypeOK, LocationsAgree, AtToken, LexPunctOrInvalid
  PROVE  FindsToken
<1> DEFINE p == loc.offset
<1>1. /\ buffer \in Seq(Char) /\ Size \in Nat /\ p \in 0 .. Size /\ p # Size /\ p \in Nat
      /\ CharAt(p) \notin IdentStart /\ Peek = CharAt(p) /\ Peek # NUL
      /\ ~StartsNumber /\ ~AtEof /\ pc = "token"
  BY BufferIsText, NulFreePeek DEF LexPunctOrInvalid, AtEof, Peek
<1>2. ASSUME NEW q \in (p + 1) .. Size
      PROVE  /\ ~IsIdentifier(View(p, q)) /\ ~IsNumber(View(p, q))
             /\ View(p, q) \notin Keywords
  <2>1. ~NamesOnly(p, q)
    BY <1>1 DEF NamesOnly
  <2>2. ~NumbersOnly(p, q)
    <3> SUFFICES ASSUME NumbersOnly(p, q) PROVE FALSE
      OBVIOUS
    <3>1. p \in p .. (q - 1)
      BY <1>1
    <3>2. CharAt(p) \in Digit \union {Dot} /\ CharAt(p) \notin Digit
      BY <1>1, <3>1 DEF NumbersOnly, StartsNumber
    <3>3. q >= p + 2 /\ CharAt(p + 1) \in Digit
      BY <3>2 DEF NumbersOnly
    <3>4. Peek2 = CharAt(p + 1)
      BY <1>1, <3>3 DEF Peek2
    <3> QED
      BY <1>1, <3>2, <3>3, <3>4 DEF StartsNumber
  <2> QED
    BY <1>1, <2>1, <2>2, LexemeShapes
<1>3. CASE TwoCharPunctuator
  <2>1. p + 2 \in (p + 1) .. Size /\ View(p, p + 2) \in Punctuators
    BY <1>1, <1>3 DEF TwoCharPunctuator
  <2>2. TokenKindOf(View(p, p + 2)) = "Punctuator" /\ IsLexeme(View(p, p + 2))
    BY <1>2, <2>1 DEF TokenKindOf, IsLexeme
  <2>3. ASSUME NEW q \in (p + 2 + 1) .. Size PROVE ~IsLexeme(View(p, q))
    <3>1. q \in (p + 1) .. Size /\ q - p # 1 /\ ~(q <= p + 2)
      BY <1>1
    <3> QED
      BY <1>1, <1>2, <3>1, LexemeShapes DEF IsLexeme
  <2>4. Return(TokenKindOf(View(p, p + 2)), After(loc, p + 2))
    BY <1>3, <2>2 DEF LexPunctOrInvalid
  <2> QED
    BY <1>1, <2>1, <2>2, <2>3, <2>4, TokenFound
<1>4. CASE ~TwoCharPunctuator
  <2>1. p + 1 \in (p + 1) .. Size
    BY <1>1
  <2>2. View(p, p + 1) = <<Peek>>
    <3>1. PICK q \in p .. Size : q = p + 1 /\ q - p = 1 /\ q \in (p + 1) .. Size
      BY <1>1, <2>1
    <3>2. View(p, q) \in Seq(Char) /\ Len(View(p, q)) = 1 /\ View(p, q)[1] = Peek
      BY <1>1, <3>1, LexemeShapes, ViewIs
    <3> QED
      BY <3>1, <3>2
  <2>3. TokenKindOf(View(p, p + 1)) =
          IF <<Peek>> \in Punctuators THEN "Punctuator"
          ELSE IF Peek \notin Alnum THEN "Operator" ELSE "Invalid"
    <3>1. <<Peek>>[1] = Peek
      OBVIOUS
    <3> QED
      BY <1>2, <2>1, <2>2, <3>1 DEF TokenKindOf
  <2>4. IsLexeme(View(p, p + 1))
    BY <2>2 DEF IsLexeme
  <2>5. ASSUME NEW q \in (p + 1 + 1) .. Size PROVE ~IsLexeme(View(p, q))
    <3>1. q \in (p + 1) .. Size /\ q - p # 1 /\ (q <= p + 2 => q = p + 2 /\ Size - p >= 2)
      BY <1>1
    <3>2. View(p, q) \notin Punctuators
      BY <1>1, <1>4, <3>1, LexemeShapes DEF TwoCharPunctuator
    <3> QED
      BY <1>1, <1>2, <3>1, <3>2, LexemeShapes DEF IsLexeme
  <2>6. ConsumedOne = After(loc, p + 1)
    BY <1>1 DEF ConsumedOne
  <2>7. Return(TokenKindOf(View(p, p + 1)), After(loc, p + 1))
    BY <1>4, <2>3, <2>6 DEF LexPunctOrInvalid
  <2> QED
    BY <1>1, <2>1, <2>4, <2>5, <2>7, TokenFound
<1> QED
  BY <1>3, <1>4

LEMMA EofFound ==
  ASSUME TypeOK, LocationsAgree, LexEof
  PROVE  FindsToken
<1>1. loc.offset = Size /\ pc = "token" /\ PieceStart = Size
  BY DEF LexEof, AtEof, PieceStart
<1>2. PieceAt(Size) = Piece("Eof", loc, loc)
  BY <1>1, PieceAtIs, Lands DEF Found
<1>3. loc' = loc /\ pc' = "idle"
      /\ out' = Append(out, [trivia |-> trivia, token |-> Piece("Eof", loc, loc)])
  BY DEF LexEof, Return
<1> QED
  BY <1>1, <1>2, <1>3 DEF FindsToken, IsTrivia, Piece

-----------------------------------------------------------------------------
(* Where next() stands is known in terms of the grammar.                   *)
LEMMA OpeningIs == Opening = OpensAt(loc.offset)
BY DEF Opening, OpensAt, CommentOpensAt

LEMMA InCommentKept ==
  ASSUME TypeOK, InComment, Call \/ Lex
  PROVE  InComment'
<1>1. Size \in Nat /\ loc.offset \in 0 .. Size /\ loc \in Location
  BY BufferIsText
<1>2. buffer' = buffer
  BY LexStep DEF Call
<1>3. CommentReaches(comment, loc.offset)' <=> CommentReaches(comment', loc'.offset)
  BY <1>2 DEF CommentReaches, OpensAt, CommentOpensAt, StartsAt, View, CharAt, MayEnd, Size
<1>4. CASE OpenComment
  <2>1. PICK i \in Opening : /\ \A j \in Opening : i <= j
                             /\ comment' = [delim |-> i, start |-> loc]
                             /\ loc' = After(loc, loc.offset + Len(Comments[i].open))
    BY <1>4 DEF OpenComment
  <2>2. i \in 1 .. Len(Comments) /\ Size - loc.offset >= Len(Comments[i].open)
    BY DEF Opening, StartsAt
  <2>3. PICK n \in Nat : n = Len(Comments[i].open)
    BY <2>2, DelimiterTypes
  <2>4. loc.offset + n \in loc.offset .. Size
    BY <1>1, <2>2, <2>3
  <2>5. loc'.offset = loc.offset + n
    BY <1>1, <2>1, <2>3, <2>4, AfterIs
  <2>6. loc.offset < Size /\ CharAt(loc.offset) \notin Blank \union {Newline}
    BY <1>1, <1>4 DEF OpenComment, AtEof, Peek
  <2>7. (loc.offset + n) .. (loc.offset + n - 1) = {}
    BY <1>1
  <2> QED
    BY <1>1, <1>3, <2>1, <2>3, <2>5, <2>6, <2>7, OpeningIs DEF InComment, CommentReaches
<1>5. CASE CommentChar
  <2> DEFINE d == Delim
             body == comment.start.offset + Len(d.open)
  <2>1. CommentReaches(comment, loc.offset) /\ comment' = comment
    BY <1>5 DEF CommentChar, InComment
  <2>2. loc'.offset \in {loc.offset, loc.offset + 1}
    <3>1. CASE Peek = NUL
      BY <1>1, <1>5, <3>1, AfterNothing DEF CommentChar, ConsumedOne
    <3>2. CASE Peek # NUL
      BY <1>5, <3>2, OneMore DEF CommentChar
    <3> QED
      BY <3>1, <3>2
  <2>3. ~MayEnd(d, loc.offset)
    BY <1>5 DEF CommentChar, AtLineEnd, AtClose, MayEnd, Peek
  <2>4. body \in Nat /\ body <= loc.offset
    <3>1. comment.delim \in 1 .. Len(Comments) /\ comment.start \in Location
      BY <2>1 DEF TypeOK, CommentReaches, OpensAt
    <3>2. PICK n \in Nat : n = Len(d.open)
      BY <3>1, DelimiterTypes DEF Delim
    <3>3. PICK m \in Nat : m = comment.start.offset
      BY <1>1, <3>1 DEF Location
    <3>4. body <= loc.offset
      BY <2>1 DEF CommentReaches, Delim
    <3>5. body = m + n
      BY <3>2, <3>3
    <3> QED
      BY <3>4, <3>5
  <2>5. \A q \in body .. (loc.offset - 1) : ~MayEnd(d, q)
    BY <2>1 DEF CommentReaches, Delim
  <2>6. \A q \in body .. (loc'.offset - 1) : q \in body .. (loc.offset - 1) \/ q = loc.offset
    BY <1>1, <2>2, <2>4
  <2>7. \A q \in body .. (loc'.offset - 1) : ~MayEnd(d, q)
    BY <2>3, <2>5, <2>6
  <2>8. body <= loc'.offset
    BY <1>1, <2>2, <2>4
  <2>9. CommentReaches(comment, loc'.offset)
    BY <2>1, <2>7, <2>8 DEF CommentReaches, Delim
  <2> QED
    BY <1>3, <2>1, <2>9 DEF InComment
<1>6. CASE pc' # "comment"
  BY <1>6 DEF InComment
<1> QED
  BY <1>4, <1>5, <1>6
     DEF Call, Lex, ConsumeNewline, ConsumeWhitespace, CloseComment, EndTrivia, LexEof,
         LexIdentifierOrKeyword, LexNumber, LexPunctOrInvalid, Return

LEMMA AtTokenKept ==
  ASSUME TypeOK, Call \/ Lex
  PROVE  AtToken'
<1>1. buffer' = buffer
  BY LexStep DEF Call
<1>2. CASE EndTrivia
  <2>1. AtEof \/ (CharAt(loc.offset) \notin Blank \union {Newline} /\ OpensAt(loc.offset) = {})
    BY <1>2, OpeningIs DEF EndTrivia, Peek
  <2>2. loc' = loc
    BY <1>2 DEF EndTrivia
  <2>3. /\ AtEof' = AtEof /\ CharAt(loc.offset)' = CharAt(loc.offset)
        /\ OpensAt(loc.offset)' = OpensAt(loc.offset)
    BY <1>1, <2>2 DEF AtEof, CharAt, OpensAt, CommentOpensAt, StartsAt, View, Size
  <2> QED
    BY <2>1, <2>3 DEF AtToken
<1>3. CASE pc' # "token"
  BY <1>3 DEF AtToken
<1> QED
  BY <1>2, <1>3
     DEF Call, Lex, ConsumeNewline, ConsumeWhitespace, OpenComment, CommentChar, CloseComment,
         LexEof, LexIdentifierOrKeyword, LexNumber, LexPunctOrInvalid, Return

-----------------------------------------------------------------------------
(* The inductive invariant: the grammar has read up to PieceStart what     *)
(* next() has returned and holds, or next() is behind the text and returns *)
(* the Eof token again and again.                                          *)
InProgress == Reading[PieceStart] = [at |-> PieceStart, trivia |-> Held, tokens |-> out]
Returned(i) ==
  LET n == Len(Tokenization)
  IN  IF i <= n THEN Tokenization[i] ELSE [trivia |-> <<>>, token |-> Tokenization[n].token]
PastEnd ==
  /\ AtEof /\ pc # "comment" /\ Held = <<>>
  /\ Len(Tokenization) \in 1 .. Len(out)
  /\ Tokenization[Len(Tokenization)].token = Piece("Eof", loc, loc)
  /\ \A i \in 1 .. Len(out) : out[i] = Returned(i)

(* A step that finds nothing.                                              *)
FindsNothing == PieceStart' = PieceStart /\ Held' = Held /\ out' = out

LEMMA EveryStepFinds ==
  ASSUME NulFree, TypeOK, LocationsAgree, InComment, AtToken, Call \/ Lex
  PROVE  FindsNothing \/ FindsTrivia \/ FindsToken
<1>1. CASE Call
  BY <1>1 DEF Call, FindsNothing, PieceStart, Held
<1>2. CASE OpenComment
  BY <1>2 DEF OpenComment, FindsNothing, PieceStart, Held
<1>3. CASE CommentChar
  BY <1>3 DEF CommentChar, FindsNothing, PieceStart, Held
<1>4. CASE EndTrivia
  BY <1>4 DEF EndTrivia, FindsNothing, PieceStart, Held
<1> QED
  BY <1>1, <1>2, <1>3, <1>4, NewlineFound, WhitespaceFound, CommentFound, EofFound,
     NameFound, NumberFound, PunctuatorFound DEF Lex

LEMMA PieceStartIs ==
  ASSUME TypeOK
  PROVE  Size \in Nat /\ PieceStart \in 0 .. Size
<1>1. comment.start \in Location /\ Size \in Nat /\ loc.offset \in 0 .. Size
  BY BufferIsText DEF TypeOK
<1> QED
  BY <1>1 DEF PieceStart, Location

LEMMA ProgressKept ==
  ASSUME TypeOK, InProgress, buffer' = buffer, FindsNothing \/ FindsTrivia \/ FindsToken
  PROVE  InProgress' \/ (PastEnd' /\ pc' = "idle" /\ Len(out') = Len(Tokenization'))
<1> DEFINE p == PieceStart
           piece == PieceAt(PieceStart)
<1>1. Size \in Nat /\ p \in 0 .. Size
  BY PieceStartIs
<1>2. Reading' = Reading /\ Tokenization' = Tokenization
  BY <1>1, ReadingStays
<1>3. Reading[p] = [at |-> p, trivia |-> Held, tokens |-> out]
  BY DEF InProgress
<1>8. Reading[p] \in Readings /\ piece \in Pieces
  BY <1>1, OneOffsetMore DEF Pieces
<1>4. CASE FindsNothing
  BY <1>2, <1>3, <1>4 DEF FindsNothing, InProgress
<1>5. ASSUME piece.end = loc', loc'.offset \in (p + 1) .. Size, pc' # "comment"
      PROVE  Reading[PieceStart]' = Extend(Reading[p], piece) /\ PieceStart' = loc'.offset
  <2>1. PieceStart' = loc'.offset
    BY <1>5 DEF PieceStart
  <2>2. Reading[loc'.offset] = Extend(Reading[p], piece)
    BY <1>1, <1>3, <1>5, NextPiece
  <2> QED
    BY <1>2, <2>1, <2>2
<1>6. CASE FindsTrivia
  <2>1. Reading[PieceStart]' = Extend(Reading[p], piece) /\ PieceStart' = loc'.offset
    BY <1>5, <1>6 DEF FindsTrivia
  <2>2. Held' = Append(Held, piece) /\ out' = out /\ IsTrivia(piece) /\ piece.end = loc'
    BY <1>6 DEF FindsTrivia, Held
  <2> HIDE DEF piece, p
  <2>3. /\ Extend(Reading[p], piece) \in Readings
        /\ Extend(Reading[p], piece).at = loc'.offset
        /\ Extend(Reading[p], piece).trivia = Held'
        /\ Extend(Reading[p], piece).tokens = out'
    <3>1. Reading[p].trivia = Held /\ Reading[p].tokens = out
      BY <1>3
    <3>2. /\ Extend(Reading[p], piece).tokens = Reading[p].tokens
          /\ Extend(Reading[p], piece).trivia = Append(Reading[p].trivia, piece)
      BY <1>8, <2>2, ExtendIs
    <3>3. /\ Extend(Reading[p], piece) \in Readings
          /\ Extend(Reading[p], piece).at = piece.end.offset
      BY <1>8, ExtendIs
    <3> QED
      BY <2>2, <3>1, <3>2, <3>3
  <2>4. Extend(Reading[p], piece) = [at |-> loc'.offset, trivia |-> Held', tokens |-> out']
    BY <2>3 DEF Readings
  <2> QED
    BY <2>1, <2>4 DEF InProgress
<1>7. CASE FindsToken
  <2>1. /\ pc = "token" /\ pc' = "idle" /\ Held' = <<>> /\ Held = trivia
        /\ ~IsTrivia(piece) /\ piece.end = loc' /\ p = loc.offset
        /\ out' = Append(out, [trivia |-> Held, token |-> piece])
    BY <1>7 DEF FindsToken, Held, PieceStart
  <2>2. Extend(Reading[p], piece) = [at |-> loc'.offset, trivia |-> Held', tokens |-> out']
    <3> HIDE DEF piece, p
    <3>1. /\ Extend(Reading[p], piece) \in Readings
          /\ Extend(Reading[p], piece).at = loc'.offset
          /\ Extend(Reading[p], piece).trivia = Held'
          /\ Extend(Reading[p], piece).tokens = out'
      BY <1>3, <1>8, <2>1, ExtendIs
    <3> QED
      BY <3>1 DEF Readings
  <2>3. CASE p # Size
    <3>1. Reading[PieceStart]' = Extend(Reading[p], piece) /\ PieceStart' = loc'.offset
      BY <1>5, <1>7, <2>3 DEF FindsToken
    <3> QED
      BY <2>2, <3>1 DEF InProgress
  <2>4. CASE p = Size
    <3>1. loc' = loc /\ piece = Piece("Eof", loc, loc)
      BY <1>7, <2>4 DEF FindsToken
    <3>2. Reading[p + 1] = Extend(Reading[p], piece)
      BY <1>1, <1>3, OneOffsetMore DEF ReadAt
    <3>3. Tokenization = out'
      BY <2>2, <2>4, <3>2 DEF Tokenization
    <3>4. /\ Len(out') = Len(out) + 1 /\ Len(out) \in Nat
          /\ out'[Len(out')].token = piece
      <4> HIDE DEF piece, p
      <4>1. Len(out) \in Nat /\ out \in Seq([trivia : Seq(TriviaPiece), token : Token])
        BY DEF TypeOK
      <4> QED
        BY <2>1, <4>1
    <3>5. AtEof'
      BY <2>1, <2>4, <3>1 DEF AtEof, Size
    <3>6. Len(out') \in 1 .. Len(out') /\ \A i \in 1 .. Len(out') : i <= Len(out')
      BY <3>4
    <3>7. \A i \in 1 .. Len(out') : out'[i] = Returned(i)'
      BY <1>2, <3>3, <3>6 DEF Returned
    <3> QED
      BY <1>2, <2>1, <3>1, <3>3, <3>4, <3>5, <3>6, <3>7 DEF PastEnd
  <2> QED
    BY <2>3, <2>4
<1> QED
  BY <1>4, <1>6, <1>7

LEMMA PastEndKept ==
  ASSUME TypeOK, PastEnd, Call \/ Lex
  PROVE  PastEnd'
<1>1. Size \in Nat /\ buffer' = buffer
  BY BufferIsText, LexStep DEF Call
<1>2. Tokenization' = Tokenization
  BY <1>1, ReadingStays
<1>3. CASE Call \/ EndTrivia
  <2>1. /\ UNCHANGED <<loc, out>> /\ Held' = <<>> /\ AtEof' /\ pc' # "comment"
    BY <1>1, <1>3 DEF Call, EndTrivia, PastEnd, Held, AtEof, Size
  <2>2. \A i : Returned(i)' = Returned(i)
    BY <1>2 DEF Returned
  <2> QED
    BY <1>2, <2>1, <2>2 DEF PastEnd
<1>4. CASE LexEof
  <2> DEFINE eof == [trivia |-> <<>>, token |-> Piece("Eof", loc, loc)]
             n == Len(Tokenization)
  <2>1. out' = Append(out, eof) /\ loc' = loc /\ pc' = "idle" /\ AtEof'
    BY <1>1, <1>4 DEF LexEof, Return, PastEnd, Held, AtEof, Size
  <2>2. /\ out \in Seq([trivia : Seq(TriviaPiece), token : Token]) /\ Len(out) \in Nat
        /\ n \in 1 .. Len(out)
    BY DEF TypeOK, PastEnd
  <2>3. /\ Len(out') = Len(out) + 1 /\ out'[Len(out) + 1] = eof
        /\ \A i \in 1 .. Len(out) : out'[i] = out[i]
    <3> HIDE DEF eof
    <3> QED
      BY <2>1, <2>2
  <2>4. ASSUME NEW i \in 1 .. Len(out') PROVE out'[i] = Returned(i)'
    <3>1. Returned(i)' = Returned(i)
      BY <1>2 DEF Returned
    <3>2. CASE i \in 1 .. Len(out)
      BY <2>3, <3>1, <3>2 DEF PastEnd
    <3>3. CASE i = Len(out) + 1
      <4>1. ~(i <= n) /\ Tokenization[n].token = Piece("Eof", loc, loc)
        BY <2>2, <3>3 DEF PastEnd
      <4> QED
        BY <2>3, <3>1, <3>3, <4>1 DEF Returned
    <3> QED
      <4>1. i \in 1 .. Len(out) \/ i = Len(out) + 1
        <5>1. PICK k \in Nat : k = Len(out)
          BY <2>2
        <5>2. i \in 1 .. k + 1
          BY <2>3, <5>1
        <5>3. i \in 1 .. k \/ i = k + 1
          BY <5>2
        <5> QED
          BY <5>1, <5>3
      <4> QED
        BY <3>2, <3>3, <4>1
  <2>5. n \in 1 .. Len(out') /\ Held' = <<>>
    BY <2>1, <2>2, <2>3 DEF Held
  <2> QED
    BY <1>2, <2>1, <2>4, <2>5 DEF PastEnd
<1> QED
  BY <1>3, <1>4
     DEF Lex, ConsumeNewline, ConsumeWhitespace, OpenComment, CommentChar, CloseComment,
         LexIdentifierOrKeyword, LexNumber, LexPunctOrInvalid, PastEnd

LEMMA GrammarInitially ==
  ASSUME Init
  PROVE  InComment /\ AtToken /\ InProgress
<1>1. Size \in Nat
  BY LanguageAssumption DEF Init, Size
<1>2. Reading[0] = Fresh
  BY <1>1, ReadingIs DEF IsReading
<1> QED
  BY <1>2 DEF Init, InComment, AtToken, InProgress, Fresh, PieceStart, Held, StartOfBuffer

-----------------------------------------------------------------------------
(* A reading in progress is a prefix of the whole.                         *)
LEMMA TokenizationIs ==
  ASSUME TypeOK
  PROVE  /\ Tokenization \in Seq(Entries)
         /\ InProgress => Continues(Tokenization, out)
<1>1. Size \in Nat /\ PieceStart \in 0 .. Size
  BY PieceStartIs
<1>2. Size + 1 \in 0 .. Size + 1 /\ PieceStart \in 0 .. Size + 1
      /\ Size + 1 \in PieceStart .. Size + 1
  BY <1>1
<1>3. Tokenization \in Seq(Entries)
  BY <1>1, <1>2, ReadingTyped DEF Tokenization, Readings
<1>4. Continues(Tokenization, Reading[PieceStart].tokens)
  BY <1>1, <1>2, TokensStay DEF Tokenization
<1> QED
  BY <1>3, <1>4 DEF InProgress

LEMMA PrefixIs ==
  ASSUME NEW S, NEW s \in Seq(S), NEW T, NEW t \in Seq(T), Continues(t, s)
  PROVE  Len(s) <= Len(t) /\ s = SubSeq(t, 1, Len(s))
<1>1. Len(s) \in Nat /\ Len(t) \in Nat /\ Len(s) <= Len(t)
  BY DEF Continues
<1>2. \A i \in 1 .. Len(s) : t[i] \in T /\ t[i] = s[i]
  BY <1>1 DEF Continues
<1>3. PICK n \in Nat : n = Len(s)
  BY <1>1
<1>4. /\ SubSeq(t, 1, n) \in Seq(T)
      /\ Len(SubSeq(t, 1, n)) = n
      /\ \A i \in 1 .. n : SubSeq(t, 1, n)[i] = t[i]
  BY <1>1, <1>2, <1>3
<1>5. s = SubSeq(t, 1, n)
  BY <1>2, <1>3, <1>4, SeqEqual
<1> QED
  BY <1>1, <1>3, <1>5

(* What next() has returned is the grammar's reading of the buffer.        *)
LEMMA ProgressAgrees ==
  ASSUME TypeOK, InProgress \/ (PastEnd /\ Len(out) = Len(Tokenization))
  PROVE  AgreesWithGrammar
<1>1. Tokenization \in Seq(Entries)
      /\ out \in Seq([trivia : Seq(TriviaPiece), token : Token])
  BY TokenizationIs DEF TypeOK
<1>2. Continues(Tokenization, out)
  <2>1. CASE InProgress
    BY <2>1, TokenizationIs
  <2>2. CASE PastEnd /\ Len(out) = Len(Tokenization)
    <3>1. Len(out) \in Nat
      BY <1>1
    <3>2. \A i \in 1 .. Len(out) : out[i] = Tokenization[i]
      BY <2>2, <3>1 DEF PastEnd, Returned
    <3> QED
      BY <2>2, <3>1, <3>2 DEF Continues
  <2> QED
    BY <2>1, <2>2
<1> QED
  BY <1>1, <1>2, PrefixIs DEF AgreesWithGrammar

(* Outside next() nothing of this changes.                                 *)
LEMMA GrammarStutters ==
  ASSUME Size \in Nat, UNCHANGED vars
  PROVE  /\ Tokenization' = Tokenization
         /\ InProgress' = InProgress /\ PastEnd' = PastEnd
         /\ InComment' = InComment /\ AtToken' = AtToken
<1>1. Reading' = Reading /\ Tokenization' = Tokenization
  BY ReadingStays DEF vars
<1>2. InProgress' = InProgress
  BY <1>1 DEF vars, InProgress, PieceStart, Held
<1>3. PastEnd' = PastEnd
  BY <1>1 DEF vars, PastEnd, Returned, AtEof, Size, Held
<1>4. InComment' = InComment
  BY DEF vars, InComment, CommentReaches, MayEnd, OpensAt, CommentOpensAt, StartsAt, View, Size,
         CharAt
<1>5. AtToken' = AtToken
  BY DEF vars, AtToken, AtEof, OpensAt, CommentOpensAt, StartsAt, View, Size, CharAt
<1> QED
  BY <1>1, <1>2, <1>3, <1>4, <1>5

(* Behind the last token the client of Spec has stopped asking.            *)
GrammarInv ==
  /\ InComment /\ AtToken
  /\ InProgress \/ (PastEnd /\ pc = "idle" /\ Len(out) = Len(Tokenization))

LEMMA GrammarInvKept ==
  ASSUME NulFree, TypeOK, LocationsAgree, GrammarInv, [Next]_vars
  PROVE  GrammarInv'
<1>1. Size \in Nat
  BY BufferIsText
<1>2. CASE UNCHANGED vars
  BY <1>1, <1>2, GrammarStutters DEF GrammarInv, vars
<1>3. CASE Next
  <2>1. Call \/ Lex
    BY <1>3 DEF Next
  <2>2. InComment' /\ AtToken'
    BY <2>1, InCommentKept, AtTokenKept DEF GrammarInv
  <2>3. CASE InProgress
    <3>1. FindsNothing \/ FindsTrivia \/ FindsToken
      BY <2>1, EveryStepFinds DEF GrammarInv
    <3>2. buffer' = buffer
      BY <2>1, LexStep DEF Call
    <3> QED
      BY <2>2, <2>3, <3>1, <3>2, ProgressKept DEF GrammarInv
  <2>4. CASE PastEnd /\ pc = "idle" /\ Len(out) = Len(Tokenization)
    <3>1. Len(out) \in Nat \ {0}
      <4>1. Len(out) \in Nat
        BY DEF TypeOK
      <4> QED
        BY <2>4, <4>1 DEF PastEnd
    <3>2. out[Len(out)].token = Piece("Eof", loc, loc)
      BY <2>4, <3>1 DEF PastEnd, Returned
    <3>3. Ended
      <4>1. out # <<>>
        BY <3>1
      <4> QED
        BY <3>2, <4>1 DEF Ended, Piece
    <3> QED
      BY <1>3, <2>4, <3>3
         DEF Next, Lex, ConsumeNewline, ConsumeWhitespace, OpenComment, CommentChar, CloseComment,
             EndTrivia, LexEof, LexIdentifierOrKeyword, LexNumber, LexPunctOrInvalid
  <2> QED
    BY <2>3, <2>4 DEF GrammarInv
<1> QED
  BY <1>2, <1>3

(* On a text without NUL, what next() has returned is, token by token and  *)
(* with its trivia, the grammar's reading of the buffer: the longest       *)
(* lexemes, comments to their ends, and nothing skipped.                   *)
THEOREM ReadsTheGrammar ==
  ASSUME NulFree
  PROVE  Spec => []AgreesWithGrammar
<1> DEFINE Inv == TypeOK /\ LocationsAgree /\ GrammarInv
<1>1. Init => Inv
  BY TypeInitially, LocationsInitially, GrammarInitially DEF GrammarInv
<1>2. Inv /\ [Next]_vars => Inv'
  <2> SUFFICES ASSUME Inv, [Next]_vars PROVE Inv'
    OBVIOUS
  <2>1. Call \/ Lex \/ UNCHANGED vars
    BY DEF Next
  <2>2. TypeOK' /\ LocationsAgree'
    BY <2>1, TypeKept, LocationsKept
  <2>3. GrammarInv'
    BY GrammarInvKept
  <2> QED
    BY <2>2, <2>3
<1>3. Inv => AgreesWithGrammar
  BY ProgressAgrees DEF GrammarInv
<1> QED
  BY <1>1, <1>2, <1>3, PTL DEF Spec

-----------------------------------------------------------------------------
(* The token stream over the lexer.                                        *)
Outputs == [trivia : Seq(TriviaPiece), token : Token]

(* What a step of the stream does to the lexer.                            *)
LEMMA LexerSteps ==
  ASSUME [StreamNext]_allVars
  PROVE  Call \/ Lex \/ UNCHANGED vars
BY DEF StreamNext, allVars, Begin, FillCall, FillPush, Peeked, Consumed, Matched, Show, Pop

LEMMA OperationIs ==
  ASSUME StreamTypeOK, operation # NoOperation
  PROVE  operation.lookahead \in 0 .. MaxLookahead /\ operation.lookahead \in Nat
<1>1. operation \in Operations
  BY DEF StreamTypeOK
<1>2. 0 \in 0 .. MaxLookahead
  BY StreamAssumption
<1> QED
  BY <1>1, <1>2 DEF Operations

(* A call that runs has room for the token it takes.                       *)
HasRoom == operation # NoOperation => taken < MaxTaken

(* Between its calls the lexer holds the trivia of its last output.        *)
HoldsLast == pc = "idle" /\ out # <<>> => out[Len(out)].trivia = trivia

LEMMA OutIsTyped ==
  ASSUME TypeOK
  PROVE  /\ out \in Seq(Outputs) /\ Len(out) \in Nat
         /\ \A i \in 1 .. Len(out) : out[i] \in Outputs
<1>1. out \in Seq(Outputs)
  BY DEF TypeOK, Outputs
<1> HIDE DEF Outputs
<1> QED
  BY <1>1, ElementOfSeq, LenProperties

LEMMA HoldsLastKept ==
  ASSUME TypeOK, HoldsLast, Call \/ Lex \/ UNCHANGED vars
  PROVE  HoldsLast'
<1>1. CASE UNCHANGED vars
  BY <1>1 DEF vars, HoldsLast
<1>2. CASE Call
  BY <1>2 DEF Call, HoldsLast
<1>3. CASE Lex
  <2>1. LexesOneStep
    BY <1>3, LexStep
  <2>2. CASE ReturnsToken
    <3>1. PICK kind \in TokenKinds :
            out' = Append(out, [trivia |-> trivia, token |-> Piece(kind, loc, loc')])
      BY <2>2 DEF ReturnsToken
    <3> DEFINE entry == [trivia |-> trivia, token |-> Piece(kind, loc, loc')]
    <3>2. Len(out') = Len(out) + 1 /\ out'[Len(out) + 1] = entry
      <4>1. out \in Seq(Outputs)
        BY OutIsTyped
      <4> HIDE DEF entry, Outputs
      <4> QED
        BY <3>1, <4>1 DEF entry
    <3>3. trivia' = trivia
      BY <2>2 DEF ReturnsToken
    <3> QED
      BY <3>2, <3>3 DEF HoldsLast
  <2>3. CASE pc' # "idle"
    BY <2>3 DEF HoldsLast
  <2> QED
    BY <2>1, <2>2, <2>3
       DEF LexesOneStep, AddsPiece, OpensComment, ReadsComment, ClosesComment, EndsTrivia
<1> QED
  BY <1>1, <1>2, <1>3

-----------------------------------------------------------------------------
(* The inductive invariant of the stream.                                  *)
StreamInv == StreamTypeOK /\ Window /\ HasRoom /\ HoldsLast

LEMMA TypesStay ==
  ASSUME buffer' = buffer
  PROVE  Token' = Token /\ TriviaPiece' = TriviaPiece
<1>1. Location' = Location
  BY DEF Location, Size
<1> QED
  BY <1>1 DEF Token, TriviaPiece

LEMMA BeginKept ==
  ASSUME StreamInv, NEW op \in Operations, Begin(op)
  PROVE  StreamInv'
<1>1. TypeOK' /\ HoldsLast'
  BY TypeKept, HoldsLastKept DEF Begin, StreamInv, StreamTypeOK
<1>2. Token' = Token /\ TriviaPiece' = TriviaPiece
  BY TypesStay DEF Begin, vars
<1>3. StreamTypeOK'
  BY <1>1, <1>2 DEF Begin, StreamInv, StreamTypeOK, Operations
<1>4. Window'
  BY DEF Begin, vars, StreamInv, Window
<1> QED
  BY <1>1, <1>3, <1>4 DEF Begin, StreamInv, HasRoom

LEMMA FillCallKept ==
  ASSUME StreamInv, FillCall
  PROVE  StreamInv'
<1>1. TypeOK' /\ HoldsLast'
  BY TypeKept, HoldsLastKept DEF FillCall, StreamInv, StreamTypeOK
<1>2. Token' = Token /\ TriviaPiece' = TriviaPiece
  BY TypesStay DEF FillCall, Call
<1>3. StreamTypeOK'
  BY <1>1, <1>2 DEF FillCall, StreamInv, StreamTypeOK, Operations
<1>4. Window'
  BY DEF FillCall, Call, StreamInv, Window
<1> QED
  BY <1>1, <1>3, <1>4 DEF FillCall, StreamInv, HasRoom

LEMMA LexKept ==
  ASSUME StreamInv, lexing, Lex, UNCHANGED streamVars
  PROVE  StreamInv'
<1>1. TypeOK' /\ HoldsLast' /\ TypeOK
  BY TypeKept, HoldsLastKept DEF StreamInv, StreamTypeOK
<1>2. buffer' = buffer /\ LexesOneStep
  BY <1>1, LexStep
<1>3. Token' = Token /\ TriviaPiece' = TriviaPiece
  BY <1>2, TypesStay
<1>4. StreamTypeOK'
  BY <1>1, <1>3 DEF streamVars, StreamInv, StreamTypeOK, Operations
<1>5. Window'
  <2>1. CASE UNCHANGED out /\ pc # "idle" /\ pc' # "idle"
    BY <2>1 DEF streamVars, StreamInv, Window
  <2>2. CASE ReturnsToken
    <3>1. PICK kind \in TokenKinds :
            out' = Append(out, [trivia |-> trivia, token |-> Piece(kind, loc, loc')])
      BY <2>2 DEF ReturnsToken
    <3> DEFINE entry == [trivia |-> trivia, token |-> Piece(kind, loc, loc')]
    <3>2. /\ Len(out') - 1 = Len(out) /\ Len(out) \in Nat
          /\ \A i \in 1 .. Len(out) : out'[i] = out[i]
      <4>1. out \in Seq(Outputs)
        BY <1>1, OutIsTyped
      <4> HIDE DEF entry, Outputs
      <4> QED
        BY <3>1, <4>1 DEF entry
    <3>3. pc = "token" /\ pc' = "idle"
      BY <2>2 DEF ReturnsToken
    <3>4. taken + Len(tokens_) = Len(out) /\ taken \in Nat /\ Len(tokens_) \in Nat
      BY <3>3 DEF StreamInv, StreamTypeOK, Window
    <3>5. \A k \in 1 .. Len(tokens_) : out'[taken + k] = out[taken + k]
      BY <3>2, <3>4
    <3> QED
      BY <3>2, <3>3, <3>4, <3>5 DEF streamVars, StreamInv, Window
  <2> QED
    BY <1>2, <2>1, <2>2
       DEF LexesOneStep, AddsPiece, OpensComment, ReadsComment, ClosesComment, EndsTrivia
<1> QED
  BY <1>1, <1>4, <1>5 DEF streamVars, StreamInv, HasRoom

LEMMA FillPushKept ==
  ASSUME StreamInv, FillPush
  PROVE  StreamInv'
<1>1. TypeOK' /\ HoldsLast' /\ TypeOK
  BY TypeKept, HoldsLastKept DEF FillPush, StreamInv, StreamTypeOK
<1>2. Token' = Token /\ TriviaPiece' = TriviaPiece
  BY TypesStay DEF FillPush, vars
<1>3. PICK n \in Nat : n = Len(tokens_) /\ n = Len(trivia_)
  BY DEF StreamInv, StreamTypeOK, Window
<1>4. PICK m \in Nat : m = Len(out)
  BY <1>1, OutIsTyped
<1>5. taken \in Nat /\ taken + n + 1 = m /\ m \in 1 .. Len(out)
  <2>1. taken \in Nat /\ taken + n = m - 1
    BY <1>3, <1>4 DEF FillPush, StreamInv, StreamTypeOK, Window
  <2> QED
    BY <1>4, <2>1
<1>6. out[m] \in Outputs /\ out[m].trivia = trivia
  <2>1. out # <<>>
    BY <1>4, <1>5
  <2> QED
    BY <1>1, <1>4, <1>5, <2>1, OutIsTyped DEF FillPush, StreamInv, HoldsLast
<1> DEFINE got == out[m].token
<1>7. got \in Token /\ trivia \in Seq(TriviaPiece) /\ out[m] = [trivia |-> trivia, token |-> got]
  BY <1>6 DEF Outputs
<1>8. /\ tokens_' = Append(tokens_, got) /\ trivia_' = Append(trivia_, trivia)
      /\ tokens_ \in Seq(Token) /\ trivia_ \in Seq(Seq(TriviaPiece))
  BY <1>4 DEF FillPush, StreamInv, StreamTypeOK
<1> HIDE DEF got
<1>9. /\ tokens_' \in Seq(Token) /\ Len(tokens_') = n + 1 /\ tokens_'[n + 1] = got
      /\ \A k \in 1 .. n : tokens_'[k] = tokens_[k]
  <2> DEFINE S == Token
  <2> HIDE DEF S
  <2>1. tokens_ \in Seq(S) /\ got \in S
    BY <1>7, <1>8 DEF S
  <2>2. /\ Append(tokens_, got) \in Seq(S) /\ Len(Append(tokens_, got)) = n + 1
        /\ Append(tokens_, got)[n + 1] = got
        /\ \A k \in 1 .. n : Append(tokens_, got)[k] = tokens_[k]
    <3>1. /\ Append(tokens_, got) \in Seq(S) /\ Len(Append(tokens_, got)) = Len(tokens_) + 1
          /\ Append(tokens_, got)[Len(tokens_) + 1] = got
          /\ \A k \in 1 .. Len(tokens_) : Append(tokens_, got)[k] = tokens_[k]
      BY <2>1, EntryAppended
    <3> QED
      BY <1>3, <3>1
  <2>3. /\ tokens_' \in Seq(S) /\ Len(tokens_') = n + 1 /\ tokens_'[n + 1] = got
        /\ \A k \in 1 .. n : tokens_'[k] = tokens_[k]
    BY <1>8, <2>2, Zenon
  <2> QED
    BY <2>3 DEF S
<1>10. /\ trivia_' \in Seq(Seq(TriviaPiece)) /\ Len(trivia_') = n + 1 /\ trivia_'[n + 1] = trivia
       /\ \A k \in 1 .. n : trivia_'[k] = trivia_[k]
  <2> DEFINE S == Seq(TriviaPiece)
  <2> HIDE DEF S
  <2>1. trivia_ \in Seq(S) /\ trivia \in S
    BY <1>7, <1>8 DEF S
  <2>2. /\ trivia_' \in Seq(S) /\ Len(trivia_') = n + 1 /\ trivia_'[n + 1] = trivia
        /\ \A k \in 1 .. n : trivia_'[k] = trivia_[k]
    BY <1>3, <1>8, <2>1, EntryAppended
  <2> QED
    BY <2>2 DEF S
<1>11. StreamTypeOK'
  BY <1>1, <1>2, <1>9, <1>10 DEF FillPush, StreamInv, StreamTypeOK, Operations
<1>12. Window'
  <2>1. UNCHANGED <<out, taken>> /\ ~lexing'
    BY DEF FillPush, vars
  <2>2. taken + (n + 1) = m
    BY <1>5
  <2>3. ASSUME NEW k \in 1 .. n + 1
        PROVE  [trivia |-> trivia_'[k], token |-> tokens_'[k]] = out[taken + k]
    <3>1. CASE k \in 1 .. n
      BY <1>3, <1>9, <1>10, <3>1 DEF StreamInv, Window
    <3>2. CASE k = n + 1
      BY <1>7, <1>9, <1>10, <2>2, <3>2
    <3> QED
      BY <3>1, <3>2
  <2> QED
    BY <1>4, <1>9, <1>10, <2>1, <2>2, <2>3 DEF Window
<1> QED
  BY <1>1, <1>11, <1>12 DEF FillPush, StreamInv, HasRoom

LEMMA TailIs ==
  ASSUME NEW S, NEW s \in Seq(S), NEW n \in Nat, Len(s) = n + 1
  PROVE  /\ Tail(s) \in Seq(S) /\ Len(Tail(s)) = n
         /\ \A k \in 1 .. n : Tail(s)[k] = s[k + 1]
<1>1. s # <<>>
  OBVIOUS
<1>2. Tail(s) \in Seq(S) /\ Len(Tail(s)) = Len(s) - 1
  BY <1>1, HeadTailProperties
<1>3. \A k \in 1 .. n : Tail(s)[k] = s[k + 1]
  BY <1>1, <1>2, HeadTailProperties
<1> QED
  BY <1>2, <1>3

LEMMA PopKept ==
  ASSUME StreamInv, Filled, Pop, operation' = NoOperation
  PROVE  StreamInv'
<1>1. TypeOK' /\ HoldsLast' /\ TypeOK
  BY TypeKept, HoldsLastKept DEF Pop, StreamInv, StreamTypeOK
<1>2. Token' = Token /\ TriviaPiece' = TriviaPiece
  BY TypesStay DEF Pop, vars
<1>3. PICK n \in Nat : n + 1 = Len(tokens_) /\ n + 1 = Len(trivia_)
  <2>1. Len(tokens_) \in Nat /\ Len(tokens_) = Len(trivia_)
    BY DEF StreamInv, StreamTypeOK, Window
  <2>2. operation.lookahead \in Nat /\ Len(tokens_) > operation.lookahead
    BY OperationIs DEF Filled, StreamInv
  <2>3. Len(tokens_) - 1 \in Nat /\ (Len(tokens_) - 1) + 1 = Len(tokens_)
    BY <2>1, <2>2
  <2> QED
    BY <2>1, <2>3
<1>4. /\ tokens_ \in Seq(Token) /\ trivia_ \in Seq(Seq(TriviaPiece))
      /\ tokens_' = Tail(tokens_) /\ trivia_' = Tail(trivia_)
  BY DEF Pop, StreamInv, StreamTypeOK
<1>5. /\ tokens_' \in Seq(Token) /\ Len(tokens_') = n
      /\ \A k \in 1 .. n : tokens_'[k] = tokens_[k + 1]
  <2> DEFINE S == Token
  <2> HIDE DEF S
  <2>1. tokens_ \in Seq(S)
    BY <1>4 DEF S
  <2>2. /\ Tail(tokens_) \in Seq(S) /\ Len(Tail(tokens_)) = n
        /\ \A k \in 1 .. n : Tail(tokens_)[k] = tokens_[k + 1]
    BY <1>3, <2>1, TailIs
  <2> QED
    BY <1>4, <2>2, Zenon DEF S
<1>6. /\ trivia_' \in Seq(Seq(TriviaPiece)) /\ Len(trivia_') = n
      /\ \A k \in 1 .. n : trivia_'[k] = trivia_[k + 1]
  <2> DEFINE S == Seq(TriviaPiece)
  <2> HIDE DEF S
  <2>1. trivia_ \in Seq(S)
    BY <1>4 DEF S
  <2>2. /\ Tail(trivia_) \in Seq(S) /\ Len(Tail(trivia_)) = n
        /\ \A k \in 1 .. n : Tail(trivia_)[k] = trivia_[k + 1]
    BY <1>3, <2>1, TailIs
  <2> QED
    BY <1>4, <2>2, Zenon DEF S
<1>7. taken \in Nat /\ taken' = taken + 1 /\ taken' \in 0 .. MaxTaken
  <2>1. taken \in 0 .. MaxTaken /\ taken < MaxTaken /\ taken' = taken + 1
    BY DEF Filled, Pop, StreamInv, StreamTypeOK, HasRoom
  <2> QED
    BY <2>1, StreamAssumption
<1>8. StreamTypeOK'
  BY <1>1, <1>2, <1>5, <1>6, <1>7 DEF Filled, Pop, StreamInv, StreamTypeOK
<1>9. Window'
  <2>1. UNCHANGED <<out, lexing, pc>> /\ ~lexing
    BY DEF Filled, Pop, vars
  <2>2. taken + (n + 1) = Len(out)
    BY <1>3, <2>1 DEF StreamInv, Window
  <2>3. ASSUME NEW k \in 1 .. n
        PROVE  [trivia |-> trivia_'[k], token |-> tokens_'[k]] = out[taken' + k]
    <3>1. k + 1 \in 1 .. Len(tokens_) /\ taken' + k = taken + (k + 1)
      BY <1>3, <1>7
    <3> QED
      BY <1>5, <1>6, <3>1 DEF StreamInv, Window
  <2>4. taken' + n = Len(out)
    BY <1>7, <2>2
  <2> QED
    BY <1>5, <1>6, <2>1, <2>3, <2>4 DEF Window
<1> QED
  BY <1>1, <1>8, <1>9 DEF StreamInv, HasRoom

LEMMA ShowKept ==
  ASSUME StreamInv, NEW k, Show(k), operation' = NoOperation
  PROVE  StreamInv'
<1>1. TypeOK' /\ HoldsLast'
  BY TypeKept, HoldsLastKept DEF Show, StreamInv, StreamTypeOK
<1>2. Token' = Token /\ TriviaPiece' = TriviaPiece
  BY TypesStay DEF Show, vars
<1>3. StreamTypeOK'
  BY <1>1, <1>2 DEF Show, StreamInv, StreamTypeOK
<1>4. Window'
  BY DEF Show, vars, StreamInv, Window
<1> QED
  BY <1>1, <1>3, <1>4 DEF StreamInv, HasRoom

LEMMA StreamStutters ==
  ASSUME StreamInv, UNCHANGED allVars
  PROVE  StreamInv'
<1>1. TypeOK' /\ HoldsLast'
  BY TypeKept, HoldsLastKept DEF allVars, StreamInv, StreamTypeOK
<1>2. Token' = Token /\ TriviaPiece' = TriviaPiece
  BY TypesStay DEF allVars, vars
<1>3. StreamTypeOK'
  BY <1>1, <1>2 DEF allVars, streamVars, StreamInv, StreamTypeOK, Operations
<1>4. Window'
  BY DEF allVars, streamVars, vars, StreamInv, Window
<1> QED
  BY <1>1, <1>3, <1>4 DEF allVars, streamVars, StreamInv, HasRoom

LEMMA StreamKept ==
  ASSUME StreamInv, [StreamNext]_allVars
  PROVE  StreamInv'
<1>1. CASE Peeked /\ operation' = NoOperation
  BY <1>1, ShowKept DEF Peeked
<1>2. CASE Consumed /\ operation' = NoOperation
  BY <1>2, PopKept DEF Consumed
<1>3. CASE Matched /\ operation' = NoOperation
  BY <1>3, PopKept, ShowKept DEF Matched
<1>4. CASE \E op \in Operations : Begin(op)
  BY <1>4, BeginKept
<1>5. CASE FillCall
  BY <1>5, FillCallKept
<1>6. CASE lexing /\ Lex /\ UNCHANGED streamVars
  BY <1>6, LexKept
<1>7. CASE FillPush
  BY <1>7, FillPushKept
<1>8. CASE UNCHANGED allVars
  BY <1>8, StreamStutters
<1> QED
  BY <1>1, <1>2, <1>3, <1>4, <1>5, <1>6, <1>7, <1>8 DEF StreamNext

LEMMA StreamInitially == StreamInit => StreamInv
<1> SUFFICES ASSUME StreamInit PROVE StreamInv
  OBVIOUS
<1>1. TypeOK
  BY TypeInitially DEF StreamInit
<1>2. /\ tokens_ = <<>> /\ trivia_ = <<>> /\ out = <<>> /\ taken = 0 /\ lexing = FALSE
      /\ operation = NoOperation
  BY DEF StreamInit, Init
<1>3. 0 \in 0 .. MaxTaken
  BY StreamAssumption
<1>4. <<>> \in Seq(Token) /\ <<>> \in Seq(Seq(TriviaPiece))
  OBVIOUS
<1>5. StreamTypeOK
  BY <1>1, <1>2, <1>3, <1>4 DEF StreamTypeOK
<1>6. Window
  BY <1>2 DEF Window
<1> QED
  BY <1>2, <1>5, <1>6 DEF StreamInv, HasRoom, HoldsLast

(* The stream's variables and the lexer's keep their types.                *)
THEOREM StreamTypeCorrect == StreamSpec => []StreamTypeOK
<1>1. StreamInv => StreamTypeOK
  BY DEF StreamInv
<1> QED
  BY <1>1, StreamInitially, StreamKept, PTL DEF StreamSpec

(* Whatever a parser looked ahead, matched or consumed: each token in the  *)
(* deque is the lexer's output of its place, with the trivia it had.       *)
THEOREM DequesAreTheWindow == StreamSpec => []Window
<1>1. StreamInv => Window
  BY DEF StreamInv
<1> QED
  BY <1>1, StreamInitially, StreamKept, PTL DEF StreamSpec

-----------------------------------------------------------------------------
(* The refinement: the lexer under the stream reads the grammar, also when *)
(* it is called behind the end of the text.                                *)
ReadsOn ==
  /\ LocationsAgree /\ InComment /\ AtToken /\ (InProgress \/ PastEnd)
  /\ program = Tokenization

LEMMA ReadsOnKept ==
  ASSUME NulFree, StreamInv, ReadsOn, [StreamNext]_allVars
  PROVE  ReadsOn'
<1>1. TypeOK /\ Size \in Nat
  BY BufferIsText DEF StreamInv, StreamTypeOK
<1>2. LocationsAgree'
  BY <1>1, LexerSteps, LocationsKept DEF ReadsOn
<1>3. program' = program
  BY DEF StreamNext, allVars, streamVars, Begin, FillCall, FillPush, Peeked, Consumed, Matched,
         Show, Pop
<1>4. CASE UNCHANGED vars
  BY <1>1, <1>2, <1>3, <1>4, GrammarStutters DEF ReadsOn
<1>5. CASE Call \/ Lex
  <2>1. buffer' = buffer
    BY <1>1, <1>5, LexStep DEF Call
  <2>2. Tokenization' = Tokenization
    BY <1>1, <2>1, ReadingStays
  <2>3. InComment' /\ AtToken'
    BY <1>1, <1>5, InCommentKept, AtTokenKept DEF ReadsOn
  <2>4. CASE InProgress
    <3>1. FindsNothing \/ FindsTrivia \/ FindsToken
      BY <1>1, <1>5, EveryStepFinds DEF ReadsOn
    <3> QED
      BY <1>1, <1>2, <1>3, <2>1, <2>2, <2>3, <2>4, <3>1, ProgressKept DEF ReadsOn
  <2>5. CASE PastEnd
    BY <1>1, <1>2, <1>3, <1>5, <2>2, <2>3, <2>5, PastEndKept DEF ReadsOn
  <2> QED
    BY <2>4, <2>5 DEF ReadsOn
<1> QED
  BY <1>4, <1>5, LexerSteps

(* What the lexer has returned is what the token source promises.          *)
LEMMA OutIsSource ==
  ASSUME StreamInv, ReadsOn, NEW i \in 1 .. Len(out)
  PROVE  out[i] = Source!Nth(i)
<1>1. TypeOK
  BY DEF StreamInv, StreamTypeOK
<1>2. CASE InProgress
  <2>1. Continues(Tokenization, out)
    BY <1>1, <1>2, TokenizationIs
  <2>2. Len(Tokenization) \in Nat /\ Len(out) \in Nat
    BY <1>1, TokenizationIs, OutIsTyped
  <2>3. i <= Len(Tokenization) /\ out[i] = Tokenization[i]
    BY <2>1, <2>2 DEF Continues
  <2> QED
    BY <2>3 DEF ReadsOn, Source!Nth
<1>3. CASE PastEnd
  BY <1>3 DEF PastEnd, Returned, ReadsOn, Source!Nth
<1> QED
  BY <1>2, <1>3 DEF ReadsOn

LEMMA AnswersFromSource ==
  ASSUME StreamInv, ReadsOn, Filled, NEW k \in 0 .. operation.lookahead
  PROVE  Entry(k) = Source!Nth(taken + k + 1)
<1>1. operation.lookahead \in Nat /\ Len(tokens_) > operation.lookahead /\ ~lexing
  BY OperationIs DEF Filled, StreamInv
<1>2. /\ Len(tokens_) \in Nat /\ taken \in Nat /\ taken + Len(tokens_) = Len(out)
      /\ \A j \in 1 .. Len(tokens_) : [trivia |-> trivia_[j], token |-> tokens_[j]] = out[taken + j]
  BY <1>1 DEF StreamInv, StreamTypeOK, Window
<1>3. k + 1 \in 1 .. Len(tokens_) /\ taken + (k + 1) \in 1 .. Len(out)
      /\ taken + (k + 1) = taken + k + 1
  BY <1>1, <1>2
<1>4. Entry(k) = out[taken + (k + 1)]
  BY <1>2, <1>3 DEF Entry
<1> QED
  BY <1>3, <1>4, OutIsSource

LEMMA SourceStep ==
  ASSUME StreamInv, ReadsOn, [StreamNext]_allVars
  PROVE  [Source!Next]_<<program, taken, answer>>
<1>1. 0 \in 0 .. MaxLookahead
  BY StreamAssumption
<1>2. ASSUME Filled, NEW k \in 0 .. operation.lookahead, Show(k)
      PROVE  Source!Next
  <2>1. operation.lookahead \in 0 .. MaxLookahead /\ MaxLookahead \in Nat
    BY <1>2, OperationIs, StreamAssumption DEF Filled, StreamInv
  <2>2. k \in 0 .. MaxLookahead
    BY <2>1
  <2>3. Source!Look(k)
    BY <1>2, AnswersFromSource DEF Show, Source!Look
  <2> QED
    BY <2>2, <2>3 DEF Source!Next
<1>3. ASSUME Filled, Pop PROVE Source!Next
  <2>1. operation.lookahead \in Nat /\ taken \in Nat
    BY <1>3, OperationIs DEF Filled, StreamInv, StreamTypeOK
  <2>2. 0 \in 0 .. operation.lookahead /\ taken + 0 + 1 = taken + 1
    BY <2>1
  <2>3. Entry(0) = Source!Nth(taken + 1)
    BY <1>3, <2>2, AnswersFromSource
  <2> QED
    BY <1>3, <2>3 DEF Pop, Source!Take, Source!Next
<1>4. Filled => operation.lookahead \in 0 .. operation.lookahead /\ 0 \in 0 .. operation.lookahead
  BY OperationIs DEF Filled, StreamInv
<1>5. CASE Peeked
  BY <1>2, <1>4, <1>5 DEF Peeked
<1>6. CASE Consumed
  BY <1>3, <1>6 DEF Consumed
<1>7. CASE Matched
  BY <1>2, <1>3, <1>4, <1>7 DEF Matched
<1>8. CASE ~(Peeked \/ Consumed \/ Matched)
  BY <1>8 DEF StreamNext, allVars, streamVars, Begin, FillCall, FillPush
<1> QED
  BY <1>5, <1>6, <1>7, <1>8

(* Over a text without NUL, whatever calls a parser mixes, each shows or   *)
(* takes the next token that the lexical grammar reads in the buffer.      *)
THEOREM StreamImplementsSource ==
  ASSUME NulFree
  PROVE  StreamSpec => ImplementsSource
<1> DEFINE Inv == StreamInv /\ ReadsOn
<1>1. StreamInit => Inv
  BY StreamInitially, LocationsInitially, GrammarInitially DEF StreamInit, ReadsOn
<1>2. Inv /\ [StreamNext]_allVars => Inv'
  BY StreamKept, ReadsOnKept
<1>3. StreamInit => Source!Init
  BY DEF StreamInit, Source!Init
<1>4. Inv /\ [StreamNext]_allVars => [Source!Next]_(Source!vars)
  BY SourceStep DEF Source!vars
<1> QED
  BY <1>1, <1>2, <1>3, <1>4, PTL DEF StreamSpec, ImplementsSource, Source!Spec
=============================================================================
