---------------------------- MODULE TokenSource ----------------------------
(***************************************************************************)
(* What TokenStream promises a parser: the tokens of the program in order, *)
(* each with the trivia that leads to it, the Eof token for ever after the *)
(* last, and lookahead that changes nothing: peek(k) shows the token that  *)
(* the k+1-st consume() from here returns.                                 *)
(***************************************************************************)
EXTENDS Integers, Sequences

CONSTANTS MaxLookahead, NoAnswer

VARIABLES
  source,   (* the tokens of the program, the last of kind Eof             *)
  taken,    (* how many of them were consumed, Eof again and again included *)
  answer    (* what the last call returned                                 *)

vars == <<source, taken, answer>>

(* The n-th token: past the end, Eof again and no trivia before it.        *)
Nth(n) == IF n <= Len(source) THEN source[n]
          ELSE [trivia |-> <<>>, token |-> source[Len(source)].token]

Init == taken = 0 /\ answer = NoAnswer

Look(k) ==
  /\ answer' = Nth(taken + k + 1)
  /\ UNCHANGED <<source, taken>>

Take ==
  /\ answer' = Nth(taken + 1)
  /\ taken' = taken + 1
  /\ UNCHANGED source

Next == Take \/ \E k \in 0 .. MaxLookahead : Look(k)

Spec == Init /\ [][Next]_vars
=============================================================================
