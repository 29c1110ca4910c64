------------------------------- MODULE Verdict -------------------------------
(***************************************************************************)
(* What "dublin file.dub" promises of a block of assertions, without       *)
(* queries, tools and files.  An assertion is to hold for every input on   *)
(* which the assertions before it hold; goal[k] is the set of inputs on    *)
(* which assertion k is the first that fails.  Counterexamples are         *)
(* reported in order and only where there are some, a block is verified    *)
(* when there are none, refuted when all there are have been reported, and *)
(* the program may give up at any time.                                    *)
(***************************************************************************)
EXTENDS Integers

VARIABLES
  goal,      (* the inputs that fail at each assertion; <<>>: not yet read *)
  reported,  (* the assertions a counterexample was reported for           *)
  verdict    (* "none", "verified", "refuted", "gave up"                   *)

vars == <<goal, reported, verdict>>

Failing == {k \in DOMAIN goal : goal[k] # {}}

Init == goal = <<>> /\ reported = {} /\ verdict = "none"

Read ==
  /\ goal = <<>> /\ verdict = "none"
  /\ goal' # <<>>
  /\ UNCHANGED <<reported, verdict>>

Report ==
  /\ goal # <<>> /\ verdict = "none"
  /\ \E k \in Failing :
       /\ \A j \in reported : j < k
       /\ reported' = reported \union {k}
  /\ UNCHANGED <<goal, verdict>>

Conclude ==
  /\ goal # <<>> /\ verdict = "none"
  /\ reported = Failing
  /\ verdict' = IF reported = {} THEN "verified" ELSE "refuted"
  /\ UNCHANGED <<goal, reported>>

GiveUp ==
  /\ verdict = "none" /\ verdict' = "gave up"
  /\ UNCHANGED <<goal, reported>>

Next == Read \/ Report \/ Conclude \/ GiveUp

Spec == Init /\ [][Next]_vars
=============================================================================
