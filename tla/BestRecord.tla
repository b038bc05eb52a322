----------------------------- MODULE BestRecord -----------------------------
(***************************************************************************)
(* What the directory solutions/ is for: of each instance, the best result *)
(* any run of the program has found, the time it took deciding among equal *)
(* scores.  A better result replaces it; otherwise only a mishap changes   *)
(* it, and then that one record.                                           *)
(***************************************************************************)
EXTENDS Integers

CONSTANTS
  Instances,
  Ranks,       \* what a result is compared by: its [score, at]
  Readable,    \* what a damaged record may be read as
  MaxMishaps,
  Nothing      \* no result yet

VARIABLES
  best,        \* the rank of each instance's result, or Nothing
  mishaps      \* how many may still happen

vars == <<best, mishaps>>

BetterRecord(r, s) ==
  \/ s = Nothing
  \/ r.score > s.score
  \/ r.score = s.score /\ r.at < s.at

Init ==
  /\ best = [i \in Instances |-> Nothing]
  /\ mishaps = MaxMishaps

Improve(i, r) ==
  /\ BetterRecord(r, best[i])
  /\ best' = [best EXCEPT ![i] = r]
  /\ UNCHANGED mishaps

Mishap ==
  /\ mishaps' \in 0 .. mishaps - 1
  /\ \/ UNCHANGED best
     \/ \E i \in Instances, r \in Readable \cup {Nothing} : best' = [best EXCEPT ![i] = r]

Next ==
  \/ \E i \in Instances, r \in Ranks : Improve(i, r)
  \/ Mishap

Spec == Init /\ [][Next]_vars
=============================================================================
