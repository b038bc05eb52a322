---------------------------- MODULE MCLocalSearch ----------------------------
(* Small instances of LocalSearch for TLC. *)
EXTENDS LocalSearch

Sol(s, d, v) == [score |-> s, dist |-> d, valid |-> v]

\* A valid seed, an infeasible one that no valid candidate below the target
\* beats, and an infeasible one that reaches the target.
MCSeeds == {Sol(1, 2, TRUE), Sol(2, 2, FALSE), Sol(3, 1, FALSE)}

\* Two valid candidates that differ in distance only, one at the target, and an
\* infeasible one that would beat them all.
MCCandidates == {Sol(2, 3, TRUE), Sol(2, 1, TRUE), Sol(3, 2, TRUE), Sol(3, 1, FALSE)}

\* One candidate of each kind.
MCFewSeeds == {Sol(1, 2, TRUE), Sol(2, 2, FALSE)}
MCFewCandidates == {Sol(2, 1, TRUE), Sol(3, 2, TRUE), Sol(3, 1, FALSE)}
=============================================================================
