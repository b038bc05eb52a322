------------------------------ MODULE MCRecords ------------------------------
(* Small campaigns for TLC. *)
EXTENDS Records

Sol(s, v) == [score |-> s, valid |-> v]

\* A greedy solution that reaches the target, one below it, one that is refused.
MCGreedies == {Sol(1, TRUE), Sol(1, FALSE), Sol(3, FALSE), Sol(3, TRUE)}
MCResults  == {Sol(1, TRUE), Sol(2, TRUE), Sol(3, FALSE)}

\* A greedy solution main can always fall back to.
MCValidGreedies == {Sol(1, TRUE)}
MCFewResults    == {Sol(2, TRUE), Sol(3, FALSE)}
=============================================================================
