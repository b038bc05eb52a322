------------------------------- MODULE Trips -------------------------------
(***************************************************************************)
(* Instances of the tour modules for TLC: hotels and sites on a grid, with *)
(* Manhattan distances.  As in the files, a point is its index, the first  *)
(* two points are the start and the end hotel, and the hotels come first.  *)
(***************************************************************************)
EXTENDS Integers, Sequences, TLC

MCHotels    == <<0, 1, 2>>
MCFourSites == <<3, 4, 5, 6>>
MCFiveSites == <<3, 4, 5, 6, 7>>

Abs(n) == IF n < 0 THEN -n ELSE n

Manhattan(grid) ==
  [p \in DOMAIN grid |-> [q \in DOMAIN grid |->
     Abs(grid[p][1] - grid[q][1]) + Abs(grid[p][2] - grid[q][2])]]

-----------------------------------------------------------------------------
(* Five sites, two days: the greedy tour is valid but not the best; its    *)
(* improvement takes insertions, swaps, reversals, relocations and another *)
(* hotel between the days.                                                 *)

CrossedGrid ==
  (0 :> <<7, 2>>) @@ (1 :> <<5, 1>>) @@ (2 :> <<1, 0>>) @@ (3 :> <<6, 4>>)
    @@ (4 :> <<4, 2>>) @@ (5 :> <<5, 3>>) @@ (6 :> <<5, 2>>) @@ (7 :> <<3, 2>>)
CrossedOpen == (3 :> 0) @@ (4 :> 3) @@ (5 :> 0) @@ (6 :> 3) @@ (7 :> 0)
CrossedClose == (3 :> 3) @@ (4 :> 6) @@ (5 :> 12) @@ (6 :> 9) @@ (7 :> 12)
CrossedService == (3 :> 0) @@ (4 :> 1) @@ (5 :> 0) @@ (6 :> 1) @@ (7 :> 1)
CrossedNoService == [s \in {3, 4, 5, 6, 7} |-> 0]
CrossedScore == (3 :> 3) @@ (4 :> 1) @@ (5 :> 1) @@ (6 :> 3) @@ (7 :> 4)
CrossedBudgets == <<11, 5>>
CrossedDist == Manhattan(CrossedGrid)

-----------------------------------------------------------------------------
(* Four sites, two days: the greedy construction ends the first day at a   *)
(* hotel from which the last day cannot be completed, so the seed is       *)
(* refused by EvaluateSolution.                                            *)

TightGrid ==
  (0 :> <<5, 2>>) @@ (1 :> <<5, 4>>) @@ (2 :> <<0, 0>>) @@ (3 :> <<2, 2>>)
    @@ (4 :> <<1, 1>>) @@ (5 :> <<2, 1>>) @@ (6 :> <<3, 3>>)
TightOpen == (3 :> 0) @@ (4 :> 6) @@ (5 :> 0) @@ (6 :> 0)
TightClose == (3 :> 12) @@ (4 :> 14) @@ (5 :> 3) @@ (6 :> 9)
TightService == (3 :> 0) @@ (4 :> 0) @@ (5 :> 1) @@ (6 :> 0)
TightScore == (3 :> 1) @@ (4 :> 2) @@ (5 :> 2) @@ (6 :> 2)
TightBudgets == <<11, 7>>
TightDist == Manhattan(TightGrid)
=============================================================================
