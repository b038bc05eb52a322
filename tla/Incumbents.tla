----------------------------- MODULE Incumbents -----------------------------
(***************************************************************************)
(* What LocalSearch promises, whatever it does in parallel: the caller has *)
(* a solution of its own from the start, the helpers start from it and     *)
(* only ever move to valid, strictly better ones, and in the end the       *)
(* caller's solution is one of these and no valid one of a helper beats it.*)
(***************************************************************************)
EXTENDS Integers

CONSTANTS
  Helpers,
  Solutions,  \* records with the fields score, dist and valid
  Nothing     \* no solution yet

VARIABLES
  own,        \* the caller's solution
  held,       \* the solution of each helper
  over        \* whether the caller has returned

vars == <<own, held, over>>

Surpasses(s, t) ==
  \/ s.score > t.score
  \/ s.score = t.score /\ s.dist < t.dist

Init ==
  /\ own = Nothing
  /\ held = [w \in Helpers |-> Nothing]
  /\ over = FALSE

Found ==
  /\ own = Nothing /\ own' \in Solutions
  /\ UNCHANGED <<held, over>>

Join(w) ==
  /\ own # Nothing /\ held[w] = Nothing
  /\ held' = [held EXCEPT ![w] = own]
  /\ UNCHANGED <<own, over>>

Improve(w) ==
  /\ held[w] # Nothing
  /\ held'[w] \in Solutions
  /\ held'[w].valid /\ Surpasses(held'[w], held[w])
  /\ held' = [held EXCEPT ![w] = held'[w]]
  /\ UNCHANGED <<own, over>>

Take(w) ==
  /\ own # Nothing /\ held[w] # Nothing
  /\ held[w].valid /\ Surpasses(held[w], own)
  /\ own' = held[w]
  /\ UNCHANGED held

Return ==
  /\ own # Nothing
  /\ UNCHANGED <<own, held>> \/ \E w \in Helpers : Take(w)
  /\ \A w \in Helpers :
       held[w] # Nothing /\ held[w].valid => ~Surpasses(held[w], own')
  /\ over' = TRUE

Next ==
  /\ ~over
  /\ \/ Found
     \/ \E w \in Helpers : Join(w) \/ Improve(w)
     \/ \E w \in Helpers : Take(w) /\ UNCHANGED over
     \/ Return

Spec == Init /\ [][Next]_vars
=============================================================================
