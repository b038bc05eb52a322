-------------------------------- MODULE Moves --------------------------------
(***************************************************************************)
(* The five neighbourhoods of the descent (optimizer.go).  Each takes a    *)
(* solution and, where it needs one, the list of unvisited sites, and      *)
(* yields the solution the code leaves behind.  A loop that keeps its best *)
(* find so far is a choice by rank, the last parts of the rank being the   *)
(* loop variables: ties go to the first.                                   *)
(***************************************************************************)
EXTENDS Itinerary

PointsAt(sol, d) == PointsOf(sol.days[d])

\* sol.Days[d].Steps and DistTotal become those of the tour pts.
Replace(sol, d, pts) == [sol EXCEPT !.days[d] = FreshDay(pts)]

-----------------------------------------------------------------------------
(* The list of unvisited sites *)

VisitedIn(sol) == (UNION {ToSet(PointsAt(sol, d)) : d \in DOMAIN sol.days}) \cap Sites

\* newSearchState: the sites no step visits, in file order.
Unvisited(sol) == At(SiteIDs, {i \in DOMAIN SiteIDs : SiteIDs[i] \notin VisitedIn(sol)})

\* Variant: the last element is cut off without being moved into the gap.
MarkVisitedCut(list, s) == Front(list)

\* markVisited: the last element takes the place of s.
MarkVisited(list, s) ==
  LET k == CHOOSE i \in DOMAIN list : list[i] = s
  IN  Front([list EXCEPT ![k] = Last(list)])

\* markUnvisited
MarkUnvisited(list, s) == Append(list, s)

-----------------------------------------------------------------------------
(* The distance test made before a tour is evaluated *)

\* How much longer the tour becomes with u inserted at position pos ...
Detour(pts, pos, u) ==
  DistMatrix[pts[pos - 1]][u] + DistMatrix[u][pts[pos]] - DistMatrix[pts[pos - 1]][pts[pos]]

\* ... or put in place of the site at pos.
Exchange(pts, pos, u) ==
  DistMatrix[pts[pos - 1]][u] + DistMatrix[u][pts[pos + 1]]
    - (DistMatrix[pts[pos - 1]][pts[pos]] + DistMatrix[pts[pos]][pts[pos + 1]])

\* Variant: a move that would use up the budget exactly is cut as well.
PrunedAtBudget(sol, d, extra) == sol.days[d].dist + extra >= DayMaxDist(d)

\* "PRUNING": the recorded distance of the day and the difference exceed the budget.
Pruned(sol, d, extra) == sol.days[d].dist + extra > DayMaxDist(d)

\* Positions between the first and the last point, and those of an insertion.
Inner(pts) == 2 .. Len(pts) - 1
Slots(pts) == 2 .. Len(pts)

\* Variant: the distance test is taken for the whole test.
CanInsertByDistance(sol, d, pos, u) == ~Pruned(sol, d, Detour(PointsAt(sol, d), pos, u))

CanInsert(sol, d, pos, u) ==
  LET pts == PointsAt(sol, d)
  IN  ~Pruned(sol, d, Detour(pts, pos, u)) /\ Feasible(d, InsertAt(pts, pos, u))

CanSwap(sol, d, pos, u) ==
  LET pts == PointsAt(sol, d)
  IN  /\ pts[pos] \in Sites
      /\ ~Pruned(sol, d, Exchange(pts, pos, u))
      /\ Feasible(d, ReplaceAt(pts, pos, u))

-----------------------------------------------------------------------------
(* bestInsertion: the best score, then the shortest resulting day *)

Insertions(sol, list) ==
  {m \in (DOMAIN list) \X (DOMAIN sol.days) \X (2 .. Len(SiteIDs) + 2) :
     LET u == list[m[1]]
     IN  /\ Score[u] > 0
         /\ m[3] \in Slots(PointsAt(sol, m[2]))
         /\ CanInsert(sol, m[2], m[3], u)}

\* The insertion kept: the three loop variables' values.
BestInsertion(sol, list) ==
  Best(Insertions(sol, list),
       LAMBDA m : <<-Score[list[m[1]]],
                    TourLength(InsertAt(PointsAt(sol, m[2]), m[3], list[m[1]])),
                    m[1], m[2], m[3]>>)

\* Variant: the running total is not updated.
InsertUncounted(sol, d, pos, u) == Replace(sol, d, InsertAt(PointsAt(sol, d), pos, u))

Insert(sol, d, pos, u) ==
  [Replace(sol, d, InsertAt(PointsAt(sol, d), pos, u)) EXCEPT !.score = @ + Score[u]]

-----------------------------------------------------------------------------
(* apply2OptAllDays: the first reversal that is feasible and shorter *)

Reversed(pts, i, j) == [x \in DOMAIN pts |-> IF x \in i .. j THEN pts[i + j - x] ELSE pts[x]]

\* Variant: a reversal that is as long passes.
ReversalsAsLong(sol) ==
  {m \in (DOMAIN sol.days) \X (2 .. Len(SiteIDs) + 1) \X (2 .. Len(SiteIDs) + 1) :
     LET pts      == PointsAt(sol, m[1])
         reversed == Reversed(pts, m[2], m[3])
     IN  /\ Len(pts) > 3
         /\ m[2] < m[3] /\ m[3] \in Inner(pts)
         /\ Feasible(m[1], reversed)
         /\ TourLength(reversed) <= sol.days[m[1]].dist}

Reversals(sol) ==
  {m \in (DOMAIN sol.days) \X (2 .. Len(SiteIDs) + 1) \X (2 .. Len(SiteIDs) + 1) :
     LET pts      == PointsAt(sol, m[1])
         reversed == Reversed(pts, m[2], m[3])
     IN  /\ Len(pts) > 3
         /\ m[2] < m[3] /\ m[3] \in Inner(pts)
         /\ Feasible(m[1], reversed)
         /\ TourLength(reversed) < sol.days[m[1]].dist}

FirstReversal(sol) == Best(Reversals(sol), LAMBDA m : m)

Reverse2Opt(sol, m) == Replace(sol, m[1], Reversed(PointsAt(sol, m[1]), m[2], m[3]))

-----------------------------------------------------------------------------
(* bestSwap: the best gain of score, then the shortest resulting day *)

Gain(sol, d, pos, u) == Score[u] - Score[PointsAt(sol, d)[pos]]

\* A gain of zero never passes: no tour is shorter than the initial bestDist, 0.
Swaps(sol, list) ==
  {m \in (DOMAIN sol.days) \X (2 .. Len(SiteIDs) + 1) \X (DOMAIN list) :
     /\ m[2] \in Inner(PointsAt(sol, m[1]))
     /\ CanSwap(sol, m[1], m[2], list[m[3]])
     /\ Gain(sol, m[1], m[2], list[m[3]]) > 0}

BestSwap(sol, list) ==
  Best(Swaps(sol, list),
       LAMBDA m : <<-Gain(sol, m[1], m[2], list[m[3]]),
                    TourLength(ReplaceAt(PointsAt(sol, m[1]), m[2], list[m[3]])),
                    m[1], m[2], m[3]>>)

Swap(sol, d, pos, u) ==
  [Replace(sol, d, ReplaceAt(PointsAt(sol, d), pos, u))
     EXCEPT !.score = @ + Gain(sol, d, pos, u)]

-----------------------------------------------------------------------------
(* applyRelocate: one iteration; the draws of rng are its parameters *)

Unchanged(sol, list) == [sol |-> sol, list |-> list]

\* Move type 0: a site moves within its day, if the day becomes shorter.  The
\* destination counts in the tour without the site.
Moved(pts, p, q) == InsertAt(RemoveAt(pts, p), IF q > p THEN q - 1 ELSE q, pts[p])

RelocateWithin(sol, list, d, p, q) ==
  LET pts == Moved(PointsAt(sol, d), p, q)
  IN  IF p # q /\ Feasible(d, pts) /\ TourLength(pts) < sol.days[d].dist
        THEN [sol |-> Replace(sol, d, pts), list |-> list]
        ELSE Unchanged(sol, list)

\* Variant: the site is taken out before a place for it is found.
RelocateAcrossLosing(sol, list, d, p, e) ==
  LET u    == PointsAt(sol, d)[p]
      rest == RemoveAt(PointsAt(sol, d), p)
  IN  IF u \in Sites /\ e # d /\ Feasible(d, rest)
        THEN {[sol |-> Replace(sol, d, rest), list |-> list]}
        ELSE {Unchanged(sol, list)}

\* Move type 1: the step at p moves to another day, at the position that makes
\* that day shortest, wherever it fits.
RelocateAcross(sol, list, d, p, e) ==
  LET u     == PointsAt(sol, d)[p]
      rest  == RemoveAt(PointsAt(sol, d), p)
      slots == {q \in Slots(PointsAt(sol, e)) : CanInsert(sol, e, q, u)}
      best  == Best(slots, LAMBDA q : <<TourLength(InsertAt(PointsAt(sol, e), q, u)), q>>)
  IN  IF u \in Sites /\ e # d /\ Feasible(d, rest) /\ slots # {}
        THEN {[sol |-> Replace(Replace(sol, d, rest), e, InsertAt(PointsAt(sol, e), q, u)),
               list |-> list] : q \in best}
        ELSE {Unchanged(sol, list)}

\* Otherwise: an unvisited site is put into the day, whatever it scores.
RelocateInsert(sol, list, d, pos, k) ==
  IF CanInsert(sol, d, pos, list[k])
    THEN [sol |-> Insert(sol, d, pos, list[k]), list |-> MarkVisited(list, list[k])]
    ELSE Unchanged(sol, list)

\* A draw of the day and of the move type; the first two types fall through to
\* the insertion when the day, or the trip, is too short for them.
Relocations(sol, list, d, type) ==
  LET pts == PointsAt(sol, d)
  IN  IF Len(pts) <= 2
        THEN {Unchanged(sol, list)}
      ELSE IF type = 0 /\ Len(pts) > 3
        THEN {RelocateWithin(sol, list, d, p, q) : p \in Inner(pts), q \in Inner(pts)}
      ELSE IF type = 1 /\ Len(sol.days) > 1
        THEN UNION {RelocateAcross(sol, list, d, p, e) : p \in Inner(pts), e \in DOMAIN sol.days}
      ELSE IF list = <<>>
        THEN {Unchanged(sol, list)}
        ELSE {RelocateInsert(sol, list, d, pos, k) : pos \in Slots(pts), k \in DOMAIN list}

-----------------------------------------------------------------------------
(* tryHotelSwap *)

\* The tours of days d and d + 1 when they meet at hotel h.
EndingAt(sol, d, h)   == ReplaceAt(PointsAt(sol, d), Len(PointsAt(sol, d)), h)
StartingAt(sol, d, h) == ReplaceAt(PointsAt(sol, d), 1, h)

Shorter(sol, d, h) ==
  /\ h # Last(PointsAt(sol, d))
  /\ Feasible(d, EndingAt(sol, d, h))
  /\ Feasible(d + 1, StartingAt(sol, d + 1, h))
  /\ TourLength(EndingAt(sol, d, h)) + TourLength(StartingAt(sol, d + 1, h))
       < sol.days[d].dist + sol.days[d + 1].dist

\* Variant: the next day keeps its old hotel.
SwapOneHotel(sol, d, h) == Replace(sol, d, EndingAt(sol, d, h))

MeetAt(sol, d, h) == Replace(Replace(sol, d, EndingAt(sol, d, h)), d + 1, StartingAt(sol, d + 1, h))

\* Every hotel is compared with the old distance: the last one that is shorter
\* is taken, not the best one.
SwapHotel(sol, d) ==
  LET shorter == {k \in DOMAIN HotelIDs : Shorter(sol, d, HotelIDs[k])}
  IN  IF /\ Len(PointsAt(sol, d)) >= 2
         /\ Len(PointsAt(sol, d + 1)) >= 2
         /\ shorter # {}
        THEN MeetAt(sol, d, HotelIDs[Max(shorter)])
        ELSE sol

\* The number of junctions the loop visits: none in a trip of a single day.
Junctions(sol) == IF NbDays <= 1 THEN 0 ELSE Len(sol.days) - 1
=============================================================================
