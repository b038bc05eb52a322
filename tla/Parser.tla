-------------------------------- MODULE Parser --------------------------------
(***************************************************************************)
(* LoadInstance (parser.go): a scanner delivers the lines of an instance   *)
(* file one by one, until the file ends or reading fails; header, Tmax, Td *)
(* and points are taken from them in that order.                           *)
(*                                                                         *)
(* A line is the sequence of its fields (strings.Fields), a blank one is   *)
(* empty.  A field is an integer, a number with decimals, a name that      *)
(* begins with H, or another word; of a number, which may be negative, only *)
(* what tells it from another is kept.                                     *)
(***************************************************************************)
EXTENDS Integers, Sequences, SequencesExt, FiniteSetsExt

CONSTANTS
  Lines,           \* the lines a file may have
  MaxLines,
  Distance(_, _),  \* of two places <<X, Y>>
  None             \* no instance, no error

Field == [kind : {"int", "decimal", "hotel", "word"}, value : Int]

ASSUME LinesAssumption == Lines \subseteq Seq(Field) /\ MaxLines \in Nat

Errors == {"open", "header", "Tmax", "Td", "reading"}

Point == [ID : Nat, Type : {"hotel", "site"}, X : Int, Y : Int, Score : Int,
          ServiceTime : Int, OpenTime : Int, CloseTime : Int]

Instance ==
  [NbDays : Int, MaxDist : Int, MaxDistPerDay : Seq(Int), Points : Seq(Point),
   HotelIDs : Seq(Nat), SiteIDs : Seq(Nat), DistMatrix : Seq(Seq(Nat)),
   StartHotelID : {0}, EndHotelID : {0, 1}]

ASSUME NoneAssumption == None \notin Errors /\ None \notin Instance

VARIABLES
  read,           \* the lines delivered so far
  pc,             \* which loop over scanner.Scan() runs
  dCount, tMax, maxDistPerDay,
  points, hotelIDs, siteIDs,
  broken,         \* scanner.Err() # nil
  inst, err       \* what is returned

budget == <<dCount, tMax, maxDistPerDay>>
ids    == <<points, hotelIDs, siteIDs>>
result == <<inst, err>>
vars   == <<read, pc, budget, ids, broken, result>>

Init ==
  /\ read = <<>> /\ pc = "open"
  /\ dCount = 0 /\ tMax = 0 /\ maxDistPerDay = <<>>
  /\ points = <<>> /\ hotelIDs = <<>> /\ siteIDs = <<>>
  /\ broken = FALSE /\ inst = None /\ err = None

-----------------------------------------------------------------------------
(* Conversions *)

Numbers == {f \in Field : f.kind \in {"int", "decimal"}}

IsNumber(f) == f \in Numbers

\* What a loop over s that passes over all but the elements of T collects.
Those(s, T) ==
  LET collected[i \in 0 .. Len(s)] ==
        IF i = 0 THEN <<>>
        ELSE IF s[i] \in T THEN Append(collected[i - 1], s[i])
        ELSE collected[i - 1]
  IN  collected[Len(s)]

\* A dropped error leaves the value strconv returns with it.
ParseFloat(f) == IF IsNumber(f) THEN f.value ELSE 0
Atoi(f)       == IF f.kind = "int" THEN f.value ELSE 0

-----------------------------------------------------------------------------
(* The loops *)

Loops == {"header", "Tmax", "Td", "points"}

Scan(line) == Len(read) < MaxLines /\ read' = Append(read, line)

Fail(e) == pc' = "return" /\ err' = e /\ UNCHANGED inst

\* os.Open
Open ==
  /\ pc = "open"
  /\ \/ pc' = "header" /\ UNCHANGED result
     \/ Fail("open")
  /\ UNCHANGED <<read, budget, ids, broken>>

\* strings.TrimSpace leaves nothing of it; all four loops go on.
BlankLine ==
  /\ pc \in Loops /\ <<>> \in Lines /\ Scan(<<>>)
  /\ UNCHANGED <<pc, budget, ids, broken, result>>

\* Variant: D is taken for the second number of the line.
HeaderSecond ==
  \E line \in Lines \ {<<>>} :
    /\ pc = "header" /\ Scan(line)
    /\ \/ Len(line) < 3 /\ Fail("header") /\ UNCHANGED dCount
       \/ Len(line) >= 3 /\ pc' = "Tmax" /\ dCount' = Atoi(line[2]) /\ UNCHANGED result
    /\ UNCHANGED <<tMax, maxDistPerDay, ids, broken>>

\* N and H are not used.
Header ==
  \E line \in Lines \ {<<>>} :
    /\ pc = "header" /\ Scan(line)
    /\ \/ Len(line) < 3 /\ Fail("header") /\ UNCHANGED dCount
       \/ Len(line) >= 3 /\ pc' = "Tmax" /\ dCount' = Atoi(line[3]) /\ UNCHANGED result
    /\ UNCHANGED <<tMax, maxDistPerDay, ids, broken>>

Tmax ==
  \E line \in Lines \ {<<>>} :
    /\ pc = "Tmax" /\ Scan(line)
    /\ LET number == Len(line) = 1 /\ IsNumber(line[1])
       IN  \/ ~number /\ Fail("Tmax") /\ UNCHANGED tMax
           \/ number /\ pc' = "Td" /\ tMax' = ParseFloat(line[1]) /\ UNCHANGED result
    /\ UNCHANGED <<dCount, maxDistPerDay, ids, broken>>

\* Fields that are no numbers are left out.
Budgets(line) ==
  [d \in DOMAIN Those(line, Numbers) |-> ParseFloat(Those(line, Numbers)[d])]

Td ==
  \E line \in Lines \ {<<>>} :
    /\ pc = "Td" /\ Scan(line)
    /\ maxDistPerDay' = Budgets(line)
    /\ pc' = "points"
    /\ UNCHANGED <<dCount, tMax, ids, broken, result>>

\* The point of a row, under the number id.
PointOf(row, id) ==
  [ID |-> id, Type |-> IF row[1].kind = "hotel" THEN "hotel" ELSE "site",
   X |-> ParseFloat(row[2]), Y |-> ParseFloat(row[3]), Score |-> ParseFloat(row[4]),
   ServiceTime |-> ParseFloat(row[5]), OpenTime |-> ParseFloat(row[6]),
   CloseTime |-> ParseFloat(row[7])]

\* Variant: the number of the line, of which three come before the rows.
RowByLine ==
  \E line \in Lines \ {<<>>} :
    /\ pc = "points" /\ Scan(line)
    /\ \/ Len(line) < 7 /\ UNCHANGED ids
       \/ /\ Len(line) >= 7
          /\ LET p == PointOf(line, Len(read) - 3)
             IN  /\ points' = Append(points, p)
                 /\ \/ p.Type = "hotel" /\ hotelIDs' = Append(hotelIDs, p.ID) /\ UNCHANGED siteIDs
                    \/ p.Type = "site" /\ siteIDs' = Append(siteIDs, p.ID) /\ UNCHANGED hotelIDs
    /\ UNCHANGED <<pc, budget, broken, result>>

\* A row with fewer than seven fields is skipped; idCounter is the number of
\* points so far.
Row ==
  \E line \in Lines \ {<<>>} :
    /\ pc = "points" /\ Scan(line)
    /\ \/ Len(line) < 7 /\ UNCHANGED ids
       \/ /\ Len(line) >= 7
          /\ LET p == PointOf(line, Len(points))
             IN  /\ points' = Append(points, p)
                 /\ \/ p.Type = "hotel" /\ hotelIDs' = Append(hotelIDs, p.ID) /\ UNCHANGED siteIDs
                    \/ p.Type = "site" /\ siteIDs' = Append(siteIDs, p.ID) /\ UNCHANGED hotelIDs
    /\ UNCHANGED <<pc, budget, broken, result>>

-----------------------------------------------------------------------------
(* The end of the file, or of what can be read *)

Place(p) == <<p.X, p.Y>>

\* The Euclidean distance is a metric on the places the rows name.
ASSUME DistanceAssumption ==
  LET Places == {Place(PointOf(row, 0)) : row \in {line \in Lines : Len(line) >= 7}}
  IN  \A p, q, r \in Places :
        /\ Distance(p, q) \in Nat /\ Distance(p, q) = Distance(q, p)
        /\ Distance(p, r) <= Distance(p, q) + Distance(q, r)

\* ComputeDistMatrix: the upper half is computed, the lower one copied.
DistMatrixOf(pts) ==
  LET Between(p, q) == Distance(Place(pts[p]), Place(pts[q]))
  IN  [p \in DOMAIN pts |-> [q \in DOMAIN pts |->
         IF p = q THEN 0 ELSE IF p < q THEN Between(p, q) ELSE Between(q, p)]]

\* Points are counted from 0; a matrix row p + 1 is that of point p.
InstanceOf(days, tmax, td, pts, hotels, sites) ==
  [NbDays |-> days, MaxDist |-> tmax, MaxDistPerDay |-> td, Points |-> pts,
   HotelIDs |-> hotels, SiteIDs |-> sites, DistMatrix |-> DistMatrixOf(pts),
   StartHotelID |-> 0, EndHotelID |-> IF Len(pts) >= 2 THEN 1 ELSE 0]

Accept ==
  /\ pc' = "return" /\ UNCHANGED err
  /\ inst' = InstanceOf(dCount, tMax, maxDistPerDay, points, hotelIDs, siteIDs)

\* Variant: scanner.Err() is not looked at.
EndUnchecked ==
  /\ pc \in Loops /\ broken' \in BOOLEAN
  /\ IF pc # "points" THEN Fail(pc) ELSE Accept
  /\ UNCHANGED <<read, budget, ids>>

\* Variant: an error among the points is reported as one of its loop.
EndByLoop ==
  /\ pc \in Loops /\ broken' \in BOOLEAN
  /\ IF pc = "points" /\ ~broken' THEN Accept ELSE Fail(pc)
  /\ UNCHANGED <<read, budget, ids>>

\* Scan() returns false, at the end of the file or because a line cannot be read
\* (or is too long); only the last loop asks which.
End ==
  /\ pc \in Loops /\ broken' \in BOOLEAN
  /\ \/ pc # "points" /\ Fail(pc)
     \/ pc = "points" /\ broken' /\ Fail("reading")
     \/ pc = "points" /\ ~broken' /\ Accept
  /\ UNCHANGED <<read, budget, ids>>

Returned == pc = "return" /\ UNCHANGED vars

Next == Open \/ BlankLine \/ Header \/ Tmax \/ Td \/ Row \/ End \/ Returned

Spec == Init /\ [][Next]_vars
-----------------------------------------------------------------------------
(* Properties *)

TypeOK ==
  /\ read \in Seq(Lines) /\ Len(read) <= MaxLines
  /\ pc \in {"open", "header", "Tmax", "Td", "points", "return"}
  /\ dCount \in Int /\ tMax \in Int /\ maxDistPerDay \in Seq(Int)
  /\ points \in Seq(Point) /\ hotelIDs \in Seq(Nat) /\ siteIDs \in Seq(Nat)
  /\ broken \in BOOLEAN
  /\ inst \in Instance \cup {None} /\ err \in Errors \cup {None}

Increasing(s) == \A i, j \in DOMAIN s : i < j => s[i] < s[j]

\* However rows are skipped, a point's ID is its index in Points, and each index is
\* in exactly one of HotelIDs and SiteIDs, in file order: all the rest of the
\* program goes from IDs to points and matrix rows by index.
IdsArePositions ==
  /\ \A i \in DOMAIN points : points[i].ID = i - 1
  /\ Increasing(hotelIDs) /\ Increasing(siteIDs)
  /\ ToSet(hotelIDs) = {i - 1 : i \in {j \in DOMAIN points : points[j].Type = "hotel"}}
  /\ ToSet(siteIDs) = {i - 1 : i \in {j \in DOMAIN points : points[j].Type = "site"}}

\* What the description of the format makes of a whole file.
Text(file) == Those(file, {line \in Lines : line # <<>>})
Rows(file) == Those(SubSeq(Text(file), 4, Len(Text(file))), {line \in Lines : Len(line) >= 7})

PointsOf(rows) == [i \in DOMAIN rows |-> PointOf(rows[i], i - 1)]

\* The positions, counted from 0, of the points of a type.
Named(pts, type) ==
  Those([i \in DOMAIN pts |-> i - 1], {p \in 0 .. Len(pts) - 1 : pts[p + 1].Type = type})

Reading(file) ==
  LET text == Text(file)
      pts  == PointsOf(Rows(file))
  IN  InstanceOf(Atoi(text[1][3]), ParseFloat(text[2][1]), Budgets(text[3]),
                 pts, Named(pts, "hotel"), Named(pts, "site"))

\* An instance is returned only if every line of the file has been read, and then
\* it is the one the file describes: a reading error at whichever line never
\* yields a part of the points.
WholeFileOrError ==
  /\ inst = None \/ err = None
  /\ pc = "return" => inst # None \/ err # None
  /\ inst # None => ~broken /\ inst = Reading(read)

IsAmount(f) == IsNumber(f) /\ f.value >= 0

\* The format description: three numbers N, H and D, a budget for each of the D
\* days, H + 2 hotels and then the sites, at any coordinates, with scores and times
\* that are not negative.  The description has N - 2 sites, the files in instances/
\* have N - 1; the parser counts neither, and both are files of the format here.
OfTheFormat(file) ==
  LET text   == Text(file)
      rows   == SubSeq(text, 4, Len(text))
      hotels == text[1][2].value + 2
  IN  /\ Len(text) >= 5
      /\ Len(text[1]) = 3 /\ \A i \in 1 .. 3 : text[1][i].kind = "int" /\ IsAmount(text[1][i])
      /\ Len(text[2]) = 1 /\ IsAmount(text[2][1])
      /\ Len(text[3]) = text[1][3].value /\ \A i \in DOMAIN text[3] : IsAmount(text[3][i])
      /\ Len(rows) - hotels \in {text[1][1].value - 2, text[1][1].value - 1}
      /\ \A r \in DOMAIN rows :
           /\ Len(rows[r]) = 7 /\ IsNumber(rows[r][2]) /\ IsNumber(rows[r][3])
           /\ \A i \in 4 .. 7 : IsAmount(rows[r][i])
           /\ rows[r][1].kind = "hotel" <=> r <= hotels

\* What the rest of the program takes for granted of an instance (the assumptions
\* of Itinerary).
Usable(i) ==
  LET n == Len(i.Points)
  IN  /\ i.NbDays > 0 /\ Len(i.MaxDistPerDay) = i.NbDays
      /\ {i.MaxDist} \cup ToSet(i.MaxDistPerDay) \subseteq Nat
      /\ \A p \in ToSet(i.Points) :
           {p.Score, p.ServiceTime, p.OpenTime, p.CloseTime} \subseteq Nat
      /\ ToSet(i.HotelIDs) \cup ToSet(i.SiteIDs) = 0 .. n - 1
      /\ ToSet(i.HotelIDs) \cap ToSet(i.SiteIDs) = {} /\ IsInjective(i.SiteIDs)
      /\ {i.StartHotelID, i.EndHotelID} \subseteq ToSet(i.HotelIDs)
      /\ \A p, q, r \in 1 .. n :
           /\ i.DistMatrix[p][p] = 0 /\ i.DistMatrix[p][q] = i.DistMatrix[q][p]
           /\ i.DistMatrix[p][r] <= i.DistMatrix[p][q] + i.DistMatrix[q][r]

\* A file of the format that can be read is accepted, wherever it has blank lines,
\* and gives an instance the rest of the program can work with.
FormatIsUsable ==
  pc = "return" /\ ~broken /\ OfTheFormat(read) => inst # None /\ Usable(inst)
=============================================================================
