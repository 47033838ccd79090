------------------------ MODULE TimetableLayout_proofs ------------------------
(***************************************************************************)
(* The layout of the timetable for any meetings: overlapping meetings do   *)
(* not share a column, no column is opened without need, and every meeting *)
(* is drawn inside its day.                                                *)
(***************************************************************************)
EXTENDS TimetableLayout, FiniteSetTheorems, TLAPS

\* Placing goes by start, so what is placed starts no later than the rest.
PlacedInOrder ==
  \A m \in Placed : \A n \in day \ Placed : m.start <= n.start

\* Every column before a meeting's own is taken by a meeting that overlaps it.
ColumnsOfNeighbours ==
  \A m \in Placed : \A k \in 0..(column[m] - 1) :
    \E n \in Placed : column[n] = k /\ Overlaps(m, n) /\ n.start <= m.start

LayoutInv ==
  /\ LayoutTypeOK
  /\ NoSharedColumn
  /\ PlacedInOrder
  /\ ColumnsOfNeighbours

LEMMA OverlapsSymmetric ==
  ASSUME NEW m, NEW n, Overlaps(m, n)
  PROVE  Overlaps(n, m)
BY DEF Overlaps

LEMMA LayoutInitInv == LayoutInit => LayoutInv
BY DEF LayoutInit, LayoutInv, LayoutTypeOK, NoSharedColumn, PlacedInOrder,
       ColumnsOfNeighbours, Placed

LEMMA RerenderInv ==
  ASSUME NEW meetings \in Renderings, Rerender(meetings)
  PROVE  LayoutInv'
BY DEF Rerender, LayoutInv, LayoutTypeOK, NoSharedColumn, PlacedInOrder,
       ColumnsOfNeighbours, Placed

LEMMA PlaceNextInv ==
  ASSUME LayoutInv, PlaceNext
  PROVE  LayoutInv'
<1>1. PICK m \in day \ Placed, c \in 0..MaxColumns :
        /\ \A n \in day \ Placed : n # m => SortedBefore(m, n)
        /\ c \notin UsedColumns(m)
        /\ \A k \in 0..(c - 1) : k \in UsedColumns(m)
        /\ column' = [n \in Placed \union {m} |-> IF n = m THEN c ELSE column[n]]
        /\ day' = day
  BY DEF PlaceNext
<1>2. /\ Placed' = Placed \union {m}
      /\ column'[m] = c
      /\ \A n \in Placed : n # m /\ column'[n] = column[n]
  BY <1>1 DEF Placed
<1>3. \A n \in day : /\ n.id \in Nat
                     /\ n.start \in Int /\ n.finish \in Int
                     /\ n.start < n.finish
  BY RenderingsAssumption DEF LayoutInv, LayoutTypeOK
<1>4. Placed \subseteq day
  BY DEF LayoutInv, LayoutTypeOK
<1>5. LayoutTypeOK'
  BY <1>1, <1>2 DEF LayoutInv, LayoutTypeOK
<1>6. \A n \in Placed : Overlaps(m, n) => column[n] # c
  BY <1>1 DEF UsedColumns
<1>7. NoSharedColumn'
  <2> SUFFICES ASSUME NEW a \in Placed', NEW b \in Placed', Overlaps(a, b)
               PROVE  column'[a] # column'[b]
    BY DEF NoSharedColumn, Overlaps
  <2>1. CASE a = m /\ b = m
    BY <2>1 DEF Overlaps
  <2>2. CASE a = m /\ b \in Placed
    BY <2>2, <1>2, <1>6
  <2>3. CASE a \in Placed /\ b = m
    BY <2>3, <1>2, <1>6, OverlapsSymmetric
  <2>4. CASE a \in Placed /\ b \in Placed
    BY <2>4, <1>2 DEF LayoutInv, NoSharedColumn
  <2> QED BY <2>1, <2>2, <2>3, <2>4, <1>2
<1>8. PlacedInOrder'
  <2> SUFFICES ASSUME NEW a \in Placed', NEW n \in day' \ Placed'
               PROVE  a.start <= n.start
    BY DEF PlacedInOrder
  <2>1. n \in day /\ n \notin Placed /\ n # m
    BY <1>1, <1>2
  <2>2. CASE a = m
    BY <2>1, <2>2, <1>1, <1>3 DEF SortedBefore
  <2>3. CASE a \in Placed
    BY <2>1, <2>3 DEF LayoutInv, PlacedInOrder
  <2> QED BY <2>2, <2>3, <1>2
<1>9. ColumnsOfNeighbours'
  <2> SUFFICES ASSUME NEW a \in Placed', NEW k \in 0..(column'[a] - 1)
               PROVE  \E n \in Placed' : /\ column'[n] = k
                                         /\ Overlaps(a, n) /\ n.start <= a.start
    BY DEF ColumnsOfNeighbours, Overlaps
  <2>1. CASE a = m
    <3>1. k \in UsedColumns(m)
      BY <2>1, <1>1, <1>2
    <3>2. PICK n \in Placed : Overlaps(m, n) /\ column[n] = k
      BY <3>1 DEF UsedColumns
    <3>3. n.start <= m.start
      BY <1>1 DEF LayoutInv, PlacedInOrder
    <3> QED BY <2>1, <3>2, <3>3, <1>2
  <2>2. CASE a \in Placed
    <3>1. PICK n \in Placed : column[n] = k /\ Overlaps(a, n) /\ n.start <= a.start
      BY <2>2, <1>2 DEF LayoutInv, ColumnsOfNeighbours
    <3> QED BY <3>1, <1>2
  <2> QED BY <2>1, <2>2, <1>2
<1> QED BY <1>5, <1>7, <1>8, <1>9 DEF LayoutInv

THEOREM LayoutInvariant == LayoutSpec => []LayoutInv
<1>1. LayoutInit => LayoutInv
  BY LayoutInitInv
<1>2. LayoutInv /\ [LayoutNext]_layoutVars => LayoutInv'
  <2> SUFFICES ASSUME LayoutInv, [LayoutNext]_layoutVars
               PROVE  LayoutInv'
    OBVIOUS
  <2>1. CASE PlaceNext
    BY <2>1, PlaceNextInv
  <2>2. CASE \E meetings \in Renderings : Rerender(meetings)
    BY <2>2, RerenderInv
  <2>3. CASE UNCHANGED layoutVars
    BY <2>3 DEF LayoutInv, LayoutTypeOK, NoSharedColumn, PlacedInOrder,
                ColumnsOfNeighbours, Placed, Overlaps, layoutVars
  <2> QED BY <2>1, <2>2, <2>3 DEF LayoutNext
<1> QED BY <1>1, <1>2, PTL DEF LayoutSpec

\* Two meetings that overlap are never given the same column
\* (schedule.tsx, the greedy colouring of getSessionsWithLayout).
THEOREM NoSharedColumnHolds == LayoutSpec => []NoSharedColumn
<1>1. LayoutInv => NoSharedColumn
  BY DEF LayoutInv
<1> QED BY <1>1, LayoutInvariant, PTL

LEMMA NeighboursAreNeeded ==
  ASSUME LayoutInv
  PROVE  ColumnsNeeded
<1> SUFFICES ASSUME NEW m \in Placed, NEW k \in 0..(column[m] - 1)
             PROVE  \E n \in Placed : /\ column[n] = k
                                      /\ n.start <= m.start /\ m.start < n.finish
  BY DEF ColumnsNeeded
<1>1. PICK n \in Placed : column[n] = k /\ Overlaps(m, n) /\ n.start <= m.start
  BY DEF LayoutInv, ColumnsOfNeighbours
<1> QED BY <1>1 DEF Overlaps

\* Each column before a meeting's own holds a meeting that is going on when
\* it starts: the greedy colouring opens no more columns than meetings are
\* going on at the busiest moment.
THEOREM ColumnsNeededHolds == LayoutSpec => []ColumnsNeeded
BY NeighboursAreNeeded, LayoutInvariant, PTL

LEMMA ColumnBelowTotal ==
  ASSUME LayoutInv, LaidOut, NEW m \in day
  PROVE  /\ column[m] \in Nat /\ TotalColumns(m) \in Nat
         /\ column[m] < TotalColumns(m)
<1> DEFINE S == {column[m]} \union {column[n] : n \in {o \in day : Overlaps(m, o)}}
<1>1. column[m] \in 0..MaxColumns
  BY DEF LayoutInv, LayoutTypeOK, LaidOut
<1>2. IsFiniteSet(S)
  <2>1. S \subseteq 0..MaxColumns
    BY DEF LayoutInv, LayoutTypeOK, LaidOut
  <2>2. IsFiniteSet(0..MaxColumns)
    BY MaxColumnsAssumption, FS_Interval
  <2> QED BY <2>1, <2>2, FS_Subset
<1>3. 0..column[m] \subseteq S
  <2> SUFFICES ASSUME NEW k \in 0..column[m]
               PROVE  k \in S
    OBVIOUS
  <2>1. CASE k = column[m]
    BY <2>1
  <2>2. CASE k # column[m]
    <3>1. k \in 0..(column[m] - 1) /\ m \in Placed
      BY <2>2, <1>1, MaxColumnsAssumption DEF LaidOut
    <3>2. PICK n \in Placed : column[n] = k /\ Overlaps(m, n)
      BY <3>1 DEF LayoutInv, ColumnsOfNeighbours
    <3> QED BY <3>2 DEF LaidOut
  <2> QED BY <2>1, <2>2
<1>4. Cardinality(0..column[m]) = column[m] + 1
  <2>1. column[m] \in Int /\ 0 <= column[m]
    BY <1>1, MaxColumnsAssumption
  <2> QED BY <2>1, FS_Interval
<1>5. Cardinality(0..column[m]) <= Cardinality(S)
  BY <1>2, <1>3, FS_Subset
<1>6. Cardinality(S) \in Nat
  BY <1>2, FS_CardinalityType
<1>7. TotalColumns(m) = Cardinality(S)
  BY DEF TotalColumns
<1> QED BY <1>1, <1>4, <1>5, <1>6, <1>7, MaxColumnsAssumption

\* A meeting's column is one of the columns its width is shared between, so
\* that its box ends inside the day column.
THEOREM InsideTheDayHolds == LayoutSpec => []InsideTheDay
<1>1. LayoutInv => InsideTheDay
  BY ColumnBelowTotal DEF InsideTheDay
<1> QED BY <1>1, LayoutInvariant, PTL

\* The types of the layout's state.
THEOREM LayoutTypeCorrect == LayoutSpec => []LayoutTypeOK
<1>1. LayoutInv => LayoutTypeOK
  BY DEF LayoutInv
<1> QED BY <1>1, LayoutInvariant, PTL
=============================================================================
