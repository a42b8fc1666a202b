----------------------------- MODULE SeatProofs -----------------------------
(***************************************************************************)
(* Proofs about SeatAllocation and SeatSearch for any zone, any number of  *)
(* allocations and releases, and any sizes of groups.  Inductions over the *)
(* list of seats look at the least place where a claim would fail.         *)
(***************************************************************************)
EXTENDS SeatSearch, FiniteSetTheorems, TLAPS

(* A set of numbers that is not empty has a least one.                     *)
LEMMA LeastNumber ==
    ASSUME NEW T \in SUBSET Nat, T # {}
    PROVE  \E x \in T : \A y \in T : ~(y < x)
<1>1. PICK x \in T : \A y \in T : ~(<<y, x>> \in OpToRel(<, Nat))
  BY NatLessThanWellFounded, WFMin
<1>2. \A y \in T : y < x => <<y, x>> \in OpToRel(<, Nat)
  BY DEF OpToRel
<1>3. QED
  BY <1>1, <1>2

(* ORDER BY row, seatNumber puts one of any seats first.                   *)
LEMMA FirstSeat ==
    ASSUME NEW T \in SUBSET Seats, T # {}
    PROVE  \E s \in T : \A o \in T : ~SeatBefore(o, s)
<1> \A s \in T : s.row \in Nat /\ s.seatNumber \in Nat
  BY SeatsAssumption
<1> DEFINE rows == {s.row : s \in T}
<1>0. rows # {} /\ rows \in SUBSET Nat
  OBVIOUS
<1>1. PICK row \in rows : \A x \in rows : ~(x < row)
  <2> HIDE DEF rows
  <2>1. QED
    BY <1>0, LeastNumber
<1> DEFINE numbers == {s.seatNumber : s \in {o \in T : o.row = row}}
<1>2. numbers # {} /\ numbers \in SUBSET Nat
  BY <1>1
<1>3. PICK number \in numbers : \A x \in numbers : ~(x < number)
  <2> HIDE DEF numbers
  <2>1. QED
    BY <1>2, LeastNumber
<1>4. PICK s \in T : s.row = row /\ s.seatNumber = number
  BY <1>3
<1>5. \A o \in T : ~SeatBefore(o, s)
  BY <1>1, <1>3, <1>4 DEF SeatBefore
<1>6. QED
  BY <1>5

(* FirstGroup, and so the loop it stands for, offers seats of the set only *)
(* and something exactly when the set has a group of that size.            *)
LEMMA FirstGroupFound ==
    ASSUME NEW available \in SUBSET Seats, NEW size \in Nat \ {0}
    PROVE  /\ FirstGroup(available, size) \subseteq available
           /\ FirstGroup(available, size) = {} <=> GroupStarts(available, size) = {}
<1> DEFINE starts == GroupStarts(available, size)
           first == CHOOSE s \in starts : \A o \in starts : ~SeatBefore(o, s)
<1>1. CASE starts = {}
  BY <1>1 DEF FirstGroup
<1>2. CASE starts # {}
  <2>1. starts \subseteq available
    BY DEF GroupStarts
  <2>2. \E s \in starts : \A o \in starts : ~SeatBefore(o, s)
    BY <1>2, <2>1, FirstSeat
  <2>3. first \in starts
    BY <2>2
  <2> HIDE DEF first
  <2>4. Group(first, size) \subseteq available
    BY <2>3 DEF GroupStarts
  <2>5. 0 \in 0..(size - 1)
    OBVIOUS
  <2>6. Group(first, size) # {}
    BY <2>5 DEF Group
  <2>7. FirstGroup(available, size) = Group(first, size)
    BY <1>2 DEF FirstGroup, first
  <2>8. QED
    BY <1>2, <2>4, <2>6, <2>7
<1>3. QED
  BY <1>1, <1>2

-----------------------------------------------------------------------------
(* The for loop visits the seats one by one: the recursive function of     *)
(* Runs exists and does what its definition says.                          *)
LEMMA RunsAreIterations ==
    ASSUME NEW seats, Len(seats) \in Nat, NEW size
    PROVE  /\ Runs(seats, size)[0] = <<>>
           /\ \A i \in 1..Len(seats) :
                 Runs(seats, size)[i] = Extend(Runs(seats, size)[i - 1], seats[i], size)
<1> DEFINE F(g, n) == [i \in 0..n |-> IF i = 0 THEN <<>> ELSE Extend(g[i - 1], seats[i], size)]
           Bad == {n \in Nat : \A g : g # F(g, n)}
<1>1. Bad = {}
  <2> SUFFICES ASSUME Bad # {} PROVE FALSE
    OBVIOUS
  <2>1. PICK n \in Bad : \A m \in Bad : ~(m < n)
    <3> Bad \in SUBSET Nat
      OBVIOUS
    <3> HIDE DEF Bad
    <3> QED
      BY LeastNumber
  <2>2. CASE n = 0
    <3> DEFINE g == [i \in 0..0 |-> <<>>]
    <3>1. g = F(g, 0)
      OBVIOUS
    <3> QED
      BY <2>1, <2>2, <3>1
  <2>3. CASE n # 0
    <3>1. n - 1 \in Nat /\ n - 1 < n
      BY <2>1, <2>3
    <3>2. PICK g : g = F(g, n - 1)
      BY <2>1, <3>1
    <3> DEFINE h == [i \in 0..n |-> IF i = n THEN Extend(g[n - 1], seats[n], size) ELSE g[i]]
    <3>3. \A i \in 0..(n - 1) : h[i] = IF i = 0 THEN <<>> ELSE Extend(g[i - 1], seats[i], size)
      BY <3>1, <3>2
    <3>4. \A i \in 0..(n - 1) : h[i] = g[i]
      BY <3>1
    <3>5. h[n] = Extend(h[n - 1], seats[n], size)
      BY <3>1, <3>4
    <3>6. \A i \in 0..n : h[i] = IF i = 0 THEN <<>> ELSE Extend(h[i - 1], seats[i], size)
      <4> TAKE i \in 0..n
      <4>1. CASE i = n
        BY <4>1, <3>5, <2>3
      <4>2. CASE i # n /\ i # 0
        <5>1. i \in 0..(n - 1) /\ i - 1 \in 0..(n - 1)
          BY <4>2, <2>1, <3>1
        <5> HIDE DEF h
        <5> QED
          BY <5>1, <4>2, <3>3, <3>4
      <4>3. CASE i # n /\ i = 0
        <5>1. 0 \in 0..(n - 1)
          BY <3>1
        <5> HIDE DEF h
        <5> QED
          BY <5>1, <4>3, <3>3
      <4> QED
        BY <4>1, <4>2, <4>3
    <3>7. h = F(h, n)
      <4> h = [i \in 0..n |-> h[i]]
        OBVIOUS
      <4> HIDE DEF h
      <4> QED
        BY <3>6
    <3> QED
      BY <2>1, <3>7
  <2> QED
    BY <2>2, <2>3
<1>2. \E g : g = F(g, Len(seats))
  BY <1>1
<1>3. Runs(seats, size) = CHOOSE g : g = F(g, Len(seats))
  BY DEF Runs
<1>4. Runs(seats, size) = F(Runs(seats, size), Len(seats))
  BY <1>2, <1>3
<1>5. QED
  BY <1>4

-----------------------------------------------------------------------------
(* The m-th seat to the right of s.                                        *)
RightOf(s, m) == [row |-> s.row, seatNumber |-> s.seatNumber + m]

(* seats lists the set in the order of the query.                          *)
InOrder(seats, set) ==
    /\ seats \in Seq(set)
    /\ \A s \in set : \E i \in 1..Len(seats) : seats[i] = s
    /\ \A i, j \in 1..Len(seats) : i < j => SeatBefore(seats[i], seats[j])

(* A seat is its row and its number.                                       *)
LEMMA SeatIsRecord ==
    \A s \in Seats : /\ s = [row |-> s.row, seatNumber |-> s.seatNumber]
                     /\ s.row \in Nat /\ s.seatNumber \in Nat
  BY SeatsAssumption

(* What stands in the list.                                                *)
LEMMA ListedSeats ==
    ASSUME NEW set \in SUBSET Seats, NEW seats, InOrder(seats, set)
    PROVE  /\ Len(seats) \in Nat
           /\ \A k \in 1..Len(seats) : seats[k] \in set /\ seats[k] \in Seats
<1>1. seats \in Seq(set)
  BY DEF InOrder
<1>2. QED
  BY <1>1

(* The query's order is strict and total.                                  *)
LEMMA SeatOrder ==
    ASSUME NEW a \in Seats, NEW b \in Seats
    PROVE  /\ ~SeatBefore(a, a)
           /\ ~(SeatBefore(a, b) /\ SeatBefore(b, a))
           /\ a # b => SeatBefore(a, b) \/ SeatBefore(b, a)
           /\ \A c \in Seats : SeatBefore(a, b) /\ SeatBefore(b, c) => SeatBefore(a, c)
  BY SeatIsRecord DEF SeatBefore

(* A seat's number of predecessors is its place in the order, so the       *)
(* places are taken by one seat each.                                      *)
LEMMA OrderedIsInOrder ==
    ASSUME NEW set \in SUBSET Seats, IsFiniteSet(set)
    PROVE  InOrder(Ordered(set), set)
<1> DEFINE n == Cardinality(set)
           Smaller(s) == {o \in set : SeatBefore(o, s)}
           place == [s \in set |-> Cardinality(Smaller(s))]
<1>1. n \in Nat
  BY FS_CardinalityType
<1>2. \A s \in set : IsFiniteSet(Smaller(s)) /\ place[s] \in 0..(n - 1)
  <2> TAKE s \in set
  <2>1. Smaller(s) \in SUBSET set /\ s \notin Smaller(s)
    BY SeatOrder
  <2> HIDE DEF Smaller
  <2>2. IsFiniteSet(Smaller(s)) /\ Cardinality(Smaller(s)) <= n /\ Cardinality(Smaller(s)) # n
    BY <2>1, FS_Subset
  <2>3. Cardinality(Smaller(s)) \in Nat
    BY <2>2, FS_CardinalityType
  <2> QED
    BY <1>1, <2>2, <2>3
<1>p. \A s \in set : place[s] \in Nat /\ place[s] = Cardinality(Smaller(s)) /\ place[s] < n
  <2> HIDE DEF Smaller, n
  <2> QED
    BY <1>1, <1>2
<1>3. \A s, t \in set : SeatBefore(s, t) => place[s] < place[t]
  <2> TAKE s \in set, t \in set
  <2> HAVE SeatBefore(s, t)
  <2>1. Smaller(s) \in SUBSET Smaller(t) /\ s \in Smaller(t) /\ s \notin Smaller(s)
    BY SeatOrder
  <2>2. Cardinality(Smaller(s)) <= Cardinality(Smaller(t))
        /\ Cardinality(Smaller(s)) # Cardinality(Smaller(t))
    <3>1. IsFiniteSet(Smaller(t))
      BY <1>2
    <3> HIDE DEF Smaller
    <3> QED
      BY <2>1, <3>1, FS_Subset
  <2> QED
    <3> HIDE DEF place, Smaller
    <3> QED
      BY <1>p, <2>2
<1>4. \A s, t \in set : place[s] = place[t] => s = t
  <2> TAKE s \in set, t \in set
  <2> HAVE place[s] = place[t]
  <2>1. place[s] \in Nat /\ ~(place[s] < place[t]) /\ ~(place[t] < place[s])
    <3> HIDE DEF place, Smaller, n
    <3> QED
      BY <1>p
  <2> HIDE DEF place
  <2> QED
    BY <2>1, <1>3, SeatOrder
<1>5. place \in Surjection(set, 0..(n - 1))
  <2>1. place \in Injection(set, 0..(n - 1))
    <3>1. place \in [set -> 0..(n - 1)]
      BY <1>2
    <3> HIDE DEF place
    <3> QED
      BY <3>1, <1>4 DEF Injection, IsInjective
  <2>2. IsFiniteSet(0..(n - 1)) /\ Cardinality(0..(n - 1)) = n
    <3>1. 0 \in Int /\ n - 1 \in Int /\ (0 > n - 1 => n = 0) /\ n - 1 - 0 + 1 = n
      BY <1>1
    <3> HIDE DEF n
    <3> QED
      BY <3>1, FS_Interval
  <2> HIDE DEF place
  <2> QED
    BY <2>1, <2>2, FS_Injection
<1>6. \A i \in 1..n : Ordered(set)[i] \in set /\ place[Ordered(set)[i]] = i - 1
  <2> TAKE i \in 1..n
  <2>1. i - 1 \in 0..(n - 1)
    BY <1>1
  <2>2. \E s \in set : place[s] = i - 1
    <3> HIDE DEF place
    <3> QED
      BY <1>5, <2>1 DEF Surjection
  <2>3. Ordered(set)[i] = CHOOSE s \in set : Cardinality(Smaller(s)) = i - 1
    BY DEF Ordered
  <2>4. \E s \in set : Cardinality(Smaller(s)) = i - 1
    BY <2>2
  <2> QED
    BY <2>3, <2>4
<1>7. Ordered(set) \in Seq(set) /\ Len(Ordered(set)) = n
  <2>1. Ordered(set) = [i \in 1..n |-> Ordered(set)[i]]
    <3> DEFINE e(i) == CHOOSE s \in set : Cardinality(Smaller(s)) = i - 1
    <3>1. Ordered(set) = [i \in 1..n |-> e(i)]
      BY DEF Ordered
    <3> HIDE DEF e, n
    <3> QED
      BY <3>1
  <2>2. Ordered(set) \in [1..n -> set]
    BY <2>1, <1>6
  <2> HIDE DEF n
  <2> QED
    BY <1>1, <2>2
<1>8. \A s \in set : \E i \in 1..n : Ordered(set)[i] = s
  <2> TAKE s \in set
  <2>1. place[s] + 1 \in 1..n
    <3> HIDE DEF place, Smaller, n
    <3> QED
      BY <1>1, <1>p
  <2>2. place[Ordered(set)[place[s] + 1]] = place[s]
    <3>1. place[s] \in Nat
      BY <1>p
    <3> HIDE DEF place
    <3> QED
      BY <1>6, <2>1, <3>1
  <2> HIDE DEF place, n
  <2> QED
    BY <1>4, <1>6, <2>1, <2>2
<1>9. \A i, j \in 1..n : i < j => SeatBefore(Ordered(set)[i], Ordered(set)[j])
  <2> TAKE i \in 1..n, j \in 1..n
  <2> HAVE i < j
  <2> DEFINE a == Ordered(set)[i]
             b == Ordered(set)[j]
  <2>1. a \in set /\ b \in set /\ place[a] = i - 1 /\ place[b] = j - 1
    BY <1>6
  <2> HIDE DEF place, n, a, b
  <2>2. ~(place[b] < place[a]) /\ a # b
    BY <2>1, <1>1
  <2>3. SeatBefore(a, b)
    BY <2>1, <2>2, <1>3, SeatOrder
  <2> QED
    BY <2>3 DEF a, b
<1>10. QED
  BY <1>7, <1>8, <1>9 DEF InOrder

(* Nothing comes between a seat and its neighbour.                         *)
LEMMA NeighbourIsNext ==
    ASSUME NEW set \in SUBSET Seats, NEW seats, InOrder(seats, set),
           NEW i \in 1..Len(seats), RightOf(seats[i], 1) \in set
    PROVE  i + 1 \in 1..Len(seats) /\ seats[i + 1] = RightOf(seats[i], 1)
<1>1. PICK j \in 1..Len(seats) : seats[j] = RightOf(seats[i], 1)
  BY DEF InOrder
<1>2. Len(seats) \in Nat /\ \A k \in 1..Len(seats) :
          seats[k] \in set /\ seats[k].row \in Nat /\ seats[k].seatNumber \in Nat
  BY ListedSeats, SeatIsRecord
<1> DEFINE Increasing == \A x, y \in 1..Len(seats) : x < y => SeatBefore(seats[x], seats[y])
<1>i. Increasing
  BY DEF InOrder
<1>3. seats[j].row = seats[i].row /\ seats[j].seatNumber = seats[i].seatNumber + 1
  BY <1>1 DEF RightOf
<1>4. ~(j < i) /\ j # i
  BY <1>i, <1>2, <1>3 DEF SeatBefore
<1>5. i + 1 \in 1..Len(seats)
  BY <1>2, <1>4
<1>6. ~(i + 1 < j)
  <2>1. SUFFICES ASSUME i + 1 < j PROVE FALSE
    OBVIOUS
  <2>2. SeatBefore(seats[i], seats[i + 1]) /\ SeatBefore(seats[i + 1], seats[j])
    BY <1>i, <1>2, <1>5, <2>1
  <2> QED
    BY <1>2, <1>3, <1>5, <2>2 DEF SeatBefore
<1>7. j = i + 1
  BY <1>2, <1>4, <1>6
<1>8. QED
  BY <1>1, <1>5, <1>7

(* The list has size neighbours at place b and after.                      *)
SideBySide(seats, b, size) ==
    \A m \in 0..(size - 1) : b + m \in 1..Len(seats) /\ seats[b + m] = RightOf(seats[b], m)

(* So the seats of a group stand side by side in the list.                 *)
LEMMA GroupStandsTogether ==
    ASSUME NEW set \in SUBSET Seats, NEW seats, InOrder(seats, set),
           NEW size \in Nat \ {0}, NEW b \in 1..Len(seats), Group(seats[b], size) \subseteq set
    PROVE  SideBySide(seats, b, size)
<1> DEFINE Bad == {m \in 0..(size - 1) :
                      ~(b + m \in 1..Len(seats) /\ seats[b + m] = RightOf(seats[b], m))}
<1>0. /\ Len(seats) \in Nat
      /\ \A k \in 1..Len(seats) : /\ seats[k] = [row |-> seats[k].row, seatNumber |-> seats[k].seatNumber]
                                  /\ seats[k].row \in Nat /\ seats[k].seatNumber \in Nat
  BY ListedSeats, SeatIsRecord
<1> SUFFICES ASSUME Bad # {} PROVE FALSE
  BY DEF SideBySide
<1>1. PICK m \in Bad : \A x \in Bad : ~(x < m)
  <2> Bad \in SUBSET Nat
    OBVIOUS
  <2> HIDE DEF Bad
  <2> QED
    BY LeastNumber
<1>2. CASE m = 0
  <2>1. b + 0 = b /\ b \in 1..Len(seats) /\ seats[b] = RightOf(seats[b], 0)
    <3> HIDE DEF Bad
    <3>1. seats[b].seatNumber \in Nat /\ seats[b] = [row |-> seats[b].row, seatNumber |-> seats[b].seatNumber]
      BY <1>0
    <3>2. seats[b].seatNumber + 0 = seats[b].seatNumber /\ b + 0 = b
      BY <1>0, <3>1
    <3> QED
      BY <3>1, <3>2 DEF RightOf
  <2> QED
    BY <1>1, <1>2, <2>1
<1>3. CASE m # 0
  <2>1. m - 1 \in 0..(size - 1) /\ m - 1 < m /\ m \in Nat
    BY <1>1, <1>3
  <2>2. b + (m - 1) \in 1..Len(seats) /\ seats[b + (m - 1)] = RightOf(seats[b], m - 1)
    BY <1>1, <2>1
  <2>3. RightOf(seats[b + (m - 1)], 1) = RightOf(seats[b], m)
    <3>1. seats[b + (m - 1)].row = seats[b].row
          /\ seats[b + (m - 1)].seatNumber = seats[b].seatNumber + (m - 1)
      BY <2>2 DEF RightOf
    <3>2. seats[b].seatNumber \in Nat /\ seats[b].seatNumber + (m - 1) + 1 = seats[b].seatNumber + m
      <4> HIDE DEF Bad
      <4>1. seats[b].seatNumber \in Nat
        BY <1>0
      <4> QED
        BY <4>1, <2>1
    <3> QED
      BY <3>1, <3>2 DEF RightOf
  <2>4. RightOf(seats[b], m) \in set
    BY <1>1 DEF Group, RightOf
  <2>5. /\ b + (m - 1) + 1 \in 1..Len(seats)
        /\ seats[b + (m - 1) + 1] = RightOf(seats[b], m)
    BY <2>2, <2>3, <2>4, NeighbourIsNext
  <2>6. b + (m - 1) + 1 = b + m
    BY <1>0, <2>1
  <2> QED
    BY <1>1, <2>5, <2>6
<1>4. QED
  BY <1>2, <1>3

-----------------------------------------------------------------------------
(* After i iterations the run is a stretch of neighbours that begins at    *)
(* place b and, unless it has the size, ends at place i; no group begins   *)
(* before it.                                                              *)
RunBegins(seats, set, size, i, run, b) ==
    /\ run \in Seq(Seats)
    /\ Len(run) \in 1..size
    /\ b \in 1..i
    /\ b + Len(run) - 1 <= i
    /\ Len(run) < size => b + Len(run) - 1 = i
    /\ \A m \in 0..(Len(run) - 1) : /\ run[m + 1] = RightOf(seats[b], m)
                                    /\ seats[b + m] = RightOf(seats[b], m)
    /\ \A c \in 1..(b - 1) : ~(Group(seats[c], size) \subseteq set)

(* Whatever begins a run of its own is one.                                *)
LEMMA NewRun ==
    ASSUME NEW set \in SUBSET Seats, NEW seats, InOrder(seats, set), NEW size \in Nat \ {0},
           NEW i \in 1..Len(seats), \A c \in 1..(i - 1) : ~(Group(seats[c], size) \subseteq set)
    PROVE  RunBegins(seats, set, size, i, <<seats[i]>>, i)
<1>1. seats[i] \in Seats /\ i \in Nat
  BY ListedSeats
<1>2. seats[i] = RightOf(seats[i], 0)
  BY <1>1, SeatIsRecord DEF RightOf
<1> DEFINE run == <<seats[i]>>
<1>3. run \in Seq(Seats) /\ Len(run) = 1 /\ run[1] = seats[i]
  BY <1>1
<1> HIDE DEF run
<1>4. \A m \in 0..(Len(run) - 1) : m = 0 /\ run[m + 1] = seats[i] /\ seats[i + m] = seats[i]
  BY <1>1, <1>3
<1>5. \A m \in 0..(Len(run) - 1) : /\ run[m + 1] = RightOf(seats[i], m)
                                   /\ seats[i + m] = RightOf(seats[i], m)
  BY <1>2, <1>4
<1>6. QED
  BY <1>1, <1>3, <1>5 DEF RunBegins, run

(* One iteration.  When the next seat is no neighbour, the groups that     *)
(* might have begun within the run would have had to contain it.           *)
LEMMA IterationKeeps ==
    ASSUME NEW set \in SUBSET Seats, NEW seats, InOrder(seats, set), NEW size \in Nat \ {0},
           NEW i \in Nat, i + 1 \in 1..Len(seats), NEW run, NEW b,
           RunBegins(seats, set, size, i, run, b)
    PROVE  \E d : RunBegins(seats, set, size, i + 1, Extend(run, seats[i + 1], size), d)
<1> DEFINE k == Len(run)
           next == seats[i + 1]
<1>0. /\ run \in Seq(Seats) /\ k \in 1..size /\ k \in Nat /\ b \in 1..i /\ b \in Nat
      /\ b + k - 1 <= i /\ (k < size => b + k - 1 = i)
      /\ \A c \in 1..(b - 1) : ~(Group(seats[c], size) \subseteq set)
  BY DEF RunBegins
<1>1. \A m \in 0..(k - 1) : run[m + 1] = RightOf(seats[b], m) /\ seats[b + m] = RightOf(seats[b], m)
  BY DEF RunBegins
<1>2. Len(seats) \in Nat /\ \A j \in 1..Len(seats) : seats[j] \in Seats
  BY ListedSeats
<1> HIDE DEF k
<1>3. CASE k = size
  <2>1. Extend(run, next, size) = run
    BY <1>3 DEF Extend, k
  <2>2. RunBegins(seats, set, size, i + 1, run, b)
    BY <1>0, <1>1, <1>3 DEF RunBegins, k
  <2> QED
    BY <2>1, <2>2
<1>4. CASE k # size /\ Continues(run, next)
  <2>1. Extend(run, next, size) = Append(run, next)
    <3>1. run # <<>>
      BY <1>0 DEF k
    <3> QED
      BY <1>4, <3>1 DEF Extend, k
  <2>2. b + k - 1 = i /\ b + k = i + 1 /\ k < size /\ k - 1 \in 0..(k - 1) /\ k - 1 + 1 = k
    BY <1>0, <1>4
  <2>3. Last(run) = RightOf(seats[b], k - 1)
    BY <1>1, <2>2 DEF Last, k
  <2>4. next = RightOf(seats[b], k)
    <3>1. next \in Seats /\ b \in 1..Len(seats)
      BY <1>0, <1>2
    <3>2. next.row = seats[b].row /\ next.seatNumber = seats[b].seatNumber + (k - 1) + 1
      BY <1>4, <2>3 DEF Continues, RightOf
    <3>3. seats[b].seatNumber \in Nat
      BY <1>2, <3>1, SeatIsRecord
    <3>4. next.seatNumber = seats[b].seatNumber + k
      BY <1>0, <3>2, <3>3
    <3> QED
      BY <3>1, <3>2, <3>4, SeatIsRecord DEF RightOf
  <2> DEFINE new == Append(run, next)
  <2>5. /\ new \in Seq(Seats) /\ Len(new) = k + 1
        /\ new[k + 1] = next /\ \A m \in 1..k : new[m] = run[m]
    BY <1>0, <1>2 DEF k
  <2> HIDE DEF new
  <2>6. \A m \in 0..k : new[m + 1] = RightOf(seats[b], m) /\ seats[b + m] = RightOf(seats[b], m)
    <3> TAKE m \in 0..k
    <3>1. CASE m = k
      BY <2>2, <2>4, <2>5, <3>1
    <3>2. CASE m # k
      <4>1. m \in 0..(k - 1) /\ m + 1 \in 1..k
        BY <1>0, <3>2
      <4> QED
        BY <1>1, <2>5, <4>1
    <3> QED
      BY <3>1, <3>2
  <2>7. Len(new) - 1 = k /\ Len(new) \in 1..size /\ b \in 1..(i + 1) /\ b + Len(new) - 1 = i + 1
    BY <1>0, <2>2, <2>5
  <2>8. RunBegins(seats, set, size, i + 1, new, b)
    BY <1>0, <2>5, <2>6, <2>7 DEF RunBegins
  <2> QED
    BY <2>1, <2>8 DEF new
<1>5. CASE k # size /\ ~Continues(run, next)
  <2>1. Extend(run, next, size) = <<next>>
    BY <1>5 DEF Extend, k
  <2>2. b + k - 1 = i /\ k < size /\ k - 1 \in 0..(k - 1) /\ k - 1 + 1 = k /\ b + (k - 1) = i
    BY <1>0, <1>5
  <2>3. Last(run) = seats[i]
    BY <1>1, <2>2 DEF Last, k
  <2>4. ASSUME NEW c \in b..i, Group(seats[c], size) \subseteq set
        PROVE  FALSE
    <3>1. c \in 1..Len(seats) /\ c \in Nat /\ i - c \in 0..(size - 1) /\ i + 1 - c \in 0..(size - 1)
          /\ c + (i - c) = i /\ c + (i + 1 - c) = i + 1
      BY <1>0, <1>2, <2>2
    <3>2. \A m \in 0..(size - 1) : c + m \in 1..Len(seats) /\ seats[c + m] = RightOf(seats[c], m)
      <4>1. SideBySide(seats, c, size)
        BY <2>4, <3>1, GroupStandsTogether
      <4> QED
        BY <4>1 DEF SideBySide
    <3>3. seats[i] = RightOf(seats[c], i - c) /\ next = RightOf(seats[c], i + 1 - c)
      BY <3>1, <3>2
    <3>4. seats[c].seatNumber \in Nat
      BY <1>2, <3>1, SeatIsRecord
    <3>5. next.row = seats[i].row /\ next.seatNumber = seats[i].seatNumber + 1
      <4>1. /\ seats[i].row = seats[c].row /\ seats[i].seatNumber = seats[c].seatNumber + (i - c)
            /\ next.row = seats[c].row /\ next.seatNumber = seats[c].seatNumber + (i + 1 - c)
        BY <3>3 DEF RightOf
      <4>2. i - c \in Nat /\ i + 1 - c = (i - c) + 1
        BY <3>1
      <4>3. \A x, y \in Nat : x + (y + 1) = (x + y) + 1
        OBVIOUS
      <4> HIDE DEF next
      <4> QED
        BY <3>4, <4>1, <4>2, <4>3
    <3> QED
      BY <1>5, <2>3, <3>5 DEF Continues
  <2>5. \A c \in 1..(i + 1 - 1) : ~(Group(seats[c], size) \subseteq set)
    <3> TAKE c \in 1..(i + 1 - 1)
    <3>1. c \in 1..(b - 1) \/ c \in b..i
      BY <1>0
    <3> QED
      BY <1>0, <2>4, <3>1
  <2>6. RunBegins(seats, set, size, i + 1, <<next>>, i + 1)
    BY <2>5, NewRun
  <2> QED
    BY <2>1, <2>6
<1>6. QED
  BY <1>3, <1>4, <1>5

(* And so all of them.                                                     *)
LEMMA LoopKeeps ==
    ASSUME NEW set \in SUBSET Seats, NEW seats, InOrder(seats, set), NEW size \in Nat \ {0}
    PROVE  \A i \in 1..Len(seats) : \E b : RunBegins(seats, set, size, i, Runs(seats, size)[i], b)
<1> DEFINE Bad == {i \in 1..Len(seats) :
                      \A b : ~RunBegins(seats, set, size, i, Runs(seats, size)[i], b)}
<1>0. Len(seats) \in Nat
  BY ListedSeats
<1> SUFFICES ASSUME Bad # {} PROVE FALSE
  OBVIOUS
<1>1. PICK i \in Bad : \A x \in Bad : ~(x < i)
  <2> Bad \in SUBSET Nat
    BY <1>0
  <2> HIDE DEF Bad
  <2> QED
    BY LeastNumber
<1>2. CASE i = 1
  <2>1. Runs(seats, size)[1] = Extend(<<>>, seats[1], size)
    BY <1>0, <1>1, <1>2, RunsAreIterations
  <2>2. Runs(seats, size)[1] = <<seats[1]>>
    BY <2>1 DEF Extend
  <2>3. RunBegins(seats, set, size, 1, <<seats[1]>>, 1)
    BY <1>1, <1>2, NewRun
  <2> QED
    BY <1>1, <1>2, <2>2, <2>3
<1>3. CASE i # 1
  <2>1. i - 1 \in 1..Len(seats) /\ i - 1 < i /\ i - 1 \in Nat /\ i - 1 + 1 = i
    BY <1>0, <1>1, <1>3
  <2>2. PICK b : RunBegins(seats, set, size, i - 1, Runs(seats, size)[i - 1], b)
    BY <1>1, <2>1
  <2>3. \E d : RunBegins(seats, set, size, i, Extend(Runs(seats, size)[i - 1], seats[i], size), d)
    BY <2>1, <2>2, <1>1, IterationKeeps
  <2>4. Runs(seats, size)[i] = Extend(Runs(seats, size)[i - 1], seats[i], size)
    BY <1>0, <1>1, RunsAreIterations
  <2> QED
    BY <1>1, <2>3, <2>4
<1>4. QED
  BY <1>2, <1>3

(* Of the groups that begin, the first one is the one whose place is least. *)
LEMMA FirstGroupBegins ==
    ASSUME NEW set \in SUBSET Seats, NEW seats, InOrder(seats, set), NEW size \in Nat \ {0},
           NEW b \in 1..Len(seats), Group(seats[b], size) \subseteq set,
           \A c \in 1..(b - 1) : ~(Group(seats[c], size) \subseteq set)
    PROVE  FirstGroup(set, size) = Group(seats[b], size)
<1> DEFINE starts == GroupStarts(set, size)
           IsFirst(s) == \A o \in starts : ~SeatBefore(o, s)
           first == CHOOSE s \in starts : IsFirst(s)
<1>0. Len(seats) \in Nat /\ \A k \in 1..Len(seats) : seats[k] \in set /\ seats[k] \in Seats
  BY ListedSeats
<1>1. seats[b] \in starts /\ starts \subseteq set
  BY <1>0 DEF GroupStarts
<1>2. \A o \in starts : o = seats[b] \/ SeatBefore(seats[b], o)
  <2> TAKE o \in starts
  <2>1. PICK c \in 1..Len(seats) : seats[c] = o
    BY <1>1 DEF InOrder
  <2>2. ~(c \in 1..(b - 1))
    BY <2>1 DEF GroupStarts
  <2>3. c = b \/ b < c
    BY <1>0, <2>2
  <2> QED
    BY <2>1, <2>3 DEF InOrder
<1>3. IsFirst(seats[b])
  BY <1>0, <1>1, <1>2, SeatOrder
<1>4. first \in starts /\ IsFirst(first)
  <2> HIDE DEF IsFirst, starts
  <2> QED
    BY <1>1, <1>3
<1>5. first = seats[b]
  <2>1. ~SeatBefore(seats[b], first)
    BY <1>1, <1>4
  <2> HIDE DEF first
  <2> QED
    BY <1>2, <1>4, <2>1
<1>6. FirstGroup(set, size) = Group(first, size)
  <2>1. starts # {}
    BY <1>1
  <2> QED
    BY <2>1 DEF FirstGroup
<1>7. QED
  BY <1>5, <1>6

(* findConsecutiveSeats on any list in the query's order, for any size:    *)
(* the run it returns is the first group, and it returns nothing exactly   *)
(* when there is none.                                                     *)
LEMMA LoopFindsFirstGroup ==
    ASSUME NEW set \in SUBSET Seats, NEW seats, InOrder(seats, set), NEW size \in Nat \ {0}
    PROVE  ToSet(FindConsecutiveSeats(seats, size)) = FirstGroup(set, size)
<1>0. /\ Len(seats) \in Nat /\ seats \in Seq(set)
      /\ \A k \in 1..Len(seats) : seats[k] \in set /\ seats[k] \in Seats
  BY ListedSeats DEF InOrder
<1>1. CASE Len(seats) = 0
  <2>1. seats = <<>> /\ set = {}
    BY <1>0, <1>1 DEF InOrder
  <2>2. Runs(seats, size)[Len(seats)] = <<>>
    BY <1>0, <1>1, RunsAreIterations
  <2>3. FindConsecutiveSeats(seats, size) = <<>>
    BY <2>1, <2>2 DEF FindConsecutiveSeats
  <2>4. FirstGroup(set, size) = {}
    BY <2>1 DEF FirstGroup, GroupStarts
  <2>5. ToSet(<<>>) = {}
    BY DEF ToSet
  <2> QED
    BY <2>3, <2>4, <2>5
<1>2. CASE Len(seats) # 0 /\ size = 1
  <2>1. seats # <<>> /\ 1 \in 1..Len(seats) /\ Head(seats) = seats[1]
    BY <1>0, <1>2
  <2>2. FindConsecutiveSeats(seats, size) = <<seats[1]>>
    BY <1>2, <2>1 DEF FindConsecutiveSeats
  <2>3. Group(seats[1], size) = {seats[1]}
    <3>1. 0..(size - 1) = {0}
      BY <1>2
    <3>2. seats[1] = [row |-> seats[1].row, seatNumber |-> seats[1].seatNumber + 0]
      BY <1>0, <2>1, SeatIsRecord
    <3> QED
      BY <3>1, <3>2 DEF Group
  <2>4. FirstGroup(set, size) = Group(seats[1], size)
    BY <1>0, <2>1, <2>3, FirstGroupBegins
  <2>5. ToSet(<<seats[1]>>) = {seats[1]}
    BY DEF ToSet
  <2> QED
    BY <2>2, <2>3, <2>4, <2>5
<1>3. CASE Len(seats) # 0 /\ size # 1
  <2> DEFINE run == Runs(seats, size)[Len(seats)]
  <2>1. Len(seats) \in 1..Len(seats)
    BY <1>0, <1>3
  <2>2. PICK b : RunBegins(seats, set, size, Len(seats), run, b)
    BY <2>1, LoopKeeps
  <2>3. FindConsecutiveSeats(seats, size) = IF Len(run) = size THEN run ELSE <<>>
    BY <1>3 DEF FindConsecutiveSeats
  <2> HIDE DEF run
  <2>4. /\ run \in Seq(Seats) /\ Len(run) \in 1..size /\ b \in 1..Len(seats) /\ b \in Nat
        /\ b + Len(run) - 1 <= Len(seats)
        /\ Len(run) < size => b + Len(run) - 1 = Len(seats)
        /\ \A c \in 1..(b - 1) : ~(Group(seats[c], size) \subseteq set)
    BY <1>0, <2>2 DEF RunBegins
  <2>5. \A m \in 0..(Len(run) - 1) : /\ run[m + 1] = RightOf(seats[b], m)
                                     /\ seats[b + m] = RightOf(seats[b], m)
    BY <2>2 DEF RunBegins
  <2>6. CASE Len(run) = size
    <3>1. Group(seats[b], size) = {RightOf(seats[b], m) : m \in 0..(size - 1)}
      BY DEF Group, RightOf
    <3>2. Group(seats[b], size) \subseteq set
      <4>1. \A m \in 0..(size - 1) : b + m \in 1..Len(seats)
        BY <1>0, <2>4, <2>6
      <4> QED
        BY <1>0, <2>5, <2>6, <3>1, <4>1
    <3>3. ToSet(run) = {run[j] : j \in 1..size}
      BY <2>4, <2>6 DEF ToSet
    <3>4. {run[j] : j \in 1..size} = {RightOf(seats[b], m) : m \in 0..(size - 1)}
      <4>1. \A j \in 1..size : j - 1 \in 0..(size - 1) /\ j - 1 + 1 = j
        OBVIOUS
      <4>2. \A m \in 0..(size - 1) : m + 1 \in 1..size
        OBVIOUS
      <4>3. \A j \in 1..size : run[j] = RightOf(seats[b], j - 1)
        BY <2>5, <2>6, <4>1
      <4>4. \A m \in 0..(size - 1) : RightOf(seats[b], m) = run[m + 1]
        BY <2>5, <2>6
      <4> QED
        BY <4>1, <4>2, <4>3, <4>4
    <3>5. FirstGroup(set, size) = Group(seats[b], size)
      <4>1. b \in 1..Len(seats) /\ \A c \in 1..(b - 1) : ~(Group(seats[c], size) \subseteq set)
        BY <2>4
      <4> QED
        BY <3>2, <4>1, FirstGroupBegins
    <3> QED
      BY <2>3, <2>6, <3>1, <3>3, <3>4, <3>5
  <2>7. CASE Len(run) # size
    <3>1. GroupStarts(set, size) = {}
      <4> SUFFICES ASSUME NEW s \in set, Group(s, size) \subseteq set PROVE FALSE
        BY DEF GroupStarts
      <4>1. PICK c \in 1..Len(seats) : seats[c] = s
        BY DEF InOrder
      <4>2. ~(c \in 1..(b - 1))
        BY <2>4, <4>1
      <4>3. \A m \in 0..(size - 1) : c + m \in 1..Len(seats)
        BY <4>1, GroupStandsTogether DEF SideBySide
      <4>4. c + (size - 1) \in 1..Len(seats)
        BY <4>3
      <4> QED
        BY <1>0, <2>4, <2>7, <4>2, <4>4
    <3>2. FirstGroup(set, size) = {}
      BY <3>1 DEF FirstGroup
    <3>3. ToSet(<<>>) = {}
      BY DEF ToSet
    <3> QED
      BY <2>3, <2>7, <3>2, <3>3
  <2> QED
    BY <2>6, <2>7
<1>4. QED
  BY <1>1, <1>2, <1>3

(* findConsecutiveSeats returns the first group of adjacent seats of every *)
(* set of seats that the query can have locked, for every size asked for:  *)
(* SeatAllocation may use FirstGroup in its place.                         *)
THEOREM SearchIsFirstGroup ==
    \A set \in SUBSET Seats, size \in Nat \ {0} :
        ToSet(FindConsecutiveSeats(Ordered(set), size)) = FirstGroup(set, size)
<1> TAKE set \in SUBSET Seats, size \in Nat \ {0}
<1>1. IsFiniteSet(set)
  BY ZoneAssumption, FS_Subset
<1>2. InOrder(Ordered(set), set)
  BY <1>1, OrderedIsInOrder
<1>3. QED
  BY <1>2, LoopFindsFirstGroup

(* The same of the seats that are available at any moment.                 *)
THEOREM SearchFindsFirstGroup == SeatSpec => []FindsFirstGroup
<1>1. FindsFirstGroup
  <2>1. Available \in SUBSET Seats
    BY DEF Available
  <2>2. \A n \in 1..(Cardinality(Seats) + 1) : n \in Nat \ {0}
    BY ZoneAssumption, FS_CardinalityType
  <2> HIDE DEF Available
  <2>3. QED
    BY <2>1, <2>2, SearchIsFirstGroup DEF FindsFirstGroup
<1>2. QED
  BY <1>1, PTL

-----------------------------------------------------------------------------
(* A release at work names a seat of the zone.  As long as no other        *)
(* release is at work on it, the seat stays allocated to those, and only   *)
(* those, who had it when the release read it.                             *)
ReleaseIsCurrent ==
    \A r \in Releases : release[r].pc \in Releasing =>
        LET s == release[r].seat IN
        /\ s \in Seats
        /\ s \notin contended => status[s] = "ALLOCATED" /\ heldBy[s] \subseteq release[r].from

(* Two releases at work on one seat are known to be.                       *)
OverlapIsSeen ==
    \A r, q \in Releases :
        /\ release[r].pc \in Releasing
        /\ release[q].pc \in Releasing
        /\ release[r].seat = release[q].seat
        => r = q \/ release[r].seat \in contended

SeatInv ==
    /\ SeatTypeOK
    /\ ChosenStaysAvailable
    /\ SeatGivenOnceUnlessContended
    /\ ReleaseIsCurrent
    /\ OverlapIsSeen

(* Whatever seats are gone before the first request, nobody is at work.    *)
LEMMA SeatInitially == SeatInit => SeatInv
  BY DEF SeatInit, SeatInv, SeatTypeOK, ChosenStaysAvailable, SeatGivenOnceUnlessContended,
         ReleaseIsCurrent, OverlapIsSeen, Allocation, Release, Releasing

(* Every step keeps the invariant.                                         *)
LEMMA SeatPreserved ==
    ASSUME SeatInv, [SeatNext]_seatVars
    PROVE  SeatInv'
<1> USE DEF SeatInv
<1>1. ASSUME NEW a \in Allocations, NEW n \in GroupSizes, SelectRows(a, n)
      PROVE  SeatInv'
  <2> DEFINE group == FirstGroup(Lockable, n)
  <2>1. Lockable \in SUBSET Seats /\ n \in Nat \ {0}
    BY AllocationAssumption DEF Lockable, Available
  <2>2. group \subseteq Lockable
    BY <2>1, FirstGroupFound
  <2>3. \A s \in Lockable : s \in Seats /\ lockedBy[s] = {} /\ status[s] = "AVAILABLE"
    BY DEF Lockable, Available, Locked
  <2> HIDE DEF group
  <2>4. UNCHANGED <<status, release, heldBy, contended>>
    BY <1>1 DEF SelectRows
  <2> DEFINE pc == IF group = {} THEN "count" ELSE "chosen"
  <2>5. CASE /\ alloc' = [alloc EXCEPT ![a] = [pc |-> pc, size |-> n, group |-> group]]
             /\ lockedBy' = [s \in Seats |-> IF s \in Lockable THEN lockedBy[s] \cup {a}
                                                               ELSE lockedBy[s]]
    <3>1. group \subseteq Seats
      BY <2>1, <2>2
    <3>2. SeatTypeOK'
      BY <2>4, <2>5, <3>1 DEF SeatTypeOK, Allocation
    <3>3. ChosenStaysAvailable'
      <4> SUFFICES ASSUME NEW b \in Allocations, alloc'[b].pc = "chosen",
                          NEW s \in alloc'[b].group
                   PROVE  lockedBy'[s] = {b} /\ status'[s] = "AVAILABLE"
        BY DEF ChosenStaysAvailable
      <4>1. CASE b = a
        BY <2>2, <2>3, <2>4, <2>5, <4>1 DEF SeatTypeOK
      <4>2. CASE b # a
        <5>1. /\ alloc'[b] = alloc[b] /\ s \in Seats
              /\ lockedBy[s] = {b} /\ status[s] = "AVAILABLE"
          BY <2>5, <4>2 DEF SeatTypeOK, ChosenStaysAvailable, Allocation
        <5>2. s \notin Lockable
          BY <2>3, <5>1
        <5>3. QED
          BY <2>4, <2>5, <5>1, <5>2
      <4>3. QED
        BY <4>1, <4>2
    <3>4. QED
      BY <2>4, <3>2, <3>3 DEF SeatGivenOnceUnlessContended, ReleaseIsCurrent, OverlapIsSeen
  <2>6. CASE /\ alloc' = [alloc EXCEPT ![a] = [pc |-> "refused", size |-> n, group |-> {}]]
             /\ UNCHANGED lockedBy
    <3>1. SeatTypeOK' /\ ChosenStaysAvailable'
      BY <2>4, <2>6 DEF SeatTypeOK, Allocation, ChosenStaysAvailable
    <3>2. QED
      BY <2>4, <3>1 DEF SeatGivenOnceUnlessContended, ReleaseIsCurrent, OverlapIsSeen
  <2>7. QED
    BY <1>1, <2>5, <2>6 DEF SelectRows, group
<1>2. ASSUME NEW a \in Allocations, CommitAllocation(a)
      PROVE  SeatInv'
  <2>1. /\ alloc[a].pc = "chosen" /\ alloc[a].group \subseteq Seats
        /\ \A s \in alloc[a].group : lockedBy[s] = {a} /\ status[s] = "AVAILABLE"
    BY <1>2 DEF CommitAllocation, SeatTypeOK, Allocation, ChosenStaysAvailable
  <2>2. SeatTypeOK'
    BY <1>2 DEF CommitAllocation, Unlocked, SeatTypeOK, Allocation
  <2>3. ChosenStaysAvailable'
    <3> SUFFICES ASSUME NEW b \in Allocations, alloc'[b].pc = "chosen",
                        NEW s \in alloc'[b].group
                 PROVE  lockedBy'[s] = {b} /\ status'[s] = "AVAILABLE"
      BY DEF ChosenStaysAvailable
    <3>1. b # a /\ alloc'[b] = alloc[b]
      BY <1>2 DEF CommitAllocation, SeatTypeOK, Allocation
    <3>2. s \in Seats /\ lockedBy[s] = {b} /\ status[s] = "AVAILABLE"
      BY <3>1 DEF SeatTypeOK, Allocation, ChosenStaysAvailable
    <3>3. s \notin alloc[a].group
      BY <2>1, <3>1, <3>2
    <3>4. QED
      BY <1>2, <3>1, <3>2, <3>3 DEF CommitAllocation, Unlocked
  <2>4. SeatGivenOnceUnlessContended'
    <3> SUFFICES ASSUME NEW s \in Seats, s \notin contended'
                 PROVE  /\ \A b, c \in heldBy'[s] : b = c
                        /\ heldBy'[s] # {} => status'[s] = "ALLOCATED"
      BY DEF SeatGivenOnceUnlessContended
    <3>1. /\ \A b, c \in heldBy[s] : b = c
          /\ heldBy[s] # {} => status[s] = "ALLOCATED"
      BY <1>2 DEF CommitAllocation, SeatGivenOnceUnlessContended
    <3>2. CASE s \in alloc[a].group
      <4>1. heldBy[s] = {}
        BY <2>1, <3>1, <3>2
      <4>2. heldBy'[s] = {a} /\ status'[s] = "ALLOCATED"
        BY <1>2, <3>2, <4>1 DEF CommitAllocation
      <4>3. QED
        BY <4>2
    <3>3. CASE s \notin alloc[a].group
      BY <1>2, <3>1, <3>3 DEF CommitAllocation
    <3>4. QED
      BY <3>2, <3>3
  <2>5. ReleaseIsCurrent'
    <3> SUFFICES ASSUME NEW r \in Releases, release[r].pc \in Releasing
                 PROVE  LET s == release[r].seat IN
                        /\ s \in Seats
                        /\ s \notin contended => /\ status'[s] = "ALLOCATED"
                                                 /\ heldBy'[s] \subseteq release[r].from
      BY <1>2 DEF CommitAllocation, ReleaseIsCurrent
    <3> DEFINE s == release[r].seat
    <3>1. /\ s \in Seats
          /\ s \notin contended => status[s] = "ALLOCATED" /\ heldBy[s] \subseteq release[r].from
      BY DEF ReleaseIsCurrent
    <3>2. s \notin contended => s \notin alloc[a].group
      BY <2>1, <3>1
    <3>3. QED
      BY <1>2, <3>1, <3>2 DEF CommitAllocation
  <2>6. OverlapIsSeen'
    BY <1>2 DEF CommitAllocation, OverlapIsSeen
  <2>7. QED
    BY <2>2, <2>3, <2>4, <2>5, <2>6
<1>3. ASSUME NEW a \in Allocations, RollbackAllocation(a)
      PROVE  SeatInv'
  <2>1. SeatTypeOK'
    <3>1. alloc' \in [Allocations -> Allocation]
      <4>1. [alloc[a] EXCEPT !.pc = "refused", !.group = {}] \in Allocation
        BY DEF SeatTypeOK, Allocation
      <4>2. QED
        BY <1>3, <4>1 DEF RollbackAllocation, SeatTypeOK
    <3>2. lockedBy' \in [Seats -> SUBSET Allocations]
      BY <1>3 DEF RollbackAllocation, Unlocked, SeatTypeOK
    <3>3. QED
      BY <1>3, <3>1, <3>2 DEF RollbackAllocation, SeatTypeOK
  <2>2. ChosenStaysAvailable'
    BY <1>3 DEF RollbackAllocation, Unlocked, SeatTypeOK, Allocation, ChosenStaysAvailable
  <2>3. QED
    BY <1>3, <2>1, <2>2
       DEF RollbackAllocation, SeatGivenOnceUnlessContended, ReleaseIsCurrent, OverlapIsSeen
<1>9. ASSUME NEW a \in Allocations, CountAvailable(a)
      PROVE  SeatInv'
  <2>1. /\ \E pc \in {"locked", "none"} : alloc' = [alloc EXCEPT ![a].pc = pc]
        /\ lockedBy' = Unlocked(a)
        /\ UNCHANGED <<status, release, heldBy, contended>>
    BY <1>9 DEF CountAvailable
  <2>2. SeatTypeOK'
    BY <2>1 DEF Unlocked, SeatTypeOK, Allocation
  <2>3. ChosenStaysAvailable'
    BY <2>1 DEF Unlocked, SeatTypeOK, Allocation, ChosenStaysAvailable
  <2>4. QED
    BY <2>1, <2>2, <2>3 DEF SeatGivenOnceUnlessContended, ReleaseIsCurrent, OverlapIsSeen
<1>4. ASSUME NEW r \in Releases, NEW s \in Seats, ReadSeat(r, s)
      PROVE  SeatInv'
  <2> DEFINE rec == [pc |-> IF status[s] = "AVAILABLE" THEN "refused" ELSE "select",
                     seat |-> s, from |-> heldBy[s]]
  <2>1. /\ release' = [release EXCEPT ![r] = rec]
        /\ contended' = contended \cup ({s} \cap BeingReleased)
        /\ UNCHANGED <<status, lockedBy, alloc, heldBy>>
    BY <1>4 DEF ReadSeat
  <2>2. /\ rec \in Release /\ rec.seat = s /\ rec.from = heldBy[s]
        /\ rec.pc \in Releasing => status[s] = "ALLOCATED"
    BY DEF SeatTypeOK, Release, Releasing
  <2> HIDE DEF rec
  <2>3. SeatTypeOK'
    BY <2>1, <2>2 DEF SeatTypeOK
  <2>4. ChosenStaysAvailable' /\ SeatGivenOnceUnlessContended'
    BY <2>1 DEF ChosenStaysAvailable, SeatGivenOnceUnlessContended
  <2>5. /\ release'[r] = rec
        /\ \A q \in Releases \ {r} : release'[q] = release[q]
    BY <2>1 DEF SeatTypeOK
  <2>6. ReleaseIsCurrent'
    BY <2>1, <2>2, <2>5 DEF ReleaseIsCurrent
  <2>7. OverlapIsSeen'
    <3>1. \A q \in Releases : release[q].pc \in Releasing /\ release[q].seat = s
                                => s \in contended'
      BY <2>1 DEF BeingReleased
    <3>2. QED
      BY <2>1, <2>2, <2>5, <3>1 DEF OverlapIsSeen
  <2>8. QED
    BY <2>3, <2>4, <2>6, <2>7
<1>5. ASSUME NEW r \in Releases, ReleaseSelect(r) \/ ReleaseDies(r)
      PROVE  SeatInv'
  <2>1. /\ \E pc \in {"done", "update", "refused"} : release' = [release EXCEPT ![r].pc = pc]
        /\ release[r].pc \in Releasing
        /\ UNCHANGED <<status, lockedBy, alloc, heldBy, contended>>
    BY <1>5 DEF ReleaseSelect, ReleaseDies, Releasing
  <2>2. SeatTypeOK'
    BY <2>1 DEF SeatTypeOK, Release
  <2>3. \A q \in Releases :
           /\ release'[q].seat = release[q].seat /\ release'[q].from = release[q].from
           /\ release'[q].pc \in Releasing => release[q].pc \in Releasing
    BY <2>1 DEF SeatTypeOK, Release
  <2>4. QED
    BY <2>1, <2>2, <2>3 DEF ChosenStaysAvailable, SeatGivenOnceUnlessContended,
                            ReleaseIsCurrent, OverlapIsSeen
<1>6. ASSUME NEW r \in Releases, ReleaseUpdate(r)
      PROVE  SeatInv'
  <2> DEFINE s == release[r].seat
  <2>1. /\ release[r].pc \in Releasing /\ lockedBy[s] = {}
        /\ status' = [status EXCEPT ![s] = "AVAILABLE"]
        /\ heldBy' = [heldBy EXCEPT ![s] = @ \ release[r].from]
        /\ release' = [release EXCEPT ![r].pc = "done"]
        /\ UNCHANGED <<lockedBy, alloc, contended>>
    BY <1>6 DEF ReleaseUpdate, Releasing
  <2>2. /\ s \in Seats
        /\ s \notin contended => heldBy[s] \subseteq release[r].from
    BY <2>1 DEF ReleaseIsCurrent
  <2>3. /\ \A q \in Releases :
              /\ release'[q].seat = release[q].seat /\ release'[q].from = release[q].from
              /\ q # r => release'[q] = release[q]
        /\ release'[r].pc \notin Releasing
    BY <2>1 DEF SeatTypeOK, Release, Releasing
  <2>4. SeatTypeOK'
    BY <2>1, <2>2 DEF SeatTypeOK, Release
  <2>5. ChosenStaysAvailable'
    BY <2>1, <2>2 DEF ChosenStaysAvailable, SeatTypeOK, Allocation
  <2>6. SeatGivenOnceUnlessContended'
    BY <2>1, <2>2 DEF SeatGivenOnceUnlessContended, SeatTypeOK
  <2>7. ReleaseIsCurrent'
    <3> SUFFICES ASSUME NEW q \in Releases, release'[q].pc \in Releasing
                 PROVE  LET u == release'[q].seat IN
                        /\ u \in Seats
                        /\ u \notin contended => /\ status'[u] = "ALLOCATED"
                                                 /\ heldBy'[u] \subseteq release'[q].from
      BY <2>1 DEF ReleaseIsCurrent
    <3>1. q # r /\ release'[q] = release[q]
      BY <2>3
    <3>2. release[q].seat # s \/ s \in contended
      BY <2>1, <3>1 DEF OverlapIsSeen
    <3>3. QED
      BY <2>1, <3>1, <3>2 DEF ReleaseIsCurrent, SeatTypeOK
  <2>8. OverlapIsSeen'
    BY <2>1, <2>3 DEF OverlapIsSeen
  <2>9. QED
    BY <2>4, <2>5, <2>6, <2>7, <2>8
<1>7. ASSUME UNCHANGED seatVars
      PROVE  SeatInv'
  BY <1>7 DEF seatVars, SeatTypeOK, ChosenStaysAvailable, SeatGivenOnceUnlessContended,
              ReleaseIsCurrent, OverlapIsSeen
<1>8. QED
  BY <1>1, <1>2, <1>3, <1>4, <1>5, <1>6, <1>7, <1>9 DEF SeatNext

(* The invariant holds throughout.                                         *)
LEMMA SeatInvariant == SeatSpec => []SeatInv
  BY SeatInitially, SeatPreserved, PTL DEF SeatSpec

(* Every column and local of the seat allocation keeps its type.           *)
THEOREM SeatTypeCorrect == SeatSpec => []SeatTypeOK
  BY SeatInvariant, PTL DEF SeatInv

(* allocateSeats: what a transaction has chosen is locked by it alone and  *)
(* still available when it commits, for any number of transactions and of  *)
(* releases that take no lock.                                             *)
THEOREM ChosenSeatsStay == SeatSpec => []ChosenStaysAvailable
  BY SeatInvariant, PTL DEF SeatInv

(* No seat is given to two winners, or offered while a winner has it,      *)
(* unless two calls of releaseSeat on it overlapped: overlap is the only   *)
(* way, in any zone.                                                       *)
THEOREM SeatsAreGivenOnce == SeatSpec => []SeatGivenOnceUnlessContended
  BY SeatInvariant, PTL DEF SeatInv
=============================================================================
