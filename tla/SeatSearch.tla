----------------------------- MODULE SeatSearch -----------------------------
(***************************************************************************)
(* SeatAllocationService.findConsecutiveSeats as the loop it is, checked   *)
(* against FirstGroup of SeatPlan, which SeatAllocation uses in its place, *)
(* on every set of available seats that the zone comes to have.            *)
(***************************************************************************)
EXTENDS SeatAllocation, SequencesExt

(* A zone has finitely many seats, and so has the query's result.          *)
ASSUME ZoneAssumption == IsFiniteSet(Seats)

ContinuesByNumber(run, seat) == seat.seatNumber = Last(run).seatNumber + 1
Continues(run, seat) ==
    /\ seat.row = Last(run).row
    /\ seat.seatNumber = Last(run).seatNumber + 1

(* One iteration; a run that has the size is returned and stays.           *)
Extend(run, seat, size) ==
    IF Len(run) = size THEN run
    ELSE IF run # <<>> /\ Continues(run, seat) THEN Append(run, seat)
    ELSE <<seat>>

(* run[i]: the local run after i iterations.                               *)
Runs(seats, size) ==
    LET run[i \in 0..Len(seats)] ==
            IF i = 0 THEN <<>> ELSE Extend(run[i - 1], seats[i], size)
    IN  run

FindConsecutiveSeats(seats, size) ==
    IF size = 1 /\ seats # <<>> THEN <<Head(seats)>>
    ELSE LET run == Runs(seats, size)[Len(seats)]
         IN  IF Len(run) = size THEN run ELSE <<>>

(* The query's result: ORDER BY s.row, s.seatNumber.                       *)
Ordered(set) ==
    [i \in 1..Cardinality(set) |->
        CHOOSE s \in set : Cardinality({o \in set : SeatBefore(o, s)}) = i - 1]

(* The loop returns the first group of adjacent seats of the requested     *)
(* size in one row, and nothing exactly when there is none: a run never    *)
(* continues into the next row or over a gap, and the shortcut for one     *)
(* seat agrees with the loop.                                              *)
FindsFirstGroup ==
    \A n \in 1..(Cardinality(Seats) + 1) :
        ToSet(FindConsecutiveSeats(Ordered(Available), n)) = FirstGroup(Available, n)
=============================================================================
