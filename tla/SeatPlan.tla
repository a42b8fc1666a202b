------------------------------ MODULE SeatPlan ------------------------------
(***************************************************************************)
(* The seats of one zone of one event and the groups of adjacent seats in  *)
(* it: what findConsecutiveSeats is asked for, said without its loop.      *)
(* Row names are ordered; only their order matters, so a row is a number.  *)
(***************************************************************************)
EXTENDS Naturals

CONSTANT Seats

ASSUME SeatsAssumption == Seats \subseteq [row : Nat, seatNumber : Nat]

(* ORDER BY row, seatNumber                                                *)
SeatBefore(a, b) ==
    a.row < b.row \/ (a.row = b.row /\ a.seatNumber < b.seatNumber)

(* size seats of one row with consecutive numbers, the first of them s.    *)
Group(s, size) ==
    {[row |-> s.row, seatNumber |-> s.seatNumber + i] : i \in 0..(size - 1)}

GroupStarts(available, size) == {s \in available : Group(s, size) \subseteq available}

(* The group of that size that comes first, {} if there is none.           *)
FirstGroup(available, size) ==
    LET starts == GroupStarts(available, size)
        first  == CHOOSE s \in starts : \A o \in starts : ~SeatBefore(o, s)
    IN  IF starts = {} THEN {} ELSE Group(first, size)
=============================================================================
