-------------------------- MODULE MCSeatAllocation --------------------------
(* Small instances of SeatAllocation for TLC: two rows, the numbers of the *)
(* second continuing those of the first.                                   *)
EXTENDS SeatSearch

MCSeats == {[row |-> 1, seatNumber |-> n] : n \in 1..3}
           \cup {[row |-> 2, seatNumber |-> n] : n \in 4..5}

MCSymmetry == Permutations(Allocations) \cup Permutations(Releases)
=============================================================================
