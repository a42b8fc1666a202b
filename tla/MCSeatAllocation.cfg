\* Three allocations of one or two seats and two releases of any seats.
SPECIFICATION SeatSpec
CONSTANTS
    Seats <- MCSeats
    Allocations = {a1, a2, a3}
    Releases = {x1, x2}
    GroupSizes = {1, 2}
SYMMETRY MCSymmetry
INVARIANTS
    SeatTypeOK
    SeatGivenOnceUnlessContended
    ChosenStaysAvailable
    FindsFirstGroup
CHECK_DEADLOCK FALSE
