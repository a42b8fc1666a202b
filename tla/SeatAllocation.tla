--------------------------- MODULE SeatAllocation ---------------------------
(***************************************************************************)
(* SeatAllocationService on one zone: allocateSeats, a transaction that    *)
(* locks the available rows, and releaseSeat, which reads and saves a seat *)
(* outside any transaction.  A seat is AVAILABLE or ALLOCATED; no code of  *)
(* the repository makes it SOLD or USED.                                   *)
(***************************************************************************)
EXTENDS SeatPlan

CONSTANTS
    Allocations,       \* calls of allocateSeats, each made once
    Releases,          \* calls of releaseSeat, each made once
    GroupSizes         \* values of dto.groupSize

ASSUME AllocationAssumption == GroupSizes \subseteq Nat \ {0}

VARIABLES
    status,        \* status[s]: the committed status column of seat s
    lockedBy,      \* lockedBy[s]: the allocation whose transaction locks s
    alloc,         \* alloc[a]: position, group size, group chosen
    release,       \* release[r]: position, seat
    heldBy,        \* history: the allocations that were given s and keep it
    contended      \* history: seats that two releases were at work on at once

seatVars == <<status, lockedBy, alloc, release, heldBy, contended>>

NoSeat == [row |-> 0, seatNumber |-> 0]

(* "locked" and "none" are the two refusals of allocateSeats, "refused" is *)
(* any other failure.                                                      *)
Allocation == [pc : {"idle", "chosen", "count", "done", "locked", "none", "refused"},
               size : GroupSizes \cup {0}, group : SUBSET Seats]

Release == [pc : {"idle", "select", "update", "done", "refused"},
            seat : Seats \cup {NoSeat}, from : SUBSET Allocations]

(* Some seats of the zone may have been allocated before.                  *)
SeatInit ==
    /\ status \in [Seats -> {"AVAILABLE", "ALLOCATED"}]
    /\ lockedBy = [s \in Seats |-> {}]
    /\ alloc = [a \in Allocations |-> [pc |-> "idle", size |-> 0, group |-> {}]]
    /\ release = [r \in Releases |-> [pc |-> "idle", seat |-> NoSeat, from |-> {}]]
    /\ heldBy = [s \in Seats |-> {}]
    /\ contended = {}

-----------------------------------------------------------------------------
Available == {s \in Seats : status[s] = "AVAILABLE"}

Locked == {s \in Seats : lockedBy[s] # {}}

(* SELECT ... FOR UPDATE of the available seats of the zone.  The builder  *)
(* asks both for "or fail" and for "skip locked": the statement either     *)
(* leaves out the rows that others lock or fails because of them.  What it *)
(* selects stays locked, with a group in it or not.                        *)
LockableIgnoringLocks == Available
Lockable == Available \ Locked

SelectRows(a, size) ==
    /\ alloc[a].pc = "idle"
    /\ LET group == FirstGroup(Lockable, size) IN
       \/ /\ alloc' = [alloc EXCEPT ![a] =
                          [pc |-> IF group = {} THEN "count" ELSE "chosen",
                           size |-> size, group |-> group]]
          /\ lockedBy' = [s \in Seats |->
                             IF s \in Lockable THEN lockedBy[s] \cup {a}
                                               ELSE lockedBy[s]]
       \/ /\ Available \cap Locked # {}
          /\ alloc' = [alloc EXCEPT ![a] =
                          [pc |-> "refused", size |-> size, group |-> {}]]
          /\ UNCHANGED lockedBy
    /\ UNCHANGED <<status, release, heldBy, contended>>

Unlocked(a) == [s \in Seats |-> lockedBy[s] \ {a}]

(* No group: getCount, which takes no lock, and one of two refusals, each  *)
(* of them thrown inside the transaction.                                  *)
CountAvailable(a) ==
    /\ alloc[a].pc = "count"
    /\ alloc' = [alloc EXCEPT ![a].pc =
                    IF Available # {} /\ \A s \in Seats : a \notin lockedBy[s]
                    THEN "locked" ELSE "none"]
    /\ lockedBy' = Unlocked(a)
    /\ UNCHANGED <<status, release, heldBy, contended>>

(* manager.save(Seat, consecutive), COMMIT.                                *)
CommitAsSold(a) ==
    /\ alloc[a].pc = "chosen"
    /\ status' = [s \in Seats |-> IF s \in alloc[a].group THEN "SOLD" ELSE status[s]]
    /\ lockedBy' = Unlocked(a)
    /\ alloc' = [alloc EXCEPT ![a].pc = "done"]
    /\ UNCHANGED <<release, heldBy, contended>>

CommitAllocation(a) ==
    /\ alloc[a].pc = "chosen"
    /\ status' = [s \in Seats |-> IF s \in alloc[a].group THEN "ALLOCATED"
                                                          ELSE status[s]]
    /\ heldBy' = [s \in Seats |-> IF s \in alloc[a].group THEN heldBy[s] \cup {a}
                                                          ELSE heldBy[s]]
    /\ lockedBy' = Unlocked(a)
    /\ alloc' = [alloc EXCEPT ![a].pc = "done"]
    /\ UNCHANGED <<release, contended>>

(* The transaction fails or its connection is lost: ROLLBACK.              *)
RollbackAllocation(a) ==
    /\ alloc[a].pc \in {"chosen", "count"}
    /\ lockedBy' = Unlocked(a)
    /\ alloc' = [alloc EXCEPT ![a].pc = "refused", ![a].group = {}]
    /\ UNCHANGED <<status, release, heldBy, contended>>

-----------------------------------------------------------------------------
Releasing == {"select", "update"}

BeingReleased == {release[r].seat : r \in {q \in Releases : release[q].pc \in Releasing}}

(* releaseSeat: findOne and its checks.  from is what the caller wants     *)
(* undone: the allocation that has the seat at this moment.                *)
ReadSeat(r, s) ==
    /\ release[r].pc = "idle"
    /\ release' = [release EXCEPT ![r] =
                      [pc |-> IF status[s] = "AVAILABLE" THEN "refused" ELSE "select",
                       seat |-> s, from |-> heldBy[s]]]
    /\ contended' = contended \cup ({s} \cap BeingReleased)
    /\ UNCHANGED <<status, lockedBy, alloc, heldBy>>

(* seatRepo.save(seat): SELECT; without a difference there is no UPDATE.   *)
ReleaseSelect(r) ==
    /\ release[r].pc = "select"
    /\ release' = [release EXCEPT ![r].pc =
                      IF status[release[r].seat] = "AVAILABLE" THEN "done" ELSE "update"]
    /\ UNCHANGED <<status, lockedBy, alloc, heldBy, contended>>

(* The UPDATE waits for the row lock and asks for nothing but the id.      *)
ReleaseUpdate(r) ==
    LET s == release[r].seat IN
    /\ release[r].pc = "update"
    /\ lockedBy[s] = {}
    /\ status' = [status EXCEPT ![s] = "AVAILABLE"]
    /\ heldBy' = [heldBy EXCEPT ![s] = @ \ release[r].from]
    /\ release' = [release EXCEPT ![r].pc = "done"]
    /\ UNCHANGED <<lockedBy, alloc, contended>>

(* The request is lost between two awaits of releaseSeat.                  *)
ReleaseDies(r) ==
    /\ release[r].pc \in Releasing
    /\ release' = [release EXCEPT ![r].pc = "refused"]
    /\ UNCHANGED <<status, lockedBy, alloc, heldBy, contended>>

SeatNext ==
    \/ \E a \in Allocations, n \in GroupSizes : SelectRows(a, n)
    \/ \E a \in Allocations : CommitAllocation(a) \/ CountAvailable(a) \/ RollbackAllocation(a)
    \/ \E r \in Releases, s \in Seats : ReadSeat(r, s)
    \/ \E r \in Releases : ReleaseSelect(r) \/ ReleaseUpdate(r) \/ ReleaseDies(r)

SeatSpec == SeatInit /\ [][SeatNext]_seatVars

-----------------------------------------------------------------------------
(* Every variable holds values of the kind its column or local has.        *)
SeatTypeOK ==
    /\ status \in [Seats -> {"AVAILABLE", "ALLOCATED"}]
    /\ lockedBy \in [Seats -> SUBSET Allocations]
    /\ alloc \in [Allocations -> Allocation]
    /\ release \in [Releases -> Release]
    /\ heldBy \in [Seats -> SUBSET Allocations]
    /\ contended \subseteq Seats

(* A seat that one winner was given and nobody has taken back is not given *)
(* to another, and is not on offer, unless two releases of that seat       *)
(* overlapped: the UPDATE of the later one asks for nothing but the id and *)
(* frees the seat although it has been given away again.                   *)
SeatGivenOnceUnlessContended ==
    \A s \in Seats \ contended :
        /\ \A a, b \in heldBy[s] : a = b
        /\ heldBy[s] # {} => status[s] = "ALLOCATED"

(* Two open transactions never hold a lock on, and so never choose, the    *)
(* same row; what an open transaction chose is still available to it when  *)
(* it commits.                                                             *)
ChosenStaysAvailable ==
    \A a \in Allocations : alloc[a].pc = "chosen" =>
        \A s \in alloc[a].group : lockedBy[s] = {a} /\ status[s] = "AVAILABLE"
=============================================================================
