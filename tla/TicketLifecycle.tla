-------------------------- MODULE TicketLifecycle --------------------------
(***************************************************************************)
(* What a reader of the `tickets` table may rely on: the life of a ticket, *)
(* seen only through its status column.  The status checks of              *)
(* TicketingService and GateVerificationService are written against this   *)
(* life; Ticketing and Gate are shown to implement it where they do.       *)
(***************************************************************************)
CONSTANT Tickets

VARIABLE status      \* status[t]: the status column, "ABSENT" before INSERT

TicketStatus == {"PREAUTHORIZED", "PAID", "MINTED", "REFUNDED", "USED"}

Before(new) ==
    CASE new = "PREAUTHORIZED" -> {"ABSENT"}
      [] new = "PAID"          -> {"PREAUTHORIZED"}
      [] new = "MINTED"        -> {"PAID"}
      [] new = "USED"          -> {"PAID", "MINTED"}
      [] new = "REFUNDED"      -> {"PREAUTHORIZED", "PAID", "MINTED"}

LifecycleInit == status \in [Tickets -> TicketStatus \cup {"ABSENT"}]

Advance(t, new) ==
    /\ status[t] \in Before(new)
    /\ status' = [status EXCEPT ![t] = new]

LifecycleNext == \E t \in Tickets, new \in TicketStatus : Advance(t, new)

LifecycleSpec == LifecycleInit /\ [][LifecycleNext]_status
=============================================================================
