---------------------------- MODULE MCTicketing ----------------------------
(* Small instances of Ticketing for TLC.                                   *)
EXTENDS TicketingObserved

(* A token id of its own for each ticket.                                  *)
MCTokenOf == [t \in Tickets |-> t]
=============================================================================
