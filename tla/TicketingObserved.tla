------------------------- MODULE TicketingObserved -------------------------
(***************************************************************************)
(* Ticketing with an observer that remembers on which tickets two requests *)
(* have been at work at once.  Nothing in the code keeps requests on one   *)
(* ticket apart; what the handlers promise when they are apart is stated   *)
(* for the tickets on which they were, inside behaviours in which others   *)
(* overlap.                                                                *)
(***************************************************************************)
EXTENDS Ticketing

VARIABLES
    overlapped,    \* history: tickets on which two requests were at work at once
    settled        \* settled[t]: the status of t, as long as t is not overlapped

observedVars == <<tickets, balance, ticketingVars, overlapped, settled>>

ObservedInit ==
    /\ TicketingInit
    /\ overlapped = {}
    /\ settled = [t \in Tickets |-> "ABSENT"]

AtWork(t) == {r \in Requests : req[r].pc \in Busy /\ req[r].ticket = t}

Contended == {t \in Tickets : \E r, q \in AtWork(t) : r # q}

(* What the observer does at a step; disturbed are the tickets on which it *)
(* notices an overlap of another kind.                                     *)
Observe(disturbed) ==
    /\ overlapped' = overlapped \cup Contended' \cup disturbed
    /\ settled' = [t \in Tickets |-> IF t \in overlapped' THEN settled[t]
                                                          ELSE tickets'[t].status]

ObservedNext == TicketingNext /\ Observe({})

ObservedSpec == ObservedInit /\ [][ObservedNext]_observedVars

SettledLife == INSTANCE TicketLifecycle WITH status <- settled

-----------------------------------------------------------------------------
(* A MINTED row carries the token that mintTicket wrote with it, so that   *)
(* the gate does ask the chain and a refund does burn, unless requests on  *)
(* the ticket overlapped: stale saves can then mix the columns of two.     *)
MintedRowHasToken ==
    \A t \in Tickets \ overlapped :
        tickets[t].status = "MINTED" => tickets[t].sbt = "token"

(* As long as requests on a ticket do not overlap, each one moves it along *)
(* its life: no save takes a status back or out of a final state, even     *)
(* when requests die or ECPay and the chain act without answering.         *)
TicketingFollowsLifecycle == SettledLife!LifecycleSpec
=============================================================================
