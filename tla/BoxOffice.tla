----------------------------- MODULE BoxOffice -----------------------------
(***************************************************************************)
(* TicketingService and GateVerificationService at work on the same        *)
(* `tickets` table and the same contract.  Ticketing writes back entities  *)
(* it loaded earlier; the gate writes one column under a condition.        *)
(* Neither takes a lock the other would respect.  The observer of overlaps *)
(* watches the gate as well.                                               *)
(***************************************************************************)
EXTENDS TicketingObserved, Gate

VARIABLE overwritten   \* history: tickets whose USED a save() has overwritten

boxVars == <<observedVars, gateVars, overwritten>>

BoxInit ==
    /\ ObservedInit
    /\ GateStart
    /\ overwritten = {}

Reopened == {t \in Tickets : tickets[t].status = "USED" /\ tickets'[t].status # "USED"}

(* Tickets that the gate marks used while a request is at work on them.    *)
EnteredAtWork ==
    {t \in Tickets : AtWork(t) # {} /\ tickets[t].status # "USED"
                                    /\ tickets'[t].status = "USED"}

BoxNext ==
    /\ \/ TicketingNext /\ UNCHANGED gateVars
       \/ GateNext /\ UNCHANGED ticketingVars
    /\ Observe(EnteredAtWork)
    /\ overwritten' = overwritten \cup Reopened

BoxSpec == BoxInit /\ [][BoxNext]_boxVars

-----------------------------------------------------------------------------
(* Nobody gets in on a ticket whose capture ECPay never acknowledged,      *)
(* whatever saves, scans, dead requests and lost answers came in between.  *)
AdmittedWasCaptured ==
    \A c \in Calls : LetsIn(c) => call[c].ticket \in captureOk

(* Entry by entry the gate's conditional UPDATE is sound: a ticket lets in *)
(* a second person only if some save() of ticketing, holding an entity it  *)
(* loaded before the first entry, has put its status back.                 *)
SingleAdmissionUnlessOverwritten ==
    \A c \in Calls :
        LetsIn(c) /\ call[c].ticket \notin overwritten =>
            /\ tickets[call[c].ticket].status = "USED"
            /\ \A d \in Calls :
                  LetsIn(d) /\ call[d].ticket = call[c].ticket => d = c

(* It takes an overlap to put a USED ticket back: the holder entered while *)
(* a request was at work on the ticket, or two requests were at work on it *)
(* at once.  Requests made before and after an entry do no harm.           *)
OverwriteNeedsOverlap == overwritten \subseteq overlapped

(* Up to such an overlap, requests and entries together take a ticket      *)
(* along its life, also when the gate and ticketing take turns on it.      *)
BoxOfficeFollowsLifecycle == SettledLife!LifecycleSpec

(* "Atomically mark ticket as used (conditional update prevents            *)
(* double-entry)": no two calls let somebody in on one ticket.             *)
NoDoubleEntry ==
    \A c, d \in Calls :
        LetsIn(c) /\ LetsIn(d) /\ call[c].ticket = call[d].ticket => c = d
=============================================================================
