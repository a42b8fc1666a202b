-------------------------- MODULE BoxOfficeProofs --------------------------
(***************************************************************************)
(* Proofs about BoxOffice, ticketing and the gate on one table, from the   *)
(* lemmas about each: what one keeps about its own state, the other's      *)
(* steps do not disturb.                                                   *)
(***************************************************************************)
EXTENDS BoxOffice, TicketingProofs, GateProofs

(* The gate mints and burns nothing.                                       *)
LEMMA GateKeepsBalance == [GateNext]_GateAll => UNCHANGED balance
  BY DEF GateNext, CallStep, GenerateDynamicQr, VerifyEntry, FallbackVerify, SetNonce,
     SetNonceResent, ReadTicket, CheckOnChainOwnership, CompareFace, FindMinted, FindPaid,
     MarkUsed, SaveLog, CallDies, Tick, GateAll

(* No request forgets a capture that ECPay has answered.                   *)
LEMMA CapturesAreKept == [TicketingNext]_ticketingAll => captureOk \subseteq captureOk'
  BY DEF TicketingNext, RequestStep, Preauthorize, CustomerPays, CapturePayment, MintTicket,
     RefundTicket, HandleEcpayCallback, Start, EcpayDoAction, CaptureAnswered, VoidAnswered,
     DoActionFailed, GetKycStatus, MintTicketSbt, BurnTicketSbt, SaveSelect, SaveUpdate,
     RequestDies, ticketingAll, ticketingVars

BoxTypeInv == TicketingTypeInv /\ GateTypeInv

BoxInv ==
    /\ BoxTypeInv
    /\ EarnedInv
    /\ NoResultYet
    /\ AdmittedOnTicket
    /\ AdmittedWasCaptured
    /\ SingleAdmissionUnlessOverwritten
    /\ ObservedInv
    /\ OverwriteNeedsOverlap

(* A step of the box office is one of ticketing, which leaves the gate's   *)
(* variables alone, or one of the gate, which leaves ticketing's alone.    *)
LEMMA BoxStep ==
    ASSUME [BoxNext]_boxVars
    PROVE  /\ \/ [TicketingNext]_ticketingAll /\ UNCHANGED <<now, qr, nonceUntil, call, gateLog>>
              \/ [GateNext]_GateAll /\ UNCHANGED <<req, trade, captureOk, voidOk, mintOk>>
           /\ overwritten \subseteq overwritten'
           /\ \A t \in Tickets : tickets[t].status = "USED" /\ tickets'[t].status # "USED"
                                    => t \in overwritten'
<1>1. CASE BoxNext
  <2>1. \/ [TicketingNext]_ticketingAll /\ UNCHANGED <<now, qr, nonceUntil, call, gateLog>>
        \/ [GateNext]_GateAll /\ UNCHANGED <<req, trade, captureOk, voidOk, mintOk>>
    BY <1>1 DEF BoxNext, gateVars, ticketingVars
  <2>2. QED
    BY <1>1, <2>1 DEF BoxNext, Reopened
<1>2. CASE UNCHANGED boxVars
  BY <1>2 DEF boxVars, observedVars, ticketingAll, ticketingVars, gateVars
<1>3. QED
  BY <1>1, <1>2

(* Types of both components, across the steps of either.                   *)
LEMMA BoxTypePreserved ==
    ASSUME BoxTypeInv, [BoxNext]_boxVars
    PROVE  BoxTypeInv'
<1>1. CASE [TicketingNext]_ticketingAll /\ UNCHANGED <<now, qr, nonceUntil, call, gateLog>>
  <2>1. TicketingTypeInv'
    BY <1>1, TicketingTypePreserved DEF BoxTypeInv
  <2>2. GateTypeInv'
    BY <1>1, <2>1 DEF BoxTypeInv, GateTypeInv, GateTypeOK, TargetKnown, TicketingTypeInv,
       TicketingTypeOK
  <2>3. QED
    BY <2>1, <2>2 DEF BoxTypeInv
<1>2. CASE [GateNext]_GateAll /\ UNCHANGED <<req, trade, captureOk, voidOk, mintOk>>
  <2>1. GateTypeInv'
    BY <1>2, GateTypePreserved DEF BoxTypeInv
  <2>2. TicketingTypeInv'
    BY <1>2, <2>1 DEF BoxTypeInv, TicketingTypeInv, TicketingTypeOK, AtItsAwait, GateTypeInv,
       GateTypeOK
  <2>3. QED
    BY <2>1, <2>2 DEF BoxTypeInv
<1>3. QED
  BY <1>1, <1>2, BoxStep

(* A step of ticketing: it admits nobody, and a save that puts a USED      *)
(* ticket back is remembered.                                              *)
LEMMA TicketingStepKeepsBox ==
    ASSUME BoxInv, [TicketingNext]_ticketingAll, UNCHANGED call,
           overwritten \subseteq overwritten',
           \A t \in Tickets : tickets[t].status = "USED" /\ tickets'[t].status # "USED"
                                 => t \in overwritten'
    PROVE  /\ EarnedInv' /\ NoResultYet' /\ AdmittedOnTicket' /\ AdmittedWasCaptured'
           /\ SingleAdmissionUnlessOverwritten'
<1> USE DEF BoxInv
<1>1. EarnedInv'
  BY EarnedPreserved DEF BoxTypeInv
<1>2. \A c \in Calls : LetsIn(c)' <=> LetsIn(c)
  BY DEF LetsIn
<1>3. NoResultYet' /\ AdmittedOnTicket'
  BY <1>2 DEF NoResultYet, AdmittedOnTicket
<1>4. AdmittedWasCaptured'
  BY <1>2, CapturesAreKept DEF AdmittedWasCaptured
<1>5. SingleAdmissionUnlessOverwritten'
  BY <1>2 DEF SingleAdmissionUnlessOverwritten, AdmittedOnTicket
<1>6. QED
  BY <1>1, <1>3, <1>4, <1>5

(* A step of the gate: it admits only where the row is PAID or MINTED, so  *)
(* on a captured ticket that nobody has entered on, as long as no save put *)
(* it back.                                                                *)
LEMMA GateStepKeepsBox ==
    ASSUME BoxInv, [GateNext]_GateAll, UNCHANGED <<req, trade, captureOk, voidOk, mintOk>>,
           overwritten \subseteq overwritten'
    PROVE  /\ EarnedInv' /\ NoResultYet' /\ AdmittedOnTicket' /\ AdmittedWasCaptured'
           /\ SingleAdmissionUnlessOverwritten'
<1> USE DEF BoxInv
<1> tickets \in [Tickets -> Row]
  BY DEF BoxTypeInv, GateTypeInv, GateTypeOK, StoreTypeOK
<1>1. NoResultYet' /\ (NobodyEnters \/ \E c \in Calls, t \in Tickets : EntersOn(c, t))
  BY AdmissionStep DEF BoxTypeInv
<1>2. EntityEarned' /\ MintedTokenKept'
  BY GateKeepsBalance DEF EarnedInv, EntityEarned, MintedTokenKept, TokenRefunded, Earned
<1>3. CASE NobodyEnters
  <2>1. StatusIsEarned'
    BY <1>3 DEF NobodyEnters, EarnedInv, StatusIsEarned, Earned
  <2>2. AdmittedOnTicket' /\ AdmittedWasCaptured' /\ SingleAdmissionUnlessOverwritten'
    BY <1>3 DEF NobodyEnters, AdmittedOnTicket, AdmittedWasCaptured,
       SingleAdmissionUnlessOverwritten
  <2>3. QED
    BY <1>1, <1>2, <2>1, <2>2 DEF EarnedInv
<1>4. ASSUME NEW c \in Calls, NEW t \in Tickets, EntersOn(c, t)
      PROVE  /\ EarnedInv' /\ AdmittedOnTicket' /\ AdmittedWasCaptured'
             /\ SingleAdmissionUnlessOverwritten'
  <2>1. /\ tickets[t].status \in {"PAID", "MINTED"}
        /\ tickets'[t].status = "USED" /\ tickets'[t].sbt = tickets[t].sbt
        /\ \A u \in Tickets \ {t} : tickets'[u] = tickets[u]
    BY <1>4 DEF EntersOn, Consumable, ValidForEntry, Row
  <2>2. StatusIsEarned'
    BY <2>1 DEF EarnedInv, StatusIsEarned, Earned
  <2>3. t \in captureOk
    BY <2>1 DEF EarnedInv, StatusIsEarned, Earned
  <2>4. /\ call'[c].ticket = t
        /\ \A d \in Calls : /\ call'[d].ticket = call[d].ticket
                            /\ d # c => (LetsIn(d)' <=> LetsIn(d))
    BY <1>4 DEF EntersOn, LetsIn
  <2>5. AdmittedOnTicket' /\ AdmittedWasCaptured'
    BY <2>3, <2>4 DEF AdmittedOnTicket, AdmittedWasCaptured
  <2>6. t \notin overwritten' => \A a \in Calls : LetsIn(a) => call[a].ticket # t
    BY <2>1 DEF SingleAdmissionUnlessOverwritten
  <2>7. SingleAdmissionUnlessOverwritten'
    <3> SUFFICES ASSUME NEW a \in Calls, LetsIn(a)', call'[a].ticket \notin overwritten'
                 PROVE  /\ tickets'[call'[a].ticket].status = "USED"
                        /\ \A d \in Calls :
                              LetsIn(d)' /\ call'[d].ticket = call'[a].ticket => d = a
      BY DEF SingleAdmissionUnlessOverwritten
    <3>1. CASE a = c
      BY <2>1, <2>4, <2>6, <3>1
    <3>2. CASE a # c
      <4>1. /\ LetsIn(a) /\ call[a].ticket \in Tickets /\ call[a].ticket \notin overwritten
            /\ call'[a].ticket = call[a].ticket
        BY <2>4, <3>2 DEF AdmittedOnTicket
      <4>2. call[a].ticket # t
        BY <2>6, <4>1
      <4>3. QED
        BY <2>1, <2>4, <4>1, <4>2 DEF SingleAdmissionUnlessOverwritten
    <3>3. QED
      BY <3>1, <3>2
  <2>8. QED
    BY <1>2, <2>2, <2>5, <2>7 DEF EarnedInv
<1>5. QED
  BY <1>1, <1>3, <1>4

(* An entry at which no request is at work on the ticket is a step of its  *)
(* life that no request can undo; any other one the observer notices.      *)
LEMMA GateStepAdvances ==
    ASSUME BoxTypeInv, NoResultYet, ObservedInv, [GateNext]_GateAll, UNCHANGED req,
           TicketingTypeInv', Observe(EnteredAtWork)
    PROVE  ObservedInv' /\ [SettledLife!LifecycleNext]_settled
<1> tickets \in [Tickets -> Row]
  BY DEF BoxTypeInv, GateTypeInv, GateTypeOK, StoreTypeOK
<1>1. ObserverFollows' /\ overlapped \subseteq overlapped'
  BY ObserverKeepsUp DEF ObservedInv
<1>2. CASE NobodyEnters
  <2>1. UNCHANGED tickets
    BY <1>2 DEF NobodyEnters
  <2>2. (\A q \in Requests : IsCurrent(q)') /\ MintedRowHasToken'
    BY <1>1, <2>1, OthersStayCurrent DEF ObservedInv, MintedRowHasToken
  <2>3. QED
    BY <1>1, <2>1, <2>2, SameRowsSameLife DEF ObservedInv
<1>3. ASSUME NEW c \in Calls, NEW t \in Tickets, EntersOn(c, t)
      PROVE  ObservedInv' /\ [SettledLife!LifecycleNext]_settled
  <2>1. /\ tickets[t].status \in {"PAID", "MINTED"} /\ tickets'[t].status = "USED"
        /\ \A u \in Tickets \ {t} : tickets'[u] = tickets[u]
    BY <1>3 DEF EntersOn, Consumable, ValidForEntry, Row
  <2>2. ASSUME NEW q \in Requests PROVE IsCurrent(q)'
    <3>1. req[q].pc \in Busy => req[q].ticket \in Tickets
      BY DEF BoxTypeInv, TicketingTypeInv, AtItsAwait
    <3>2. req[q].pc \in Busy /\ req[q].ticket = t => t \in overlapped'
      BY <2>1 DEF Observe, EnteredAtWork, AtWork
    <3>3. QED
      BY <1>1, <2>1, <3>1, <3>2, OthersStayCurrent DEF ObservedInv
  <2>3. MintedRowHasToken'
    BY <1>1, <2>1 DEF ObservedInv, MintedRowHasToken
  <2>4. tickets[t].status \in SettledLife!Before(tickets'[t].status)
    BY <2>1 DEF SettledLife!Before
  <2>5. [SettledLife!LifecycleNext]_settled
    BY <2>1, <2>4, OneRowAdvances DEF TicketStatus
  <2>6. QED
    BY <1>1, <2>2, <2>3, <2>5 DEF ObservedInv
<1>4. QED
  BY <1>2, <1>3, AdmissionStep DEF BoxTypeInv

(* Both services, as the observer sees them.                               *)
LEMMA BoxStepAdvances ==
    ASSUME BoxTypeInv, NoResultYet, ObservedInv, [BoxNext]_boxVars
    PROVE  ObservedInv' /\ [SettledLife!LifecycleNext]_settled
<1>1. CASE TicketingNext /\ Observe(EnteredAtWork)
  BY <1>1, ObservedStep, TicketingStepAdvances DEF BoxTypeInv
<1>2. CASE GateNext /\ UNCHANGED ticketingVars /\ Observe(EnteredAtWork)
  BY <1>2, BoxTypePreserved, GateStepAdvances DEF BoxTypeInv, ticketingVars
<1>3. CASE UNCHANGED boxVars
  BY <1>3, ObservedStutter DEF boxVars, observedVars, ticketingVars
<1>4. QED
  BY <1>1, <1>2, <1>3 DEF BoxNext

(* USED is final in the life of a ticket: a save that takes it away did so *)
(* to a ticket the observer has given up.                                  *)
LEMMA OverwriteIsSeen ==
    ASSUME OverwriteNeedsOverlap, ObservedInv, ObservedInv', [BoxNext]_boxVars,
           [SettledLife!LifecycleNext]_settled
    PROVE  OverwriteNeedsOverlap'
<1>1. CASE UNCHANGED boxVars
  BY <1>1 DEF boxVars, observedVars, OverwriteNeedsOverlap
<1>2. CASE BoxNext
  <2>1. overlapped \subseteq overlapped' /\ overwritten' = overwritten \cup Reopened
    BY <1>2 DEF BoxNext, Observe
  <2>2. ASSUME NEW t \in Tickets, tickets[t].status = "USED", tickets'[t].status # "USED"
        PROVE  t \in overlapped'
    <3> SUFFICES ASSUME t \notin overlapped' PROVE FALSE
      OBVIOUS
    <3>1. settled[t] = "USED" /\ settled'[t] # "USED"
      BY <2>1, <2>2 DEF ObservedInv, ObserverFollows
    <3>2. PICK u \in Tickets, new \in SettledLife!TicketStatus : SettledLife!Advance(u, new)
      BY <3>1 DEF SettledLife!LifecycleNext
    <3>3. settled[u] # "USED"
      BY <3>2 DEF SettledLife!Advance, SettledLife!Before, SettledLife!TicketStatus
    <3>4. settled'[t] = settled[t]
      BY <3>1, <3>2, <3>3 DEF SettledLife!Advance, ObservedInv, ObserverFollows
    <3>5. QED
      BY <3>1, <3>4
  <2>3. QED
    BY <2>1, <2>2 DEF OverwriteNeedsOverlap, Reopened
<1>3. QED
  BY <1>1, <1>2

(* The invariant holds in every reachable state.                           *)
LEMMA BoxInvariant == BoxSpec => []BoxInv
<1>1. BoxInit => BoxInv
  <2> SUFFICES ASSUME BoxInit PROVE BoxInv
    OBVIOUS
  <2>1. TicketingTypeInv /\ EarnedInv
    BY TicketingTypeInitially, EarnedInitially DEF BoxInit, ObservedInit
  <2>2. GateTypeInv
    BY <2>1 DEF BoxInit, GateStart, GateTypeInv, GateTypeOK, TargetKnown, TicketingTypeInv,
       TicketingTypeOK, Unsigned, Payload, IdleCall, Handler, Pcs, Modes, Results
  <2>3. \A c \in Calls : call[c].result = "none"
    BY DEF BoxInit, GateStart, IdleCall
  <2>4. ObservedInv /\ OverwriteNeedsOverlap
    BY ObservedInitially DEF BoxInit, OverwriteNeedsOverlap
  <2>5. QED
    BY <2>1, <2>2, <2>3, <2>4 DEF BoxInv, BoxTypeInv, NoResultYet, AdmittedOnTicket,
       AdmittedWasCaptured, SingleAdmissionUnlessOverwritten, LetsIn, Admissions
<1>2. BoxInv /\ [BoxNext]_boxVars => BoxInv'
  <2> SUFFICES ASSUME BoxInv, [BoxNext]_boxVars PROVE BoxInv'
    OBVIOUS
  <2>1. BoxTypeInv'
    BY BoxTypePreserved DEF BoxInv
  <2>2. /\ EarnedInv' /\ NoResultYet' /\ AdmittedOnTicket' /\ AdmittedWasCaptured'
        /\ SingleAdmissionUnlessOverwritten'
    BY BoxStep, TicketingStepKeepsBox, GateStepKeepsBox
  <2>3. ObservedInv' /\ OverwriteNeedsOverlap'
    BY BoxStepAdvances, OverwriteIsSeen DEF BoxInv
  <2>4. QED
    BY <2>1, <2>2, <2>3 DEF BoxInv
<1>3. QED
  BY <1>1, <1>2, PTL DEF BoxSpec

(* With ticketing and the gate at work on the same rows, and whatever dies *)
(* or goes unanswered, nobody gets in on a ticket that was not captured.   *)
THEOREM OnlyCapturedGetIn == BoxSpec => []AdmittedWasCaptured
  BY BoxInvariant, PTL DEF BoxInv

(* A second entry on a ticket needs a save of ticketing that overwrote     *)
(* USED: the gate by itself never admits twice, however calls interleave   *)
(* with requests.                                                          *)
THEOREM DoubleEntryNeedsOverwrite == BoxSpec => []SingleAdmissionUnlessOverwritten
  BY BoxInvariant, PTL DEF BoxInv

(* What ticketing proves of its rows and tokens by itself stays true with  *)
(* the gate at work on the same table: an entry claims nothing that was    *)
(* not acknowledged, and takes no token.                                   *)
THEOREM EntriesKeepRowsEarned ==
    BoxSpec => [](/\ TicketingTypeOK /\ StatusIsEarned
                  /\ MintedHolderHasToken /\ MintedRowHasToken)
<1>1. BoxInv => StatusIsEarned /\ MintedHolderHasToken
  BY DEF BoxInv, EarnedInv, StatusIsEarned, Earned, MintedTokenKept, TokenRefunded,
     MintedHolderHasToken
<1>2. BoxInv => TicketingTypeOK /\ MintedRowHasToken
  BY DEF BoxInv, BoxTypeInv, TicketingTypeInv, ObservedInv
<1>3. QED
  BY <1>1, <1>2, BoxInvariant, PTL

(* And the gate's replay check stays sound with tickets that are minted,   *)
(* refunded and written back between the steps of a scan.                  *)
THEOREM NoQrReplayAtBoxOffice == BoxSpec => []NonceNotReplayed
<1>1. BoxInit => ReplayInv
  BY GateAssumption DEF BoxInit, GateStart, IdleCall, Unsigned, ReplayInv, BurntNonceKept,
     WaitingScanIsRecent, CodeIsSignedInThePast, NonceNotReplayed
<1>2. BoxInv /\ ReplayInv /\ [BoxNext]_boxVars => ReplayInv'
  <2> SUFFICES ASSUME BoxInv, ReplayInv, [BoxNext]_boxVars PROVE ReplayInv'
    OBVIOUS
  <2>1. CASE UNCHANGED <<now, qr, nonceUntil, call, gateLog>>
    BY <2>1 DEF ReplayInv, BurntNonceKept, WaitingScanIsRecent, CodeIsSignedInThePast,
       NonceNotReplayed
  <2>2. CASE [GateNext]_GateAll
    BY <2>2, ReplayPreserved DEF BoxInv, BoxTypeInv
  <2>3. QED
    BY <2>1, <2>2, BoxStep
<1>3. QED
  BY <1>1, <1>2, BoxInvariant, PTL DEF BoxSpec, ReplayInv

(* A save overwrites USED only on a ticket that the holder entered on      *)
(* while a request was at work, or on which two requests were at work at   *)
(* once: nothing else can lead to a second entry.                          *)
THEOREM OverwritesNeedOverlaps == BoxSpec => []OverwriteNeedsOverlap
  BY BoxInvariant, PTL DEF BoxInv

(* Ticketing and the gate together implement the life of a ticket, for as  *)
(* long as they do not overlap on it.                                      *)
THEOREM BoxOfficeImplementsLifecycle == BoxSpec => BoxOfficeFollowsLifecycle
<1>1. BoxInit => SettledLife!LifecycleInit
  BY DEF BoxInit, ObservedInit, SettledLife!LifecycleInit
<1>2. BoxInv /\ [BoxNext]_boxVars => [SettledLife!LifecycleNext]_settled
  BY BoxStepAdvances DEF BoxInv
<1>3. QED
  BY <1>1, <1>2, BoxInvariant, PTL
     DEF BoxSpec, BoxOfficeFollowsLifecycle, SettledLife!LifecycleSpec
=============================================================================
