----------------------------- MODULE Ticketing -----------------------------
(***************************************************************************)
(* TicketingService: pre-authorization, capture, mint, refund and the      *)
(* ECPay callback, with any number of requests in flight.  A request loads *)
(* the ticket once, awaits ECPay, the identity service or the chain, and   *)
(* saves the entity it loaded.  ECPay and the chain may carry out what is  *)
(* asked and still answer with an error or not at all.                     *)
(***************************************************************************)
EXTENDS TicketStore

CONSTANT
    Requests       \* requests that can be made, each once

VARIABLES
    req,           \* req[r]: the request's position and local variables
    trade,         \* trade[t]: ECPay's own record of the order of t
    captureOk,     \* history: tickets whose capture ECPay answered with 200
    voidOk,        \* history: tickets whose void ECPay answered with 200
    mintOk         \* history: tickets whose mint returned a receipt

ticketingVars == <<req, trade, captureOk, voidOk, mintOk>>

Ops == {"none", "capture", "mint", "refund", "callback"}

ReqPcs == {"idle", "ecpay", "kyc", "mint", "burn", "select", "update",
           "done", "failed", "dead"}

Busy == {"ecpay", "kyc", "mint", "burn", "select", "update"}

(* entity: the object loaded by findOne; cols: what save() will write.     *)
Request == [op : Ops, pc : ReqPcs, ticket : Tickets \cup {"none"},
            entity : Row, cols : SUBSET Columns]

IdleRequest == [op |-> "none", pc |-> "idle", ticket |-> "none",
                entity |-> NoRow, cols |-> {}]

TradeStates == {"open", "authorized", "captured", "voided"}

TicketingStart ==
    /\ req = [r \in Requests |-> IdleRequest]
    /\ trade = [t \in Tickets |-> "open"]
    /\ captureOk = {}
    /\ voidOk = {}
    /\ mintOk = {}

TicketingInit ==
    /\ tickets = [t \in Tickets |-> NoRow]
    /\ balance = [i \in Tokens |-> 0]
    /\ TicketingStart

-----------------------------------------------------------------------------
(* The payment form is built after the row is saved, before anything has   *)
(* been paid.                                                              *)
Preauthorize(t) ==
    /\ tickets[t].status = "ABSENT"
    /\ tickets' = [tickets EXCEPT ![t].status = "PREAUTHORIZED"]
    /\ UNCHANGED <<balance, ticketingVars>>

(* The customer submits the form and ECPay authorizes the card.            *)
CustomerPays(t) ==
    /\ tickets[t].status # "ABSENT"
    /\ trade[t] = "open"
    /\ trade' = [trade EXCEPT ![t] = "authorized"]
    /\ UNCHANGED <<tickets, balance, req, captureOk, voidOk, mintOk>>

(* Which rows an operation accepts, and the await it reaches first.        *)
UnlessRefunded == TicketStatus \ {"REFUNDED"}
Refundable == {"PREAUTHORIZED", "PAID", "MINTED"}

Accepts(op, row) ==
    CASE op = "capture"  -> row.status = "PREAUTHORIZED"
      [] op = "mint"     -> row.status = "PAID"
      [] op = "refund"   -> row.status \in Refundable
      [] op = "callback" -> TRUE

FirstAwait(op) ==
    CASE op = "capture"  -> "ecpay"
      [] op = "mint"     -> "kyc"
      [] op = "refund"   -> "ecpay"
      [] op = "callback" -> "select"

(* What the handler assigns to the entity before it saves it.  The         *)
(* callback stores the trade number whatever RtnCode says; one that fails  *)
(* CheckMacValue or carries no TradeNo writes nothing.                     *)
AssignedCallbackPays(op, row) ==
    CASE op = "capture"  -> [row EXCEPT !.status = "PAID"]
      [] op = "mint"     -> [row EXCEPT !.status = "MINTED", !.sbt = "token"]
      [] op = "refund"   -> [row EXCEPT !.status = "REFUNDED"]
      [] op = "callback" -> [row EXCEPT !.status = "PAID", !.tradeNo = "assigned"]

AssignedWithoutToken(op, row) ==
    CASE op = "capture"  -> [row EXCEPT !.status = "PAID"]
      [] op = "mint"     -> [row EXCEPT !.status = "MINTED"]
      [] op = "refund"   -> [row EXCEPT !.status = "REFUNDED"]
      [] op = "callback" -> [row EXCEPT !.tradeNo = "assigned"]

Assigned(op, row) ==
    CASE op = "capture"  -> [row EXCEPT !.status = "PAID"]
      [] op = "mint"     -> [row EXCEPT !.status = "MINTED", !.sbt = "token"]
      [] op = "refund"   -> [row EXCEPT !.status = "REFUNDED"]
      [] op = "callback" -> [row EXCEPT !.tradeNo = "assigned"]

(* findOne and the checks on what it returned.  A refund asked for by      *)
(* somebody other than the owner is refused like one of a USED ticket.     *)
Start(r, t, op) ==
    /\ req[r].pc = "idle"
    /\ tickets[t].status # "ABSENT"
    /\ req' = [req EXCEPT ![r] =
                  [op |-> op, ticket |-> t, cols |-> {},
                   pc |-> IF Accepts(op, tickets[t]) THEN FirstAwait(op)
                                                     ELSE "failed",
                   entity |-> tickets[t]]]
    /\ UNCHANGED <<tickets, balance, trade, captureOk, voidOk, mintOk>>

CapturePayment(r, t)      == Start(r, t, "capture")
MintTicket(r, t)          == Start(r, t, "mint")
RefundTicket(r, t)        == Start(r, t, "refund")
HandleEcpayCallback(r, t) == Start(r, t, "callback")

(* ecpayDoAction: 'C' for a capture, 'N' for a refund.  ECPay carries it   *)
(* out or not; the service looks only at the HTTP status, and gives up     *)
(* after the timeout of fetchWithTimeout.                                  *)
DoActionOutcomes(op, state) ==
    {state} \cup
    (IF op = "capture" /\ state = "authorized" THEN {"captured"} ELSE {}) \cup
    (IF op = "refund" /\ state \in {"authorized", "captured"} THEN {"voided"} ELSE {})

CaptureAnswered(r) ==
    /\ req[r].op = "capture"
    /\ req' = [req EXCEPT ![r].pc = "select"]
    /\ captureOk' = captureOk \cup {req[r].ticket}
    /\ UNCHANGED voidOk

VoidAnswered(r) ==
    /\ req[r].op = "refund"
    /\ req' = [req EXCEPT ![r].pc = IF req[r].entity.sbt = "token" THEN "burn"
                                                                  ELSE "select"]
    /\ voidOk' = voidOk \cup {req[r].ticket}
    /\ UNCHANGED captureOk

DoActionFailed(r) ==
    /\ req' = [req EXCEPT ![r].pc = "failed"]
    /\ UNCHANGED <<captureOk, voidOk>>

EcpayDoAction(r) ==
    /\ req[r].pc = "ecpay"
    /\ LET t == req[r].ticket IN
       \E s \in DoActionOutcomes(req[r].op, trade[t]) : trade' = [trade EXCEPT ![t] = s]
    /\ CaptureAnswered(r) \/ VoidAnswered(r) \/ DoActionFailed(r)
    /\ UNCHANGED <<tickets, balance, mintOk>>

(* identityService.getKycStatus(ticket.userId): a wallet, or an exception. *)
GetKycStatus(r) ==
    /\ req[r].pc = "kyc"
    /\ \/ req' = [req EXCEPT ![r].pc = "mint"]
       \/ req' = [req EXCEPT ![r].pc = "failed"]
    /\ UNCHANGED <<tickets, balance, trade, captureOk, voidOk, mintOk>>

(* sendContractTx(mint): mined and reported, mined but not reported, or    *)
(* never mined.                                                            *)
MintUnconfirmed(r) ==
    /\ req[r].pc = "mint"
    /\ \E mined \in {0, 1} :
          balance' = [balance EXCEPT ![TokenOf[req[r].ticket]] = @ + mined]
    /\ req' = [req EXCEPT ![r].pc = "select"]
    /\ UNCHANGED <<tickets, trade, captureOk, voidOk, mintOk>>

MintTicketSbt(r) ==
    /\ req[r].pc = "mint"
    /\ LET t == req[r].ticket IN
       \/ /\ Mint(t)
          /\ req' = [req EXCEPT ![r].pc = "select"]
          /\ mintOk' = mintOk \cup {t}
       \/ /\ Mint(t)
          /\ req' = [req EXCEPT ![r].pc = "failed"]
          /\ UNCHANGED mintOk
       \/ /\ req' = [req EXCEPT ![r].pc = "failed"]
          /\ UNCHANGED <<balance, mintOk>>
    /\ UNCHANGED <<tickets, trade, captureOk, voidOk>>

(* sendContractTx(burn): BlockTicSBT reverts without a balance; a failure  *)
(* is only logged.                                                         *)
BurnUnchecked(r) ==
    /\ req[r].pc = "burn"
    /\ balance' = [balance EXCEPT ![TokenOf[req[r].ticket]] = @ - 1]
    /\ req' = [req EXCEPT ![r].pc = "select"]
    /\ UNCHANGED <<tickets, trade, captureOk, voidOk, mintOk>>

BurnTicketSbt(r) ==
    /\ req[r].pc = "burn"
    /\ Burn(req[r].ticket) \/ UNCHANGED balance
    /\ req' = [req EXCEPT ![r].pc = "select"]
    /\ UNCHANGED <<tickets, trade, captureOk, voidOk, mintOk>>

(* ticketRepo.save(ticket): the SELECT and the comparison, ...             *)
SaveSelect(r) ==
    /\ req[r].pc = "select"
    /\ LET saved == Assigned(req[r].op, req[r].entity) IN
       req' = [req EXCEPT ![r].pc = "update", ![r].entity = saved,
                          ![r].cols = ChangedColumns(saved, tickets[req[r].ticket])]
    /\ UNCHANGED <<tickets, balance, trade, captureOk, voidOk, mintOk>>

(* ... then the UPDATE.                                                    *)
SaveUpdate(r) ==
    /\ req[r].pc = "update"
    /\ LET t == req[r].ticket IN
       tickets' = [tickets EXCEPT ![t] = UpdateColumns(@, req[r].entity, req[r].cols)]
    /\ req' = [req EXCEPT ![r].pc = "done"]
    /\ UNCHANGED <<balance, trade, captureOk, voidOk, mintOk>>

(* The process stops, or the database fails: the rest never runs.          *)
RequestDies(r) ==
    /\ req[r].pc \in Busy
    /\ req' = [req EXCEPT ![r].pc = "dead"]
    /\ UNCHANGED <<tickets, balance, trade, captureOk, voidOk, mintOk>>

RequestStep(r) ==
    \/ EcpayDoAction(r) \/ GetKycStatus(r) \/ MintTicketSbt(r)
    \/ BurnTicketSbt(r) \/ SaveSelect(r) \/ SaveUpdate(r)

TicketingNext ==
    \/ \E t \in Tickets : Preauthorize(t) \/ CustomerPays(t)
    \/ \E r \in Requests, t \in Tickets :
          \/ CapturePayment(r, t) \/ MintTicket(r, t)
          \/ RefundTicket(r, t) \/ HandleEcpayCallback(r, t)
    \/ \E r \in Requests : RequestStep(r) \/ RequestDies(r)

ticketingAll == <<tickets, balance, ticketingVars>>

TicketingSpec == TicketingInit /\ [][TicketingNext]_ticketingAll

-----------------------------------------------------------------------------
(* Every variable holds values of the kind its column or local has.        *)
TicketingTypeOK ==
    /\ StoreTypeOK
    /\ req \in [Requests -> Request]
    /\ trade \in [Tickets -> TradeStates]
    /\ captureOk \subseteq Tickets
    /\ voidOk \subseteq Tickets
    /\ mintOk \subseteq Tickets

(* A row says nothing that was not once acknowledged for that ticket:      *)
(* PAID and MINTED only after ECPay answered its capture, REFUNDED only    *)
(* after ECPay answered its void, a token only after its mint had a        *)
(* receipt.  Stale entities written back by save() can take a row back to  *)
(* an older state but never forward to one it did not earn.                *)
Earned(t, row) ==
    /\ row.status \in {"PAID", "MINTED"} => t \in captureOk
    /\ row.status = "REFUNDED" => t \in voidOk
    /\ row.status = "MINTED" \/ row.sbt = "token" => t \in mintOk

StatusIsEarned == \A t \in Tickets : Earned(t, tickets[t])

(* The holder of a MINTED ticket passes the gate's ownership check: the    *)
(* token is in the wallet unless a refund of that ticket, or of one with   *)
(* the same token id, got past ECPay.                                      *)
MintedHolderHasToken ==
    \A t \in Tickets : tickets[t].status = "MINTED" =>
        balance[TokenOf[t]] > 0 \/ \E u \in voidOk : TokenOf[u] = TokenOf[t]

(* paidAt is the "Payment capture timestamp": a PAID ticket was captured at *)
(* ECPay, or has since been voided there.                                  *)
PaidWasCaptured ==
    \A t \in Tickets :
        tickets[t].status = "PAID" => trade[t] \in {"captured", "voided"}
=============================================================================
