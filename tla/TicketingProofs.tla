-------------------------- MODULE TicketingProofs --------------------------
(***************************************************************************)
(* Proofs about Ticketing for any number of tickets and of requests, which *)
(* may overlap as they like, and about what it keeps on the tickets whose  *)
(* requests did not overlap.                                               *)
(***************************************************************************)
EXTENDS TicketingObserved, TLAPS

Handlers == {"capture", "mint", "refund", "callback"}

(* A request at work has loaded a ticket for one of the four handlers, and *)
(* stands at an await of that handler.                                     *)
AtItsAwait ==
    \A r \in Requests :
        /\ req[r].pc \in Busy => req[r].ticket \in Tickets /\ req[r].op \in Handlers
        /\ req[r].pc = "ecpay" => req[r].op \in {"capture", "refund"}
        /\ req[r].pc \in {"kyc", "mint"} => req[r].op = "mint"
        /\ req[r].pc = "burn" => req[r].op = "refund"

TicketingTypeInv == TicketingTypeOK /\ AtItsAwait

(* The row that save() will write is a row.                                *)
LEMMA AssignedIsRow ==
    ASSUME NEW op \in Handlers, NEW row \in Row
    PROVE  Assigned(op, row) \in Row
  BY DEF Handlers, Assigned, Row, TicketStatus

(* An UPDATE of some columns leaves a row.                                 *)
LEMMA UpdatedIsRow ==
    ASSUME NEW row \in Row, NEW entity \in Row, NEW cols
    PROVE  UpdateColumns(row, entity, cols) \in Row
  BY DEF UpdateColumns, Row

(* A handler begins with a copy of the row it read.                        *)
LEMMA StartKeepsTypes ==
    ASSUME TicketingTypeInv, NEW r \in Requests, NEW t \in Tickets,
           NEW op \in Handlers, Start(r, t, op)
    PROVE  TicketingTypeInv'
<1> DEFINE begun == [op |-> op, ticket |-> t, cols |-> {},
                     pc |-> IF Accepts(op, tickets[t]) THEN FirstAwait(op) ELSE "failed",
                     entity |-> tickets[t]]
<1>1. /\ FirstAwait(op) \in {"ecpay", "kyc", "select"}
      /\ FirstAwait(op) = "ecpay" => op \in {"capture", "refund"}
      /\ FirstAwait(op) = "kyc" => op = "mint"
  BY DEF FirstAwait, Handlers
<1>2. /\ begun.pc \in {"ecpay", "kyc", "select", "failed"}
      /\ begun.pc = "ecpay" => op \in {"capture", "refund"}
      /\ begun.pc = "kyc" => op = "mint"
      /\ begun.op = op /\ begun.ticket = t
  BY <1>1
<1>3. begun \in Request
  BY <1>2 DEF TicketingTypeInv, TicketingTypeOK, StoreTypeOK, Request, Ops, Handlers,
     ReqPcs
<1>4. /\ req' = [req EXCEPT ![r] = begun]
      /\ UNCHANGED <<tickets, balance, trade, captureOk, voidOk, mintOk>>
  BY DEF Start
<1> HIDE DEF begun
<1>5. TicketingTypeOK'
  BY <1>3, <1>4 DEF TicketingTypeInv, TicketingTypeOK, StoreTypeOK
<1>6. AtItsAwait'
  BY <1>2, <1>4 DEF TicketingTypeInv, TicketingTypeOK, AtItsAwait, Busy
<1>7. QED
  BY <1>5, <1>6 DEF TicketingTypeInv

(* The SELECT of save() computes columns, nothing else.                    *)
LEMMA SaveSelectKeepsTypes ==
    ASSUME TicketingTypeInv, NEW r \in Requests, SaveSelect(r)
    PROVE  TicketingTypeInv'
<1> DEFINE saved == Assigned(req[r].op, req[r].entity)
           cols  == ChangedColumns(saved, tickets[req[r].ticket])
<1>1. /\ req \in [Requests -> Request]
      /\ req' = [req EXCEPT ![r].pc = "update", ![r].entity = saved, ![r].cols = cols]
      /\ req[r].pc = "select"
      /\ UNCHANGED <<tickets, balance, trade, captureOk, voidOk, mintOk>>
  BY DEF SaveSelect, TicketingTypeInv, TicketingTypeOK
<1>2. req[r].op \in Handlers /\ req[r].entity \in Row
  BY <1>1 DEF TicketingTypeInv, AtItsAwait, Busy, Request
<1>3. saved \in Row /\ cols \subseteq Columns
  BY <1>2, AssignedIsRow DEF ChangedColumns
<1> HIDE DEF saved, cols
<1>4. req' \in [Requests -> Request]
  <2>1. req[r] \in Request
    BY <1>1
  <2>2. [req[r] EXCEPT !.pc = "update", !.entity = saved, !.cols = cols] \in Request
    BY <1>3, <2>1 DEF Request, ReqPcs
  <2>3. req' = [req EXCEPT ![r] =
                   [req[r] EXCEPT !.pc = "update", !.entity = saved, !.cols = cols]]
    BY <1>1
  <2>4. QED
    BY <1>1, <2>2, <2>3
<1>5. /\ req'[r].pc = "update"
      /\ req'[r].op = req[r].op /\ req'[r].ticket = req[r].ticket
      /\ \A q \in Requests \ {r} : req'[q] = req[q]
  BY <1>1 DEF Request
<1>6. TicketingTypeOK'
  BY <1>1, <1>4 DEF TicketingTypeInv, TicketingTypeOK, StoreTypeOK
<1>7. AtItsAwait'
  BY <1>1, <1>5 DEF TicketingTypeInv, AtItsAwait, Busy
<1>8. QED
  BY <1>6, <1>7 DEF TicketingTypeInv

(* A ticket's id is one of the ids.                                        *)
LEMMA TokenOfTicket == \A t \in Tickets : TokenOf[t] \in Tokens
  BY DEF Tokens

(* Every step keeps the types.                                             *)
LEMMA TicketingTypePreserved ==
    ASSUME TicketingTypeInv, [TicketingNext]_ticketingAll
    PROVE  TicketingTypeInv'
<1> USE DEF TicketingTypeInv, TicketingTypeOK, StoreTypeOK, AtItsAwait
<1>1. ASSUME NEW t \in Tickets, Preauthorize(t)
      PROVE  TicketingTypeInv'
  BY <1>1 DEF Preauthorize, ticketingVars, Row, TicketStatus
<1>2. ASSUME NEW t \in Tickets, CustomerPays(t)
      PROVE  TicketingTypeInv'
  BY <1>2 DEF CustomerPays, TradeStates
<1>3. ASSUME NEW r \in Requests, NEW t \in Tickets,
             \/ CapturePayment(r, t) \/ MintTicket(r, t)
             \/ RefundTicket(r, t) \/ HandleEcpayCallback(r, t)
      PROVE  TicketingTypeInv'
  BY <1>3, StartKeepsTypes
     DEF CapturePayment, MintTicket, RefundTicket, HandleEcpayCallback, Handlers
<1>4. ASSUME NEW r \in Requests, EcpayDoAction(r)
      PROVE  TicketingTypeInv'
  <2>1. trade' \in [Tickets -> TradeStates]
    BY <1>4 DEF EcpayDoAction, DoActionOutcomes, TradeStates, Busy
  <2>2. UNCHANGED <<tickets, balance, mintOk>>
    BY <1>4 DEF EcpayDoAction
  <2>3. req[r].ticket \in Tickets /\ req[r].op \in Handlers
    BY <1>4 DEF EcpayDoAction, Busy
  <2>4. captureOk' \subseteq Tickets /\ voidOk' \subseteq Tickets
    BY <1>4, <2>3 DEF EcpayDoAction, CaptureAnswered, VoidAnswered, DoActionFailed
  <2>5. \E p \in {"select", "burn", "failed"} :
           /\ req' = [req EXCEPT ![r].pc = p]
           /\ p = "burn" => req[r].op = "refund"
    BY <1>4 DEF EcpayDoAction, CaptureAnswered, VoidAnswered, DoActionFailed
  <2>6. QED
    BY <2>1, <2>2, <2>3, <2>4, <2>5 DEF Request, ReqPcs, Busy
<1>5. ASSUME NEW r \in Requests, GetKycStatus(r)
      PROVE  TicketingTypeInv'
  BY <1>5 DEF GetKycStatus, Request, ReqPcs, Busy
<1>6. ASSUME NEW r \in Requests, MintTicketSbt(r)
      PROVE  TicketingTypeInv'
  <2>1. req[r].ticket \in Tickets
    BY <1>6 DEF MintTicketSbt, Mint, Busy
  <2>2. balance' \in [Tokens -> Nat] /\ mintOk' \subseteq Tickets
    BY <1>6, <2>1, TokenOfTicket DEF MintTicketSbt, Mint
  <2>3. QED
    BY <1>6, <2>2 DEF MintTicketSbt, Mint, Request, ReqPcs, Busy
<1>7. ASSUME NEW r \in Requests, BurnTicketSbt(r)
      PROVE  TicketingTypeInv'
  <2>1. req[r].ticket \in Tickets
    BY <1>7 DEF BurnTicketSbt, Burn, Busy
  <2>2. balance' \in [Tokens -> Nat]
    BY <1>7, <2>1, TokenOfTicket DEF BurnTicketSbt, Burn
  <2>3. QED
    BY <1>7, <2>2 DEF BurnTicketSbt, Burn, Request, ReqPcs, Busy
<1>8. ASSUME NEW r \in Requests, SaveSelect(r)
      PROVE  TicketingTypeInv'
  BY <1>8, SaveSelectKeepsTypes
<1>9. ASSUME NEW r \in Requests, SaveUpdate(r)
      PROVE  TicketingTypeInv'
  <2>1. tickets' \in [Tickets -> Row]
    BY <1>9, UpdatedIsRow DEF SaveUpdate, Busy, Request
  <2>2. QED
    BY <1>9, <2>1 DEF SaveUpdate, Request, ReqPcs, Busy
<1>10. ASSUME NEW r \in Requests, RequestDies(r)
       PROVE  TicketingTypeInv'
  BY <1>10 DEF RequestDies, Request, ReqPcs, Busy
<1>11. ASSUME UNCHANGED ticketingAll
       PROVE  TicketingTypeInv'
  BY <1>11 DEF ticketingAll, ticketingVars
<1>12. QED
  BY <1>1, <1>2, <1>3, <1>4, <1>5, <1>6, <1>7, <1>8, <1>9, <1>10, <1>11
     DEF TicketingNext, RequestStep

(* The types hold initially.                                               *)
LEMMA TicketingTypeInitially == TicketingInit => TicketingTypeInv
  BY DEF TicketingInit, TicketingStart, TicketingTypeInv, TicketingTypeOK, StoreTypeOK,
         AtItsAwait, NoRow, Row, IdleRequest, Request, Ops, ReqPcs, Busy, TradeStates

(* Ticketing's variables keep their types in every state, and every        *)
(* request at work stands at an await of its own handler.                  *)
THEOREM TicketingTypeCorrect == TicketingSpec => [](TicketingTypeOK /\ AtItsAwait)
  BY TicketingTypeInitially, TicketingTypePreserved, PTL
     DEF TicketingSpec, TicketingTypeInv

-----------------------------------------------------------------------------
(* What the entity in a request's memory has earned, and what is known to  *)
(* have been answered by the time the request is about to assign to it.    *)
EntityEarned ==
    \A r \in Requests :
        LET t == req[r].ticket IN
        /\ req[r].pc \in Busy => Earned(t, req[r].entity)
        /\ req[r].pc \in {"kyc", "mint"} => req[r].entity.status = "PAID"
        /\ req[r].pc = "burn" => t \in voidOk
        /\ req[r].pc = "select" =>
              /\ req[r].op = "capture" => t \in captureOk
              /\ req[r].op = "mint" => t \in captureOk /\ t \in mintOk
              /\ req[r].op = "refund" => t \in voidOk

(* A confirmed token leaves the wallet only through a refund that ECPay    *)
(* answered, of its ticket or of one with the same id.                     *)
TokenRefunded(i) == \E u \in voidOk : TokenOf[u] = i

MintedTokenKept ==
    \A t \in mintOk : balance[TokenOf[t]] > 0 \/ TokenRefunded(TokenOf[t])

EarnedInv == StatusIsEarned /\ EntityEarned /\ MintedTokenKept

(* The assignments before a save add nothing that has not been answered.   *)
LEMMA AssignedIsEarned ==
    ASSUME NEW t \in Tickets, NEW op \in Handlers, NEW row \in Row, Earned(t, row),
           op = "capture" => t \in captureOk,
           op = "mint" => t \in captureOk /\ t \in mintOk,
           op = "refund" => t \in voidOk
    PROVE  Earned(t, Assigned(op, row))
<1>1. CASE op = "capture"
  BY <1>1 DEF Earned, Assigned, Row
<1>2. CASE op = "mint"
  BY <1>2 DEF Earned, Assigned, Row
<1>3. CASE op = "refund"
  BY <1>3 DEF Earned, Assigned, Row
<1>4. CASE op = "callback"
  BY <1>4 DEF Earned, Assigned, Row
<1>5. QED
  BY <1>1, <1>2, <1>3, <1>4 DEF Handlers

(* Mixing columns of two earned rows gives an earned row.                  *)
LEMMA UpdatedIsEarned ==
    ASSUME NEW t \in Tickets, NEW row \in Row, NEW entity \in Row, NEW cols,
           Earned(t, row), Earned(t, entity)
    PROVE  Earned(t, UpdateColumns(row, entity, cols))
  BY DEF Earned, UpdateColumns, Row

(* No step, and no stale save, writes a status that was not earned.        *)
LEMMA EarnedPreserved ==
    ASSUME TicketingTypeInv, EarnedInv, [TicketingNext]_ticketingAll
    PROVE  EarnedInv'
<1> req \in [Requests -> Request] /\ tickets \in [Tickets -> Row]
    /\ balance \in [Tokens -> Nat] /\ mintOk \subseteq Tickets
  BY DEF TicketingTypeInv, TicketingTypeOK, StoreTypeOK
<1> \A r \in Requests : req[r].pc \in Busy => req[r].ticket \in Tickets
  BY DEF TicketingTypeInv, AtItsAwait
<1> USE DEF EarnedInv, StatusIsEarned, EntityEarned, MintedTokenKept, TokenRefunded
<1>1. ASSUME NEW t \in Tickets, Preauthorize(t)
      PROVE  EarnedInv'
  <2>1. /\ tickets' = [tickets EXCEPT ![t].status = "PREAUTHORIZED"]
        /\ UNCHANGED <<balance, req, captureOk, voidOk, mintOk>>
    BY <1>1 DEF Preauthorize, ticketingVars
  <2>2. Earned(t, tickets[t])
    OBVIOUS
  <2>3. /\ tickets'[t].status = "PREAUTHORIZED" /\ tickets'[t].sbt = tickets[t].sbt
        /\ \A u \in Tickets \ {t} : tickets'[u] = tickets[u]
    BY <2>1 DEF Row
  <2>4. StatusIsEarned'
    BY <2>1, <2>2, <2>3 DEF Earned
  <2>5. QED
    BY <2>1, <2>4 DEF Earned
<1>2. ASSUME NEW t \in Tickets, CustomerPays(t)
      PROVE  EarnedInv'
  BY <1>2 DEF CustomerPays, Earned
<1>3. ASSUME NEW r \in Requests, NEW t \in Tickets, NEW op \in Handlers, Start(r, t, op)
      PROVE  EarnedInv'
  <2>1. /\ req'[r].ticket = t /\ req'[r].entity = tickets[t] /\ req'[r].op = op
        /\ req'[r].pc = IF Accepts(op, tickets[t]) THEN FirstAwait(op) ELSE "failed"
        /\ \A q \in Requests \ {r} : req'[q] = req[q]
        /\ UNCHANGED <<tickets, balance, captureOk, voidOk, mintOk>>
    BY <1>3 DEF Start
  <2>2. /\ req'[r].pc \in {"kyc", "mint"} => tickets[t].status = "PAID"
        /\ req'[r].pc # "burn"
        /\ req'[r].pc = "select" => op = "callback"
    BY <2>1 DEF Handlers, Accepts, FirstAwait
  <2>3. Earned(t, tickets[t])'
    BY <2>1 DEF Earned
  <2>4. QED
    BY <2>1, <2>2, <2>3 DEF Earned
<1>4. ASSUME NEW r \in Requests, EcpayDoAction(r)
      PROVE  EarnedInv'
  <2> DEFINE t == req[r].ticket
  <2>1. /\ req[r].pc = "ecpay" /\ t \in Tickets /\ req[r].op \in {"capture", "refund"}
        /\ Earned(t, req[r].entity)
        /\ UNCHANGED <<tickets, balance, mintOk>>
    BY <1>4 DEF EcpayDoAction, Busy, TicketingTypeInv, AtItsAwait
  <2>2. captureOk \subseteq captureOk' /\ voidOk \subseteq voidOk'
    BY <1>4 DEF EcpayDoAction, CaptureAnswered, VoidAnswered, DoActionFailed
  <2>3. /\ req'[r].ticket = t /\ req'[r].entity = req[r].entity /\ req'[r].op = req[r].op
        /\ req'[r].pc \in {"select", "burn", "failed"}
        /\ req'[r].pc = "burn" => t \in voidOk'
        /\ req'[r].pc = "select" /\ req[r].op = "capture" => t \in captureOk'
        /\ req'[r].pc = "select" /\ req[r].op = "refund" => t \in voidOk'
        /\ \A q \in Requests \ {r} : req'[q] = req[q]
    BY <1>4 DEF EcpayDoAction, CaptureAnswered, VoidAnswered, DoActionFailed, Request
  <2>4. StatusIsEarned' /\ MintedTokenKept'
    BY <2>1, <2>2 DEF Earned
  <2>5. EntityEarned'
    BY <2>1, <2>2, <2>3 DEF Earned
  <2>6. QED
    BY <2>4, <2>5
<1>5. ASSUME NEW r \in Requests, GetKycStatus(r)
      PROVE  EarnedInv'
  <2>1. /\ req'[r].pc \in {"mint", "failed"} /\ req[r].pc = "kyc"
        /\ req'[r].ticket = req[r].ticket /\ req'[r].entity = req[r].entity
        /\ \A q \in Requests \ {r} : req'[q] = req[q]
        /\ UNCHANGED <<tickets, balance, captureOk, voidOk, mintOk>>
    BY <1>5 DEF GetKycStatus, Request
  <2>2. QED
    BY <2>1 DEF Earned, Busy
<1>6. ASSUME NEW r \in Requests, MintTicketSbt(r)
      PROVE  EarnedInv'
  <2> DEFINE t == req[r].ticket
  <2>1. /\ req[r].pc = "mint" /\ t \in Tickets /\ req[r].op = "mint"
        /\ Earned(t, req[r].entity) /\ req[r].entity.status = "PAID"
        /\ UNCHANGED <<tickets, captureOk, voidOk>>
    BY <1>6 DEF MintTicketSbt, Mint, Busy, TicketingTypeInv, AtItsAwait
  <2>2. t \in captureOk
    BY <2>1 DEF Earned
  <2>3. /\ mintOk \subseteq mintOk' /\ mintOk' \subseteq mintOk \cup {t}
        /\ t \in mintOk' \ mintOk => balance'[TokenOf[t]] > 0
        /\ \A i \in Tokens : balance'[i] >= balance[i]
    BY <1>6, <2>1, TokenOfTicket DEF MintTicketSbt, Mint
  <2>4. /\ req'[r].ticket = t /\ req'[r].entity = req[r].entity /\ req'[r].op = "mint"
        /\ req'[r].pc \in {"select", "failed"}
        /\ req'[r].pc = "select" => t \in mintOk'
        /\ \A q \in Requests \ {r} : req'[q] = req[q]
    BY <1>6, <2>1 DEF MintTicketSbt, Mint, Request
  <2>5. MintedTokenKept'
    <3>1. \A i \in Tokens : balance'[i] \in Nat
      BY <1>6, <2>1, TokenOfTicket DEF MintTicketSbt, Mint
    <3>2. QED
      BY <2>1, <2>3, <3>1, TokenOfTicket
  <2>6. StatusIsEarned'
    BY <2>1, <2>3 DEF Earned
  <2>7. EntityEarned'
    BY <2>1, <2>2, <2>3, <2>4 DEF Earned
  <2>8. QED
    BY <2>5, <2>6, <2>7
<1>7. ASSUME NEW r \in Requests, BurnTicketSbt(r)
      PROVE  EarnedInv'
  <2> DEFINE t == req[r].ticket
  <2>1. /\ req[r].pc = "burn" /\ t \in Tickets /\ req[r].op = "refund"
        /\ t \in voidOk /\ Earned(t, req[r].entity)
        /\ UNCHANGED <<tickets, captureOk, voidOk, mintOk>>
    BY <1>7 DEF BurnTicketSbt, Burn, Busy, TicketingTypeInv, AtItsAwait
  <2>2. \A i \in Tokens \ {TokenOf[t]} : balance'[i] = balance[i]
    BY <1>7 DEF BurnTicketSbt, Burn
  <2>3. /\ req'[r].ticket = t /\ req'[r].entity = req[r].entity /\ req'[r].op = "refund"
        /\ req'[r].pc = "select"
        /\ \A q \in Requests \ {r} : req'[q] = req[q]
    BY <1>7, <2>1 DEF BurnTicketSbt, Burn, Request
  <2>4. MintedTokenKept'
    BY <2>1, <2>2, TokenOfTicket
  <2>5. QED
    BY <2>1, <2>3, <2>4 DEF Earned
<1>8. ASSUME NEW r \in Requests, SaveSelect(r)
      PROVE  EarnedInv'
  <2> DEFINE t == req[r].ticket
             saved == Assigned(req[r].op, req[r].entity)
             cols == ChangedColumns(saved, tickets[t])
  <2>1. /\ req[r].pc = "select" /\ t \in Tickets /\ req[r].op \in Handlers
        /\ req[r].entity \in Row
        /\ UNCHANGED <<tickets, balance, captureOk, voidOk, mintOk>>
    BY <1>8 DEF SaveSelect, Busy, TicketingTypeInv, AtItsAwait, Request
  <2>2. Earned(t, req[r].entity)
    BY <2>1 DEF Busy
  <2>3. Earned(t, saved)
    BY <2>1, <2>2, AssignedIsEarned
  <2>4. req' = [req EXCEPT ![r].pc = "update", ![r].entity = saved, ![r].cols = cols]
    BY <1>8 DEF SaveSelect
  <2> HIDE DEF saved, cols
  <2>5. /\ req'[r].pc = "update" /\ req'[r].entity = saved /\ req'[r].ticket = t
        /\ \A q \in Requests \ {r} : req'[q] = req[q]
    BY <2>4 DEF Request
  <2>6. EntityEarned'
    BY <2>1, <2>3, <2>5 DEF Earned
  <2>7. QED
    BY <2>1, <2>6 DEF Earned
<1>9. ASSUME NEW r \in Requests, SaveUpdate(r)
      PROVE  EarnedInv'
  <2> DEFINE t == req[r].ticket
             written == UpdateColumns(tickets[t], req[r].entity, req[r].cols)
  <2>1. /\ t \in Tickets /\ Earned(t, tickets[t]) /\ Earned(t, req[r].entity)
        /\ req[r].entity \in Row
        /\ UNCHANGED <<balance, captureOk, voidOk, mintOk>>
    BY <1>9 DEF SaveUpdate, Busy, Request
  <2>2. Earned(t, written)
    BY <2>1, UpdatedIsEarned
  <2>3. tickets' = [tickets EXCEPT ![t] = written]
    BY <1>9 DEF SaveUpdate
  <2> HIDE DEF written
  <2>4. StatusIsEarned'
    BY <2>1, <2>2, <2>3 DEF Earned
  <2>5. /\ req'[r].pc = "done"
        /\ \A q \in Requests \ {r} : req'[q] = req[q]
    BY <1>9 DEF SaveUpdate, Request
  <2>6. EntityEarned' /\ MintedTokenKept'
    BY <2>1, <2>5 DEF Earned, Busy
  <2>7. QED
    BY <2>4, <2>6
<1>10. ASSUME NEW r \in Requests, RequestDies(r)
       PROVE  EarnedInv'
  <2>1. /\ req'[r].pc = "dead"
        /\ \A q \in Requests \ {r} : req'[q] = req[q]
        /\ UNCHANGED <<tickets, balance, captureOk, voidOk, mintOk>>
    BY <1>10 DEF RequestDies, Request
  <2>2. QED
    BY <2>1 DEF Earned, Busy
<1>11. ASSUME UNCHANGED ticketingAll
       PROVE  EarnedInv'
  BY <1>11 DEF ticketingAll, ticketingVars, Earned
<1>12. QED
  <2>1. ASSUME NEW r \in Requests, NEW t \in Tickets,
               \/ CapturePayment(r, t) \/ MintTicket(r, t)
               \/ RefundTicket(r, t) \/ HandleEcpayCallback(r, t)
        PROVE  EarnedInv'
    BY <1>3, <2>1 DEF CapturePayment, MintTicket, RefundTicket, HandleEcpayCallback,
       Handlers
  <2>2. QED
    BY <1>1, <1>2, <2>1, <1>4, <1>5, <1>6, <1>7, <1>8, <1>9, <1>10, <1>11
       DEF TicketingNext, RequestStep

(* No ticket has a status to earn yet.                                     *)
LEMMA EarnedInitially == TicketingInit => EarnedInv
  BY DEF TicketingInit, TicketingStart, NoRow, IdleRequest, EarnedInv, StatusIsEarned,
         EntityEarned, MintedTokenKept, Earned, Busy

(* However many requests overlap on a ticket, die, or are answered after   *)
(* their time: no row ever claims a payment, a refund or a token that was  *)
(* not acknowledged for that ticket.                                       *)
THEOREM RowsAreEarned == TicketingSpec => []StatusIsEarned
  BY TicketingTypeInitially, TicketingTypePreserved, EarnedInitially, EarnedPreserved,
     PTL DEF TicketingSpec, EarnedInv

(* The holder of a MINTED ticket has its token, unless a refund of that    *)
(* ticket, or of one with the same token id, got past ECPay.               *)
THEOREM MintedHoldersHaveTokens == TicketingSpec => []MintedHolderHasToken
<1>1. EarnedInv => MintedHolderHasToken
  BY DEF EarnedInv, StatusIsEarned, Earned, MintedTokenKept, TokenRefunded,
     MintedHolderHasToken
<1>2. QED
  BY <1>1, TicketingTypeInitially, TicketingTypePreserved, EarnedInitially,
     EarnedPreserved, PTL DEF TicketingSpec

(* deriveTokenId "derives a unique SBT token ID from the ticket's UUID": a *)
(* MINTED ticket would then lose its token through its own refund only.    *)
TokenIsOwn ==
    \A t \in Tickets :
        tickets[t].status = "MINTED" => balance[TokenOf[t]] > 0 \/ t \in voidOk

(* The collision of two hashes is all that can take a token with another   *)
(* ticket's refund: where deriveTokenId gives each ticket an id of its     *)
(* own, a MINTED ticket loses its token through its own refund only.       *)
THEOREM OwnTokensAreKept ==
    ASSUME \A t, u \in Tickets : TokenOf[t] = TokenOf[u] => t = u
    PROVE  TicketingSpec => []TokenIsOwn
<1>1. TicketingTypeInv /\ EarnedInv => TokenIsOwn
  <2> SUFFICES ASSUME TicketingTypeInv, EarnedInv, NEW t \in Tickets,
                      tickets[t].status = "MINTED", ~ balance[TokenOf[t]] > 0
               PROVE  t \in voidOk
    BY DEF TokenIsOwn
  <2>1. PICK u \in voidOk : TokenOf[u] = TokenOf[t]
    BY DEF EarnedInv, StatusIsEarned, Earned, MintedTokenKept, TokenRefunded
  <2>2. QED
    BY <2>1 DEF TicketingTypeInv, TicketingTypeOK
<1>2. QED
  BY <1>1, TicketingTypeInitially, TicketingTypePreserved, EarnedInitially,
     EarnedPreserved, PTL DEF TicketingSpec

-----------------------------------------------------------------------------
(* A request at work on a ticket without overlap holds the row as it is,   *)
(* which its handler accepts, and will save exactly what it assigned.      *)
IsCurrent(r) ==
    req[r].pc \in Busy /\ req[r].ticket \notin overlapped =>
        LET row == tickets[req[r].ticket] IN
        /\ row.status # "ABSENT"
        /\ Accepts(req[r].op, row)
        /\ req[r].pc # "update" => req[r].entity = row
        /\ req[r].pc = "update" => /\ req[r].entity = Assigned(req[r].op, row)
                                   /\ req[r].cols = ChangedColumns(req[r].entity, row)

(* The observer misses no overlap and follows the row until there is one.  *)
ObserverFollows ==
    /\ settled \in [Tickets -> TicketStatus \cup {"ABSENT"}]
    /\ Contended \subseteq overlapped
    /\ \A t \in Tickets \ overlapped : settled[t] = tickets[t].status

ObservedInv ==
    /\ ObserverFollows
    /\ \A r \in Requests : IsCurrent(r)
    /\ MintedRowHasToken

(* A save whose SELECT saw the row that the UPDATE changes writes exactly  *)
(* the entity.                                                             *)
LEMMA SaveWritesEntity ==
    ASSUME NEW row \in Row, NEW entity \in Row
    PROVE  UpdateColumns(row, entity, ChangedColumns(entity, row)) = entity
<1> DEFINE cols == ChangedColumns(entity, row)
<1>1. /\ "status" \notin cols => entity.status = row.status
      /\ "tradeNo" \notin cols => entity.tradeNo = row.tradeNo
      /\ "sbt" \notin cols => entity.sbt = row.sbt
  BY DEF ChangedColumns, Columns
<1> HIDE DEF cols
<1>2. UpdateColumns(row, entity, cols) =
         [status |-> entity.status, tradeNo |-> entity.tradeNo, sbt |-> entity.sbt]
  BY <1>1 DEF UpdateColumns
<1>3. entity = [status |-> entity.status, tradeNo |-> entity.tradeNo, sbt |-> entity.sbt]
  BY DEF Row
<1>4. QED
  BY <1>2, <1>3 DEF cols

(* Nobody else is at work on a ticket without overlap.                     *)
LEMMA SoleRequest ==
    ASSUME ObserverFollows, NEW r \in Requests, NEW q \in Requests, r # q,
           req[r].pc \in Busy, req[q].pc \in Busy,
           req[r].ticket \in Tickets, req[q].ticket = req[r].ticket
    PROVE  req[r].ticket \in overlapped
  BY DEF ObserverFollows, Contended, AtWork

(* A request that a step leaves alone stays current, unless the step wrote *)
(* its row.                                                                *)
LEMMA OthersStayCurrent ==
    ASSUME NEW q \in Requests, IsCurrent(q), overlapped \subseteq overlapped',
           req'[q] = req[q],
           req[q].pc \in Busy => \/ tickets'[req[q].ticket] = tickets[req[q].ticket]
                                 \/ req[q].ticket \in overlapped'
    PROVE  IsCurrent(q)'
  BY DEF IsCurrent

(* The observer's own part of every step.                                  *)
LEMMA ObserverKeepsUp ==
    ASSUME TicketingTypeInv', ObserverFollows, NEW disturbed, Observe(disturbed)
    PROVE  ObserverFollows' /\ overlapped \subseteq overlapped'
<1>1. /\ overlapped' = overlapped \cup Contended' \cup disturbed
      /\ settled' = [t \in Tickets |-> IF t \in overlapped' THEN settled[t]
                                                            ELSE tickets'[t].status]
  BY DEF Observe
<1>2. tickets' \in [Tickets -> Row]
  BY DEF TicketingTypeInv, TicketingTypeOK, StoreTypeOK
<1>3. \A t \in Tickets : tickets'[t].status \in TicketStatus \cup {"ABSENT"}
  BY <1>2 DEF Row
<1>4. QED
  BY <1>1, <1>3 DEF ObserverFollows

(* A step of one request that writes no row.                               *)
LEMMA RequestMoves ==
    ASSUME ObservedInv, ObserverFollows', overlapped \subseteq overlapped',
           NEW r \in Requests, UNCHANGED tickets, \A q \in Requests \ {r} : req'[q] = req[q],
           IsCurrent(r)'
    PROVE  ObservedInv'
<1>1. \A q \in Requests : IsCurrent(q)'
  BY OthersStayCurrent DEF ObservedInv
<1>2. QED
  BY <1>1 DEF ObservedInv, MintedRowHasToken

(* The assignments of a handler that accepted a row never make a MINTED    *)
(* row without a token, and move it along the life of a ticket.            *)
LEMMA AssignedIsLawful ==
    ASSUME NEW op \in Handlers, NEW row \in Row, Accepts(op, row),
           row.status # "ABSENT", row.status = "MINTED" => row.sbt = "token"
    PROVE  LET new == Assigned(op, row) IN
           /\ new.status = "MINTED" => new.sbt = "token"
           /\ \/ new.status = row.status
              \/ new.status \in TicketStatus /\ row.status \in SettledLife!Before(new.status)
<1>1. CASE op = "capture"
  BY <1>1 DEF Accepts, Assigned, Row, TicketStatus, SettledLife!Before
<1>2. CASE op = "mint"
  BY <1>2 DEF Accepts, Assigned, Row, TicketStatus, SettledLife!Before
<1>3. CASE op = "refund"
  BY <1>3 DEF Accepts, Assigned, Row, TicketStatus, Refundable, SettledLife!Before
<1>4. CASE op = "callback"
  BY <1>4 DEF Accepts, Assigned, Row
<1>5. QED
  BY <1>1, <1>2, <1>3, <1>4 DEF Handlers

(* What the UPDATE of a request without overlap leaves in the row.         *)
LEMMA CurrentSaveIsLawful ==
    ASSUME TicketingTypeInv, ObservedInv, NEW r \in Requests, SaveUpdate(r),
           NEW t, t = req[r].ticket
    PROVE  /\ t \in Tickets
           /\ \A u \in Tickets \ {t} : tickets'[u] = tickets[u]
           /\ t \notin overlapped =>
                 /\ tickets'[t].status = "MINTED" => tickets'[t].sbt = "token"
                 /\ \/ tickets'[t].status = tickets[t].status
                    \/ /\ tickets'[t].status \in TicketStatus
                       /\ tickets[t].status \in SettledLife!Before(tickets'[t].status)
<1>1. /\ req[r].pc = "update" /\ t \in Tickets /\ req[r].op \in Handlers
      /\ tickets \in [Tickets -> Row] /\ req[r].entity \in Row
      /\ tickets' = [tickets EXCEPT ![t] =
                        UpdateColumns(tickets[t], req[r].entity, req[r].cols)]
  BY DEF SaveUpdate, TicketingTypeInv, AtItsAwait, TicketingTypeOK, StoreTypeOK, Busy, Request
<1>2. CASE t \notin overlapped
  <2>1. PICK new : new = Assigned(req[r].op, tickets[t])
    OBVIOUS
  <2>2. /\ tickets[t].status # "ABSENT" /\ Accepts(req[r].op, tickets[t])
        /\ req[r].entity = new /\ req[r].cols = ChangedColumns(new, tickets[t])
    BY <1>1, <1>2, <2>1 DEF ObservedInv, IsCurrent, Busy
  <2>3. tickets'[t] = new
    BY <1>1, <2>2, SaveWritesEntity
  <2>4. tickets[t].status = "MINTED" => tickets[t].sbt = "token"
    BY <1>1, <1>2 DEF ObservedInv, MintedRowHasToken
  <2>5. PICK op \in Handlers, row \in Row : op = req[r].op /\ row = tickets[t]
    BY <1>1
  <2>6. /\ new.status = "MINTED" => new.sbt = "token"
        /\ \/ new.status = row.status
           \/ new.status \in TicketStatus /\ row.status \in SettledLife!Before(new.status)
    BY <2>1, <2>2, <2>4, <2>5, AssignedIsLawful
  <2>7. QED
    BY <1>1, <2>3, <2>5, <2>6
<1>3. QED
  BY <1>1, <1>2

(* Every step of ticketing keeps what is said of tickets without overlap,  *)
(* whatever else the observer notices.                                     *)
LEMMA ObservedStep ==
    ASSUME TicketingTypeInv, ObservedInv, TicketingNext, NEW disturbed, Observe(disturbed)
    PROVE  ObservedInv'
<1> req \in [Requests -> Request] /\ tickets \in [Tickets -> Row]
  BY DEF TicketingTypeInv, TicketingTypeOK, StoreTypeOK
<1>0. ObserverFollows' /\ overlapped \subseteq overlapped'
  BY TicketingTypePreserved, ObserverKeepsUp DEF ObservedInv
<1>1. ASSUME NEW t \in Tickets, Preauthorize(t)
      PROVE  ObservedInv'
  <2>1. /\ tickets[t].status = "ABSENT" /\ UNCHANGED req
        /\ tickets' = [tickets EXCEPT ![t].status = "PREAUTHORIZED"]
    BY <1>1 DEF Preauthorize, ticketingVars
  <2>2. ASSUME NEW q \in Requests PROVE IsCurrent(q)'
    <3>1. CASE req[q].pc \in Busy /\ req[q].ticket \notin overlapped
      BY <1>0, <2>1, <3>1, OthersStayCurrent DEF ObservedInv, IsCurrent
    <3>2. CASE ~(req[q].pc \in Busy /\ req[q].ticket \notin overlapped)
      BY <1>0, <2>1, <3>2 DEF IsCurrent
    <3>3. QED
      BY <3>1, <3>2
  <2>3. MintedRowHasToken'
    BY <1>0, <2>1 DEF ObservedInv, MintedRowHasToken, Row
  <2>4. QED
    BY <1>0, <2>2, <2>3 DEF ObservedInv
<1>2. ASSUME NEW t \in Tickets, CustomerPays(t)
      PROVE  ObservedInv'
  <2>1. UNCHANGED <<tickets, req>>
    BY <1>2 DEF CustomerPays
  <2>2. QED
    BY <1>0, <2>1, OthersStayCurrent DEF ObservedInv, MintedRowHasToken
<1>3. ASSUME NEW r \in Requests, NEW t \in Tickets, NEW op \in Handlers, Start(r, t, op)
      PROVE  ObservedInv'
  <2>1. /\ req'[r].ticket = t /\ req'[r].entity = tickets[t] /\ req'[r].op = op
        /\ req'[r].pc = IF Accepts(op, tickets[t]) THEN FirstAwait(op) ELSE "failed"
        /\ \A q \in Requests \ {r} : req'[q] = req[q]
        /\ tickets[t].status # "ABSENT" /\ UNCHANGED tickets
    BY <1>3 DEF Start
  <2>2. FirstAwait(op) # "update"
    BY DEF FirstAwait, Handlers
  <2>3. IsCurrent(r)'
    BY <2>1, <2>2 DEF IsCurrent, Busy
  <2>4. QED
    BY <1>0, <2>1, <2>3, RequestMoves
<1>4. ASSUME NEW r \in Requests,
             \/ EcpayDoAction(r) \/ GetKycStatus(r) \/ MintTicketSbt(r)
             \/ BurnTicketSbt(r) \/ RequestDies(r)
      PROVE  ObservedInv'
  <2>1. /\ req[r].pc \in Busy /\ UNCHANGED tickets
        /\ \E p \in {"mint", "burn", "select", "failed", "dead"} :
              req' = [req EXCEPT ![r].pc = p]
    BY <1>4 DEF EcpayDoAction, CaptureAnswered, VoidAnswered, DoActionFailed, GetKycStatus,
       MintTicketSbt, Mint, BurnTicketSbt, Burn, RequestDies, Busy
  <2>2. /\ req'[r].pc \in {"mint", "burn", "select", "failed", "dead"}
        /\ req'[r].op = req[r].op /\ req'[r].ticket = req[r].ticket
        /\ req'[r].entity = req[r].entity
        /\ \A q \in Requests \ {r} : req'[q] = req[q]
    BY <2>1 DEF Request
  <2>3. (req'[r].pc \in Busy => req[r].pc # "update")
    BY <1>4, <2>2 DEF EcpayDoAction, GetKycStatus, MintTicketSbt, Mint, BurnTicketSbt,
       Burn, RequestDies, Busy, Request
  <2>4. IsCurrent(r)'
    BY <1>0, <2>1, <2>2, <2>3 DEF ObservedInv, IsCurrent
  <2>5. QED
    BY <1>0, <2>1, <2>2, <2>4, RequestMoves
<1>5. ASSUME NEW r \in Requests, SaveSelect(r)
      PROVE  ObservedInv'
  <2> DEFINE saved == Assigned(req[r].op, req[r].entity)
             cols == ChangedColumns(saved, tickets[req[r].ticket])
  <2>1. /\ req[r].pc = "select" /\ UNCHANGED tickets
        /\ req' = [req EXCEPT ![r].pc = "update", ![r].entity = saved, ![r].cols = cols]
    BY <1>5 DEF SaveSelect
  <2>2. IsCurrent(r)
    BY DEF ObservedInv
  <2> HIDE DEF saved, cols
  <2>3. /\ req'[r].pc = "update" /\ req'[r].entity = saved /\ req'[r].cols = cols
        /\ req'[r].ticket = req[r].ticket /\ req'[r].op = req[r].op
        /\ \A q \in Requests \ {r} : req'[q] = req[q]
    BY <2>1 DEF Request
  <2>4. IsCurrent(r)'
    BY <1>0, <2>1, <2>2, <2>3 DEF IsCurrent, Busy, saved, cols
  <2>5. QED
    BY <1>0, <2>1, <2>3, <2>4, RequestMoves
<1>6. ASSUME NEW r \in Requests, SaveUpdate(r)
      PROVE  ObservedInv'
  <2>1. PICK t : t = req[r].ticket
    OBVIOUS
  <2>2. /\ req[r].pc = "update" /\ req'[r].pc = "done"
        /\ \A q \in Requests \ {r} : req'[q] = req[q]
    BY <1>6 DEF SaveUpdate, Request
  <2>3. /\ t \in Tickets
        /\ \A u \in Tickets \ {t} : tickets'[u] = tickets[u]
        /\ t \notin overlapped =>
              (tickets'[t].status = "MINTED" => tickets'[t].sbt = "token")
    BY <1>6, <2>1, CurrentSaveIsLawful
  <2>4. ASSUME NEW q \in Requests PROVE IsCurrent(q)'
    <3>1. CASE q = r
      BY <2>2, <3>1 DEF IsCurrent, Busy
    <3>2. CASE q # r /\ req[q].pc \in Busy
      <4>1. req[q].ticket \in Tickets
        BY <3>2 DEF TicketingTypeInv, AtItsAwait
      <4>2. req[q].ticket = t => t \in overlapped
        BY <2>1, <2>2, <2>3, <3>2, SoleRequest DEF ObservedInv, Busy
      <4>3. QED
        BY <1>0, <2>2, <2>3, <3>2, <4>1, <4>2, OthersStayCurrent DEF ObservedInv
    <3>3. CASE q # r /\ req[q].pc \notin Busy
      BY <2>2, <3>3 DEF IsCurrent
    <3>4. QED
      BY <3>1, <3>2, <3>3
  <2>5. MintedRowHasToken'
    BY <1>0, <2>3 DEF ObservedInv, MintedRowHasToken
  <2>6. QED
    BY <1>0, <2>4, <2>5 DEF ObservedInv
<1>7. ASSUME NEW r \in Requests, NEW t \in Tickets,
             \/ CapturePayment(r, t) \/ MintTicket(r, t)
             \/ RefundTicket(r, t) \/ HandleEcpayCallback(r, t)
      PROVE  ObservedInv'
  BY <1>3, <1>7 DEF CapturePayment, MintTicket, RefundTicket, HandleEcpayCallback, Handlers
<1>8. QED
  BY <1>1, <1>2, <1>4, <1>5, <1>6, <1>7 DEF TicketingNext, RequestStep

(* Nor does a step in which nothing happens disturb it.                    *)
LEMMA ObservedStutter ==
    ASSUME ObservedInv, UNCHANGED <<tickets, req, overlapped, settled>>
    PROVE  ObservedInv'
  BY DEF ObservedInv, ObserverFollows, IsCurrent, MintedRowHasToken, Contended, AtWork

(* The same of the steps of ObservedSpec.                                  *)
LEMMA ObservedPreserved ==
    ASSUME TicketingTypeInv, ObservedInv, [ObservedNext]_observedVars
    PROVE  ObservedInv'
<1>1. CASE UNCHANGED observedVars
  BY <1>1, ObservedStutter DEF observedVars, ticketingVars
<1>2. CASE ObservedNext
  BY <1>2, ObservedStep DEF ObservedNext
<1>3. QED
  BY <1>1, <1>2

(* At the start no request is at work and the observer sees empty rows.    *)
LEMMA ObservedInitially == ObservedInit => TicketingTypeInv /\ ObservedInv
<1> SUFFICES ASSUME ObservedInit PROVE ObservedInv
  BY TicketingTypeInitially DEF ObservedInit
<1>1. (\A r \in Requests : req[r].pc = "idle") /\ \A t \in Tickets : tickets[t].status = "ABSENT"
  BY DEF ObservedInit, TicketingInit, TicketingStart, IdleRequest, NoRow
<1>2. ObserverFollows
  BY <1>1 DEF ObservedInit, ObserverFollows, Contended, AtWork, Busy
<1>3. QED
  BY <1>1, <1>2 DEF ObservedInv, IsCurrent, MintedRowHasToken, Busy

(* A step of the observed system is one of ticketing, or none.             *)
LEMMA ObservedIsTicketing == [ObservedNext]_observedVars => [TicketingNext]_ticketingAll
  BY DEF ObservedNext, observedVars, ticketingAll

(* The invariants hold in every reachable state.                           *)
LEMMA ObservedInvariant == ObservedSpec => [](TicketingTypeInv /\ ObservedInv)
<1>1. TicketingTypeInv /\ ObservedInv /\ [ObservedNext]_observedVars
         => (TicketingTypeInv /\ ObservedInv)'
  BY TicketingTypePreserved, ObservedPreserved, ObservedIsTicketing
<1>2. QED
  BY <1>1, ObservedInitially, PTL DEF ObservedSpec

(* As long as requests on a ticket do not overlap, its row is never MINTED *)
(* without the token that the gate and a refund look for.                  *)
THEOREM MintedRowsHaveTokens == ObservedSpec => []MintedRowHasToken
  BY ObservedInvariant, PTL DEF ObservedInv

(* A step that writes at most the row of t, lawfully if t has not seen an  *)
(* overlap, is a step of the ticket's life or none.                        *)
LEMMA OneRowAdvances ==
    ASSUME ObservedInv, NEW disturbed, Observe(disturbed), NEW t \in Tickets,
           \A u \in Tickets \ {t} : tickets'[u] = tickets[u],
           t \notin overlapped =>
              \/ tickets'[t].status = tickets[t].status
              \/ /\ tickets'[t].status \in TicketStatus
                 /\ tickets[t].status \in SettledLife!Before(tickets'[t].status)
    PROVE  [SettledLife!LifecycleNext]_settled
<1>1. /\ settled \in [Tickets -> TicketStatus \cup {"ABSENT"}]
      /\ \A u \in Tickets \ overlapped : settled[u] = tickets[u].status
  BY DEF ObservedInv, ObserverFollows
<1>2. /\ overlapped \subseteq overlapped'
      /\ settled' = [u \in Tickets |-> IF u \in overlapped' THEN settled[u]
                                                           ELSE tickets'[u].status]
  BY DEF Observe
<1>3. PICK new : new = settled'[t]
  OBVIOUS
<1>4. settled' = [settled EXCEPT ![t] = new]
  BY <1>1, <1>2, <1>3
<1>5. new = settled[t] \/ (new \in TicketStatus /\ settled[t] \in SettledLife!Before(new))
  BY <1>1, <1>2, <1>3
<1>6. CASE new = settled[t]
  BY <1>1, <1>4, <1>6
<1>7. CASE new \in TicketStatus /\ settled[t] \in SettledLife!Before(new)
  BY <1>4, <1>7 DEF SettledLife!LifecycleNext, SettledLife!Advance, SettledLife!TicketStatus,
     TicketStatus
<1>8. QED
  BY <1>5, <1>6, <1>7

(* A step that writes no row does not move the observer's view either.     *)
LEMMA SameRowsSameLife ==
    ASSUME ObservedInv, NEW disturbed, Observe(disturbed), UNCHANGED tickets
    PROVE  [SettledLife!LifecycleNext]_settled
  BY DEF Observe, ObservedInv, ObserverFollows

(* Every step of ticketing takes at most one ticket one step along its     *)
(* life, as far as the observer vouches for it.                            *)
LEMMA TicketingStepAdvances ==
    ASSUME TicketingTypeInv, ObservedInv, TicketingNext, NEW disturbed, Observe(disturbed)
    PROVE  [SettledLife!LifecycleNext]_settled
<1>1. ASSUME NEW t \in Tickets, Preauthorize(t)
      PROVE  [SettledLife!LifecycleNext]_settled
  <2>1. /\ tickets[t].status = "ABSENT" /\ tickets'[t].status = "PREAUTHORIZED"
        /\ \A u \in Tickets \ {t} : tickets'[u] = tickets[u]
    BY <1>1 DEF Preauthorize, TicketingTypeInv, TicketingTypeOK, StoreTypeOK, Row
  <2>2. tickets[t].status \in SettledLife!Before(tickets'[t].status)
    BY <2>1 DEF SettledLife!Before
  <2>3. QED
    BY <2>1, <2>2, OneRowAdvances DEF TicketStatus
<1>2. ASSUME NEW r \in Requests, SaveUpdate(r)
      PROVE  [SettledLife!LifecycleNext]_settled
  <2>1. PICK t : t = req[r].ticket
    OBVIOUS
  <2>2. QED
    BY <1>2, <2>1, CurrentSaveIsLawful, OneRowAdvances
<1>3. UNCHANGED tickets => [SettledLife!LifecycleNext]_settled
  BY SameRowsSameLife
<1>4. QED
  BY <1>1, <1>2, <1>3 DEF TicketingNext, RequestStep, CustomerPays,
     CapturePayment, MintTicket, RefundTicket, HandleEcpayCallback, Start, EcpayDoAction,
     GetKycStatus, MintTicketSbt, BurnTicketSbt, SaveSelect, RequestDies

(* On the tickets whose requests did not overlap, ticketing implements the *)
(* life of a ticket, whatever dies or goes unanswered.                     *)
THEOREM TicketingImplementsLifecycle == ObservedSpec => TicketingFollowsLifecycle
<1>1. ObservedInit => SettledLife!LifecycleInit
  BY DEF ObservedInit, SettledLife!LifecycleInit
<1>2. TicketingTypeInv /\ ObservedInv /\ [ObservedNext]_observedVars
         => [SettledLife!LifecycleNext]_settled
  BY TicketingStepAdvances DEF ObservedNext, observedVars
<1>3. QED
  BY <1>1, <1>2, ObservedInvariant, PTL
     DEF ObservedSpec, TicketingFollowsLifecycle, SettledLife!LifecycleSpec
=============================================================================
