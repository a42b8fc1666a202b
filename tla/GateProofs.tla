----------------------------- MODULE GateProofs -----------------------------
(***************************************************************************)
(* Proofs about Gate for any number of tickets, codes and calls.           *)
(***************************************************************************)
EXTENDS Gate, TLAPS

(* A call knows its ticket from the moment it needs it: a scan from the    *)
(* signed payload, a fallback check from the row it found.                 *)
TargetKnown ==
    \A c \in Calls : call[c].pc \in {"nonce", "read", "chain", "face", "update"}
                        => call[c].ticket \in Tickets

GateTypeInv == GateTypeOK /\ TargetKnown

(* Every step of a call in flight, every new call and every tick keeps the *)
(* types.                                                                  *)
LEMMA GateTypePreserved ==
    ASSUME GateTypeInv, [GateNext]_GateAll
    PROVE  GateTypeInv'
<1> USE GateAssumption DEF GateTypeInv, GateTypeOK, StoreTypeOK, TargetKnown
<1>1. ASSUME NEW n \in Nonces, NEW t \in Tickets, GenerateDynamicQr(n, t)
      PROVE  GateTypeInv'
  BY <1>1 DEF GenerateDynamicQr, Payload, Unsigned
<1>2. ASSUME NEW c \in Calls, NEW n \in Nonces, VerifyEntry(c, n)
      PROVE  GateTypeInv'
  <2> DEFINE fresh == [IdleCall EXCEPT !.pc = "nonce", !.nonce = n,
                                       !.ticket = qr[n].sub, !.at = now]
  <2>1. qr[n].sub \in Tickets
    BY <1>2 DEF VerifyEntry, Payload, Unsigned
  <2>2. fresh \in Handler /\ fresh.ticket \in Tickets
    BY <2>1 DEF IdleCall, Handler, Pcs, Modes, Results
  <2>3. call' = [call EXCEPT ![c] = fresh] \/ call' = [call EXCEPT ![c].pc = "refused"]
    BY <1>2 DEF VerifyEntry, Refuse
  <2>4. UNCHANGED <<tickets, balance, now, qr, nonceUntil, gateLog>>
    BY <1>2 DEF VerifyEntry
  <2> HIDE DEF fresh
  <2>5. QED
    BY <2>2, <2>3, <2>4 DEF Handler, Pcs
<1>3. ASSUME NEW c \in Calls, FallbackVerify(c)
      PROVE  GateTypeInv'
  <2>1. CASE \E p \in FoundById :
               call' = [call EXCEPT ![c] = [IdleCall EXCEPT
                          !.pc = "minted", !.mode = "FALLBACK", !.person = p]]
    <3>1. PICK p \in FoundById :
               call' = [call EXCEPT ![c] = [IdleCall EXCEPT
                          !.pc = "minted", !.mode = "FALLBACK", !.person = p]]
      BY <2>1
    <3> DEFINE begun == [IdleCall EXCEPT !.pc = "minted", !.mode = "FALLBACK",
                                         !.person = p]
    <3>2. begun \in Handler /\ begun.pc = "minted"
      BY DEF IdleCall, Handler, Pcs, Modes, Results
    <3>3. call' = [call EXCEPT ![c] = begun]
      BY <3>1
    <3> HIDE DEF begun
    <3>4. QED
      BY <1>3, <3>2, <3>3 DEF FallbackVerify
  <2>2. CASE call' = Refuse(c)
    BY <1>3, <2>2 DEF FallbackVerify, Refuse, Handler, Pcs
  <2>3. QED
    BY <1>3, <2>1, <2>2 DEF FallbackVerify
<1>4. ASSUME NEW c \in Calls, SetNonce(c) \/ SetNonceResent(c)
      PROVE  GateTypeInv'
  <2>1. CASE SetNonce(c)
    <3>1. /\ nonceUntil' \in [Nonces -> Nat]
          /\ UNCHANGED <<tickets, balance, now, qr, gateLog>>
      BY <2>1 DEF SetNonce, NonceTtl
    <3>2. \/ call' = [call EXCEPT ![c].pc = "refused", ![c].isNew = "null"]
          \/ /\ call[c].pc = "nonce"
             /\ call' = [call EXCEPT ![c].pc = "read", ![c].isNew = "OK"]
      BY <2>1 DEF SetNonce
    <3>3. call' \in [Calls -> Handler]
      <4>1. call \in [Calls -> Handler] /\ {"refused", "read"} \subseteq Pcs
        BY DEF Pcs
      <4> HIDE DEF GateTypeInv, GateTypeOK, StoreTypeOK, TargetKnown
      <4>2. /\ [call[c] EXCEPT !.pc = "refused", !.isNew = "null"] \in Handler
            /\ [call[c] EXCEPT !.pc = "read", !.isNew = "OK"] \in Handler
        BY <4>1 DEF Handler
      <4>3. QED
        BY <3>2, <4>1, <4>2
    <3>4. TargetKnown'
      BY <3>2 DEF Handler
    <3>5. QED
      BY <3>1, <3>3, <3>4
  <2>2. CASE SetNonceResent(c)
    <3>1. nonceUntil' = [nonceUntil EXCEPT ![call[c].nonce] = now + NonceTtl]
      BY <2>2 DEF SetNonceResent
    <3>2. call' = [call EXCEPT ![c].pc = "refused", ![c].isNew = "null"]
      BY <2>2 DEF SetNonceResent
    <3>3. now + NonceTtl \in Nat
      BY DEF NonceTtl
    <3>4. nonceUntil' \in [Nonces -> Nat]
      BY <3>1, <3>3
    <3>5. call' \in [Calls -> Handler]
      <4>1. call[c] \in Handler /\ "refused" \in Pcs
        BY DEF Pcs
      <4> HIDE DEF GateTypeInv, GateTypeOK, StoreTypeOK, TargetKnown
      <4>2. [call[c] EXCEPT !.pc = "refused", !.isNew = "null"] \in Handler
        BY <4>1 DEF Handler
      <4>3. QED
        BY <3>2, <4>2 DEF GateTypeInv, GateTypeOK
    <3>6. TargetKnown'
      BY <3>2 DEF Handler
    <3>7. QED
      BY <2>2, <3>4, <3>5, <3>6 DEF SetNonceResent
  <2>3. QED
    BY <1>4, <2>1, <2>2
<1>5. ASSUME NEW c \in Calls, ReadTicket(c)
      PROVE  GateTypeInv'
  <2>1. call[c].ticket \in Tickets
    BY <1>5 DEF ReadTicket
  <2> tickets[call[c].ticket].sbt \in {"null", "token"}
    BY <2>1 DEF Row
  <2>2. \/ call' = [call EXCEPT ![c].pc = "chain",
                               ![c].sbt = tickets[call[c].ticket].sbt]
        \/ call' = [call EXCEPT ![c].pc = "log", ![c].result = "FAILED"]
    BY <1>5 DEF ReadTicket, ToLog
  <2>3. UNCHANGED <<tickets, balance, now, qr, nonceUntil, gateLog>>
    BY <1>5 DEF ReadTicket
  <2>4. call' \in [Calls -> Handler]
    BY <2>2, SMTT(30) DEF Handler, Pcs, Results
  <2>5. TargetKnown'
    BY <2>1, <2>2 DEF Handler
  <2>6. QED
    BY <2>3, <2>4, <2>5
<1>6. ASSUME NEW c \in Calls, CheckOnChainOwnership(c)
      PROVE  GateTypeInv'
  BY <1>6 DEF CheckOnChainOwnership, ToLog, Handler, Pcs, Modes, Results
<1>7. ASSUME NEW c \in Calls, CompareFace(c)
      PROVE  GateTypeInv'
  BY <1>7 DEF CompareFace, ToLog, Fail, Handler, Pcs, Results
<1>8. ASSUME NEW c \in Calls, FindMinted(c)
      PROVE  GateTypeInv'
  BY <1>8, SMTT(30) DEF FindMinted, TicketsOf, Handler, Pcs
<1>9. ASSUME NEW c \in Calls, FindPaid(c)
      PROVE  GateTypeInv'
  BY <1>9 DEF FindPaid, TicketsOf, ToLog, Handler, Pcs, Results
<1>10. ASSUME NEW c \in Calls, MarkUsed(c)
       PROVE  GateTypeInv'
  <2>1. call[c].ticket \in Tickets
    BY <1>10 DEF MarkUsed
  <2>2. tickets' \in [Tickets -> Row]
    BY <1>10, <2>1 DEF MarkUsed, Row, TicketStatus
  <2>3. \E res \in Results : call' = [call EXCEPT ![c].pc = "log", ![c].result = res]
    BY <1>10 DEF MarkUsed, ToLog, Results, Admissions
  <2>4. UNCHANGED <<balance, now, qr, nonceUntil, gateLog>>
    BY <1>10 DEF MarkUsed
  <2>5. call' \in [Calls -> Handler]
    <3>1. call \in [Calls -> Handler] /\ "log" \in Pcs
      BY DEF Pcs
    <3> HIDE DEF GateTypeInv, GateTypeOK, StoreTypeOK, TargetKnown
    <3>2. \A res \in Results :
             [call[c] EXCEPT !.pc = "log", !.result = res] \in Handler
      BY <3>1 DEF Handler
    <3>3. QED
      BY <2>3, <3>1, <3>2
  <2>6. TargetKnown'
    BY <2>1, <2>3 DEF Handler
  <2>7. QED
    BY <2>2, <2>4, <2>5, <2>6
<1>11. ASSUME NEW c \in Calls, SaveLog(c)
       PROVE  GateTypeInv'
  BY <1>11 DEF SaveLog, LoggedRow, Fail, Handler, Pcs, GateLogRow
<1>12. ASSUME NEW c \in Calls, CallDies(c)
       PROVE  GateTypeInv'
  BY <1>12 DEF CallDies, Handler, Pcs
<1>13. ASSUME Tick
       PROVE  GateTypeInv'
  BY <1>13 DEF Tick
<1>14. ASSUME UNCHANGED GateAll
       PROVE  GateTypeInv'
  BY <1>14 DEF GateAll, gateVars
<1>15. QED
  BY <1>1, <1>2, <1>3, <1>4, <1>5, <1>6, <1>7, <1>8, <1>9, <1>10, <1>11,
     <1>12, <1>13, <1>14 DEF GateNext, CallStep

(* The types hold initially.                                               *)
LEMMA GateTypeInitially == GateInit => GateTypeInv
  BY DEF GateInit, GateStart, GateTypeInv, GateTypeOK, StoreTypeOK, TargetKnown,
         SettledRow, Row, Unsigned, Payload, IdleCall, Handler, Pcs, Modes, Results

(* The gate's variables keep their types in every state, and a call never  *)
(* reaches the ticket table without a ticket.                              *)
THEOREM GateTypeCorrect == GateSpec => [](GateTypeOK /\ TargetKnown)
  BY GateTypeInitially, GateTypePreserved, PTL DEF GateSpec, GateTypeInv

-----------------------------------------------------------------------------
(* A call has a result only once it is past the UPDATE or was turned away  *)
(* before it, so nothing but MarkUsed lets anybody in.                     *)
NoResultYet ==
    \A c \in Calls :
        call[c].pc \in {"idle", "nonce", "read", "chain", "face", "minted", "paid", "update"}
            => call[c].result = "none"

(* A step that lets nobody in leaves the table alone and takes nothing     *)
(* back, ...                                                               *)
NobodyEnters ==
    /\ UNCHANGED tickets
    /\ \A d \in Calls : /\ LetsIn(d)' => LetsIn(d)
                        /\ LetsIn(d) => LetsIn(d)' /\ call'[d].ticket = call[d].ticket

(* ... and the step that lets in the holder of a ticket consumes it.       *)
EntersOn(c, t) ==
    /\ t = call[c].ticket
    /\ t \in Tickets
    /\ call[c].pc = "update"
    /\ Consumable(t)
    /\ tickets' = [tickets EXCEPT ![t].status = "USED"]
    /\ LetsIn(c)'
    /\ \A d \in Calls : call'[d].ticket = call[d].ticket /\ (d # c => call'[d] = call[d])

(* Every step of the gate is of one of the two kinds: nothing but MarkUsed *)
(* on a ticket that is PAID or MINTED admits anybody or writes the table.  *)
LEMMA AdmissionStep ==
    ASSUME GateTypeInv, NoResultYet, [GateNext]_GateAll
    PROVE  /\ NoResultYet'
           /\ NobodyEnters \/ \E c \in Calls, t \in Tickets : EntersOn(c, t)
<1> DEFINE Goal == /\ NoResultYet'
                   /\ NobodyEnters \/ \E c \in Calls, t \in Tickets : EntersOn(c, t)
<1> USE DEF NoResultYet, NobodyEnters, LetsIn, Admissions
<1> call \in [Calls -> Handler] /\ tickets \in [Tickets -> Row]
  BY DEF GateTypeInv, GateTypeOK, StoreTypeOK
<1>1. ASSUME NEW n \in Nonces, NEW t \in Tickets, GenerateDynamicQr(n, t)
      PROVE  Goal
  BY <1>1 DEF GenerateDynamicQr
<1>2. ASSUME NEW c \in Calls, NEW n \in Nonces, VerifyEntry(c, n)
      PROVE  Goal
  <2>1. /\ call'[c].result = "none" /\ call[c].pc = "idle"
        /\ \A d \in Calls \ {c} : call'[d] = call[d]
    BY <1>2 DEF VerifyEntry, Refuse, IdleCall, Handler
  <2>2. QED
    BY <1>2, <2>1 DEF VerifyEntry
<1>3. ASSUME NEW c \in Calls, FallbackVerify(c)
      PROVE  Goal
  <2>1. /\ call'[c].result = "none" /\ call[c].pc = "idle"
        /\ \A d \in Calls \ {c} : call'[d] = call[d]
    <3>1. CASE \E p \in FoundById :
                 call' = [call EXCEPT ![c] = [IdleCall EXCEPT
                            !.pc = "minted", !.mode = "FALLBACK", !.person = p]]
      <4>1. PICK p \in FoundById :
                 call' = [call EXCEPT ![c] = [IdleCall EXCEPT
                            !.pc = "minted", !.mode = "FALLBACK", !.person = p]]
        BY <3>1
      <4>2. QED
        BY <1>3, <4>1 DEF FallbackVerify, IdleCall, Handler
    <3>2. CASE call' = Refuse(c)
      BY <1>3, <3>2 DEF FallbackVerify, Refuse, Handler
    <3>3. QED
      BY <1>3, <3>1, <3>2 DEF FallbackVerify
  <2>2. QED
    BY <1>3, <2>1 DEF FallbackVerify
<1>4. ASSUME NEW c \in Calls, SetNonce(c) \/ SetNonceResent(c)
      PROVE  Goal
  BY <1>4 DEF SetNonce, SetNonceResent, Handler
<1>5. ASSUME NEW c \in Calls, ReadTicket(c)
      PROVE  Goal
  BY <1>5 DEF ReadTicket, ToLog, Handler
<1>6. ASSUME NEW c \in Calls, CheckOnChainOwnership(c)
      PROVE  Goal
  BY <1>6 DEF CheckOnChainOwnership, ToLog, Handler
<1>7. ASSUME NEW c \in Calls, CompareFace(c)
      PROVE  Goal
  BY <1>7 DEF CompareFace, ToLog, Fail, Handler
<1>8. ASSUME NEW c \in Calls, FindMinted(c)
      PROVE  Goal
  BY <1>8 DEF FindMinted, Handler
<1>9. ASSUME NEW c \in Calls, FindPaid(c)
      PROVE  Goal
  BY <1>9 DEF FindPaid, ToLog, Handler
<1>10. ASSUME NEW c \in Calls, MarkUsed(c)
       PROVE  Goal
  <2>0. PICK t \in Tickets : t = call[c].ticket
    BY <1>10 DEF MarkUsed, GateTypeInv, TargetKnown
  <2>1. call[c].pc = "update" /\ call[c].result = "none"
    BY <1>10 DEF MarkUsed
  <2>2. CASE Consumable(t)
    <3>1. PICK res \in Admissions :
             /\ tickets' = [tickets EXCEPT ![t].status = "USED"]
             /\ call' = [call EXCEPT ![c].pc = "log", ![c].result = res]
      BY <1>10, <2>0, <2>2 DEF MarkUsed, ToLog
    <3>2. /\ call'[c].pc = "log" /\ call'[c].result = res
          /\ \A d \in Calls : call'[d].ticket = call[d].ticket /\ (d # c => call'[d] = call[d])
      BY <3>1 DEF Handler
    <3>3. EntersOn(c, t)
      BY <2>0, <2>1, <2>2, <3>1, <3>2 DEF EntersOn
    <3>4. QED
      BY <3>2, <3>3
  <2>3. CASE ~Consumable(t)
    BY <1>10, <2>0, <2>1, <2>3 DEF MarkUsed, ToLog, Handler
  <2>4. QED
    BY <2>2, <2>3
<1>11. ASSUME NEW c \in Calls, SaveLog(c)
       PROVE  Goal
  BY <1>11 DEF SaveLog, Fail, Handler
<1>12. ASSUME NEW c \in Calls, CallDies(c)
       PROVE  Goal
  BY <1>12 DEF CallDies, Handler
<1>13. ASSUME Tick
       PROVE  Goal
  BY <1>13 DEF Tick
<1>14. ASSUME UNCHANGED GateAll
       PROVE  Goal
  BY <1>14 DEF GateAll, gateVars
<1> HIDE DEF Goal
<1>15. Goal
  BY <1>1, <1>2, <1>3, <1>4, <1>5, <1>6, <1>7, <1>8, <1>9, <1>10, <1>11,
     <1>12, <1>13, <1>14 DEF GateNext, CallStep
<1>16. QED
  BY <1>15 DEF Goal

(* An admission is one on a ticket of the table.                           *)
AdmittedOnTicket == \A c \in Calls : LetsIn(c) => call[c].ticket \in Tickets

AdmissionInv == NoResultYet /\ AdmittedOnTicket /\ SingleAdmission

(* Where somebody entered the ticket is USED, so no second call finds it   *)
(* consumable.                                                             *)
LEMMA AdmissionPreserved ==
    ASSUME GateTypeInv, AdmissionInv, [GateNext]_GateAll
    PROVE  AdmissionInv'
<1> tickets \in [Tickets -> Row]
  BY DEF GateTypeInv, GateTypeOK, StoreTypeOK
<1>1. NoResultYet' /\ (NobodyEnters \/ \E c \in Calls, t \in Tickets : EntersOn(c, t))
  BY AdmissionStep DEF AdmissionInv
<1>2. CASE NobodyEnters
  BY <1>1, <1>2 DEF NobodyEnters, AdmissionInv, AdmittedOnTicket, SingleAdmission
<1>3. ASSUME NEW c \in Calls, NEW t \in Tickets, EntersOn(c, t)
      PROVE  AdmissionInv'
  <2>1. \A a \in Calls : LetsIn(a) => call[a].ticket # t
    BY <1>3 DEF EntersOn, AdmissionInv, SingleAdmission, Consumable, ValidForEntry
  <2>2. /\ tickets'[t].status = "USED" /\ \A u \in Tickets \ {t} : tickets'[u] = tickets[u]
    BY <1>3 DEF EntersOn, Row
  <2>3. /\ call[c].ticket = t
        /\ \A d \in Calls : /\ call'[d].ticket = call[d].ticket
                            /\ d # c => (LetsIn(d)' <=> LetsIn(d))
    BY <1>3 DEF EntersOn, LetsIn
  <2>4. QED
    BY <1>1, <2>1, <2>2, <2>3 DEF AdmissionInv, AdmittedOnTicket, SingleAdmission
<1>4. QED
  BY <1>1, <1>2, <1>3

(* Nobody has entered before the first call.                               *)
LEMMA AdmissionInitially == GateInit => AdmissionInv
  BY DEF GateInit, GateStart, IdleCall, AdmissionInv, NoResultYet, AdmittedOnTicket,
         SingleAdmission, LetsIn, Admissions

(* With the gate as the only writer of the table, at most one of any       *)
(* number of concurrent scans and fallback checks lets somebody in on a    *)
(* ticket, and the ticket stays consumed.                                  *)
THEOREM GateAdmitsOnce == GateSpec => []SingleAdmission
  BY AdmissionInitially, GateTypeInitially, GateTypePreserved, AdmissionPreserved, PTL
     DEF GateSpec, AdmissionInv

-----------------------------------------------------------------------------
Committed == {"chain", "face", "update"}

(* A call that has read its ticket as valid finds it valid still, or       *)
(* somebody has entered on it.                                             *)
ValidOrEntered ==
    \A c \in Calls : call[c].pc \in Committed =>
        \/ Consumable(call[c].ticket)
        \/ \E d \in Calls : LetsIn(d) /\ call[d].ticket = call[c].ticket

(* Calls get there only by reading a valid status.                         *)
LEMMA CommittedAfterRead ==
    ASSUME GateTypeInv, [GateNext]_GateAll, NEW c \in Calls, call'[c].pc \in Committed
    PROVE  \/ call[c].pc \in Committed /\ call'[c].ticket = call[c].ticket
           \/ Consumable(call'[c].ticket) /\ UNCHANGED tickets
<1> call \in [Calls -> Handler]
  BY DEF GateTypeInv, GateTypeOK
<1> DEFINE Goal == \/ call[c].pc \in Committed /\ call'[c].ticket = call[c].ticket
                   \/ Consumable(call'[c].ticket) /\ UNCHANGED tickets
<1>0. CASE call'[c] = call[c]
  BY <1>0
<1>1. ASSUME NEW d \in Calls, NEW n \in Nonces, VerifyEntry(d, n) PROVE Goal
  BY <1>0, <1>1 DEF VerifyEntry, Refuse, IdleCall, Handler, Committed
<1>2. ASSUME NEW d \in Calls, FallbackVerify(d) PROVE Goal
  <2>1. PICK new : call' = [call EXCEPT ![d] = new] /\ new.pc \in {"minted", "refused"}
    <3>1. CASE call' = Refuse(d)
      <4>1. [call[d] EXCEPT !.pc = "refused"].pc = "refused"
        BY DEF Handler
      <4>2. call' = [call EXCEPT ![d] = [call[d] EXCEPT !.pc = "refused"]]
        BY <3>1 DEF Refuse
      <4>3. QED
        BY <4>1, <4>2
    <3>2. CASE call' # Refuse(d)
      <4>1. PICK p \in FoundById :
              call' = [call EXCEPT ![d] = [IdleCall EXCEPT
                         !.pc = "minted", !.mode = "FALLBACK", !.person = p]]
        BY <1>2, <3>2 DEF FallbackVerify
      <4>2. [IdleCall EXCEPT !.pc = "minted", !.mode = "FALLBACK", !.person = p].pc = "minted"
        BY DEF IdleCall
      <4>3. QED
        BY <4>1, <4>2
    <3>3. QED
      BY <3>1, <3>2
  <2>2. QED
    BY <1>0, <2>1 DEF Committed
<1>3. ASSUME NEW d \in Calls, SetNonce(d) \/ SetNonceResent(d) \/ SaveLog(d) \/ CallDies(d)
             \/ MarkUsed(d)
      PROVE  Goal
  BY <1>0, <1>3 DEF SetNonce, SetNonceResent, SaveLog, Fail, CallDies, MarkUsed, ToLog,
     Handler, Committed
<1>4. ASSUME NEW d \in Calls, ReadTicket(d) PROVE Goal
  BY <1>0, <1>4 DEF ReadTicket, ToLog, Handler, Committed, Consumable
<1>5. ASSUME NEW d \in Calls, CheckOnChainOwnership(d) \/ CompareFace(d) PROVE Goal
  BY <1>0, <1>5 DEF CheckOnChainOwnership, CompareFace, ToLog, Fail, Handler, Committed
<1>6. ASSUME NEW d \in Calls, FindMinted(d) \/ FindPaid(d) PROVE Goal
  BY <1>0, <1>6 DEF FindMinted, FindPaid, TicketsOf, ToLog, Handler, Committed, Consumable,
     ValidForEntry
<1>7. ASSUME UNCHANGED call PROVE Goal
  BY <1>0, <1>7
<1> HIDE DEF Goal
<1>8. Goal
  BY <1>1, <1>2, <1>3, <1>4, <1>5, <1>6, <1>7
     DEF GateNext, CallStep, GenerateDynamicQr, Tick, GateAll, gateVars
<1>9. QED
  BY <1>8 DEF Goal

(* A ticket stops being consumable only when somebody enters on it.        *)
LEMMA ValidOrEnteredPreserved ==
    ASSUME GateTypeInv, NoResultYet, ValidOrEntered, [GateNext]_GateAll
    PROVE  ValidOrEntered'
<1> SUFFICES ASSUME NEW c \in Calls, call'[c].pc \in Committed
             PROVE  \/ Consumable(call[c].ticket)'
                    \/ \E d \in Calls : LetsIn(d)' /\ call'[d].ticket = call'[c].ticket
  BY DEF ValidOrEntered
<1>1. PICK t : t = call'[c].ticket
  OBVIOUS
<1>2. \/ Consumable(t) /\ UNCHANGED tickets
      \/ Consumable(t)
      \/ \E d \in Calls : LetsIn(d) /\ call[d].ticket = t
  BY <1>1, CommittedAfterRead DEF ValidOrEntered
<1>3. CASE NobodyEnters
  BY <1>1, <1>2, <1>3 DEF NobodyEnters, Consumable
<1>4. ASSUME NEW e \in Calls, NEW u \in Tickets, EntersOn(e, u)
      PROVE  \/ Consumable(call[c].ticket)'
             \/ \E d \in Calls : LetsIn(d)' /\ call'[d].ticket = call'[c].ticket
  <2>1. call[e].result = "none"
    BY <1>4 DEF EntersOn, NoResultYet
  <2>2. \A d \in Calls : LetsIn(d) => LetsIn(d)' /\ call'[d].ticket = call[d].ticket
    BY <1>4, <2>1 DEF EntersOn, LetsIn, Admissions
  <2>3. CASE t = u
    BY <1>1, <1>4, <2>3 DEF EntersOn
  <2>4. CASE t # u
    <3>1. t \in Tickets
      BY <1>1, GateTypePreserved DEF GateTypeInv, TargetKnown, Committed
    <3>2. Consumable(t) => Consumable(t)'
      BY <1>4, <2>4, <3>1 DEF EntersOn, Consumable, GateTypeInv, GateTypeOK, StoreTypeOK
    <3>3. QED
      BY <1>1, <1>2, <2>2, <3>2 DEF Consumable
  <2>5. QED
    BY <2>3, <2>4
<1>5. QED
  BY <1>3, <1>4, AdmissionStep

(* The conditional UPDATE turns a call away only after another call has    *)
(* let the holder in, with any number of scans and fallback checks racing. *)
THEOREM LostRacesHaveWinners == GateSpec => LostRaceHasWinner
<1> DEFINE Lost == \A c \in Calls :
                     /\ call[c].pc = "update"
                     /\ call'[c].result = "FAILED"
                     => \E d \in Calls \ {c} :
                           LetsIn(d) /\ call[d].ticket = call[c].ticket
<1>1. GateTypeInv /\ NoResultYet /\ ValidOrEntered /\ [GateNext]_GateAll => [Lost]_GateAll
  <2> SUFFICES ASSUME GateTypeInv, NoResultYet, ValidOrEntered, GateNext, NEW c \in Calls,
                      call[c].pc = "update", call'[c].result = "FAILED"
               PROVE  \E d \in Calls \ {c} : LetsIn(d) /\ call[d].ticket = call[c].ticket
    OBVIOUS
  <2>1. call[c].result = "none"
    BY DEF NoResultYet
  <2>2. MarkUsed(c)
    <3> call \in [Calls -> Handler]
      BY DEF GateTypeInv, GateTypeOK
    <3>1. call'[c] # call[c]
      BY <2>1
    <3>2. ~CallDies(c)
      BY <2>1 DEF CallDies, Handler
    <3>3. ASSUME NEW d \in Calls, d # c
          PROVE  /\ ~CallStep(d) /\ ~SetNonceResent(d) /\ ~CallDies(d) /\ ~FallbackVerify(d)
                 /\ \A n \in Nonces : ~VerifyEntry(d, n)
      <4>1. ~SetNonce(d) /\ ~SetNonceResent(d) /\ ~CallDies(d) /\ ~SaveLog(d)
        BY <3>1, <3>3 DEF SetNonce, SetNonceResent, CallDies, SaveLog, Fail
      <4>2. ~ReadTicket(d) /\ ~CheckOnChainOwnership(d) /\ ~CompareFace(d)
        BY <3>1, <3>3 DEF ReadTicket, CheckOnChainOwnership, CompareFace, ToLog, Fail
      <4>3. ~FindMinted(d) /\ ~FindPaid(d) /\ ~MarkUsed(d)
        BY <3>1, <3>3 DEF FindMinted, FindPaid, MarkUsed, ToLog
      <4>4. ~FallbackVerify(d)
        BY <3>1, <3>3 DEF FallbackVerify, Refuse
      <4>5. \A n \in Nonces : ~VerifyEntry(d, n)
        BY <3>1, <3>3 DEF VerifyEntry, Refuse
      <4>6. QED
        BY <4>1, <4>2, <4>3, <4>4, <4>5 DEF CallStep
    <3>4. /\ ~SetNonce(c) /\ ~SetNonceResent(c) /\ ~SaveLog(c) /\ ~ReadTicket(c)
          /\ ~CheckOnChainOwnership(c) /\ ~CompareFace(c) /\ ~FindMinted(c) /\ ~FindPaid(c)
          /\ ~FallbackVerify(c) /\ \A n \in Nonces : ~VerifyEntry(c, n)
      BY DEF SetNonce, SetNonceResent, SaveLog, ReadTicket, CheckOnChainOwnership, CompareFace,
             FindMinted, FindPaid, FallbackVerify, VerifyEntry
    <3>5. ~Tick /\ \A n \in Nonces, t \in Tickets : ~GenerateDynamicQr(n, t)
      BY <3>1 DEF Tick, GenerateDynamicQr
    <3>6. QED
      BY <3>2, <3>3, <3>4, <3>5 DEF GateNext, CallStep
  <2>3. ~Consumable(call[c].ticket)
    BY <2>2 DEF MarkUsed, ToLog, GateTypeInv, GateTypeOK, Handler
  <2>4. QED
    BY <2>1, <2>3 DEF ValidOrEntered, Committed, LetsIn, Admissions
<1>2. GateInit => ValidOrEntered
  BY DEF GateInit, GateStart, IdleCall, ValidOrEntered, Committed
<1>3. QED
  BY <1>1, <1>2, GateTypeInitially, GateTypePreserved, AdmissionInitially, AdmissionPreserved,
     ValidOrEnteredPreserved, PTL DEF GateSpec, LostRaceHasWinner, AdmissionInv

-----------------------------------------------------------------------------
(* A nonce that some scan has burnt stays in Redis for two lifetimes of    *)
(* its code, counted from the signing of the code at the earliest, ...     *)
BurntNonceKept ==
    \A c \in Calls : call[c].isNew = "OK" =>
        /\ call[c].nonce \in Nonces
        /\ qr[call[c].nonce].issued = "yes"
        /\ qr[call[c].nonce].iat + NonceTtl <= nonceUntil[call[c].nonce]

(* ... and a scan that still waits for Redis found its code younger than   *)
(* one lifetime no more than RedisDelay ago.                               *)
WaitingScanIsRecent ==
    \A c \in Calls : call[c].pc = "nonce" =>
        /\ call[c].nonce \in Nonces
        /\ call[c].isNew = "pending"
        /\ qr[call[c].nonce].issued = "yes"
        /\ call[c].at < qr[call[c].nonce].iat + QrTtl
        /\ now <= call[c].at + RedisDelay

CodeIsSignedInThePast == \A n \in Nonces : qr[n].iat <= now

ReplayInv ==
    /\ BurntNonceKept
    /\ WaitingScanIsRecent
    /\ CodeIsSignedInThePast
    /\ NonceNotReplayed

(* Steps that neither touch Redis, the clock or the codes nor move a call  *)
(* to the replay check leave the whole argument alone.                     *)
LEMMA ReplayUntouched ==
    ASSUME GateTypeInv, ReplayInv, NEW c \in Calls,
           UNCHANGED <<now, qr, nonceUntil>>,
           \A d \in Calls \ {c} : call'[d] = call[d],
           call'[c].pc # "nonce",
           \/ call'[c].isNew = "pending"
           \/ call'[c].isNew = call[c].isNew /\ call'[c].nonce = call[c].nonce
    PROVE  ReplayInv'
  BY DEF ReplayInv, BurntNonceKept, WaitingScanIsRecent, CodeIsSignedInThePast,
         NonceNotReplayed

(* Time, scans and expiring nonces keep the replay invariant.              *)
LEMMA ReplayPreserved ==
    ASSUME GateTypeInv, ReplayInv, [GateNext]_GateAll
    PROVE  ReplayInv'
<1> USE GateAssumption
<1> call \in [Calls -> Handler] /\ qr \in [Nonces -> Payload]
    /\ nonceUntil \in [Nonces -> Nat] /\ now \in Nat
  BY DEF GateTypeInv, GateTypeOK
<1> \A n \in Nonces : qr[n].iat \in Nat
  BY DEF Payload, Unsigned
<1> \A c \in Calls : call[c].at \in Nat
  BY DEF Handler
<1> NonceTtl \in Nat /\ NonceTtl = QrTtl + QrTtl
  BY DEF NonceTtl
<1>1. ASSUME NEW n \in Nonces, NEW t \in Tickets, GenerateDynamicQr(n, t)
      PROVE  ReplayInv'
  <2>1. /\ qr[n].issued # "yes"
        /\ qr' = [qr EXCEPT ![n] = [issued |-> "yes", sub |-> t, iat |-> now]]
        /\ UNCHANGED <<now, nonceUntil, call>>
    BY <1>1 DEF GenerateDynamicQr
  <2>2. \A m \in Nonces \ {n} : qr'[m] = qr[m]
    BY <2>1
  <2>3. qr'[n].iat = now
    BY <2>1
  <2>4. QED
    BY <2>1, <2>2, <2>3 DEF ReplayInv, BurntNonceKept, WaitingScanIsRecent,
       CodeIsSignedInThePast, NonceNotReplayed
<1>2. ASSUME NEW c \in Calls, NEW n \in Nonces, VerifyEntry(c, n)
      PROVE  ReplayInv'
  <2>1. CASE Fresh(n)
    <3>1. /\ call'[c].pc = "nonce" /\ call'[c].nonce = n /\ call'[c].at = now
          /\ call'[c].isNew = "pending"
          /\ \A d \in Calls \ {c} : call'[d] = call[d]
      BY <1>2, <2>1 DEF VerifyEntry, IdleCall
    <3>2. qr[n].issued = "yes" /\ now < qr[n].iat + QrTtl
          /\ UNCHANGED <<now, qr, nonceUntil>>
      BY <1>2, <2>1 DEF VerifyEntry, Fresh
    <3>3. QED
      BY <3>1, <3>2 DEF ReplayInv, BurntNonceKept, WaitingScanIsRecent,
         CodeIsSignedInThePast, NonceNotReplayed
  <2>2. CASE ~Fresh(n)
    BY <1>2, <2>2, ReplayUntouched DEF VerifyEntry, Refuse, Handler
  <2>3. QED
    BY <2>1, <2>2
<1>3. ASSUME NEW c \in Calls, FallbackVerify(c)
      PROVE  ReplayInv'
  <2>1. CASE \E p \in FoundById :
               call' = [call EXCEPT ![c] = [IdleCall EXCEPT
                          !.pc = "minted", !.mode = "FALLBACK", !.person = p]]
    <3>1. PICK p \in FoundById :
               call' = [call EXCEPT ![c] = [IdleCall EXCEPT
                          !.pc = "minted", !.mode = "FALLBACK", !.person = p]]
      BY <2>1
    <3>2. /\ call'[c].pc = "minted" /\ call'[c].isNew = "pending"
          /\ \A d \in Calls \ {c} : call'[d] = call[d]
      BY <3>1 DEF IdleCall
    <3>3. QED
      BY <1>3, <3>2, ReplayUntouched DEF FallbackVerify
  <2>2. CASE call' = Refuse(c)
    BY <1>3, <2>2, ReplayUntouched DEF FallbackVerify, Refuse, Handler
  <2>3. QED
    BY <1>3, <2>1, <2>2 DEF FallbackVerify
<1>4. ASSUME NEW c \in Calls, SetNonce(c)
      PROVE  ReplayInv'
  <2> DEFINE n == call[c].nonce
  <2>1. CASE NonceSeen(n)
    <3>1. /\ call'[c].pc = "refused" /\ call'[c].isNew # "OK"
          /\ \A d \in Calls \ {c} : call'[d] = call[d]
          /\ UNCHANGED <<now, qr, nonceUntil>>
      BY <1>4, <2>1 DEF SetNonce, Handler
    <3>2. QED
      BY <3>1 DEF ReplayInv, BurntNonceKept, WaitingScanIsRecent,
         CodeIsSignedInThePast, NonceNotReplayed
  <2>2. CASE ~NonceSeen(n)
    <3>1. /\ n \in Nonces /\ qr[n].issued = "yes" /\ qr[n].iat <= now
          /\ now < qr[n].iat + NonceTtl
          /\ nonceUntil[n] <= now
      BY <1>4, <2>2 DEF SetNonce, NonceSeen, ReplayInv, WaitingScanIsRecent,
         CodeIsSignedInThePast
    <3>2. \A d \in Calls : call[d].isNew = "OK" => call[d].nonce # n
      BY <3>1 DEF ReplayInv, BurntNonceKept
    <3>3. /\ call'[c].pc = "read" /\ call'[c].isNew = "OK" /\ call'[c].nonce = n
          /\ \A d \in Calls \ {c} : call'[d] = call[d]
          /\ nonceUntil' = [nonceUntil EXCEPT ![n] = now + NonceTtl]
          /\ UNCHANGED <<now, qr>>
      BY <1>4, <2>2 DEF SetNonce, Handler
    <3>4. BurntNonceKept'
      BY <3>1, <3>2, <3>3 DEF ReplayInv, BurntNonceKept
    <3>5. WaitingScanIsRecent' /\ CodeIsSignedInThePast'
      BY <3>3 DEF ReplayInv, WaitingScanIsRecent, CodeIsSignedInThePast
    <3>6. NonceNotReplayed'
      BY <3>2, <3>3 DEF ReplayInv, NonceNotReplayed
    <3>7. QED
      BY <3>4, <3>5, <3>6 DEF ReplayInv
  <2>3. QED
    BY <2>1, <2>2
<1>5. ASSUME NEW c \in Calls,
             \/ ReadTicket(c) \/ CheckOnChainOwnership(c) \/ CompareFace(c)
             \/ FindMinted(c) \/ FindPaid(c) \/ MarkUsed(c) \/ SaveLog(c)
             \/ CallDies(c)
      PROVE  ReplayInv'
  <2>1. UNCHANGED <<now, qr, nonceUntil>>
    BY <1>5 DEF ReadTicket, CheckOnChainOwnership, CompareFace, FindMinted, FindPaid,
       MarkUsed, SaveLog, CallDies
  <2>2. CASE ReadTicket(c)
    BY <2>1, <2>2, ReplayUntouched DEF ReadTicket, ToLog, Handler
  <2>3. CASE CheckOnChainOwnership(c)
    BY <2>1, <2>3, ReplayUntouched DEF CheckOnChainOwnership, ToLog, Handler
  <2>4. CASE CompareFace(c)
    BY <2>1, <2>4, ReplayUntouched DEF CompareFace, ToLog, Fail, Handler
  <2>5. CASE FindMinted(c)
    BY <2>1, <2>5, ReplayUntouched DEF FindMinted, Handler
  <2>6. CASE FindPaid(c)
    BY <2>1, <2>6, ReplayUntouched DEF FindPaid, ToLog, Handler
  <2>7. CASE MarkUsed(c)
    BY <2>1, <2>7, ReplayUntouched DEF MarkUsed, ToLog, Handler
  <2>8. CASE SaveLog(c)
    BY <2>1, <2>8, ReplayUntouched DEF SaveLog, Fail, Handler
  <2>9. CASE CallDies(c)
    BY <2>1, <2>9, ReplayUntouched DEF CallDies, Handler
  <2>10. QED
    BY <1>5, <2>2, <2>3, <2>4, <2>5, <2>6, <2>7, <2>8, <2>9
<1>6. ASSUME Tick
      PROVE  ReplayInv'
  BY <1>6 DEF Tick, ReplayInv, BurntNonceKept, WaitingScanIsRecent,
     CodeIsSignedInThePast, NonceNotReplayed
<1>7. ASSUME NEW c \in Calls, SetNonceResent(c)
      PROVE  ReplayInv'
  <2> DEFINE n == call[c].nonce
  <2>1. /\ n \in Nonces /\ qr[n].issued = "yes" /\ qr[n].iat <= now
        /\ now < qr[n].iat + NonceTtl
        /\ nonceUntil[n] <= now
    BY <1>7 DEF SetNonceResent, NonceSeen, ReplayInv, WaitingScanIsRecent,
       CodeIsSignedInThePast
  <2>2. \A d \in Calls : call[d].isNew = "OK" => call[d].nonce # n
    BY <2>1 DEF ReplayInv, BurntNonceKept
  <2>3. /\ call'[c].pc = "refused" /\ call'[c].isNew # "OK"
        /\ \A d \in Calls \ {c} : call'[d] = call[d]
        /\ nonceUntil' = [nonceUntil EXCEPT ![n] = now + NonceTtl]
        /\ UNCHANGED <<now, qr>>
    BY <1>7 DEF SetNonceResent, Handler
  <2>4. BurntNonceKept'
    BY <2>2, <2>3 DEF ReplayInv, BurntNonceKept
  <2>5. WaitingScanIsRecent' /\ CodeIsSignedInThePast' /\ NonceNotReplayed'
    BY <2>3 DEF ReplayInv, WaitingScanIsRecent, CodeIsSignedInThePast, NonceNotReplayed
  <2>6. QED
    BY <2>4, <2>5 DEF ReplayInv
<1>8. ASSUME UNCHANGED GateAll
      PROVE  ReplayInv'
  BY <1>8 DEF GateAll, gateVars, ReplayInv, BurntNonceKept, WaitingScanIsRecent,
     CodeIsSignedInThePast, NonceNotReplayed
<1>9. QED
  BY <1>1, <1>2, <1>3, <1>4, <1>5, <1>6, <1>7, <1>8 DEF GateNext, CallStep

(* No QR code passes the replay check of verifyEntry twice, for any        *)
(* lifetime of codes, as long as Redis answers within one lifetime.        *)
THEOREM NoQrReplay == GateSpec => []NonceNotReplayed
<1>1. GateInit => ReplayInv
  BY GateAssumption DEF GateInit, GateStart, IdleCall, Unsigned, ReplayInv,
     BurntNonceKept, WaitingScanIsRecent, CodeIsSignedInThePast, NonceNotReplayed
<1>2. QED
  BY <1>1, GateTypeInitially, GateTypePreserved, ReplayPreserved, PTL
     DEF GateSpec, ReplayInv
-----------------------------------------------------------------------------
(* How far a scan that has spent its code is from its end.                 *)
AwaitsLeft(pc) ==
    CASE pc = "read"   -> 5
      [] pc = "chain"  -> 4
      [] pc = "face"   -> 3
      [] pc = "update" -> 2
      [] pc = "log"    -> 1
      [] OTHER         -> 0

(* It is at one of its awaits, or it failed or was lost, or its log is     *)
(* written: it has not answered without one.                               *)
SpentIsOnItsWay ==
    \A c \in Calls : call[c].isNew = "OK" =>
        \/ call[c].pc \in {"read", "chain", "face", "update", "error", "dead"}
        \/ call[c].pc = "log" /\ call[c].ticket \in Tickets
        \/ call[c].pc = "done" /\ \E l \in gateLog : l.call = c

(* A step that moves it brings it nearer to its end.                       *)
OnlyForward ==
    \A c \in Calls : call[c].isNew = "OK" /\ call'[c] # call[c] =>
        AwaitsLeft(call'[c].pc) < AwaitsLeft(call[c].pc)

(* It is so for every step, once it is so for the call that takes it.      *)
LEMMA OneCallMoves ==
    ASSUME SpentIsOnItsWay, NEW c \in Calls, gateLog \subseteq gateLog',
           \A d \in Calls \ {c} : call'[d] = call[d],
           call'[c].isNew = "OK" =>
              \/ call'[c].pc \in {"read", "chain", "face", "update", "error", "dead"}
              \/ call'[c].pc = "log" /\ call'[c].ticket \in Tickets
              \/ call'[c].pc = "done" /\ \E l \in gateLog' : l.call = c,
           call[c].isNew = "OK" => AwaitsLeft(call'[c].pc) < AwaitsLeft(call[c].pc)
    PROVE  SpentIsOnItsWay' /\ OnlyForward
  BY DEF SpentIsOnItsWay, OnlyForward

(* Every step of the gate keeps spent codes on their way, and takes none   *)
(* of them back.                                                           *)
LEMMA SpentGoesForward ==
    ASSUME GateTypeInv, SpentIsOnItsWay, [GateNext]_GateAll
    PROVE  SpentIsOnItsWay' /\ OnlyForward
<1> call \in [Calls -> Handler]
  BY DEF GateTypeInv, GateTypeOK
<1> DEFINE Goal == SpentIsOnItsWay' /\ OnlyForward
<1>1. ASSUME UNCHANGED <<call, gateLog>>
      PROVE  Goal
  BY <1>1 DEF SpentIsOnItsWay, OnlyForward
<1>2. ASSUME NEW c \in Calls, NEW n \in Nonces, VerifyEntry(c, n)
      PROVE  Goal
  <2>1. call[c].isNew # "OK"
    BY <1>2 DEF VerifyEntry, SpentIsOnItsWay
  <2>2. call'[c].isNew # "OK" /\ UNCHANGED gateLog
        /\ \A d \in Calls \ {c} : call'[d] = call[d]
    BY <1>2, <2>1 DEF VerifyEntry, Refuse, IdleCall, Handler
  <2>3. QED
    BY <2>1, <2>2, OneCallMoves
<1>3. ASSUME NEW c \in Calls, FallbackVerify(c)
      PROVE  Goal
  <2>1. call[c].isNew # "OK"
    BY <1>3 DEF FallbackVerify, SpentIsOnItsWay
  <2>2. call'[c].isNew # "OK" /\ UNCHANGED gateLog
        /\ \A d \in Calls \ {c} : call'[d] = call[d]
    <3>1. CASE call' = Refuse(c)
      BY <1>3, <2>1, <3>1 DEF FallbackVerify, Refuse, Handler
    <3>2. CASE call' # Refuse(c)
      <4>1. PICK p \in FoundById :
              call' = [call EXCEPT ![c] = [IdleCall EXCEPT
                         !.pc = "minted", !.mode = "FALLBACK", !.person = p]]
        BY <1>3, <3>2 DEF FallbackVerify
      <4>2. QED
        BY <1>3, <4>1 DEF FallbackVerify, IdleCall, Handler
    <3>3. QED
      BY <3>1, <3>2
  <2>3. QED
    BY <2>1, <2>2, OneCallMoves
<1>4. ASSUME NEW c \in Calls, SetNonce(c) \/ SetNonceResent(c)
      PROVE  Goal
  <2>1. call[c].isNew # "OK"
    BY <1>4 DEF SetNonce, SetNonceResent, SpentIsOnItsWay
  <2>2. /\ call'[c].isNew = "OK" => call'[c].pc = "read"
        /\ UNCHANGED gateLog
        /\ \A d \in Calls \ {c} : call'[d] = call[d]
    BY <1>4 DEF SetNonce, SetNonceResent, Handler
  <2>3. QED
    BY <2>1, <2>2, OneCallMoves
<1>5. ASSUME NEW c \in Calls,
             \/ ReadTicket(c) \/ CheckOnChainOwnership(c) \/ CompareFace(c) \/ MarkUsed(c)
      PROVE  Goal
  <2>1. /\ UNCHANGED gateLog
        /\ call'[c].ticket = call[c].ticket
        /\ \A d \in Calls \ {c} : call'[d] = call[d]
        /\ \/ call[c].pc = "read" /\ call'[c].pc \in {"chain", "log"}
           \/ call[c].pc = "chain" /\ call'[c].pc \in {"update", "face", "log"}
           \/ call[c].pc = "face" /\ call'[c].pc \in {"update", "log", "error"}
           \/ call[c].pc = "update" /\ call'[c].pc = "log"
    BY <1>5 DEF ReadTicket, CheckOnChainOwnership, CompareFace, MarkUsed, ToLog, Fail, Handler
  <2>2. call[c].ticket \in Tickets
    BY <2>1 DEF GateTypeInv, TargetKnown
  <2>3. AwaitsLeft(call'[c].pc) < AwaitsLeft(call[c].pc)
    BY <2>1 DEF AwaitsLeft
  <2>4. QED
    BY <2>1, <2>2, <2>3, OneCallMoves
<1>6. ASSUME NEW c \in Calls, FindMinted(c) \/ FindPaid(c)
      PROVE  Goal
  <2>1. call[c].isNew # "OK"
    BY <1>6 DEF FindMinted, FindPaid, SpentIsOnItsWay
  <2>2. call'[c].isNew # "OK" /\ UNCHANGED gateLog
        /\ \A d \in Calls \ {c} : call'[d] = call[d]
    BY <1>6, <2>1 DEF FindMinted, FindPaid, ToLog, Handler
  <2>3. QED
    BY <2>1, <2>2, OneCallMoves
<1>7. ASSUME NEW c \in Calls, SaveLog(c)
      PROVE  Goal
  <2>1. /\ call[c].pc = "log" /\ gateLog \subseteq gateLog'
        /\ call'[c].pc = "error" \/ (call'[c].pc = "done" /\ LoggedRow(c) \in gateLog')
        /\ \A d \in Calls \ {c} : call'[d] = call[d]
    BY <1>7 DEF SaveLog, Fail, Handler
  <2>2. LoggedRow(c).call = c
    BY DEF LoggedRow
  <2>3. AwaitsLeft(call'[c].pc) < AwaitsLeft(call[c].pc)
    BY <2>1 DEF AwaitsLeft
  <2>4. QED
    BY <2>1, <2>2, <2>3, OneCallMoves
<1>8. ASSUME NEW c \in Calls, CallDies(c)
      PROVE  Goal
  <2>1. /\ UNCHANGED gateLog /\ call'[c].pc = "dead" /\ call[c].pc \in InFlight
        /\ \A d \in Calls \ {c} : call'[d] = call[d]
    BY <1>8 DEF CallDies, Handler
  <2>2. call[c].isNew = "OK" => AwaitsLeft(call'[c].pc) < AwaitsLeft(call[c].pc)
    BY <2>1 DEF SpentIsOnItsWay, InFlight, AwaitsLeft
  <2>3. QED
    BY <2>1, <2>2, OneCallMoves
<1> HIDE DEF Goal
<1>9. Goal
  BY <1>1, <1>2, <1>3, <1>4, <1>5, <1>6, <1>7, <1>8
     DEF GateNext, CallStep, GenerateDynamicQr, Tick, GateAll, gateVars
<1>10. QED
  BY <1>9 DEF Goal

(* The safety half of BurntNonceSettles: a scan that has spent its code    *)
(* ends with a gate log, an error or the loss of the call and in no other  *)
(* way, and has at most five steps to get there.  What is left to fairness *)
(* is that the steps are taken.                                            *)
THEOREM SpentCodesGoForward == GateSpec => []SpentIsOnItsWay /\ [][OnlyForward]_GateAll
<1>1. GateInit => SpentIsOnItsWay
  BY DEF GateInit, GateStart, IdleCall, SpentIsOnItsWay
<1>2. QED
  BY <1>1, GateTypeInitially, GateTypePreserved, SpentGoesForward, PTL DEF GateSpec
=============================================================================
