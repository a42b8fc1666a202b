-------------------------------- MODULE Gate --------------------------------
(***************************************************************************)
(* GateVerificationService: dynamic QR codes, the entry check of a scanned *)
(* code and the fallback check by government ID, with any number of calls  *)
(* in flight.  Each await of a handler ends a step; between two steps      *)
(* other calls run, time passes and the call itself may die (the process   *)
(* stops, or PostgreSQL or Redis answers with an error).                   *)
(*                                                                         *)
(* Time counts seconds.  A QR code is named by its nonce.                  *)
(***************************************************************************)
EXTENDS TicketStore

CONSTANTS
    Nonces,        \* QR codes that can be generated
    Calls,         \* calls of verifyEntry and fallbackVerify, each made once
    Persons,       \* rows of `persons`
    FoundById,     \* persons whose personIdHash is the hash of an ID number
    Holder,        \* Holder[t]: the person whose id ticket.userId is taken for
    QrTtl,         \* QR_TTL_SECONDS
    RedisDelay,    \* bound: seconds from the freshness check to the SET NX
    MaxTime        \* bound: the clock stops here

ASSUME GateAssumption ==
    /\ QrTtl \in Nat \ {0}
    /\ RedisDelay \in Nat
    /\ RedisDelay <= QrTtl
    /\ MaxTime \in Nat
    /\ FoundById \subseteq Persons
    /\ Holder \in [Tickets -> Persons]

VARIABLES
    now,           \* Date.now() in seconds
    qr,            \* qr[n]: the signed payload with nonce n
    nonceUntil,    \* nonceUntil[n]: when the Redis key of n expires, 0 if never set
    call,          \* call[c]: the handler's position and local variables
    gateLog        \* the rows of gate_logs

gateVars == <<now, qr, nonceUntil, call, gateLog>>

(* Redis keeps the key of a scanned nonce for EX seconds.                  *)
NonceTtlOfOneWindow == QrTtl
NonceTtl == QrTtl * 2

Unsigned == [issued |-> "no", sub |-> "none", iat |-> 0]

Payload == [issued : {"yes"}, sub : Tickets, iat : Nat] \cup {Unsigned}

Modes == {"NORMAL", "STRONG", "FALLBACK"}

Admissions == {"SUCCESS", "FALLBACK"}

Results == Admissions \cup {"none", "FAILED"}

Pcs == {"idle", "nonce", "read", "chain", "face", "minted", "paid", "update",
        "log", "done", "refused", "error", "dead"}

InFlight == {"nonce", "read", "chain", "face", "minted", "paid", "update", "log"}

(* refused: the call threw a 4xx, error: a 500, before or without a log;   *)
(* person: whose ID a fallback call hashes; at: time of the freshness check;
   isNew: the reply of SET NX; sbt: the token column of the row it read.   *)
Handler == [pc : Pcs, mode : Modes, nonce : Nonces \cup {"none"},
            ticket : Tickets \cup {"unknown"}, person : Persons \cup {"none"},
            at : Nat, isNew : {"pending", "OK", "null"},
            sbt : {"null", "token"}, result : Results]

IdleCall == [pc |-> "idle", mode |-> "NORMAL", nonce |-> "none",
             ticket |-> "unknown", person |-> "none", at |-> 0,
             isNew |-> "pending", sbt |-> "null", result |-> "none"]

(* The column ticketId is a uuid.                                          *)
GateLogRow == [call : Calls, ticket : Tickets, mode : Modes, result : Results]

-----------------------------------------------------------------------------
(* Rows as ticketing leaves them when no ticketing request is running.     *)
SettledRow ==
    {r \in Row : /\ r.status \in {"ABSENT", "PREAUTHORIZED", "PAID"} => r.sbt = "null"
                 /\ r.status = "MINTED" => r.sbt = "token"
                 /\ r.tradeNo = "null"}

GateStart ==
    /\ now = 0
    /\ qr = [n \in Nonces |-> Unsigned]
    /\ nonceUntil = [n \in Nonces |-> 0]
    /\ call = [c \in Calls |-> IdleCall]
    /\ gateLog = {}

GateInit ==
    /\ tickets \in [Tickets -> SettledRow]
    /\ balance \in [Tokens -> {0, 1}]
    /\ GateStart

-----------------------------------------------------------------------------
(* A call that is to write a gate log before it answers.                   *)
ToLog(c, result) == [call EXCEPT ![c].pc = "log", ![c].result = result]

(* A call that throws without writing a gate log.                          *)
Refuse(c) == [call EXCEPT ![c].pc = "refused"]
Fail(c)   == [call EXCEPT ![c].pc = "error"]

GenerateDynamicQr(n, t) ==
    /\ qr[n].issued = "no"
    /\ tickets[t].status \notin {"ABSENT", "USED", "REFUNDED"}
    /\ qr' = [qr EXCEPT ![n] = [issued |-> "yes", sub |-> t, iat |-> now]]
    /\ UNCHANGED <<tickets, balance, now, nonceUntil, call, gateLog>>

(* Steps 1 and 2 of verifyEntry: jwtService.verify and the age of the code. *)
Fresh(n) == now < qr[n].iat + QrTtl /\ now - qr[n].iat <= QrTtl

VerifyEntry(c, n) ==
    /\ call[c].pc = "idle"
    /\ qr[n].issued = "yes"
    /\ call' = IF Fresh(n)
               THEN [call EXCEPT ![c] = [IdleCall EXCEPT
                        !.pc = "nonce", !.nonce = n,
                        !.ticket = qr[n].sub, !.at = now]]
               ELSE Refuse(c)
    /\ UNCHANGED <<tickets, balance, now, qr, nonceUntil, gateLog>>

(* Step 3: SET key EX 2*QR_TTL NX.                                         *)
NonceSeen(n) == now < nonceUntil[n]

SetNonce(c) ==
    /\ call[c].pc = "nonce"
    /\ LET n == call[c].nonce IN
       \/ /\ NonceSeen(n)
          /\ call' = [call EXCEPT ![c].pc = "refused", ![c].isNew = "null"]
          /\ UNCHANGED nonceUntil
       \/ /\ ~NonceSeen(n)
          /\ nonceUntil' = [nonceUntil EXCEPT ![n] = now + NonceTtl]
          /\ call' = [call EXCEPT ![c].pc = "read", ![c].isNew = "OK"]
    /\ UNCHANGED <<tickets, balance, now, qr, gateLog>>

(* The connection to Redis is lost after the SET was carried out and       *)
(* before its answer came: the client connects again and sends it a second *)
(* time, and the answer is that of a key which exists.                     *)
SetNonceResent(c) ==
    /\ call[c].pc = "nonce"
    /\ ~NonceSeen(call[c].nonce)
    /\ nonceUntil' = [nonceUntil EXCEPT ![call[c].nonce] = now + NonceTtl]
    /\ call' = [call EXCEPT ![c].pc = "refused", ![c].isNew = "null"]
    /\ UNCHANGED <<tickets, balance, now, qr, gateLog>>

(* Step 4: the status of the ticket.                                       *)
ReadTicketUnlogged(c) ==
    /\ call[c].pc = "read"
    /\ LET row == tickets[call[c].ticket] IN
       call' = IF row.status \in ValidForEntry
               THEN [call EXCEPT ![c].pc = "chain", ![c].sbt = row.sbt]
               ELSE Refuse(c)
    /\ UNCHANGED <<tickets, balance, now, qr, nonceUntil, gateLog>>

ReadTicket(c) ==
    /\ call[c].pc = "read"
    /\ LET row == tickets[call[c].ticket] IN
       call' = IF row.status \in ValidForEntry
               THEN [call EXCEPT ![c].pc = "chain", ![c].sbt = row.sbt]
               ELSE ToLog(c, "FAILED")
    /\ UNCHANGED <<tickets, balance, now, qr, nonceUntil, gateLog>>

(* Step 5: checkOnChainOwnership, which answers true when the row had no   *)
(* token and when the chain cannot be asked; then whether a face photo was *)
(* sent, an input of the call that nothing looks at before.                *)
OwnershipRefuted(c) == call[c].sbt = "token" /\ balance[TokenOf[call[c].ticket]] = 0

CheckOnChainOwnership(c) ==
    /\ call[c].pc = "chain"
    /\ \/ call' = [call EXCEPT ![c].pc = "update"]
       \/ call' = [call EXCEPT ![c].pc = "face", ![c].mode = "STRONG"]
       \/ OwnershipRefuted(c) /\ call' = ToLog(c, "FAILED")
    /\ UNCHANGED <<tickets, balance, now, qr, nonceUntil, gateLog>>

(* Step 6: the score reaches the threshold, or not, or CompreFace fails.   *)
CompareFace(c) ==
    /\ call[c].pc = "face"
    /\ \/ call' = [call EXCEPT ![c].pc = "update"]
       \/ call' = ToLog(c, "FAILED")
       \/ call' = Fail(c)
    /\ UNCHANGED <<tickets, balance, now, qr, nonceUntil, gateLog>>

(* fallbackVerify: the person behind the government ID.  submitKyc stores  *)
(* the hash of an image of the document, so that no number finds anybody   *)
(* in the program as it is: FoundById is then empty.  What follows a       *)
(* person that was found is modelled for any other value.                  *)
FallbackVerify(c) ==
    /\ call[c].pc = "idle"
    /\ \/ \E p \in FoundById :
            call' = [call EXCEPT ![c] = [IdleCall EXCEPT
                        !.pc = "minted", !.mode = "FALLBACK", !.person = p]]
       \/ call' = Refuse(c)
    /\ UNCHANGED <<tickets, balance, now, qr, nonceUntil, gateLog>>

(* ticketRepo.findOne({eventId, userId: person.id, status})                *)
TicketsOf(p, status) ==
    {t \in Tickets : Holder[t] = p /\ tickets[t].status = status}

FindMinted(c) ==
    /\ call[c].pc = "minted"
    /\ LET found == TicketsOf(call[c].person, "MINTED") IN
       \/ \E t \in found :
            call' = [call EXCEPT ![c].pc = "update", ![c].ticket = t]
       \/ found = {} /\ call' = [call EXCEPT ![c].pc = "paid"]
    /\ UNCHANGED <<tickets, balance, now, qr, nonceUntil, gateLog>>

FindPaid(c) ==
    /\ call[c].pc = "paid"
    /\ LET found == TicketsOf(call[c].person, "PAID") IN
       \/ \E t \in found :
            call' = [call EXCEPT ![c].pc = "update", ![c].ticket = t]
       \/ found = {} /\ call' = ToLog(c, "FAILED")
    /\ UNCHANGED <<tickets, balance, now, qr, nonceUntil, gateLog>>

(* UPDATE ... SET status = USED WHERE id = t AND status IN (PAID, MINTED)  *)
ConsumableByIdAlone(t) == TRUE
ConsumableIfMinted(t) == tickets[t].status = "MINTED"
Consumable(t) == tickets[t].status \in ValidForEntry

(* Step 7, and the conditional UPDATEs of fallbackVerify.                  *)
MarkUsed(c) ==
    /\ call[c].pc = "update"
    /\ LET t == call[c].ticket IN
       \/ /\ Consumable(t)
          /\ tickets' = [tickets EXCEPT ![t].status = "USED"]
          /\ call' = ToLog(c, IF call[c].mode = "FALLBACK" THEN "FALLBACK"
                                                           ELSE "SUCCESS")
       \/ /\ ~Consumable(t)
          /\ call' = ToLog(c, "FAILED")
          /\ UNCHANGED tickets
    /\ UNCHANGED <<balance, now, qr, nonceUntil, gateLog>>

(* Step 8: saveLog, then the handler answers or throws.  A fallback check  *)
(* that found no ticket passes the word 'unknown' for a uuid: PostgreSQL   *)
(* refuses the INSERT and the call ends with a 500.                        *)
LoggedRow(c) == [call |-> c, ticket |-> call[c].ticket,
                 mode |-> call[c].mode, result |-> call[c].result]

SaveLogOfAnyText(c) ==
    /\ call[c].pc = "log"
    /\ gateLog' = gateLog \cup {LoggedRow(c)}
    /\ call' = [call EXCEPT ![c].pc = "done"]
    /\ UNCHANGED <<tickets, balance, now, qr, nonceUntil>>

SaveLog(c) ==
    /\ call[c].pc = "log"
    /\ \/ /\ call[c].ticket # "unknown"
          /\ gateLog' = gateLog \cup {LoggedRow(c)}
          /\ call' = [call EXCEPT ![c].pc = "done"]
       \/ /\ call[c].ticket = "unknown"
          /\ call' = Fail(c)
          /\ UNCHANGED gateLog
    /\ UNCHANGED <<tickets, balance, now, qr, nonceUntil>>

(* The call is lost at an await: what it wrote stays, the rest never runs. *)
CallDies(c) ==
    /\ call[c].pc \in InFlight
    /\ call' = [call EXCEPT ![c].pc = "dead"]
    /\ UNCHANGED <<tickets, balance, now, qr, nonceUntil, gateLog>>

(* Redis answers, or the call dies, within RedisDelay of the check.        *)
Tick ==
    /\ now < MaxTime
    /\ \A c \in Calls : call[c].pc = "nonce" => now < call[c].at + RedisDelay
    /\ now' = now + 1
    /\ UNCHANGED <<tickets, balance, qr, nonceUntil, call, gateLog>>

CallStep(c) ==
    \/ SetNonce(c) \/ ReadTicket(c) \/ CheckOnChainOwnership(c)
    \/ CompareFace(c) \/ FindMinted(c) \/ FindPaid(c)
    \/ MarkUsed(c) \/ SaveLog(c)

GateNext ==
    \/ \E n \in Nonces, t \in Tickets : GenerateDynamicQr(n, t)
    \/ \E c \in Calls, n \in Nonces : VerifyEntry(c, n)
    \/ \E c \in Calls : FallbackVerify(c)
    \/ \E c \in Calls : CallStep(c)
    \/ \E c \in Calls : SetNonceResent(c) \/ CallDies(c)
    \/ Tick

GateAll == <<tickets, balance, gateVars>>

GateSpec == GateInit /\ [][GateNext]_GateAll

(* The event loop resumes a call whose await has settled, so a call that   *)
(* can take a step takes one.                                              *)
FairGateSpec ==
    GateSpec /\ \A c \in Calls : WF_GateAll(CallStep(c))

-----------------------------------------------------------------------------
(* Every variable holds values of the kind its column, key or local        *)
(* variable has.                                                           *)
GateTypeOK ==
    /\ StoreTypeOK
    /\ now \in Nat
    /\ qr \in [Nonces -> Payload]
    /\ nonceUntil \in [Nonces -> Nat]
    /\ call \in [Calls -> Handler]
    /\ gateLog \subseteq GateLogRow

(* The call's UPDATE affected a row: it lets the holder in.                *)
LetsIn(c) == call[c].result \in Admissions

(* However scans and fallback checks of one ticket interleave, at most one *)
(* of them lets somebody in, and after that the ticket stays consumed: the *)
(* conditional UPDATE of verifyEntry and fallbackVerify prevents double    *)
(* entry even when both calls read the ticket as valid.                    *)
SingleAdmission ==
    \A c \in Calls : LetsIn(c) =>
        /\ tickets[call[c].ticket].status = "USED"
        /\ \A d \in Calls :
              LetsIn(d) /\ call[d].ticket = call[c].ticket => d = c

(* One QR code passes the replay check of verifyEntry at most once, also   *)
(* when a scan checks its age in the last second and Redis answers late:   *)
(* the key set by the first scan is still there.                           *)
NonceNotReplayed ==
    \A c, d \in Calls :
        /\ call[c].isNew = "OK"
        /\ call[d].isNew = "OK"
        /\ call[c].nonce = call[d].nonce
        => c = d

(* A call that the conditional UPDATE turns away ("already consumed by a   *)
(* concurrent scan") lost to another call that did let the holder in; no   *)
(* holder of a valid ticket is turned away without anybody having entered. *)
LostRaceHasWinner ==
    [][\A c \in Calls :
         /\ call[c].pc = "update"
         /\ call'[c].result = "FAILED"
         => \E d \in Calls \ {c} :
               LetsIn(d) /\ call[d].ticket = call[c].ticket]_GateAll

(* A scan whose nonce has been burnt cannot be repeated, so it must come   *)
(* to an end: it writes its gate log, unless the face service failed or    *)
(* the call itself was lost.                                               *)
BurntNonceSettles ==
    \A c \in Calls :
        call[c].isNew = "OK" ~>
            \/ call[c].pc \in {"error", "dead"}
            \/ \E l \in gateLog : l.call = c
=============================================================================
