---------------------------- MODULE MCBoxOffice ----------------------------
(* Small instances of BoxOffice for TLC.                                   *)
EXTENDS BoxOffice, TLC

CONSTANT p1

MCTokenOf == [t \in Tickets |-> t]

MCHolder == [t \in Tickets |-> p1]

MCSymmetry == Permutations(Requests) \cup Permutations(Calls)

(* A ticket as requests that came one after the other have left it: not    *)
(* sold; sold, and paid by the customer or not; captured; minted.  All of  *)
(* these are states of BoxSpec, which reaches them with three requests.    *)
Sold(status, state, sbt) ==
    [row   |-> [status |-> status, tradeNo |-> "null", sbt |-> sbt],
     trade |-> state]

MCPast == {Sold("ABSENT", "open", "null"),
           Sold("PREAUTHORIZED", "open", "null"),
           Sold("PREAUTHORIZED", "authorized", "null"),
           Sold("PAID", "captured", "null"),
           Sold("MINTED", "captured", "token")}

MCBoxInit ==
    \E past \in [Tickets -> MCPast] :
        LET With(status) == {t \in Tickets : past[t].row.status \in status} IN
        /\ tickets = [t \in Tickets |-> past[t].row]
        /\ trade = [t \in Tickets |-> past[t].trade]
        /\ settled = [t \in Tickets |-> past[t].row.status]
        /\ captureOk = With({"PAID", "MINTED"})
        /\ mintOk = With({"MINTED"})
        /\ voidOk = {}
        /\ balance = [i \in Tokens |-> IF \E t \in With({"MINTED"}) : TokenOf[t] = i
                                       THEN 1 ELSE 0]
        /\ req = [r \in Requests |-> IdleRequest]
        /\ overlapped = {}
        /\ GateStart
        /\ overwritten = {}

MCBoxSpec == MCBoxInit /\ [][BoxNext]_boxVars
=============================================================================
