---------------------------- MODULE TicketStore ----------------------------
(***************************************************************************)
(* The state that ticketing and gate verification share: the `tickets`     *)
(* table of PostgreSQL and the balances of the BlockTicSBT contract, with  *)
(* the way TypeORM writes an entity back.                                  *)
(*                                                                         *)
(* A row keeps the columns that some guard reads.  sbt stands for          *)
(* sbtTokenId, aaWalletAddress and txHash, always assigned together;       *)
(* tradeNo for ecpayTradeNo.  preauthTradeNo is assigned at INSERT and     *)
(* never again, so a ticket is its own trade number.  seatId is never      *)
(* assigned by any code of the repository and is left out.                 *)
(***************************************************************************)
EXTENDS Integers

CONSTANTS
    Tickets,
    TokenOf      \* TokenOf[t]: deriveTokenId(t), in the wallet of t's holder

VARIABLES
    tickets,     \* tickets[t]: the row of ticket t, as last committed
    balance      \* balance[i]: BlockTicSBT.balanceOf of the wallet and id i

(* The id is a hash of the ticket's uuid modulo 10^9: tickets of one       *)
(* holder may share it.                                                    *)
Tokens == {TokenOf[t] : t \in Tickets}

TicketStatus == {"PREAUTHORIZED", "PAID", "MINTED", "REFUNDED", "USED"}

Row == [status  : TicketStatus \cup {"ABSENT"},
        tradeNo : {"null", "assigned"},
        sbt     : {"null", "token"}]

NoRow == [status |-> "ABSENT", tradeNo |-> "null", sbt |-> "null"]

(* The statuses with which the gate lets a holder in.                      *)
ValidForEntry == {"PAID", "MINTED"}

(***************************************************************************)
(* Repository.save(entity) of TypeORM: a SELECT of the row by id, then an  *)
(* UPDATE of the columns in which the entity in memory differs from what   *)
(* that SELECT returned.  The entity may have been loaded long before, so  *)
(* the columns another request changed meanwhile count as differences and  *)
(* are written back.                                                       *)
(***************************************************************************)
Columns == {"status", "tradeNo", "sbt"}

ChangedColumns(entity, row) ==
    {c \in Columns : \/ c = "status"  /\ entity.status  # row.status
                     \/ c = "tradeNo" /\ entity.tradeNo # row.tradeNo
                     \/ c = "sbt"     /\ entity.sbt     # row.sbt}

UpdateColumns(row, entity, cols) ==
    [status  |-> IF "status"  \in cols THEN entity.status  ELSE row.status,
     tradeNo |-> IF "tradeNo" \in cols THEN entity.tradeNo ELSE row.tradeNo,
     sbt     |-> IF "sbt"     \in cols THEN entity.sbt     ELSE row.sbt]

(* BlockTicSBT, called by the backend's account only: mint and burn one    *)
(* token of t; a burn without a balance reverts.                           *)
Mint(t) == balance' = [balance EXCEPT ![TokenOf[t]] = @ + 1]
Burn(t) == balance[TokenOf[t]] > 0 /\ balance' = [balance EXCEPT ![TokenOf[t]] = @ - 1]

StoreTypeOK ==
    /\ tickets \in [Tickets -> Row]
    /\ balance \in [Tokens -> Nat]
=============================================================================
