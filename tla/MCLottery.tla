----------------------------- MODULE MCLottery -----------------------------
(* Small instances of Lottery for TLC.                                     *)
EXTENDS Lottery, TLC

CONSTANTS u1, u2, u3, w1, w2

(* u1 and u2 want the same kind of seat, u3 another.                       *)
MCPool == [e \in Entries |-> IF e[2] = u3 THEN "A:2" ELSE "A:1"]

(* Two words that order the first pool in opposite ways.                   *)
MCRank ==
    [w \in Words |-> [e \in Entries |->
        IF e[2] = u1 THEN (IF w = w1 THEN 1 ELSE 3)
        ELSE IF e[2] = u2 THEN 2 ELSE 4]]

=============================================================================
