------------------------------- MODULE MCGate -------------------------------
(* Small instances of Gate for TLC.                                        *)
EXTENDS Gate, TLC

CONSTANT p1

MCTokenOf == [t \in Tickets |-> t]

(* All tickets belong to one person: a fallback call has to choose.        *)
MCHolder == [t \in Tickets |-> p1]

=============================================================================
