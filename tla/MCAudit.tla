------------------------------ MODULE MCAudit ------------------------------
(* A small instance of Audit for TLC; without symmetry, as it checks       *)
(* liveness.                                                               *)
EXTENDS Audit
=============================================================================
