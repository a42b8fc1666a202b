----------------------------- MODULE MCAccounts -----------------------------
(* Small instances of Accounts for TLC.                                    *)
EXTENDS Accounts, TLC

MCSymmetry == Permutations(Verifications) \cup Permutations(Registrations)
              \cup Permutations(Persons) \cup Permutations(Names)
=============================================================================
