----------------------------- MODULE MCIdentity -----------------------------
(* Small instances of Identity for TLC.                                    *)
EXTENDS Identity, TLC

MCSymmetry == Permutations(Persons) \cup Permutations(Documents)
              \cup Permutations(Faces) \cup Permutations(Submissions)
=============================================================================
