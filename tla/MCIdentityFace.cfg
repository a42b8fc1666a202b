\* Two submissions of two documents with one face.  Every 400 is that of an
\* empty collection and nobody is erased: only their searches may overlap.
SPECIFICATION IdentitySpec
CONSTANTS
    Persons = {p1, p2}
    Documents = {d1, d2}
    Faces = {f1}
    Users = {u1}
    Submissions = {s1, s2}
    Erasures = {}
    BadRequests = FALSE
SYMMETRY MCSymmetry
INVARIANT
    OneAccountPerFace
CHECK_DEADLOCK FALSE
