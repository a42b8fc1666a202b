\* One submission, and one erasure of its person after it.
SPECIFICATION IdentitySpec
CONSTANTS
    Persons = {p1}
    Documents = {d1}
    Faces = {f1}
    Users = {u1}
    Submissions = {s1}
    Erasures = {e1}
    BadRequests = FALSE
INVARIANT
    ErasureIsComplete
CHECK_DEADLOCK FALSE
