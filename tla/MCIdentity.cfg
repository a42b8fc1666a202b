\* Three submissions of two documents and two faces, and one erasure.
SPECIFICATION IdentitySpec
CONSTANTS
    Persons = {p1, p2}
    Documents = {d1, d2}
    Faces = {f1, f2}
    Users = {u1}
    Submissions = {s1, s2, s3}
    Erasures = {e1}
    BadRequests = TRUE
SYMMETRY MCSymmetry
INVARIANTS
    IdentityTypeOK
    OneDocumentOnePerson
    ApprovedIsEnrolled
    OneAccountPerFaceUnlessMissed
    ErasureLeavesNothing
CHECK_DEADLOCK FALSE
