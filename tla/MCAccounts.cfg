\* One phone: three passwords, three right codes, two registrations.
SPECIFICATION AccountsSpec
CONSTANTS
    Phones = {n1}
    Persons = {p1}
    Names = {x1, x2}
    Verifications = {v1, v2, v3}
    Registrations = {r1, r2}
    MAX_OTP_ATTEMPTS = 5
    MaxSent = 3
SYMMETRY MCSymmetry
INVARIANTS
    AccountsTypeOK
    OtpUsedOnce
    OtpGuessesBounded
    NewUserOnce
PROPERTIES
    ProfileKeptUnlessOverlapped
