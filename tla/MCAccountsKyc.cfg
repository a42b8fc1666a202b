\* One account, approved, with a ticket.
SPECIFICATION AccountsSpec
CONSTANTS
    Phones = {n1}
    Persons = {p1}
    Names = {x1}
    Verifications = {v1}
    Registrations = {r1}
    MAX_OTP_ATTEMPTS = 5
    MaxSent = 1
INVARIANT
    KycFoundThroughUserId
