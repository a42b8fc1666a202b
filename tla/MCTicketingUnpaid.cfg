\* A capture that ECPay declines in the body of a 200.
SPECIFICATION ObservedSpec
CONSTANTS
    Tickets = {t1}
    TokenOf <- MCTokenOf
    Requests = {r1, r2}
INVARIANTS
    PaidWasCaptured
CHECK_DEADLOCK FALSE
