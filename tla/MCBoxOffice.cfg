\* Two ticketing requests and two gate calls on one ticket, anywhere in its
\* life.
SPECIFICATION MCBoxSpec
CONSTANTS
    p1 = p1
    Tickets = {t1}
    Requests = {r1, r2}
    Persons = {p1}
    FoundById = {p1}
    Nonces = {n1}
    Calls = {c1, c2}
    Holder <- MCHolder
    TokenOf <- MCTokenOf
    QrTtl = 1
    RedisDelay = 0
    MaxTime = 0
SYMMETRY MCSymmetry
INVARIANTS
    TicketingTypeOK
    StatusIsEarned
    MintedHolderHasToken
    MintedRowHasToken
    AdmittedWasCaptured
    SingleAdmissionUnlessOverwritten
    OverwriteNeedsOverlap
PROPERTY
    BoxOfficeFollowsLifecycle
CHECK_DEADLOCK FALSE
