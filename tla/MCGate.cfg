\* Two calls, one code that expires together with its Redis key, two tickets
\* of one person.
SPECIFICATION FairGateSpec
CONSTANTS
    p1 = p1
    Tickets = {t1, t2}
    Persons = {p1}
    FoundById = {p1}
    Nonces = {n1}
    Calls = {c1, c2}
    Holder <- MCHolder
    TokenOf <- MCTokenOf
    QrTtl = 1
    RedisDelay = 1
    MaxTime = 2
INVARIANTS
    GateTypeOK
    SingleAdmission
    NonceNotReplayed
PROPERTIES
    LostRaceHasWinner
    BurntNonceSettles
CHECK_DEADLOCK FALSE
