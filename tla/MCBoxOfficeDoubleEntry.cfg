\* A request in flight while the holder enters with one code, then a scan of a
\* second code.  No ID number finds anybody, as in the program.
SPECIFICATION BoxSpec
CONSTANTS
    p1 = p1
    Tickets = {t1}
    Requests = {r1, r2}
    Persons = {p1}
    FoundById = {}
    Nonces = {n1, n2}
    Calls = {c1, c2}
    Holder <- MCHolder
    TokenOf <- MCTokenOf
    QrTtl = 1
    RedisDelay = 0
    MaxTime = 0
SYMMETRY MCSymmetry
INVARIANT
    NoDoubleEntry
CHECK_DEADLOCK FALSE
