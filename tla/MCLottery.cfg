\* One event, three users in two pools, two draws racing.
SPECIFICATION FairLotterySpec
CONSTANTS
    u1 = u1  u2 = u2  u3 = u3  w1 = w1  w2 = w2
    Events = {v1}
    Users = {u1, u2, u3}
    Words = {w1, w2}
    Draws = {d1, d2}
    MaxRequests = 2
    MaxWait = 2
    Pool <- MCPool
    Rank <- MCRank
INVARIANTS
    LotteryTypeOK
    DrawIsReproducible
    ProofMatchesDraw
    EntriesPrecedeTheirWord
PROPERTIES
    DrawIsFinal
    PollEnds
CHECK_DEADLOCK FALSE
