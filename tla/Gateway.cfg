SPECIFICATION Spec
CONSTANTS
    u1 = u1
    s1 = s1
    k1 = k1
    Nobody = Nobody
    Account = {u1, s1}
    RoleOf <- MCRoleOf
    Life <- MCLife
    Attempt = {1, 2, 3}
    Key = {k1}
    ttlSeconds = 2
    rateLimit = 3
    useRedisAdapter = TRUE
    Requests <- MCRequests
    Budgets <- MCBudgets
CHECK_DEADLOCK FALSE
INVARIANT NoSecondEffect
INVARIANT AccessFollowsAccount
INVARIANT CutOnlyByTimer
PROPERTY ShutdownEnds
