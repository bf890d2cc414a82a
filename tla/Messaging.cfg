SPECIFICATION Spec
CONSTANTS
    u1 = u1
    a1 = a1
    a2 = a2
    s1 = s1
    s2 = s2
    s3 = s3
    i1 = i1
    i2 = i2
    Nobody = Nobody
    Customer = {u1}
    Admin = {a1, a2}
    Socket = {s1, s2, s3}
    Instance = {i1, i2}
    useRedisAdapter = TRUE
    Connected <- MCConnected
    Token <- MCToken
    Handler = {h1, h2}
    Conversation = {c1, c2}
    historyLimit = 1
    Server = {i1}
    maxMailLog = 1
    MaxMs = 2
    Budgets <- MCBudgets
SYMMETRY MCSymmetry
CHECK_DEADLOCK FALSE
INVARIANT PresenceAgrees
INVARIANT LastMessageIsNewest
INVARIANT NoMessageMissed
INVARIANT SamePlace
INVARIANT EachIsTold
INVARIANT TellsWhatIsStored
INVARIANT LastWordStands
INVARIANT PushOnce
INVARIANT LogCarriesTheCode
