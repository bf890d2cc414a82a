SPECIFICATION Spec
CONSTANTS
    h1 = h1
    h2 = h2
    t1 = t1
    t2 = t2
    p1 = p1
    e1 = e1
    e2 = e2
    Nobody = Nobody
    Handler = {h1, h2}
    Budgets <- MCBudgets
    Text = {t1, t2}
    Config <- MCConfig
    Cart <- MCCart
    Slug = {p1}
    Words = {t1, t2}
    Email = {e1, e2}
    Indexed = {TRUE, FALSE}
    lifetime = 3
    margin = 1
SYMMETRY MCSymmetry
CHECK_DEADLOCK FALSE
INVARIANT BookFollowsEdits
INVARIANT FeeIsTheOneTold
INVARIANT OneOfEach
INVARIANT TokenIsLive
