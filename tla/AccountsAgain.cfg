SPECIFICATION Spec
CONSTANTS
    NoUser = NoUser
    NoToken = NoToken
    Undefined = Undefined
    User = {u1}
    Token = {t1, t2, t3}
    Handler = {h1, h2}
    Requests = {"register", "verifyEmail", "resendOtp", "login", "refresh", "approve", "decline", "deleteMe", "changePassword"}
    MaxAttempts = 2
    MaxPassword = 1
SYMMETRY MCSymmetry
INVARIANT SessionOfVerifiedAccount
