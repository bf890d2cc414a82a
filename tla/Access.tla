-------------------------------- MODULE Access --------------------------------
(***************************************************************************)
(* Who may call what: the routers of the API with the middlewares in front *)
(* of each operation, and the checks those middlewares make.               *)
(*                                                                         *)
(* A route is an operation with the sequence of its guards. A guard lets a *)
(* request pass or answers it with a status; all of them run to the end    *)
(* within one turn of the event loop. A token is the record of its claims; *)
(* the account is never read again while the token lasts.                  *)
(***************************************************************************)
EXTENDS Naturals, Sequences, FiniteSets, SequencesExt

CONSTANTS
    Account,            \* user ids
    Nobody,             \* no account, no token, no key
    Life                \* Life[type]: the ticks a token of the type works

-------------------------------------------------------------------------------
(* Routers *)

Reads(ops) == {[op |-> <<o>>, write |-> FALSE, guards |-> <<>>] : o \in ops}
Writes(ops) == {[op |-> <<o>>, write |-> TRUE, guards |-> <<>>] : o \in ops}

\* router.use(guards), or the middlewares listed before a handler.
Behind(guards, routes) == {[r EXCEPT !.guards = guards \o @] : r \in routes}

\* router.use(path, routes): the operations below a path.
Mounted(path, routes) == {[r EXCEPT !.op = <<path>> \o @] : r \in routes}

Valid(routes) == Behind(<<"validate">>, routes)

authRoutes ==
    Behind(<<"upload", "form", "validate">>, Writes({"register"}))
    \cup Valid(Writes({"login", "refreshTokens", "logout", "forgotPassword",
                       "verifyResetCode", "resendOtp", "verifyEmail"}))
    \cup Behind(<<"authenticate">>, Reads({"me"}) \cup Valid(Writes({"changePassword"})))
    \cup Behind(<<"authenticateResetPassword", "validate">>, Writes({"resetPassword"}))
    \cup Behind(<<"authenticateOnboarding", "upload", "form", "validate">>,
                Writes({"completeProfile"}))

userRoutes ==
    Behind(<<"authenticate">>,
           Reads({"getMe"}) \cup Writes({"deleteMe"})
           \cup Behind(<<"upload", "form", "validate">>, Writes({"updateMe"}))
           \cup Valid(Writes({"addAddress", "updateAddress", "setDefaultAddress",
                              "removeAddress"}))
           \cup Behind(<<"superAdmin", "validate">>, Reads({"listUsers"})))

notificationRoutes ==
    Behind(<<"authenticate">>,
           Reads({"unreadCount"}) \cup Writes({"markAllRead"}) \cup Valid(Reads({"listMine"}))
           \cup Valid(Writes({"markRead", "create", "testBroadcastPush", "broadcast"})))

cartRoutes ==
    Behind(<<"authenticate", "customer">>,
           Reads({"list"}) \cup Writes({"clear"}) \cup Valid(Writes({"add", "updateQty", "remove"})))

orderRoutes ==
    Behind(<<"authenticate", "customer">>,
           Reads({"list"}) \cup Valid(Reads({"getOne"}))
           \cup Valid(Writes({"checkout", "confirm", "confirmReceived"})))

wishlistRoutes ==
    Behind(<<"authenticate">>, Reads({"list", "listIds"}) \cup Valid(Writes({"add", "remove"})))

reviewRoutes ==
    Reads({"list"}) \cup Valid(Reads({"listByProduct"}))
    \cup Behind(<<"authenticate", "USER", "validate">>, Writes({"create"}))

settingsRoutes == Valid(Reads({"getPublic"}) \cup Writes({"contact"}))
productRoutes == Valid(Reads({"list", "getById"}))
brandRoutes == Valid(Reads({"list", "getById"}))
categoryRoutes == Reads({"list"}) \cup Valid(Reads({"getById"}))
subscriberRoutes == Valid(Writes({"create"}))
deliveryRoutes == Reads({"getDelivery"})
devRoutes == Reads({"getOtp", "getMailbox"})

-------------------------------------------------------------------------------
(* The routers of the administrators *)

adminProductRoutes == Valid(Reads({"list"}) \cup Writes({"create", "update", "remove"}))
adminBrandRoutes == Valid(Reads({"list"}) \cup Writes({"create", "update", "remove"}))
adminCategoryRoutes == Reads({"list"}) \cup Valid(Writes({"create", "update", "remove"}))
adminUserRoutes == Valid(Reads({"listUsers"}) \cup Writes({"approveUser", "declineUser"}))
adminOrderRoutes ==
    Reads({"listAll"}) \cup Valid(Writes({"updateStatus", "deleteInvoice"}))
    \cup Behind(<<"validate", "upload">>, Writes({"uploadInvoice"}))
adminReviewRoutes == Reads({"list"}) \cup Valid(Writes({"remove"}))
adminSubscriberRoutes == Reads({"list"}) \cup Valid(Writes({"sendEmail"}))
adminSettingsRoutes == Reads({"list", "listContacts"}) \cup Valid(Reads({"getBySlug"}))
                       \cup Valid(Writes({"upsert"}))
adminDashboardRoutes == Reads({"getStats"})
adminDeliveryRoutes == Reads({"getDelivery"}) \cup Valid(Writes({"updateDelivery"}))
adminNotificationRoutes ==
    Reads({"listAll"})
    \cup Behind(<<"authenticate", "admin", "validate">>, Writes({"broadcast"}))

adminMounts ==
    Mounted("dashboard", adminDashboardRoutes) \cup Mounted("settings", adminSettingsRoutes)
    \cup Mounted("categories", adminCategoryRoutes) \cup Mounted("brands", adminBrandRoutes)
    \cup Mounted("subscribers", adminSubscriberRoutes) \cup Mounted("users", adminUserRoutes)
    \cup Mounted("products", adminProductRoutes) \cup Mounted("orders", adminOrderRoutes)
    \cup Mounted("reviews", adminReviewRoutes)
    \cup Mounted("notifications", adminNotificationRoutes)
    \cup UNION {Mounted(path, adminDeliveryRoutes) : path \in {"delivery", "managedelivery"}}

\* Slip: the administrators' routers check the token and not the role.
adminRoutes_AnyAccount == Behind(<<"authenticate">>, adminMounts)
adminRoutes == Behind(<<"authenticate", "superAdmin">>, adminMounts)

uploadRoute == Behind(<<"authenticate", "upload">>, Writes({"upload"}))

Routes ==
    Reads({"health", "vivaWebhook"}) \cup Writes({"vivaWebhook"}) \cup Mounted("api", uploadRoute)
    \cup Mounted("auth", authRoutes) \cup Mounted("users", userRoutes)
    \cup Mounted("notifications", notificationRoutes) \cup Mounted("settings", settingsRoutes)
    \cup Mounted("categories", categoryRoutes) \cup Mounted("brands", brandRoutes)
    \cup Mounted("products", productRoutes) \cup Mounted("subscribers", subscriberRoutes)
    \cup Mounted("reviews", reviewRoutes) \cup Mounted("wishlist", wishlistRoutes)
    \cup Mounted("cart", cartRoutes) \cup Mounted("orders", orderRoutes)
    \cup Mounted("delivery", deliveryRoutes) \cup Mounted("admin", adminRoutes)
    \cup Mounted("dev", devRoutes)

-------------------------------------------------------------------------------
(* Tokens *)

\* A token made from an account as it was read; sound is history: whether the account
\* existed at that moment. A reset token carries neither a role nor the flag.
Claims(type, u, account, now) ==
    [sub |-> u, type |-> type, role |-> account.role, isDeleted |-> account.isDeleted,
     exp |-> now + Life[type], sound |-> account.sound]

createAccessToken(u, account, now) == Claims("access", u, account, now)
createRefreshToken(u, account, now) == Claims("refresh", u, account, now)
createOnboardingToken(u, account, now) == Claims("onboarding", u, account, now)
createForgotPassToken(u, account, now) ==
    [Claims("forgot_pass", u, account, now) EXCEPT !.role = "", !.isDeleted = FALSE]

Secret(type) == IF type = "refresh" THEN "refreshSecret" ELSE "accessSecret"

\* A missing or malformed header is no token.
Verified(token, secret, type, now) ==
    /\ token # Nobody
    /\ Secret(token.type) = secret /\ now < token.exp
    /\ token.type = type
    /\ ~token.isDeleted

verifyAccessToken(token, now) == Verified(token, "accessSecret", "access", now)
verifyOnboardingToken(token, now) == Verified(token, "accessSecret", "onboarding", now)
verifyForgotPassToken(token, now) == Verified(token, "accessSecret", "forgot_pass", now)

-------------------------------------------------------------------------------
(* Errors and guards *)

\* The status an error is answered with: an AppError carries its own.
AppError(status) == [name |-> "AppError", status |-> status]
OtherError(name) == [name |-> name, status |-> 0]

normalizeError(error) ==
    CASE error.name = "AppError" -> error.status
      [] error.name \in {"ZodError", "ValidationError", "CastError", "MulterError"} -> 400
      [] error.name = "AbortError" -> 408
      [] OTHER -> 500

Pass == OtherError("none")
Denies(wrong, error) == IF wrong THEN error ELSE Pass

\* What each middleware makes of a request: the file filter of multer throws a plain
\* error, the other parsers a BadRequestError.
authenticate(r, now) == Denies(~verifyAccessToken(r.token, now), AppError(401))
authenticateOnboarding(r, now) == Denies(~verifyOnboardingToken(r.token, now), AppError(401))
authenticateResetPassword(r, now) == Denies(~verifyForgotPassToken(r.token, now), AppError(401))
authorize(role, r) ==
    IF r.token = Nobody THEN AppError(401) ELSE Denies(r.token.role # role, AppError(403))
requireCustomer(r) == authorize("USER", r)
validate(r) == Denies(r.body = "bad fields", AppError(400))
parseMultipartData(r) == Denies(r.body = "bad json", AppError(400))
multerUpload(r) == Denies(r.body = "bad file", OtherError("Error"))

Checked(guard, r, now) ==
    CASE guard = "authenticate" -> authenticate(r, now)
      [] guard = "authenticateOnboarding" -> authenticateOnboarding(r, now)
      [] guard = "authenticateResetPassword" -> authenticateResetPassword(r, now)
      [] guard = "customer" -> requireCustomer(r)
      [] guard = "validate" -> validate(r)
      [] guard = "form" -> parseMultipartData(r)
      [] guard = "upload" -> multerUpload(r)
      [] OTHER -> authorize(guard, r)

\* The guards run in order and the first error ends the request.
Error(r, now) ==
    LET objections == {i \in DOMAIN r.route.guards : Checked(r.route.guards[i], r, now) # Pass}
    IN  IF objections = {} THEN Pass
        ELSE Checked(r.route.guards[CHOOSE i \in objections : \A j \in objections : i <= j],
                     r, now)

\* req.user, for the routes that authenticate.
Authenticating == {"authenticate", "authenticateOnboarding", "authenticateResetPassword"}
Principal(r) ==
    IF \E i \in DOMAIN r.route.guards : r.route.guards[i] \in Authenticating
    THEN r.token.sub ELSE Nobody
===============================================================================
