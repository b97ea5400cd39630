\* The registration form: back and forth, reloads, two events, one submission;
\* an account with two requests at once; one paid registration, a crash.
CONSTANTS
    e1 = e1
    e2 = e2
    std = std
    vip = vip
    day = day
    w1 = w1
    w2 = w2
    dayPass = dayPass
    workshops = workshops
    a1 = a1
    a2 = a2
    b1 = b1
    p1 = p1
    p2 = p2
    NoEvent = NoEvent
    Cap = 1
    Events = {e1, e2}
    Tiers = {std, vip}
    Sessions = {day, w1, w2}
    Category <- MCCategory
    Gated = {workshops}
    Starts <- MCStarts
    Ends <- MCEnds
    PerUser <- MCPerUser
    Asks = {vip}
    Seats = 2
    Rules <- MCRules
    Posts = {a1, a2}
    Flows = {b1}
    Passwords = {p1, p2}
    NoPassword = NoPassword
    MaxAttempts = 1
    o1 = o1
    k1 = k1
    k2 = k2
    Orders = {o1}
    Workers = {k1, k2}
    FreeOrders = {}
    SeatedOrders = {o1}
    PayBeforeApproval = TRUE
    MaxCrashes = 1
    Ops = {"approve", "reject", "cancel", "paidHook", "canceledHook"}
SPECIFICATION MCSpec
INVARIANTS AttendeeInv SentIsAccepted SessionsMatchPassword ApprovedAfterPayment
PROPERTY RefinesView
SYMMETRY Symmetric
CHECK_DEADLOCK FALSE
