CONSTANTS
    o1 = o1
    w1 = w1
    w2 = w2
    Orders = {o1}
    Workers = {w1, w2}
    FreeOrders = {}
    SeatedOrders = {o1}
    PayBeforeApproval = FALSE
    MaxCrashes = 0
    Ops = {"reject", "cancel", "paidHook", "canceledHook", "checkin"}
    b1 = b1
    b2 = b2
    i1 = i1
    i2 = i2
    r1 = r1
    r2 = r2
    Tickets = {o1}
    Tabs = {b1}
    Ips = {i1, i2}
    Home = i1
    Storage = {"works", "read only", "blocked"}
    WatchLimit = 2
    LookupLimit = 1
    IpMails = 1
    OrderMails = 1
    Guess = Guess
    Badges <- MCBadges
    Chars <- MCChars
    Rotators = {r1, r2}
    MaxVersion = 2
SPECIFICATION MCFairSpec
INVARIANTS LiveOrderKeepsSeat PagesInv
PROPERTIES CanceledFreesSeat MirrorCatchesUp  TicketArrives
