CONSTANTS
    o1 = o1
    w1 = w1
    w2 = w2
    w3 = w3
    Orders = {o1}
    Workers = {w1, w2, w3}
    FreeOrders = {o1}
    SeatedOrders = {o1}
    PayBeforeApproval = FALSE
    MaxCrashes = 0
    Ops = {"approve", "reject", "cancel", "finance", "paidHook", "canceledHook", "checkin"}
    ann = ann
    bob = bob
    j1 = j1
    j2 = j2
    forever = forever
    dated = dated
    p1 = p1
    p2 = p2
    h1 = h1
    h2 = h2
    e1 = e1
    q1 = q1
    q2 = q2
    m1 = m1
    m2 = m2
    m3 = m3
    Visitors = {ann, bob}
    Joins = {j1, j2}
    MaxEntries = 3
    Addresses = {ann, bob}
    Terms = {forever, dated}
    Dated = {dated}
    Operators = {p1, p2}
    Batches <- Lists
    Recipients = {ann, bob}
    MailModes = {"smtp", "disabled"}
    Mails = {m1, m2, m3}
    AddressOf <- MCAddressOf
    MaxMails = 4
    MaxGot = 2
    Limit = 2
    GiveUpAfter = 1
    Endpoints = {h1, h2}
    Emitters = {e1}
    Sweepers = {q1, q2}
    MAX_ATTEMPTS = 2
    MaxDeliveries = 2
    MaxLost = 1
SPECIFICATION MCSpec
SYMMETRY Symmetric
INVARIANTS LifecycleInv TicketIssuedOnce OutreachInv
PROPERTY NoEntryAfterCancel
CHECK_DEADLOCK FALSE
