CONSTANTS
    i1 = i1
    i2 = i2
    c1 = c1
    c2 = c2
    m1 = m1
    m2 = m2
    f1 = f1
    f2 = f2
    o1 = o1
    j1 = j1
    j2 = j2
    g1 = g1
    g2 = g2
    e1 = e1
    e2 = e2
    e3 = e3
    s1 = s1
    s2 = s2
    s3 = s3
    Items = {i1, i2}
    Calls = {c1, c2}
    NoItem = NoItem
    NoSave = NoSave
    Jobs = {j1, j2}
    Ids = {m1, m2}
    Files = {f1, f2}
    Orders = {o1}
    NoId = NoId
    NoFile = NoFile
    Orgs = {g1, g2}
    Events = {e1, e2, e3}
    OrgOf <- MCOrgOf
    Subs = {s1, s2, s3}
    EventOf <- MCEventOf
    NoSub = NoSub
    MaxOrders = 2
    MaxSeats = 2
SPECIFICATION MCSpec
INVARIANTS OfficeInv ListedOpens RosterIsWhole OneNotionOfIssued
PROPERTIES SessionGoesWhole NoRegistrationDestroyed
SYMMETRY Symmetric
CHECK_DEADLOCK FALSE
