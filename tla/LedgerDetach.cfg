CONSTANTS
    u1 = u1
    u2 = u2
    u3 = u3
    r1 = r1
    r2 = r2
    Orders = {1, 2}
    Accounts = {u1, u2, u3}
    Suspended = {u3}
    Promotable = {u2}
    Nobody = Nobody
    Addresses <- Mailboxes
    Legacy <- Owners
    Requests = {r1}
    GrantsRace = FALSE
    MaxEvents = 2
SPECIFICATION Spec
PROPERTY DetachIsFinal
