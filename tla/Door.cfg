\* Two stations race for one person's visits or two people's codes; a reply is lost.
CONSTANTS
    o1 = o1
    o2 = o2
    d1 = d1
    d2 = d2
    c1 = c1
    c2 = c2
    s1 = s1
    s2 = s2
    Orders = {o1, o2}
    Lists = {d1, d2}
    Codes = {c1, c2}
    Stations = {s1, s2}
    Patches <- MCPatches
    NoCode = NoCode
    MaxRequests = 2
    MaxLost = 1
SPECIFICATION MCSpec
INVARIANT DoorInv
PROPERTY RedeemedGetsBadge
CHECK_DEADLOCK FALSE
