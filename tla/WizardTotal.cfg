\* The day's session sells two tickets per user; the total cap is two.
CONSTANTS
    e1 = e1
    e2 = e2
    std = std
    vip = vip
    day = day
    w1 = w1
    w2 = w2
    dayPass = dayPass
    workshops = workshops
    NoEvent = NoEvent
    Cap = 2
    Events = {e1, e2}
    Tiers = {std, vip}
    Sessions = {day, w1, w2}
    Category <- MCCategory
    Gated = {workshops}
    Starts <- MCStarts
    Ends <- MCEnds
    PerUser <- MCPerUser
    Asks = {vip}
    Seats = 2
    Rules <- MCRules
SPECIFICATION MCWizardSpec
INVARIANT SentIsAccepted
CHECK_DEADLOCK FALSE
