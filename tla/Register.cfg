CONSTANTS
    r1 = r1
    r2 = r2
    i1 = i1
    s1 = s1
    s2 = s2
    Requests = {r1, r2}
    Invites = {i1}
    Seats = {s1, s2}
    None = None
    Forms <- AllForms
    Unanswered = {"create", "pay", "cancel"}
    MaxFaults = 1
    ann = ann
    bob = bob
    Guests = {ann, bob}
    Companies = {"Acme"}
    Presets = {"CEO"}
    Typed = {"Chef"}
    TooLong = {"Chief Visionary"}
    FixedRoles = {"visitor"}
    RoleTexts = {"Press"}
    StoredBefore <- MCStoredBefore
    NoRow = NoRow
SPECIFICATION MCFairSpec
INVARIANTS RegistrationInv StaffFormsInv RowKeepsSeats SeatsReturn OneLiveOrderPerInvite
PROPERTIES HoldComesBack SeenIsStored
CHECK_DEADLOCK FALSE
