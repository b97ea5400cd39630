CONSTANTS
    Orders = {o1}
    Workers = {w1}
    FreeOrders = {}
    SeatedOrders = {o1}
    PayBeforeApproval = FALSE
    MaxCrashes = 0
    Ops = {"approve", "paidHook"}
SPECIFICATION Spec
PROPERTY ApprovalKeepsPayment
