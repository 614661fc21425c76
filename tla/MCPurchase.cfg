\* Two methods of payment and two orders; one order and everybody else;
\* one amount and two payments.
CONSTANTS
    o1 = o1
    o2 = o2
    m1 = m1
    m2 = m2
    None = None
    Plan = 1
    Methods = {m1, m2}
    MaxChecks = 2
    GraceChecks = 1
    MaxConfirms = 3
    Plans = {1, 2}
    Orders = {o1, o2}
    Limit <- OnceOnly
    Duration = 1
    GatewayFails = TRUE
    MaxTime = 1
    MaxSubs = 3
    MaxEdits = 1
    MaxRequests = 1
    MaxBinds = 1
    MaxGranted = 1
    MaxNonce = 1
    Amounts = {1}
    MaxPolls = 2
    GracePolls = 1
    MaxQuotes = 3
    MaxPayments = 2
SPECIFICATION PurchaseSpec
INVARIANTS
    SoldAsPriced
    CheckoutHonest
    PaymentHonest
PROPERTIES
    PaidIsSettled
    CheckoutEnds
    PaymentReported
CHECK_DEADLOCK FALSE
