SPECIFICATION FairSpec
CONSTANTS
    a = a b = b c = c
    order = order exchange = exchange payment = payment body = body other = other
    t1 = t1 t2 = t2 t3 = t3 t4 = t4
    Callers = {a, b, c}
    Requests = {payment}
    Payloads = {body, other}
    Tokens = {t1, t2, t3, t4}
    NoToken = NoToken
    NoPayload = NoPayload
    Request <- SharedPayment
    Payload <- OneMisuse
    HeaderRequests = {}
    OrderRequests = {}
    Lease = 2
    MaxTime = 2
    MaxFaults = 1
    SlowCallers = FALSE
INVARIANTS
    TypeOK
PROPERTIES
    ImplementsPromise
    EventuallyAnswered
