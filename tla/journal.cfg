SPECIFICATION Spec
CONSTANTS
    a = a b = b c = c
    order = order exchange = exchange payment = payment body = body other = other
    t1 = t1 t2 = t2 t3 = t3 t4 = t4
    Callers = {a, b}
    Requests = {order}
    Payloads = {body}
    Tokens = {t1, t2, t3, t4}
    NoToken = NoToken
    NoPayload = NoPayload
    Request <- SharedOrder
    Payload <- SameBody
    HeaderRequests = {order}
    OrderRequests = {order}
    Lease = 1
    MaxTime = 4
    MaxFaults = 2
    SlowCallers = TRUE
INVARIANTS
    HolderViewFresh
    AnswersAgree
    OneOrder
PROPERTIES
    StepsForward
    CompletedFinal
