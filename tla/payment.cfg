SPECIFICATION FairPaySpec
CONSTANTS
    a = a b = b
    first = first second = second body = body
    s = s t1 = t1 t2 = t2 t3 = t3 t4 = t4
    Callers = {a, b}
    Requests = {first, second}
    Payloads = {body}
    Tokens = {t1, t2, t3, t4}
    NoToken = NoToken
    NoPayload = NoPayload
    Request <- TwoPayments
    Payload <- SameBody
    HeaderRequests = {}
    OrderRequests = {}
    Lease = 2
    MaxTime = 2
    MaxFaults = 1
    SlowCallers = FALSE
    Amount <- AmountTwo
    Total = 3
    Syncers = {s}
INVARIANTS
    NoOverpayment
    CompletedIsBooked
    BooksBalance
PROPERTIES
    EventuallyPaidOrRefused
