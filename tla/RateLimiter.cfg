SPECIFICATION Spec
CONSTANTS
    c1 = c1
    c2 = c2
    client1 = client1
    NoBucket = NoBucket
    Callers = {c1, c2}
    Ips = {client1}
    Capacity = 2
    RateNum = 1
    RateDen = 1
    StaleSecs = 1
    MaxTime = 2
    MaxBuckets = 2
INVARIANTS AdmissionBound OneBucketEach ExchangesPaid
