CONSTANTS
    r1 = r1  r2 = r2  r3 = r3  k1 = k1  k2 = k2
    Requests <- MCRequests
    Conns <- MCConns
    ConnOf <- MCConnOf
    HeaderLists <- MCHeaderLists
    MaxParked = 1
    BodyLen = 3
    Window = 2
    Deadline = 2
SPECIFICATION FairSpec
INVARIANT HeadersOfItsSend
