\* The response is 3 bytes, the send queue holds 2: the second write of a
\* response returns -1 until the client drains the queue.
CONSTANTS
    ResponseLen = 3
    BufSize = 2
    SndCap = 2
    Width = 4
    RequestLen = 2
    MaxRequests = 2
SPECIFICATION Spec
INVARIANT ResponsesIntact
CHECK_DEADLOCK FALSE
