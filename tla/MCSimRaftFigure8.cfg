\* Three servers, four terms, one entry per log: a leader commits an entry
\* of an older term by the median of its trackers, and a later leader does
\* not hold it.  Only s1 and s2 campaign (TwoCampaigners), and sends may be
\* lost at once, to keep the four elections within reach.
CONSTANTS
    s1 = s1
    s2 = s2
    s3 = s3
    s4 = s4
    s5 = s5
    Server <- MCServer3
    MaxTerm = 4
    MaxLogLen = 1
    MaxInFlight = 2
    Loss = "at_send"
CONSTRAINT NetworkBound
ACTION_CONSTRAINT TwoCampaigners
\* Server::Run never returns; the model stops only where the bounds cut it off.
CHECK_DEADLOCK FALSE
SPECIFICATION Spec
INVARIANT LeaderCompleteness
