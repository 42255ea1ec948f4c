\* Three servers, two terms, one entry per log, four messages in flight
\* (with three a leader cannot be deposed while its entry is still
\* unreplicated), no loss, under the fairness of Server::Run: a follower
\* that kept an entry of a deposed leader and now follows the next leader.
\* No symmetry: it is unsound for liveness.
CONSTANTS
    s1 = s1
    s2 = s2
    s3 = s3
    s4 = s4
    s5 = s5
    Server <- MCServer3
    MaxTerm = 2
    MaxLogLen = 1
    MaxInFlight = 4
    Loss = "none"
CONSTRAINT NetworkBound
\* Server::Run never returns; the model stops only where the bounds cut it off.
CHECK_DEADLOCK FALSE
SPECIFICATION FairSpec
PROPERTY FollowerLogsConverge
