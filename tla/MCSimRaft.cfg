\* Three servers, three terms, one entry per log, three messages in flight
\* that may be lost or reordered: two deposed leaders and a leader of term 3,
\* followers asked to extend a log whose last entry is of an older term, and
\* a server voting for a candidate that then loses.  LeaderCompleteness
\* needs a fourth term to fail (raft_figure8) and the same-term leader
\* assertion five servers (README), so neither is checked here.
CONSTANTS
    s1 = s1
    s2 = s2
    s3 = s3
    s4 = s4
    s5 = s5
    Server <- MCServer3
    MaxTerm = 3
    MaxLogLen = 1
    MaxInFlight = 3
    Loss = "in_flight"
CONSTRAINT NetworkBound
SYMMETRY Symmetry
\* Server::Run never returns; the model stops only where MaxTerm, MaxLogLen
\* and MaxInFlight cut it off.
CHECK_DEADLOCK FALSE
SPECIFICATION Spec
INVARIANTS
    TypeOK
    ElectionSafety
    CommittedPrefixAgreement
    IndicesInBounds
    VoteResponseAssertionsHold
