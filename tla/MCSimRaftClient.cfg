\* RunSimulation: three servers, the client starting at s1, three terms,
\* two entries (a request and one retry), three attempts.
CONSTANTS
    s1 = s1
    s2 = s2
    s3 = s3
    Server <- MCServer
    FirstLeader = s1
    MaxTerm = 3
    MaxLogLen = 2
    MaxInFlight = 3
    MaxRetries = 3
    Loss = "none"
SYMMETRY ClientSymmetry
CONSTRAINT ClientNetworkBound
\* Server::Run never returns; the model stops only where the bounds cut it
\* off or the client stops the simulation.
CHECK_DEADLOCK FALSE
INIT ClientInit
NEXT ClientNext
INVARIANTS ClientTypeOK AckedEntryOnQuorum
