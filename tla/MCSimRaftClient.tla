-------------------------- MODULE MCSimRaftClient --------------------------
(* RunSimulation's three servers and its client, for TLC.                  *)
EXTENDS SimRaftClient

CONSTANTS s1, s2, s3

MCServer == {s1, s2, s3}

\* The client starts at srv_addr_1; the other two servers are
\* interchangeable.
ClientSymmetry == Permutations({s2, s3})

=============================================================================
