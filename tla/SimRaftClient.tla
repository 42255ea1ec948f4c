--------------------------- MODULE SimRaftClient ---------------------------
(***************************************************************************)
(* RunSimulation of src/tests/simulation/raft.cpp: the three servers of    *)
(* SimRaft and the client that drives them.  The client sends one          *)
(* ReplicationRequest at a time with RequestWithTimeout, follows the       *)
(* retry_leader of a failure, retries on a timeout, and stops at the first *)
(* success or after its retry budget; then the simulator shuts down.       *)
(*                                                                         *)
(* The servers' ReplicationRequest handlers for all three roles and the    *)
(* leader's success replies of BumpCommitIndexAndReplyToClients are the    *)
(* actions that connect the two.  Client messages travel in cnet, apart    *)
(* from the servers' msgs only for bookkeeping: both are unordered.        *)
(* drop_percent is 0, so nothing is lost.                                  *)
(***************************************************************************)
EXTENDS SimRaft

CONSTANTS
    FirstLeader, \* the address the client tries first (srv_addr_1)
    MaxRetries   \* the client's retry budget (30 in RunSimulation)

ASSUME FirstLeader \in Server /\ MaxRetries \in Nat \ {0}

VARIABLES
    client_leader,   \* leader: the address the next request goes to
    client_attempt,  \* retries; also the request_id of the current request
    client_state,    \* "sending", "waiting", "succeeded" or "exhausted"
    cnet,            \* client requests and responses in flight
    acked            \* history: <<index, entry term, leader term>> of the
                     \* entry the client was answered success for

clientVars == <<client_leader, client_attempt, client_state, acked>>
allVars == <<vars, clientVars, cnet>>

\* The request_id is the attempt number: RequestWithTimeout draws a fresh one
\* for every attempt.  retry_leader, an optional Address, is a set of at
\* most one server; entry is the history of what a success acknowledges.
ClientRequest(to, rid) == [type |-> "ReplicationRequest", to |-> to, request_id |-> rid]

ClientResponse(rid, ok, retry, entry) ==
    [type |-> "ReplicationResponse", request_id |-> rid, success |-> ok,
     retry_leader |-> retry, entry |-> entry]

\* simulator.ShutDown() follows the loop, and MG_ASSERT(success) aborts a
\* client that ran out of retries: either way the simulation ends.
Running == client_state \in {"sending", "waiting"}

-----------------------------------------------------------------------------
(* The servers' side.                                                      *)

\* Handle(Leader, ReplicationRequest).
ReceiveReplicationRequestLeader(m) ==
    /\ m.type = "ReplicationRequest"
    /\ HandleReplicationRequestLeader(m.to, m.request_id)
    /\ cnet' = cnet \ {m}
    /\ UNCHANGED clientVars

\* Handle(Follower, ReplicationRequest): fail and redirect to leader_address.
HandleReplicationRequestFollower(m) ==
    /\ m.type = "ReplicationRequest"
    /\ Is(m.to, Follower)
    /\ cnet' = (cnet \ {m}) \cup
               {ClientResponse(m.request_id, FALSE, {role[m.to].leader_address}, << >>)}
    /\ UNCHANGED <<vars, clientVars>>

\* Handle(Candidate, ReplicationRequest): run Cron(), which starts an
\* election if the timeout has elapsed, then fail without a retry_leader.
HandleReplicationRequestCandidate(m) ==
    /\ m.type = "ReplicationRequest"
    /\ Is(m.to, Candidate)
    /\ \/ CronCandidate(m.to)
       \/ UNCHANGED vars
    /\ cnet' = (cnet \ {m}) \cup {ClientResponse(m.request_id, FALSE, {}, << >>)}
    /\ UNCHANGED clientVars

\* Handle(Leader, AppendResponse) with the replies of
\* BumpCommitIndexAndReplyToClients: one success for every pending request
\* popped off the front of pending_client_requests.
HandleAppendResponseLeaderReplying(m) ==
    LET s      == m.to
        q      == role[s].pending_client_requests
        popped == Len(q) - Len(role'[s].pending_client_requests)
    IN  /\ HandleAppendResponseLeader(s, m)
        /\ cnet' = cnet \cup
             { ClientResponse(q[i].request_id, TRUE, {},
                              <<q[i].log_index, log[s][q[i].log_index], term[s]>>)
             : i \in 1..popped }
        /\ UNCHANGED clientVars

\* Every other step of a server, which the client does not see.
ServerStep ==
    /\ \/ \E s \in Server : CronCandidate(s)
       \/ \E s \in Server : CronFollower(s)
       \/ \E s \in Server : CronLeader(s)
       \/ \E m \in msgs : HandleVoteRequest(m.to, m)
       \/ \E m \in msgs : HandleVoteResponseCandidate(m.to, m)
       \/ \E m \in msgs : HandleVoteResponseOther(m.to, m)
       \/ \E m \in msgs : HandleAppendRequest(m.to, m)
       \/ \E m \in msgs : HandleAppendResponseOther(m.to, m)
    /\ UNCHANGED <<clientVars, cnet>>

-----------------------------------------------------------------------------
(* The client: the retry loop of RunSimulation.                            *)

\* Faulty variant, for mutation: the loop bound as retries <= 30.
ClientSendNoBudget ==
    /\ client_state = "sending"
    /\ client_attempt <= MaxRetries
    /\ cnet' = cnet \cup {ClientRequest(client_leader, client_attempt)}
    /\ client_state' = "waiting"
    /\ UNCHANGED <<vars, client_leader, client_attempt, acked>>

\* Send the request to the current best guess of the leader.
ClientSend ==
    /\ client_state = "sending"
    /\ client_attempt < MaxRetries
    /\ cnet' = cnet \cup {ClientRequest(client_leader, client_attempt)}
    /\ client_state' = "waiting"
    /\ UNCHANGED <<vars, client_leader, client_attempt, acked>>

\* response_result.HasError(): the wait timed out; retry the same address.
\* The request, or its answer, may still be in flight.
ClientTimeout ==
    /\ client_state = "waiting"
    /\ client_attempt' = client_attempt + 1
    /\ client_state' = "sending"
    /\ UNCHANGED <<vars, client_leader, acked, cnet>>

\* The answer to the current request: stop on success, otherwise follow
\* retry_leader if there is one and retry.
ClientReceive(m) ==
    /\ m.type = "ReplicationResponse"
    /\ client_state = "waiting"
    /\ m.request_id = client_attempt
    /\ cnet' = cnet \ {m}
    /\ IF m.success
       THEN /\ client_state' = "succeeded"
            /\ acked' = {m.entry}
            /\ UNCHANGED <<client_leader, client_attempt>>
       ELSE /\ client_leader' = IF m.retry_leader = {} THEN client_leader
                                ELSE CHOOSE l \in m.retry_leader : TRUE
            /\ client_attempt' = client_attempt + 1
            /\ client_state' = "sending"
            /\ UNCHANGED acked
    /\ UNCHANGED vars

\* An answer to a request the client no longer waits for is discarded.
ClientDiscard(m) ==
    /\ m.type = "ReplicationResponse"
    /\ ~(client_state = "waiting" /\ m.request_id = client_attempt)
    /\ cnet' = cnet \ {m}
    /\ UNCHANGED <<vars, clientVars>>

\* The for loop ends with the budget spent; MG_ASSERT(success) aborts.
ClientExhausted ==
    /\ client_state = "sending"
    /\ client_attempt = MaxRetries
    /\ client_state' = "exhausted"
    /\ UNCHANGED <<vars, client_leader, client_attempt, acked, cnet>>

-----------------------------------------------------------------------------

ClientInit ==
    /\ Init
    /\ client_leader = FirstLeader
    /\ client_attempt = 0
    /\ client_state = "sending"
    /\ cnet = {}
    /\ acked = {}

ClientNext ==
    /\ Running
    /\ \/ ServerStep
       \/ \E m \in cnet : ReceiveReplicationRequestLeader(m)
       \/ \E m \in cnet : HandleReplicationRequestFollower(m)
       \/ \E m \in cnet : HandleReplicationRequestCandidate(m)
       \/ \E m \in msgs : HandleAppendResponseLeaderReplying(m)
       \/ ClientSend
       \/ ClientTimeout
       \/ \E m \in cnet : ClientReceive(m)
       \/ \E m \in cnet : ClientDiscard(m)
       \/ ClientExhausted

ClientSpec == ClientInit /\ [][ClientNext]_allVars

\* The exploration bound over both networks.
ClientNetworkBound == Cardinality(msgs) + Cardinality(cnet) <= MaxInFlight

-----------------------------------------------------------------------------
(* Properties.                                                             *)

\* The servers' variables and the client's hold values of their types.
ClientTypeOK ==
    /\ TypeOK
    /\ client_leader \in Server
    /\ client_attempt \in 0..MaxRetries
    /\ client_state \in {"sending", "waiting", "succeeded", "exhausted"}
    /\ acked \subseteq (1..MaxLogLen) \X Terms \X Terms
    /\ \A m \in cnet :
         \/ m.type = "ReplicationRequest" /\ m.to \in Server
         \/ /\ m.type = "ReplicationResponse"
            /\ m.retry_leader \subseteq Server /\ Cardinality(m.retry_leader) <= 1
            /\ m.success => m.entry \in (1..MaxLogLen) \X Terms \X Terms

\* A success the client receives acknowledges an entry that a majority of
\* the servers hold at its index: the leader's median over trackers seeded
\* from the voters' committed_log_size, and the matching of request ids
\* between pending_client_requests and the client's current attempt, never
\* tell the client "replicated" for an entry a quorum does not have.
AckedEntryOnQuorum ==
    \A a \in acked :
        2 * Cardinality({ s \in Server : a[1] <= Len(log[s]) /\ log[s][a[1]] = a[2] })
            > Cardinality(Server)

\* spec.md's first end-to-end scenario: the client's request is replicated
\* once, so when it is answered success no server holds more than that one
\* entry.  The client re-sends the same data after a timeout, and no server
\* recognizes a request it has already appended.
SingleEntryOnSuccess ==
    client_state = "succeeded" => \A s \in Server : Len(log[s]) <= 1

=============================================================================
