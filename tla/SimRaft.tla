------------------------------- MODULE SimRaft -------------------------------
(***************************************************************************)
(* The Raft-style server of src/tests/simulation/raft.cpp: class Server,   *)
(* its CommonState, its Role variant (Candidate | Leader | Follower), the  *)
(* Cron tick and the message handlers dispatched by Handle.                *)
(*                                                                         *)
(* Each server is single-threaded, so one handler or one Cron call is one  *)
(* atomic step.  Servers share nothing: they interact only through the     *)
(* simulator's transport, modelled as a set of messages in flight that     *)
(* may be delivered in any order or dropped (drop_percent,                 *)
(* scramble_messages).  Time and the RNG are abstracted away: whether a    *)
(* randomized timeout has elapsed is a nondeterministic choice.            *)
(***************************************************************************)
EXTENDS Naturals, Sequences, FiniteSets, TLC

LOCAL INSTANCE SequencesExt

CONSTANTS
    Server,      \* the servers' addresses (srv_addr_1, ...)
    MaxTerm,     \* bound on Term: no election is started past it
    MaxLogLen,   \* bound on the log: the leader accepts no request past it
    MaxInFlight, \* bound on the messages in flight (state constraint)
    Loss         \* what the transport loses (drop_percent): "none",
                 \* "in_flight" (any message before delivery), or
                 \* "at_send" (also any part of a send, at once)

ASSUME Cardinality(Server) >= 2 /\ MaxTerm \in Nat /\ MaxLogLen \in Nat /\ Loss \in {"none", "in_flight", "at_send"}

Candidate == "Candidate"
Leader    == "Leader"
Follower  == "Follower"

VARIABLES
    term,                \* state_.term
    log,                 \* state_.log, a sequence of entry terms
    committed_log_size,  \* state_.committed_log_size
    role,                \* role_, a record tagged by kind
    msgs,                \* messages sent and not yet delivered or dropped
    commits              \* history: <<log index, entry term, leader term>> of
                         \* every entry a leader has counted as committed

vars == <<term, log, committed_log_size, role, msgs, commits>>

Peers(s) == Server \ {s}

-----------------------------------------------------------------------------
(* CommonState accessors.                                                  *)

LastLogIndex(s) == Len(log[s])

LastLogTerm(s) == IF log[s] = << >> THEN 0 ELSE log[s][Len(log[s])]

PreviousTermFromIndex(s, index) ==
    IF index = 0 \/ Len(log[s]) + 1 <= index THEN 0 ELSE log[s][index]

CommittedLogIndex(s) == committed_log_size[s]

CommittedLogTerm(s) ==
    IF log[s] = << >> \/ committed_log_size[s] = 0
    THEN 0 ELSE log[s][committed_log_size[s]]

(* The Role alternatives, as the values the code constructs.               *)

NewCandidate(successful, outstanding) ==
    [kind |-> Candidate, successful_votes |-> successful,
     outstanding_votes |-> outstanding]

EmptyVotes == [p \in {} |-> 0]

NewFollower(leader) == [kind |-> Follower, leader_address |-> leader]

NewLeader(followers) ==
    [kind |-> Leader, followers |-> followers, pending_client_requests |-> << >>]

PendingClientRequest(index, rid) == [log_index |-> index, request_id |-> rid]

Tracker(next, confirmed) == [next_index |-> next, confirmed_contiguous_index |-> confirmed]

Is(s, k) == role[s].kind = k

-----------------------------------------------------------------------------
(* Messages.  request_id is 0 for every server-to-server message, so it    *)
(* is left out.                                                            *)

AppendRequest(from, to, t, li, lt, entries, commit) ==
    [type |-> "AppendRequest", from |-> from, to |-> to, term |-> t,
     last_log_index |-> li, last_log_term |-> lt, entries |-> entries,
     leader_commit |-> commit]

AppendResponse(from, to, ok, t, lt, li) ==
    [type |-> "AppendResponse", from |-> from, to |-> to, success |-> ok,
     term |-> t, last_log_term |-> lt, last_log_index |-> li]

VoteRequest(from, to, t, li, lt) ==
    [type |-> "VoteRequest", from |-> from, to |-> to, term |-> t,
     last_log_index |-> li, last_log_term |-> lt]

VoteResponse(from, to, t, c, granted) ==
    [type |-> "VoteResponse", from |-> from, to |-> to, term |-> t,
     committed_log_size |-> c, vote_granted |-> granted]

\* io_.Send is fire-and-forget.  The transport loses a message in flight
\* (DropMessage); "at_send" also loses it as it is sent, which reaches the
\* same server states in fewer steps.
Sendable(out) == IF Loss = "at_send" THEN SUBSET out ELSE {out}

Send(out) == \E sent \in Sendable(out) : msgs' = msgs \cup sent

\* Delivery removes m from the network; the handler's replies are sent.
Reply(m, out) == \E sent \in Sendable(out) : msgs' = (msgs \ {m}) \cup sent

-----------------------------------------------------------------------------
(* Leader helpers.                                                         *)

\* BroadcastAppendEntries: one AppendRequest per follower, carrying the log
\* from its confirmed_contiguous_index on.
\* lg is state_.log at the time of the call.
BroadcastAppendEntries(s, lg, followers) ==
    { LET index == followers[p].confirmed_contiguous_index
      IN  AppendRequest(s, p, term[s], index,
                        IF index = 0 \/ Len(lg) + 1 <= index THEN 0 ELSE lg[index],
                        SubSeq(lg, index + 1, Len(lg)), committed_log_size[s])
    : p \in DOMAIN followers }

\* The indices vector of BumpCommitIndexAndReplyToClients: the leader's log
\* size followed by each follower's confirmed_contiguous_index, sorted
\* descending.
CommitIndices(s, followers) ==
    SortSeq(<<Len(log[s])>> \o
            [i \in 1..Cardinality(DOMAIN followers) |->
                followers[SetToSeq(DOMAIN followers)[i]].confirmed_contiguous_index],
            >)

\* Faulty variant, for mutation: the first (largest) index instead of the
\* median, i.e. indices[0] for indices[indices.size() / 2].
CommitIndexForFirst(s, followers) == CommitIndices(s, followers)[1]

\* The committed size is the element at 0-based position indices.size() / 2.
CommitIndexFor(s, followers) ==
    LET sorted == CommitIndices(s, followers)
    IN  sorted[(Len(sorted) \div 2) + 1]

\* The reply loop: pop pending requests while the front one is committed.
RECURSIVE PopCommitted(_, _)
PopCommitted(q, c) == IF q # << >> /\ Head(q).log_index <= c THEN PopCommitted(Tail(q), c) ELSE q

-----------------------------------------------------------------------------
(* Cron, dispatched on the role.                                           *)

\* Cron(Candidate) when the election timeout has elapsed: start a new term.
\* When it has not elapsed, Cron changes nothing (a stuttering step).
\* Handle(Candidate, ReplicationRequest) replies failure to the client and
\* calls Cron(); with no client in this module it is this same step.
CronCandidate(s) ==
    /\ Is(s, Candidate)
    /\ term[s] < MaxTerm
    /\ term' = [term EXCEPT ![s] = term[s] + 1]
    /\ Send({ VoteRequest(s, p, term[s] + 1, LastLogIndex(s), LastLogTerm(s)) : p \in Peers(s) })
    /\ role' = [role EXCEPT ![s] = NewCandidate(EmptyVotes, Peers(s))]
    /\ UNCHANGED <<log, committed_log_size, commits>>

\* Cron(Follower): no AppendRequest within the election timeout; become a
\* fresh Candidate (same term, no votes outstanding).
CronFollower(s) ==
    /\ Is(s, Follower)
    /\ role' = [role EXCEPT ![s] = NewCandidate(EmptyVotes, {})]
    /\ UNCHANGED <<term, log, committed_log_size, msgs, commits>>

\* Cron(Leader): heartbeat, re-send AppendRequest to every follower.
CronLeader(s) ==
    /\ Is(s, Leader)
    /\ Send(BroadcastAppendEntries(s, log[s], role[s].followers))
    /\ UNCHANGED <<term, log, committed_log_size, role, commits>>

-----------------------------------------------------------------------------
(* Handlers.                                                               *)

\* Faulty variants, for mutation: a vote granted to a request of the voter's
\* own term (>= for >), and a vote granted without the up-to-date log tests.
VoteGrantedEqualTerm(s, m) ==
    /\ m.last_log_term >= LastLogTerm(s)
    /\ m.term >= term[s]
    /\ m.last_log_index >= LastLogIndex(s)

VoteGrantedNoLogCheck(s, m) == m.term > term[s]

\* new_leader of Handle(AllRoles, VoteRequest): the requester's last log
\* term, term and last log index all dominate the voter's.
VoteGranted(s, m) ==
    /\ m.last_log_term >= LastLogTerm(s)
    /\ m.term > term[s]
    /\ m.last_log_index >= LastLogIndex(s)

\* Faulty variant, for mutation: the new role without the new term.
BecomeFollowerKeepTerm(s, m) ==
    /\ role' = [role EXCEPT ![s] = NewFollower(m.from)]
    /\ UNCHANGED term

\* Adopt req.term and return Follower{leader_address = from_address}.
BecomeFollower(s, m) ==
    /\ term' = [term EXCEPT ![s] = m.term]
    /\ role' = [role EXCEPT ![s] = NewFollower(m.from)]

\* Handle(AllRoles, VoteRequest).
HandleVoteRequest(s, m) ==
    LET grant == VoteGranted(s, m)
        res   == VoteResponse(s, m.from, IF m.term > term[s] THEN m.term ELSE term[s],
                              committed_log_size[s], grant)
    IN  /\ m.type = "VoteRequest"
        /\ Reply(m, {res})
        /\ IF grant
           THEN BecomeFollower(s, m)
           ELSE UNCHANGED <<term, role>>
        /\ UNCHANGED <<log, committed_log_size, commits>>

\* Faulty variant, for mutation: trackers only for the voters.
FollowerTrackersVotersOnly(s, successful, outstanding) ==
    [p \in DOMAIN successful |-> Tracker(successful[p], successful[p])]

\* The followers map built on promotion: a voter's tracker is seeded from
\* the committed_log_size it reported, a non-responder's from the log size.
FollowerTrackers(s, successful, outstanding) ==
    [p \in DOMAIN successful \cup outstanding |->
        IF p \in DOMAIN successful
        THEN Tracker(successful[p], successful[p])
        ELSE Tracker(Len(log[s]), 0)]

\* Handle(Candidate, VoteResponse).  The two MG_ASSERTs on the voter are
\* conjuncts here; VoteResponseAssertionsHold states that they never fail.
HandleVoteResponseCandidate(s, m) ==
    LET c           == role[s]
        outstanding == c.outstanding_votes \ {m.from}
        successful  == c.successful_votes @@ (m.from :> m.committed_log_size)
        followers   == FollowerTrackers(s, successful, outstanding)
    IN  /\ m.type = "VoteResponse"
        /\ Is(s, Candidate)
        /\ IF ~m.vote_granted \/ m.term # term[s]
           THEN /\ Reply(m, {})
                /\ UNCHANGED role
           ELSE /\ m.from \in c.outstanding_votes
                /\ m.from \notin DOMAIN c.successful_votes
                /\ IF Cardinality(DOMAIN successful) >= Cardinality(outstanding)
                   THEN /\ Reply(m, BroadcastAppendEntries(s, log[s], followers))
                        /\ role' = [role EXCEPT ![s] = NewLeader(followers)]
                   ELSE /\ Reply(m, {})
                        /\ role' = [role EXCEPT ![s] = NewCandidate(successful, outstanding)]
        /\ UNCHANGED <<term, log, committed_log_size, commits>>

\* Handle(AllRoles, VoteResponse) for a Leader or Follower: dropped.
HandleVoteResponseOther(s, m) ==
    /\ m.type = "VoteResponse"
    /\ ~Is(s, Candidate)
    /\ Reply(m, {})
    /\ UNCHANGED <<term, log, committed_log_size, role, commits>>

\* Faulty variant, for mutation: only the last index is compared.
LogMatchesIndexOnly(s, m) == m.last_log_index = LastLogIndex(s)

\* The steady-state test of Handle(AllRoles, AppendRequest): the request
\* continues the receiver's log exactly at its end.
LogMatches(s, m) ==
    m.last_log_index = LastLogIndex(s) /\ m.last_log_term = LastLogTerm(s)

\* Handle(AllRoles, AppendRequest).  A Follower of the same term asserts that
\* the sender is its leader_address (SameTermLeaderAssertionHolds).
HandleAppendRequest(s, m) ==
    LET fail     == AppendResponse(s, m.from, FALSE, term[s],
                                   CommittedLogTerm(s), CommittedLogIndex(s))
        matches  == LogMatches(s, m)
        newlog   == SubSeq(log[s], 1, m.last_log_index) \o m.entries
        newlast  == IF newlog = << >> THEN 0 ELSE newlog[Len(newlog)]
        ok       == AppendResponse(s, m.from, TRUE, term[s], newlast, Len(newlog))
    IN  /\ m.type = "AppendRequest"
        /\ \/ /\ m.term > term[s]
              /\ BecomeFollower(s, m)
              /\ Reply(m, {fail})
              /\ UNCHANGED <<log, committed_log_size>>
           \/ /\ m.term < term[s]
              /\ Reply(m, {fail})
              /\ UNCHANGED <<term, role, log, committed_log_size>>
           \/ /\ m.term = term[s]
              /\ Is(s, Follower) => role[s].leader_address = m.from
              /\ IF matches
                 THEN /\ log' = [log EXCEPT ![s] = newlog]
                      /\ committed_log_size' = [committed_log_size EXCEPT ![s] =
                             IF m.leader_commit < Len(newlog) THEN m.leader_commit ELSE Len(newlog)]
                      /\ Reply(m, {ok})
                 ELSE /\ Reply(m, {fail})
                      /\ UNCHANGED <<log, committed_log_size>>
              /\ UNCHANGED <<term, role>>
        /\ UNCHANGED commits

MaxOf(a, b) == IF a >= b THEN a ELSE b

\* Handle(Leader, AppendResponse): on a success of this term from a tracked
\* follower, advance its tracker, then BumpCommitIndexAndReplyToClients.
HandleAppendResponseLeader(s, m) ==
    LET r         == role[s]
        f         == r.followers[m.from]
        followers == [r.followers EXCEPT ![m.from] =
                        Tracker(MaxOf(f.next_index, m.last_log_index),
                                MaxOf(f.confirmed_contiguous_index, m.last_log_index))]
        commit    == CommitIndexFor(s, followers)
        pending   == PopCommitted(r.pending_client_requests, commit)
    IN  /\ m.type = "AppendResponse"
        /\ Is(s, Leader)
        /\ Reply(m, {})
        /\ IF m.term # term[s] \/ m.from \notin DOMAIN r.followers \/ ~m.success
           THEN UNCHANGED <<committed_log_size, role, commits>>
           ELSE /\ committed_log_size' = [committed_log_size EXCEPT ![s] = commit]
                /\ role' = [role EXCEPT ![s] = [r EXCEPT !.followers = followers,
                                                       !.pending_client_requests = pending]]
                /\ commits' = commits \cup { <<i, log[s][i], term[s]>> : i \in 1..commit }
        /\ UNCHANGED <<term, log>>

\* Handle(AllRoles, AppendResponse) for a Candidate or Follower: dropped.
HandleAppendResponseOther(s, m) ==
    /\ m.type = "AppendResponse"
    /\ ~Is(s, Leader)
    /\ Reply(m, {})
    /\ UNCHANGED <<term, log, committed_log_size, role, commits>>

\* Handle(Leader, ReplicationRequest) of request rid: append (term, data),
\* remember the client, broadcast at once.  The reply waits for the commit.
HandleReplicationRequestLeader(s, rid) ==
    LET newlog == Append(log[s], term[s])
        r      == role[s]
    IN  /\ Is(s, Leader)
        /\ Len(log[s]) < MaxLogLen
        /\ log' = [log EXCEPT ![s] = newlog]
        /\ role' = [role EXCEPT ![s] = [r EXCEPT !.pending_client_requests =
                                            Append(@, PendingClientRequest(Len(newlog), rid))]]
        /\ Send(BroadcastAppendEntries(s, newlog, r.followers))
        /\ UNCHANGED <<term, committed_log_size, commits>>

\* The transport loses a message in flight.
DropMessage(m) ==
    /\ Loss # "none"
    /\ msgs' = msgs \ {m}
    /\ UNCHANGED <<term, log, committed_log_size, role, commits>>

-----------------------------------------------------------------------------

\* Every server starts as Candidate{} at term 0 with an empty log.
Init ==
    /\ term = [s \in Server |-> 0]
    /\ log = [s \in Server |-> << >>]
    /\ committed_log_size = [s \in Server |-> 0]
    /\ role = [s \in Server |-> NewCandidate(EmptyVotes, {})]
    /\ msgs = {}
    /\ commits = {}

\* Server::Run: a Cron tick, a client request, or Handle of one delivered
\* message, dispatched on the message type and the role.  Clients are any
\* environment here: a Leader may receive a request at any time (request id
\* 0); SimRaftClient replaces them with RunSimulation's client.
Next ==
    \/ \E s \in Server : CronCandidate(s)
    \/ \E s \in Server : CronFollower(s)
    \/ \E s \in Server : CronLeader(s)
    \/ \E s \in Server : HandleReplicationRequestLeader(s, 0)
    \/ \E m \in msgs : HandleVoteRequest(m.to, m)
    \/ \E m \in msgs : HandleVoteResponseCandidate(m.to, m)
    \/ \E m \in msgs : HandleVoteResponseOther(m.to, m)
    \/ \E m \in msgs : HandleAppendRequest(m.to, m)
    \/ \E m \in msgs : HandleAppendResponseLeader(m.to, m)
    \/ \E m \in msgs : HandleAppendResponseOther(m.to, m)
    \/ \E m \in msgs : DropMessage(m)

Spec == Init /\ [][Next]_vars

\* One iteration of Server::Run on s that receives a message and handles it.
Deliver(s) ==
    \E m \in msgs :
        /\ m.to = s
        /\ \/ HandleVoteRequest(s, m)
           \/ HandleVoteResponseCandidate(s, m)
           \/ HandleVoteResponseOther(s, m)
           \/ HandleAppendRequest(s, m)
           \/ HandleAppendResponseLeader(s, m)
           \/ HandleAppendResponseOther(s, m)

\* Fairness of Server::Run over a transport that loses nothing (RunSimulation's
\* drop_percent = 0): a server keeps receiving, so a message to it in flight
\* is eventually handled, and a Leader's Cron keeps running, so it keeps
\* broadcasting (weak fairness).  No fairness is given to the Follower and
\* Candidate timeouts: a Follower that keeps receiving AppendRequests of its
\* term refreshes its timestamp and never times out.
FairSpec ==
    /\ Spec
    /\ \A s \in Server : WF_vars(Deliver(s)) /\ WF_vars(CronLeader(s))

\* The exploration bound: behaviours that put more than MaxInFlight messages
\* on the network at once are not explored.
NetworkBound == Cardinality(msgs) <= MaxInFlight

-----------------------------------------------------------------------------
(* Properties.                                                             *)

Terms == 0..MaxTerm
Index == 0..MaxLogLen
Votes == UNION { [D -> Index] : D \in SUBSET Server }

\* Every variable holds a value of its type.
TypeOK ==
    /\ term \in [Server -> Terms]
    /\ log \in [Server -> Seq(Terms)]
    /\ \A s \in Server : Len(log[s]) <= MaxLogLen
    /\ committed_log_size \in [Server -> Index]
    /\ \A s \in Server :
         \/ /\ Is(s, Candidate)
            /\ role[s].successful_votes \in Votes
            /\ role[s].outstanding_votes \subseteq Peers(s)
         \/ Is(s, Follower) /\ role[s].leader_address \in Peers(s)
         \/ /\ Is(s, Leader)
            /\ DOMAIN role[s].followers = Peers(s)
            /\ \A p \in Peers(s) : role[s].followers[p] \in
                  [next_index : Index, confirmed_contiguous_index : Index]
            /\ role[s].pending_client_requests \in
                  Seq([log_index : 1..MaxLogLen, request_id : Nat])
    /\ \A m \in msgs : m.from # m.to /\ {m.from, m.to} \subseteq Server
    /\ commits \subseteq (1..MaxLogLen) \X Terms \X Terms

\* Election safety: the vote-once-per-term rule (req.term > state_.term in
\* Handle(VoteRequest)) and the size-based quorum test of
\* Handle(Candidate, VoteResponse) never let two servers lead the same term.
ElectionSafety ==
    \A s1, s2 \in Server :
        (Is(s1, Leader) /\ Is(s2, Leader) /\ term[s1] = term[s2]) => s1 = s2

\* Log matching: two logs holding an entry of the same term at the same index
\* agree on every entry up to it, although a follower appends only after
\* comparing the single entry before req.entries.
LogMatching ==
    \A s1, s2 \in Server : \A i \in 1..Len(log[s1]) :
        (i <= Len(log[s2]) /\ log[s1][i] = log[s2][i])
            => SubSeq(log[s1], 1, i) = SubSeq(log[s2], 1, i)

\* Commit safety: no two servers hold different entries inside both their
\* committed prefixes, whatever the leader's median of trackers seeded from
\* VoteResponse.committed_log_size and the followers' min(leader_commit, ...)
\* made of them.
CommittedPrefixAgreement ==
    \A s1, s2 \in Server :
        LET k == IF committed_log_size[s1] < committed_log_size[s2]
                 THEN committed_log_size[s1] ELSE committed_log_size[s2]
        IN  SubSeq(log[s1], 1, k) = SubSeq(log[s2], 1, k)

\* Commit safety as spec.md states it: once a leader's committed_log_size
\* covers an entry (the median of BumpCommitIndexAndReplyToClients, over
\* trackers seeded from the voters' committed_log_size), every server later
\* elected leader holds that entry at that index.  A committed entry need
\* not have been acknowledged to a client: only the requests still pending
\* at the leader that commits it are answered (AckedEntryOnQuorum of
\* SimRaftClient is about those).
LeaderCompleteness ==
    \A c \in commits : \A s \in Server :
        (Is(s, Leader) /\ term[s] > c[3]) =>
            /\ c[1] <= Len(log[s])
            /\ log[s][c[1]] = c[2]

\* The leader never slices its log past its end in BroadcastAppendEntries
\* (log.begin() + confirmed_contiguous_index), and CommittedLogTerm's
\* MG_ASSERT(log.size() >= committed_log_size) holds on every server.
IndicesInBounds ==
    /\ \A s \in Server : committed_log_size[s] <= Len(log[s])
    /\ \A s \in Server : Is(s, Leader) =>
          \A p \in Peers(s) : role[s].followers[p].confirmed_contiguous_index <= Len(log[s])

\* The MG_ASSERTs of Handle(Candidate, VoteResponse) never fire: a granted
\* VoteResponse of the candidate's term always comes from a voter still in
\* outstanding_votes and not yet in successful_votes.
VoteResponseAssertionsHold ==
    \A m \in msgs :
        (/\ m.type = "VoteResponse" /\ m.vote_granted
         /\ Is(m.to, Candidate) /\ m.term = term[m.to])
            => /\ m.from \in role[m.to].outstanding_votes
               /\ m.from \notin DOMAIN role[m.to].successful_votes

\* The MG_ASSERT of Handle(AllRoles, AppendRequest) never fires: a Follower
\* receives AppendRequests of its own term only from its leader_address
\* ("Multiple Leaders are acting under the same term number!").
SameTermLeaderAssertionHolds ==
    \A m \in msgs :
        (m.type = "AppendRequest" /\ Is(m.to, Follower) /\ m.term = term[m.to])
            => role[m.to].leader_address = m.from

\* The committed size a server reports never shrinks.
CommitMonotonic ==
    [][\A s \in Server : committed_log_size'[s] >= committed_log_size[s]]_committed_log_size

\* Replication converges: a server that from some point on follows a leader
\* that stays leader ends up holding the leader's log.  spec.md says a
\* Follower whose last index or term does not match is retried "with an
\* earlier offset on a future broadcast"; the code's Handle(AppendRequest)
\* appends only at the exact end of the follower's log, and the leader never
\* lowers confirmed_contiguous_index.
FollowerLogsConverge ==
    \A l, p \in Server :
        (<>[](Is(l, Leader) /\ role[p] = NewFollower(l))) => <>[](log[p] = log[l])

=============================================================================
