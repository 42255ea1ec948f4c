# TLA+ models of the memgraph sources in this repository

This directory holds TLA+ modules and TLC configurations. They model the
parts of the repository whose behaviour depends on the order of events:
first the Raft-style replicated log of `src/tests/simulation/raft.cpp`,
then the memory resources (with a refinement of an abstract allocator), the
projected-graph accessor, the network session, the query plan cursors with the expression evaluator of
their WHERE clauses, and the epoll worker. `PROJECT.json`
records several things:

- every component;
- the runs and what they check;
- the mutants that show each property can fail;
- the source lines behind each definition (`map`);
- the findings;
- the hazards the properties are aimed at.

## 1. Inventory

The repository is an excerpt of 25 files. Only one of them is a complete
concurrent protocol. The others are graph-database pieces. Some of those
hold state machines a model checker can reach. The rest are declarations or
glue.

### 1.1 Raft simulation server: `src/tests/simulation/raft.cpp`

The core of the repository, and the subject of `spec.md`.

**State.** Each `Server` owns two pieces of state:

- `CommonState`: `term`, `log` (a vector of `(Term, Op)`),
  `committed_log_size` and `last_applied`. `last_applied` is never read or
  written after construction.
- `role_`: a `std::variant` with one alternative per role:
  - `Candidate{successful_votes: map<Address, LogIndex>, election_began,
    outstanding_votes: set<Address>}`;
  - `Leader{followers: map<Address, FollowerTracker{next_index,
    confirmed_contiguous_index}>, pending_client_requests: deque}`;
  - `Follower{last_received_append_entries_timestamp, leader_address}`.

  A role is replaced wholesale when a handler returns a new one.

**Operations.** There are three kinds:

- `Run` loops: it calls `Cron` when a random interval has passed, then
  receives one message with a timeout and calls `Handle`.
- `Cron` dispatches on the role:
  - a Candidate whose election timeout has passed starts a new term and
    sends `VoteRequest`s;
  - a Follower whose timeout has passed becomes `Candidate{}`;
  - a Leader rebroadcasts `AppendRequest`s.
- `Handle` dispatches on (role, message):
  - `VoteRequest`, any role: grant the vote iff the requester's last log
    term, term and last log index all dominate.
  - `VoteResponse`, Candidate: count the vote, with two `MG_ASSERT`s. On
    `|successful| >= |outstanding|` the server becomes Leader. The trackers
    are seeded from the voters' `committed_log_size`.
  - `VoteResponse`, other roles: the message is dropped.
  - `AppendRequest`, any role: on a higher term, adopt it and become a
    Follower; on a lower term, nack. On an equal term, a Follower asserts
    that the sender is its `leader_address`. If the last index and term
    match, append the entries and set
    `committed_log_size = min(leader_commit, size)`.
  - `AppendResponse`, Leader: on a success, advance the tracker with `max`,
    then `BumpCommitIndexAndReplyToClients` sets the commit to the median of
    the sorted indices and pops the committed pending client requests.
  - `ReplicationRequest`, Leader: append the entry, queue the client,
    broadcast.
  - `ReplicationRequest`, Follower: redirect the client to `leader_address`.
  - `ReplicationRequest`, Candidate: reply failure, then run `Cron()`.

**Interaction.** Servers share no memory. They exchange messages through
the simulator transport (`io/v3/simulator.hpp`, not in this excerpt). That
transport may drop messages (`drop_percent`), reorder them
(`scramble_messages`) and time out requests.

**Client driver.** `RunSimulation` (lines 574-658) runs a client loop:

- send a `ReplicationRequest` with a 5 s timeout;
- on a timeout, retry the same server;
- on a redirect, switch to `retry_leader`;
- stop on success;
- give up after 30 tries and fail `MG_ASSERT(success)`.

**Hard behaviour.** Message loss and reordering; randomized election
timeouts racing each other; stale responses from earlier terms; a Follower
that voted for a candidate which then lost; the leader seeding its trackers
from values the voters reported about their own logs.

**Properties that make it correct.** These come from spec.md §8:

- election safety;
- one vote per term;
- log matching;
- commit safety: committed prefixes agree, and every later leader holds
  the committed entries;
- no acknowledged client entry is lost;
- the `MG_ASSERT`s never fire;
- the leader's slicing stays within its log;
- commit progress is monotonic;
- liveness: every follower eventually holds the leader's log, and a client
  eventually succeeds.

### 1.2 Other components

| Component | Source | State and operations | Status |
|---|---|---|---|
| Memory resources | `src/utils/memory.cpp` | `MonotonicBufferResource`: a buffer chain, `allocated_`, growth ×1.34 clamped. `Pool`: a free list over chunks. `PoolResource`: pools sorted by block size, the `last_alloc_pool_` and `last_dealloc_pool_` caches, big blocks sorted by address. | `PoolResource`, `MonotonicBuffer`; `PoolResource2` not modelled (its pools are declared outside the excerpt) |
| Network session | `src/communication/v2/session.hpp` | `Session`: `execution_active_`, the socket, an inactivity timer, read/handshake/timeout callbacks on a strand, the websocket upgrade on the first read, shutdown. `WebsocketSession`: accept, read, close. | `Session` |
| Plan cursors | `src/query/v2/plan/operator.cpp` | The cursors of the distributed planner, their `Pull`, `Reset` and `PullMultiple`, LOAD CSV and OutputTable included. | `PlanCursors` (partly) |
| Epoll worker | `io/network/worker.hpp` | `accept`, `on_error`, `on_read`: read into a 512-byte buffer, write the response with `int k = write(...)`. | `Worker` |
| Subgraph accessor | `src/query/db_accessor.cpp`, `src/query/graph.hpp` | `SubgraphDbAccessor` forwards writes to the transaction's `DbAccessor` and mirrors the successful ones into a projected `Graph` (`vertices_`, `edges_`); reads filter the database by the projection. | `SubgraphAccessor` |
| Graph DB accessor, vertex labels | `src/database/graph_db_accessor.cpp`, `src/storage/vertex_accessor.cpp` | Commit/abort flags, vertex and edge insertion and removal over mvcc version lists, labels with their index. | not modelled (§4) |
| Expression evaluator | `src/expr/interpret/eval.hpp` | A visitor over the expression tree; Cypher three-valued logic, list operators and quantifiers. | `Eval`, used by `PlanCursors`'s Filter (partly) |
| CSV import (`CSVImporter`, built on code not under `src/`; see §4), simulator stats, DB wiring, coordinator RPC, communication client, requests, profile, AST visitor, storage v2 accessors, test helpers | various | Declarations, counters, construction, serialization glue and forwarding getters. | not modelled: no state machine |

## 2. Modules

Each component has a module with its state as VARIABLES, one action (or
one operator composed into an action) per handler, and its properties. Each
`MC*.tla` module gives the constants values for TLC, and each `.cfg` file
is one run. `PROJECT.json` `map` gives the source lines of every definition.
A definition whose name ends in a description of a slip (`...NoRearm`,
`...KeepsIterator`, `...After`, `...Leak`, `...KeepsUnpooled`, ...) is a faulty variant used
only by the mutants in `PROJECT.json`.

### SimRaft (`SimRaft.tla`, instantiated by `MCSimRaft.tla`)

| Code (`src/tests/simulation/raft.cpp`) | Model |
|---|---|
| `state_.term`, `state_.log`, `state_.committed_log_size` | `term`, `log` (a sequence of entry terms; the opaque payload is dropped, since the protocol never reads it), `committed_log_size`. `last_applied` is never used and is left out. |
| `role_` | `role[s]`: a record tagged `kind`, with the fields of the C++ alternative. Timestamps are dropped; time is abstract. |
| transport (`io_.Send`, `ReceiveWithTimeout`) | `msgs`: the set of messages in flight. Delivery takes any of them, so messages are reordered. `DropMessage` loses one. The constant `Loss` selects the network: `"none"` (nothing is lost, `DropMessage` is disabled), `"in_flight"` (`DropMessage` loses any message in flight) or `"at_send"` (a send may also lose any of its messages at once, `Sendable`, which reaches the same states in fewer steps). |
| `Cron(Candidate)` | `CronCandidate`: the election timeout has elapsed (a nondeterministic choice); the not-elapsed branch changes nothing. `Handle(Candidate, ReplicationRequest)` is modelled in `SimRaftClient`. |
| `Cron(Follower)` | `CronFollower`: becomes `Candidate{}` with no outstanding votes, at the same term. |
| `Cron(Leader)` | `CronLeader`: `BroadcastAppendEntries`. |
| `Handle(AllRoles, VoteRequest)` | `HandleVoteRequest`, with `VoteGranted` (the three dominance tests) and `BecomeFollower`. |
| `Handle(Candidate, VoteResponse)` | `HandleVoteResponseCandidate`, with `FollowerTrackers` (the promotion's trackers). |
| `Handle(AllRoles, AppendRequest)` | `HandleAppendRequest`, with `LogMatches` (the steady-state test). |
| `Handle(Leader, AppendResponse)` | `HandleAppendResponseLeader`, then `BumpCommitIndexAndReplyToClients`: `CommitIndices` sorts `<<log size>> \o trackers` descending with `SortSeq`, `CommitIndexFor` takes position `size/2`, and `PopCommitted` is the reply loop. |
| `Handle(Leader, ReplicationRequest)` | `HandleReplicationRequestLeader(s, rid)`. In `SimRaft` alone a leader may receive a request at any time (request id 0). |
| the other overloads | `HandleVoteResponseOther`, `HandleAppendResponseOther`: the message is consumed. |

`commits` is a history variable. It records `<<index, entry term, leader
term>>` for every entry a leader counts as committed, the moment the client
would be told success.

An `MG_ASSERT` is a conjunct of its handler, so a failing assertion stops
that delivery. A state invariant then says that no message in flight would
make the assertion fail on delivery.

The definitions named `...EqualTerm`, `...NoLogCheck`, `...VotersOnly`,
`...First`, `...IndexOnly` and `...KeepTerm` are faulty variants of a
helper. Each is a plausible slip in the C++. `PROJECT.json` `mutants`
records which property catches each one.

### SimRaftClient (`SimRaftClient.tla`, instantiated by `MCSimRaftClient.tla`)

It composes `SimRaft` with the client of `RunSimulation`. In this module
only the client creates log entries; nothing is lost (`drop_percent = 0`).

| Code (`src/tests/simulation/raft.cpp`) | Model |
|---|---|
| `leader`, `retries`, `success` of `RunSimulation` | `client_leader`, `client_attempt` (also the request id), `client_state`. |
| client requests and responses | `cnet`, a second set of messages in flight. |
| `Handle(Leader, ReplicationRequest)` | `ReceiveReplicationRequestLeader`: `SimRaft`'s handler with the request's id. |
| `Handle(Follower, ReplicationRequest)` | `HandleReplicationRequestFollower`: fails with `retry_leader = leader_address`. |
| `Handle(Candidate, ReplicationRequest)` | `HandleReplicationRequestCandidate`: `Cron()` (an election or nothing), then fails with no `retry_leader`. |
| the reply loop of `BumpCommitIndexAndReplyToClients` | `HandleAppendResponseLeaderReplying`: one success per popped request. |
| the `for` loop | `ClientSend`, `ClientTimeout` (`HasError`, `continue`), `ClientReceive` (success or redirect), `ClientExhausted` (the loop ends). |
| a late response | `ClientDiscard`. This is the simulator's future matching, which is not under `src/`, modelled from spec.md. |
| `MG_ASSERT(success)`, `simulator.ShutDown()` | `Running`: nothing happens after the client stops. |

`acked` is a history variable. It holds the `<<index, entry term, leader
term>>` a success acknowledged.

**Raft bounds and fairness.** `MaxTerm` bounds elections, `MaxLogLen`
client requests, and `MaxInFlight` (the state constraint `NetworkBound`)
the messages on the network at once. Servers are a symmetry set in the
safety runs. `Server::Run` never returns, so the only terminal states are
the ones a bound cuts off, and deadlock is not checked. The safety bounds
reach split votes, deposed leaders, commits and stale vote and append
responses delivered after a role change (these need three messages in
flight). Only `raft_follower_converge` assumes fairness (`FairSpec`, no
loss, as `RunSimulation` sets `drop_percent = 0`): weak fairness of each
server's delivery (`Run` loops on `ReceiveWithTimeout`) and of a leader's
`Cron` broadcast. Election timeouts get none, and symmetry is not used
with fairness. It needs four messages in flight: with three, a leader
cannot be deposed while its entry is still unreplicated.

### PoolResource (`PoolResource.tla`, checked through `MCMemory.tla`)

| Code (`src/utils/memory.cpp`) | Model |
|---|---|
| `pools_`, `unpooled_`, `last_alloc_pool_`, `last_dealloc_pool_` | `pools` (a sequence of `[block_size, chunks, free]`), `unpooled` (sorted by address), the two caches as indices (0 is nullptr). |
| `impl::Pool::Allocate`, `Deallocate`, `Release` | `PoolAllocate` (pop the free list, or take a chunk upstream and push its blocks; the upstream call or the emplace may fail), `PoolDeallocate`, `PoolRelease`. |
| `PoolResource::DoAllocate` | `DoAllocate`: `AllocateBig`, `AllocateCachedPool`, `AllocateFoundPool` (`std::lower_bound`), `AllocateNewPool` (emplace in sorted position, repointing the caches). |
| `PoolResource::DoDeallocate`, `Release` | `DeallocateBig`, `DeallocateCachedPool`, `DeallocateFoundPool`, `Release`. |

Addresses are abstract; only their order matters, for `unpooled_`. The
caller deallocates only what it holds. A call is one step: the resource is
not thread-safe. Bounds: two block sizes in either creation order, two
blocks per chunk (so a pool takes a second chunk), big blocks, three
upstream addresses (so upstream runs out).

**Refinement.** `Allocator.tla` is what a `MemoryResource` promises: a
bag `held`, counting how many times each block is held at once. An
allocation adds one block of which no copy is held, a deallocation takes
one copy out, and `Release` empties the bag. It says nothing about sizes.
`PoolResource` instantiates it with `held <- HeldBag`, the bag of the
blocks in `live` (the blocks the program holds, itself a bag, so a block
handed out twice for the same request counts twice).
`AllocatorRefined == Abstract!Spec` is checked as a PROPERTY. It fails as
soon as a block is handed out while a copy is still held, a block is taken
back that was not held, or `Release` leaves one held. That every block a
pool pops, or a chunk or big block fresh from upstream, is not held
already is not a guard of any single action: it rests on the free lists,
the chunks and `upstream` staying in step with `live` over every earlier
call. A failed call (BadAlloc, a throwing emplace) is a stuttering step.
The mutant `PoolAllocateNoPop` (a pool that reads the head of its free
list without popping it) breaks it on the next allocation of that size.

### MonotonicBuffer (`MonotonicBuffer.tla`, checked through `MCMemory.tla`)

| Code (`src/utils/memory.cpp`) | Model |
|---|---|
| `current_buffer_` chain, `allocated_`, `next_buffer_size_`, `initial_buffer_` | `buffers[r]` (newest first), `allocated[r]`, `next_buffer_size[r]`, `initial_buffer[r]`, for two resources sharing one upstream. |
| `DoAllocate`, `push_current_buffer`, `std::align`, `CheckAllocationSizeOverflow`, `GrowMonotonicBuffer` | `Allocate` composed of `Area`, `PushBuffer`, `StdAlign`, `Bump` and `Finish`, every sum in `Width`-bit arithmetic (`% 2^Width`). |
| `Release`, the move constructor, move assignment | `Release`, `MoveConstruct`, `MoveAssign`. |

`size_t` and pointers are 5-bit numbers: the overflow checks wrap exactly
as in 64 bits, and a 32-byte address space holds a header, an initial
buffer and two upstream buffers.

**One run for both resources.** The two resources share no state, so
`MCMemory.tla` instantiates both (`P == INSTANCE PoolResource`,
`M == INSTANCE MonotonicBuffer`, each `live` renamed) and lets the initial
state choose, in the variable `checked`, which one a behaviour exercises;
the other keeps its initial state. The reachable states are the sum of the
two modules' (164,658 = 158,618 + 6,040), where running them side by side
would give their product. The symmetry over the two monotonic resources
is sound because the pool's variables mention neither.

### SubgraphAccessor (`SubgraphAccessor.tla`, `MCSubgraphAccessor.tla`)

`SubgraphDbAccessor` is the accessor a procedure gets for a projected
graph. It holds the transaction's `DbAccessor` and a `Graph *graph_`.
Every write throws `std::logic_error` for an element outside `graph_`,
forwards to `DbAccessor`, returns the storage's error (or `nullopt`) as it
is, and only then changes `graph_`.

| Code | Model |
|---|---|
| storage under `DbAccessor` | `vstate`, `estate` (`"none"`, `"live"`, `"deleted"`), `from`, `to` |
| `Graph::vertices_`, `edges_` | `gv`; `ge`, a function from the edges kept to the `<<from, to>>` cached in their `EdgeAccessor` |
| `Graph::Expand` (graph.hpp:62) | `Expand` over `PathsOfDb`: a vertex, or an edge with its two ends |
| `RemoveEdge`, `InsertEdge`, `DetachRemoveVertex`, `ChangeEdgeFrom`, `RemoveVertex`, `InsertVertex` | actions of the same names, each with its `Throw` and `DbError` branches |
| `Vertices`, `FindVertex`, `SubgraphVertexAccessor::OutEdges`/`InEdges`, `Graph::OutEdges` | the operators `VerticesOfGraph`, `FindVertex`, `OutEdges`, `InEdges`, `GraphOutEdges` |

The storage and `Graph`'s set members (`graph.cpp`) are not in the
repository, so the model gives their contracts:
- any write may fail with an error, for example a serialization conflict
  with another transaction;
- deleting a vertex fails while it has edges;
- an `EdgeAccessor` equals any other accessor of the same edge
  (`InMemoryEdgeAccessor::operator==` compares `edge_` only), but keeps the
  `from_vertex_` it was made with.

`MCSubgraphAccessor.cfg` starts with an empty projection over two vertices
and two edges, `e1: v1 -> v2` and the self-loop `e2` on `v2`. The third
vertex and edge gid are for creations. With this database, a projection of
one vertex, or of `v2` and `e2`, has edges of its vertices outside it, so
`RemoveVertex` meets the storage's refusal. Its reachable states number
51,531.

What the run checks is `ProjectionShrinksWithDb`, an action property: a
vertex or edge leaves `graph_` only in a step where the database deletes
it. That `graph_` stays a subgraph of the database is not checked as a
property of its own. Each call's own guard (the `ContainsVertex` checks
and the early returns) keeps it, so it would say no more than those lines.
The read operators (`VerticesOfGraph`, `FindVertex`, `OutEdges`,
`InEdges`, `GraphOutEdges`) model the reads. `GraphOutEdgesAgree` compares
two of them and fails (see Further checks).

### Session (`Session.tla`, `MCSession.tla`)

| Code (`src/communication/v2/session.hpp`) | Model |
|---|---|
| `execution_active_`, the socket, `timeout_timer_`, the pending read and handshake | `sess`: `active`, `open`, `expiry` (`"max"`, `"future"`, `"past"`), `timer`, `read`, `handshake`. |
| `Start`, `DoHandshake`/`OnHandshake`, `DoRead`/`OnRead`, `OnError`, `DoShutdown`, `OnTimeout` | `Start`, `RunStart`, `OnHandshake`, `OnReadData`, `OnReadError`, `OnTimeout`, with the helpers `DoRead`, `DoShutdown`, `OnError`, `Execute`. |
| `WebsocketSession`: `DoAccept`/`OnAccept`, `DoRead`/`OnRead`, `OnError`, `DoClose`/`OnClose` | `ws`, and `WsOnAccept`, `WsOnRead`, `WsOnClose` with their helpers. |
| the client, time | `peer` (messages left, handshake, FIN), `PeerClose`, `Tick`. |

Every handler is bound to the strand, so a handler is one action. The
timer is abstracted to where its expiry lies; `expires_after` and `cancel`
make a waiting `async_wait` ready (its handler runs with
`operation_aborted`). A read pending when `DoShutdown` closes the socket
completes with `operation_aborted`. A read whose success completion Asio
had already queued on the strand before the close would still run
`Execute`; the model leaves that case out. No checked property is about
reads after a shutdown. Fairness: weak fairness of every handler whose
completion is queued, of reads and handshakes the client has already
answered, and of `Tick` (time passes). Network errors and the client's
actions get none. A session ends, so deadlock is not checked. Bounds: TCP
and SSL, up to two client messages, three websocket closes.

### PlanCursors (`PlanCursors.tla`, `MCPlanCursors.tla`)

A plan is a tree of operators; a cursor's `Pull` pulls its inputs
synchronously, so one call of the root is one step. `Pull`, `Reset` and
`PullMultiple` are recursive operators over the tree that return the new
"world": every cursor's members (`InitCursor` lists them), the frame, and
the graph as the request router sees it.

| Code (`src/query/v2/plan/operator.cpp`) | Model |
|---|---|
| each cursor's `Pull` | `PullOnce`, `PullScanAll`/`ScanStep`, `PullFilter`, `PullSkip`, `PullLimit`, `PullUnwind`, `PullOptional`, `PullMerge`, `PullDistinct`, `PullUnion`, `PullCartesian`, `PullCreateNode`, `PullOrderBy`, `PullAggregate`, `PullExpand`, `PullEdgeUniquenessFilter`, `PullCreateExpand`, `PullForeach`, `PullOutputTable`, `PullLoadCsv`. |
| each cursor's `Reset` | `ResetOnce`, `ResetScanAll`, ..., `ResetOutputTable`, `ResetLoadCsv`, dispatched by `Reset`. |
| `CsvRowToTypedList`, `CsvRowToTypedMap`, `LoadCsvCursor::MakeReader` | `CsvRowToTypedList`, `CsvRowToTypedMap` (by `Emplace`: a repeated header name keeps its first column), `CsvFile`; the reader is the cursor's `reader` field, 0 until the first pull and then the index of the next row. |
| `PullMultiple` of Once, the scan, Produce, CreateNode, CreateExpand | `PullMultipleOnce`; `PullMultipleScanAll` with `PrepareNextFrames`, `NextFrame`/`AdvanceFrame` (`GetNextFrame`), `FillFrames` and `ScanPullMultipleLoop`; `PullMultipleCreateNode` with `NodeCreationInfoToRequests` and `PlaceNodesOnTheMultiFrame`; `PullMultipleCreateExpand` with `ExpandCreationInfoToRequests`. |
| the caller | `PullRoot` (pull until false; a few late pulls), `ResetRoot`, `PullMultipleRoot` (invalidate every frame, pull, read the valid ones, until none is valid). |

`Ref` is the reference semantics: what a plan means row by row, defined by
the operators' documented meaning and not by their cursors.
`OutputMatchesReference` compares the root's rows and the graph with it.
The MultiFrame class is not under `src/`; it is a sequence of
`FramesInMultiframe` frames with a validity flag. Plans are written in
`MCPlanCursors.tla` as the queries they are plans of; five graphs include
an empty one, three vertices of two labels, and a loop with edges both
ways. `FramesInMultiframe = 2`, so a scan of three vertices spans two
multi-frames.

LOAD CSV: `csv::Reader` is not under `src/`, so a file is given with the
plan's `LoadCsv` operator as a header and rows of strings. A frame holds
`CsvBase + k` for row k, and `FrameEnv` turns it into the list or map the
cursor writes, so the WHERE clause after a LOAD CSV is evaluated by
`Eval`. The reference reads the whole file after `Once` and one row per
input row otherwise (the code's comment: "at most cardinality(n) rows").
It reads a header through its own `RefCsvValue`, so a bug in the
conversion is caught. Two behaviours are left out of the pass run:

- `LoadCsvCursor::Reset` resets the input only. With the LOAD CSV plans
  added to `ResettablePlans`, TLC finds `ResetRewindsEveryCursor` violated
  at the first reset after a pull. No operator in `src/` places LOAD CSV
  under an operator that resets its input, so this is not listed as a
  hazard of the code.
- After the file runs out, the cursor still pulls a non-Once input once
  more. This matters only when that input writes, so every LOAD CSV plan
  reads only.

`OutputTable` takes the callback's rows (a constant of the plan) on the
first pull and clears them on Reset.

### Eval (`Eval.tla`, used by `PlanCursors`)

`ExpressionEvaluator` is a visitor with no state of its own beyond the
frame, so `Eval` is a set of pure operators: `Evaluate(e, env)` dispatches
on the kind of the expression node to one operator per `Visit`. A value
is a record tagged with its `TypedValue::Type` (`NullV`, `Bool`, `IntV`,
`Str`, `List`, `MapV`); an `ExpressionRuntimeException` is the value `Err`, which every
visitor returns as soon as an operand it evaluated is `Err`.

| Code (`src/expr/interpret/eval.hpp`) | Model |
|---|---|
| `Visit(Identifier)`, the binary and unary operator macros | `Evaluate`, `ApplyBinary`, `Strict2` |
| `Visit(AndOperator)` (short-circuit on false), `Visit(IfOperator)` | `AndOperator`, `IfOperator` |
| `Visit(InListOperator)` | `InListOperator`, `InListLoop` |
| `Visit(SubscriptOperator)` on lists and maps, `Visit(ListSlicingOperator)` | `SubscriptOperator`; `ListSlicingOperator` with `GetBound` (upper bound first) and `NormaliseBound` |
| `Visit(ListLiteral)`, `Visit(MapLiteral)`, `Visit(Coalesce)` | `EvaluateAll`, `MapLiteral` with `Emplace`, `CoalesceOperator`/`CoalesceLoop` |
| `Visit(PropertyLookup)` on null and maps | `PropertyLookup`; temporal, vertex and edge values are outside the value set, so their cases are the `Err` of the default |
| `Visit(Reduce)`, `Visit(Extract)` | `ReduceOperator`/`ReduceLoop`, `ExtractOperator` |
| `Visit(All)`, `Visit(Single)`, `Visit(Any)`, `Visit(None)` | `Quantifier` with `AllLoop`, `SingleLoop`, `AnyLoop`, `NoneLoop` and `Predicate` |
| `frame_->at(symbol) = element` | `Bind`: seen by the body only, since no other expression reads the bound symbol |

TypedValue's operators (`TVOr`, `TVAnd`, `TVXor`, `TVNot`, `TVEq`,
`TVLess`, `TVPlus`) are in `typed_value.cpp`, which is not under `src/`.
They are written from the documented three-valued semantics.
`RefEvaluate` is the reference: openCypher's semantics, with truth degrees
false < null < true, AND as the minimum and OR as the maximum, and the list
predicates as folds. `PlanCursors` gives a `Filter` an `"expr"` predicate
that `EvaluateFilter` evaluates with `Evaluate` and `Ref` evaluates with
`RefEvaluate`, so `OutputMatchesReference` compares the two. The WHERE
plans are `UNWIND [11, null, 12] AS x WITH x WHERE p RETURN x`:

- `MCPredicates` holds seventeen predicates on which the two agree. They
  cover every visitor above, with null operands, negative and
  out-of-range indices, absent and null slicing bounds, and map
  literals compared and subscripted.
- Three LOAD CSV plans filter the rows of a file with a repeated header
  name and of a file with rows of different lengths. They use property
  lookup, map and list subscripts and a map literal, and each keeps
  exactly one row.
- `MCDivergentPredicates` holds the four predicates of finding 7.
- An `ASSUME` checks that every predicate is a boolean or null for each
  x. So the QueryRuntimeException of `EvaluateFilter` is not reached.

### Worker (`Worker.tla`, `MCWorker.tla`)

One stream of the epoll worker against a client. The steps of one
`on_read` call are separate actions (`pc`), because the client and the
kernel's queues move between the calls to `read` and `write`.

| Code (`src/io/network/worker.hpp`) | Model |
|---|---|
| `accept`, `on_error` | `Accept`, `OnError` (once the client has gone) |
| `on_read` entry on an EPOLLIN edge | `OnRead` (data queued or end of file) |
| `count = read(...)`: -1 with EAGAIN, 0, data | `Read`: back to `idle`, `closed` (`delete stream`), or a read of up to `BufSize` bytes that starts the write loop |
| `int k = write(...); sum += k; resp += k;` | `Write`: `k` is the bytes the send queue takes, or -1 when it is full; `sum` is kept modulo `2^Width` (`SizeT`), `resp` is an offset, and a byte outside the string is 0 (`ByteAt`) |
| the client, the socket's queues | `ClientSend`, `ClientShutdown`, `ClientReceive`; `inbuf`, `sndq` (at most `SndCap` bytes) |

`Listener` and `TcpStream` are not in the repository, so the epoll loop
is the guard of `OnRead`. `MCWorker.cfg` uses a 3-byte response, a 2-byte
send queue and a 4-bit `size_t`. With these bounds a write meets a full
queue in the middle of a response, and `sum` can wrap.

## 3. Runs and what they show

| Run | Expect | Properties | What it shows |
|---|---|---|---|
| `raft_safety` | pass | TypeOK, ElectionSafety, CommittedPrefixAgreement, IndicesInBounds, VoteResponseAssertionsHold | Three servers, three terms, one entry per log, three messages in flight, loss and reordering: one leader per term, committed prefixes agree, slices stay in the log, the vote-response assertions never fire. `LeaderCompleteness` and `SameTermLeaderAssertionHolds` are not checked here: the first needs a fourth term to fail (`raft_figure8`), the second five servers (see Further checks), so under these bounds they would pass without saying anything. About 2.9 million states. |
| `raft_figure8` | violation | LeaderCompleteness | Finding 1. |
| `raft_follower_converge` | violation | FollowerLogsConverge | Finding 2. |
| `raft_client` | pass | ClientTypeOK, AckedEntryOnQuorum | Three servers, three terms, two entries, three attempts: every success acknowledges an entry a majority holds. |
| `memory` | pass | TypeOK, BlocksPartitioned, CachesCurrent, UnpooledMatchesLive, UpstreamAccounted, LiveBlocksInside, LiveBlocksDisjoint, LiveBlocksAligned, AllocatorRefined | PoolResource: free lists and chunks stay partitioned, the cached pools stay current across `pools_.emplace`, `unpooled_` sorted and exact, nothing lost upstream after a failed emplace, and the resource refines `Allocator`, so no block is held twice at once. MonotonicBufferResource: blocks lie in their resource's memory, are aligned and disjoint, through wrapping sizes, releases and moves. About 165,000 states. |
| `plan_cursors` | pass | TypeOK, OutputMatchesReference, ResetRewindsEveryCursor | Every plan returns the reference rows and graph, the seventeen WHERE plans and five LOAD CSV plans included; Reset rewinds every cursor. About 2,400 states. |
| `plan_cursors_assertions` | violation | CursorAssertionsHold | Findings 3 and 4. |
| `plan_cursors_divergent` | violation | OutputMatchesReference | Findings 5, 6 and 7. The cfg has the two CREATE plans and the four divergent WHERE plans; the trace shows the `NOT all(...)` plan. `Plans <- MCCreates` shows the CREATE traces. |
| `subgraph_accessor` | pass | ProjectionShrinksWithDb | Through every sequence of accessor calls, any of them refused by the storage, an element leaves `graph_` only in the call that deleted it from the database. About 52,000 states. |
| `session` | pass | TypeOK, DeadlineCoversRead, ReadTimesOut | Every read of a connected session is covered by a live timeout with a real deadline, and a client that stops answering a read is disconnected. |
| `session_silent_client` | violation | SilentClientDisconnected | Finding 8. |
| `worker_write` | violation | ResponsesIntact | Finding 9. |

### Findings

1. **A committed entry can be lost** (raft.cpp:162). A leader commits
   by the median of its trackers whatever the term of the entry there. s2
   leads term 1 and appends x; s1 leads term 2 and appends y; s2 leads term
   3, replicates x to s3 and commits it; s1 wins term 4 with s2's vote and
   leads with y at index 1. No client is answered in this trace: x's
   request was pending at s2 in term 1 and dropped when s2 was deposed, and
   s2 holds no request for x in term 3. What is lost is an entry that a
   leader's `committed_log_size` covered, not an acknowledged write
   (`AckedEntryOnQuorum` of `raft_client` is about those).
2. **A follower with a stale entry is never repaired** (raft.cpp:512).
   spec.md says the leader retries with an earlier offset; the code appends
   only when `req.last_log_index` equals the follower's log size and never
   lowers `confirmed_contiguous_index`, so under fair delivery the follower
   answers `success = false` forever.
3. **MERGE breaks its own assertion on the second unmatched row**
   (operator.cpp:206). `DistributedCreateNodeCursor::Reset` is empty, so the
   Once below the CREATE is not rewound; the second `merge_create` pull
   returns false against the `DMG_ASSERT` at :1757. FOREACH creates one
   vertex instead of one per element for the same reason. `MultiPlans = {}`
   in the cfg shows this trace alone.
4. **CREATE through PullMultiple aborts** (operator.cpp:265).
   `PlaceNodesOnTheMultiFrame` MG_ASSERTs a valid frame on every call, but
   pulling until no frame is valid always ends with a call whose input
   filled nothing. This is the trace the run prints.
5. **Every created row carries the first vertex** (operator.cpp:210).
   `PlaceNodeOnTheFrame` reads `primary_keys_[0]` of a vector that grows on
   every pull; `PlaceNodesOnTheMultiFrame` restarts its index at 0 on every
   call in the same way.
6. **A created edge is never returned** (operator.cpp:2506).
   `DistributedCreateExpandCursor::Pull` never writes the edge symbol.
7. **List quantifiers and EXTRACT depart from openCypher's null
   semantics** (eval.hpp:588, 617, 650, 682, 551).
   - `all(y IN [] WHERE ...)` is null in the code, so WHERE drops the
     row; openCypher makes it true.
   - ALL over results true and null is false, where openCypher gives
     null. So `NOT all(...)` keeps a row that openCypher drops.
   - SINGLE, ANY and NONE skip null results in the same way.
   - EXTRACT keeps a null element without evaluating its expression,
     so `coalesce(y, 0)` never applies.
8. **An SSL client that never handshakes is never disconnected**
   (session.hpp:258). The timer starts at `time_point::max()` and only
   `DoRead` moves it.

9. **The worker resends or drops response bytes on EAGAIN**
   (worker.hpp:78). The stream is non-blocking, so `write` returns -1
   when the send queue is full, and the loop adds that -1 to `sum` and
   `resp`. After two bytes of a three-byte response have gone out, a -1
   steps both back by one, and the next write sends byte 2 again. A -1 on
   a response's first write wraps `sum` to `SIZE_MAX`: the loop ends with
   nothing sent, and `resp` points before the string.

### Further checks

These configurations reproduce behaviours that no run in `PROJECT.json`
covers, each a one-line change of a cfg above:

- `CommitMonotonic` (raft.cpp:528) fails with MaxTerm 2, MaxLogLen 1,
  MaxInFlight 3: a new leader's first heartbeat carries `leader_commit = 0`.
- `SingleEntryOnSuccess` (raft.cpp:628) fails in `MCSimRaftClient` with
  MaxTerm 1, MaxLogLen 2, MaxRetries 2: a retried request is appended twice.
- `SameTermLeaderAssertionHolds` (raft.cpp:507) fails with `MCServer5`,
  MaxTerm 1, MaxLogLen 0, MaxInFlight 6: a follower that voted for a
  losing candidate meets the winner of the same term, whose AppendRequest
  trips the `MG_ASSERT`. With three servers a losing candidate's voter
  cannot meet a same-term winner, so the property is not in `raft_safety`.
- `LiveBlocksDisjoint` fails with `UseAfterMove = TRUE`: a moved-from
  `MonotonicBufferResource` still holds its initial buffer (memory.cpp:53).
- `ResetRewindsEveryCursor` fails when `ResettablePlans` also holds
  `MCCsvPlans`: `LoadCsvCursor::Reset` does not rewind the reader
  (operator.cpp:2388).
- `GraphOutEdgesAgree` (db_accessor.cpp:84) fails in
  `MCSubgraphAccessor` in three steps: expand `v1`, expand the self-loop
  `e2`, `ChangeEdgeFrom(e2, v1)`. `graph_` still holds `e2`'s accessor with
  `from_vertex_` = `v2`, so `Graph::OutEdges(v2)` reports `e2` and
  `Graph::OutEdges(v1)` does not, while the database moved it to `v1`.
- `NoExecuteWhileDown` and `WsSingleClose` in `Session.tla` state the
  hazards of session.hpp:374 and :171.

## 4. Not modelled

- The legacy `GraphDbAccessor` and `VertexAccessor` labels
  (`src/database/graph_db_accessor.cpp`, `src/storage/vertex_accessor.cpp`):
  every operation goes through mvcc `VersionList`s, `SwitchNew` and
  `update()`, none of which is in the repository. So what a removal or a
  label change does to other transactions' views cannot be read off the
  code.
- In the subgraph accessor: the name-translation forwarders and `Graph`'s
  copy and move constructors, which change no state of the projection.
- In the evaluator: the labels test and lookups and subscripts of
  vertices and edges (the plans' label and key filters stand for them);
  arithmetic other than `+`; comparisons other than `=`, `<>` and `<`
  (strings are compared only for equality); functions, parameters, regex matching and temporal values.
- `PoolResource2` and `NullMemoryResource`: the first's pools are declared
  outside the excerpt; the second only throws.
- The Delete, Set, Remove, ConstructNamedPath and ScanAllById cursors:
  their Pull returns false and does nothing, as the distributed engine
  has not implemented them. Accumulate (its MakeCursor throws),
  OutputTableStream and CallProcedure are also left out, as are property
  values on vertices and `csv::Reader`'s parsing (not under `src/`).
- `CSVImporter` (`src/import/csv_import.hpp`): it is built on
  `BaseImporter`, the fillers and the legacy vertex accessors, none of
  which is under `src/`.
- Resetting a plan run through PullMultiple: no operator in `src/` does it.
  The scan's Reset keeps `own_multi_frames_`, which would matter only to
  such a caller.
- Client liveness of the Raft simulation (30 tries within the simulated
  time, raft.cpp:647): time is abstracted, and with a budget of a few
  attempts running out is always possible.
- Declarations, serialization, counters and construction code (§1.2).
