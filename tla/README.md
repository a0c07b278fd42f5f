# Orbs virtual chain: a TLA+ verification project

orbs-spec is the normative description of the Orbs node: its services are given
as handlers in pseudo-code (`src/vchain-architecture/`), their messages and
interfaces as `.proto` files (`src/interfaces/`), with a few hand-written
programs (`src/types/additional-go`, `src/version-release/deploy.sh`) and
generated Go types (`src/types/go`). The handlers are the program this project
models: each is an ordered list of checks with early discards, state updates,
calls and messages, and a node implements them line by line.

Contents: [Inventory](#inventory) · [Modules](#modules) ·
[How the model corresponds to the code](#how-the-model-corresponds-to-the-code) ·
[Runs](#runs) · [Where the code breaks its own claims](#where-the-code-breaks-its-own-claims) ·
[Other behaviours of note](#other-behaviours-of-note) · [Proofs](#proofs) ·
[Not modelled](#not-modelled) · [Plan](#plan)

## Inventory

Paths are relative to `src/vchain-architecture/` unless they start with `src/`.

| Component | State | Operations | Talks to | Hard behaviour | What makes it correct |
|---|---|---|---|---|---|
| Lean Helix consensus (`consensus-algorithms/lean-helix.md`) | term, view, message log, candidate block, prepared proof, flags; log and most of the state persistent | OnNewConsensusRound, On{PrePrepare, Prepare, Commit, ViewChange, NewView}Received, OnTimeOut, OnInit, Acknowledge…Consensus | other nodes by gossip; ConsensusContext for blocks; BlockStorage to commit | late, lost, reordered messages; timeouts racing quorums; restarts that lose part of the state; block sync racing the term | one block per height; a chosen block survives view changes; one message of a kind per view; the term follows storage; progress |
| BlockStorage (`services/block-storage.md`) | blocks by height, last committed block | CommitBlock, ValidateBlockForCommit, inter node sync, intra node sync (twice), block tracker getters, receipt queries | consensus (both ways), TransactionPool, StateStorage, other BlockStorages | sync racing commit; sessions that break off; waits that must be woken | no gap, no replacement; every service gets every block once and in order |
| Consensus interface (`services/consensus-algo.md`) | none of its own | HandleBlockConsensus (verify, update), VerifyBlockConsensus | BlockStorage, ConsensusContext | verification against the previous block | only blocks with a quorum proof are accepted |
| Benchmark consensus (`consensus-algorithms/benchmark-consensus.md`) | last committed block, leader's voters | leader round, OnCommitReceived, OnCommittedReceived | BlockStorage, gossip | retries, validators behind or ahead | validators hold a prefix of the leader |
| TransactionPool (`services/transaction-pool.md`) | pending pool, committed pool, last committed block | AddNewTransaction, OnForwardedTransactions, GetTransactionsForOrdering, ValidateTransactionsForOrdering, CommitTransactionsReceipts, expiry | VirtualMachine, PublicApi, gossip, BlockStorage | two clocks of expiry; duplicate checks that are not atomic with the addition | a transaction is committed once; the gateway is told once |
| StateStorage (`services/state-storage.md`) | snapshots by height | CommitStateDiff, ReadKeys, GetStateHash | BlockStorage, VirtualMachine | reads at a height while it is committed or evicted | a read sees exactly its height |
| ConsensusContext (`services/consensus-context.md`) | none | RequestNew…Block, Validate…Block, RequestValidationCommittee | TransactionPool, VirtualMachine, StateStorage | a block is built while its height gets committed | a proposed block validates everywhere |
| VirtualMachine, Processor (`services/virtual-machine.md`, `processor.md`) | transient state of a transaction and of a batch, service stack | ProcessTransactionSet, ProcessQuery, SdkCall | StateStorage, Processor | rollback of one transaction in a batch | a failed transaction leaves nothing in the diff |
| PublicApi (`services/public-api.md`) | waiting requests | SendTransaction, GetTransactionStatus, RunQuery, HandleTransactionResults, HandleTransactionError | TransactionPool, VirtualMachine, BlockStorage | the answer comes before the wait | every request is answered |
| Gossip (`services/gossip.md`) | sockets, subscriptions | SendMessage, OnMessageReceived | everything | no retransmission | delivers only what was sent |
| Crosschain connector, Vault | none | one read-only call; sign | – | – | pure I/O |
| Management service, Boyar, Ethereum writer, rollout (`src/node-architecture`, `src/version-release`) | cached events; running services; sync status; deploy options | polling loops, state machines, `deploy.sh` | Ethereum, Docker | fallback timeouts, stale status | upgrades never stop a quorum |
| Go code (`src/types`) | none | argument arrays from and to native values; generated readers and builders; mocks | contracts, SDKs | packed with and without header; partial result with an error | encoding and decoding agree |

`PROJECT.json` lists every component with its status and every hazard with the
line where it bites.

## Modules

| Module | What it is |
|---|---|
| **Consensus** | |
| `LeanHelix` | the algorithm with CommitBlock and inter node sync: state, one action per handler, specifications |
| `LeanHelixProperties` | type invariant, safety and action properties, progress, and the claims that fail |
| `LeanHelixInvariant` | `SafetyInv`, the inductive invariant behind agreement |
| `SingleLedger` | abstract specification: one ledger, every node stores a prefix |
| `LeanHelixLedger` | the refinement mapping from `LeanHelix` to `SingleLedger` |
| `MCLeanHelix` | four nodes for TLC, symmetry, state constraints |
| `LeanHelixFork` | one schedule of `LeanHelix` steps that forks the chain |
| `LeanHelixProof`, `LeanHelixAgreementProof` | types, what each update keeps of `SafetyInv`; every handler keeps it, agreement, terms and storage, the refinement |
| `BenchmarkConsensus`, `BenchmarkConsensusProof` | the leader's rounds and the other nodes over block sync; its safety, and that it implements `SingleLedger`, proved |
| `MCBenchmarkConsensus` | a leader and two nodes |
| **Block sync** | |
| `InterNodeSync` | sessions between BlockStorages: requests, offers, chunks, responses; a part of `BenchmarkConsensus` |
| `IntraNodeSync`, `IntraNodeSyncProof` | one node's BlockStorage pushing blocks to StateStorage and TransactionPool, reads of the state, restarts; types, order, sleeping flows and exact reads proved |
| **Transactions** | |
| `TransactionPool` | the pools of all nodes, proposals and blocks, clocks and restarts |
| `PublicApi`, `PublicApiProof` | one client's calls over one node's pool and BlockStorage; no transaction twice and what the client is told is true, proved |
| `MCPublicApi` | two nodes and a transaction stamped ahead of time |
| **Execution** | |
| `VirtualMachine` | executions of blocks and queries in single SDK calls over StateStorage, with proposing and validating results |
| `SerialExecution` | the reference: a transaction in one go, a block's one after the other; the properties |
| `SerialExecutionProof`, `SerialResultsProof` | types, and that every block and answer is an outcome of one execution; that this execution is the reference's, proved |
| `MCVirtualMachine` | a native contract, a deployed one that calls it, three transaction sets |
| **Messages of the Go types** | |
| `Membuffers` | the external membuffers runtime as the generated code uses it |
| `ProtocolMessages`, `ClientMessages`, `GossipMessages` | the reader's scheme and the builder's writes of every message |
| `MessageReaders` | all messages by name; the getters, and what a builder's values mean to them |
| `ArgumentArrays` | native values to packed arguments and back |
| `MessageBuffers`, `MessageBuffersProof` | a program that builds, wraps and overwrites messages; its properties, proved |
| `MCMessageBuffers` | a sample of every message, and its variants |

`PublicApi` composes itself with `TransactionPool`, `BenchmarkConsensus` with
`InterNodeSync` and, as does `LeanHelix`, with `SingleLedger` by refinement. The
remaining modules meet at a call whose other side they keep to what it
promises: `CommitBlock` (`LeanHelix`, `IntraNodeSync`), consensus on a proposal
(`TransactionPool`, `VirtualMachine`: enough approvals make it the next block, or
it is given up), and `ReadKeys` (`IntraNodeSync` waits for a height,
`VirtualMachine` asks for one that is there or fails).

## How the model corresponds to the code

**State.** `height`, `view`, `log`, `candidate` (block and hash), `prepared`,
`preparedProof` and `newViewTriggered` are the `my_state` variables and the
Messages Log of lean-helix.md. `chain[n]` is node n's block database up to
`last_committed_block`; `panicked` are the nodes stopped by a panic in
`CommitBlock`. `msgs` holds every message ever sent.

**Messages.** A message is a record of the fields the handlers read. A block is
its hash (`Block` is a set of contents), signatures are unforgeable: a proof is
the set of signed headers. Nothing is removed from `msgs`, so a message may be
delivered late, twice, in any order or never; that is also what the Received
Messages Cache gives for messages of a future height. A future height window
that drops such a message is one that is never delivered.

**Actions.** `ProposeBlock`, `OnPrePrepareReceived`, `OnPrepareReceived`,
`OnCommitReceived`, `OnTimeOut`, `OnViewChangeReceived`, `OnNewViewReceived`,
`ValidateBlockForCommit`, `CommitSyncedBlock` and `Restart` are the handlers. Their discards are conjuncts.
What a handler ends with is part of the action: `AcceptPrePrepare` answers with
PREPARE and goes on to `CheckIfPrepared`, which may run `OnPrepared` (COMMIT,
proof), which may run `OnCommittedLocally` (proof, `CommitBlock`,
`InitNextRound`). The text distinguishes `message.view` from `my_state.view`,
and so does the model: `v` is the message's view, `w` the node's. Several of the
findings below come from that difference.

**Details kept because they matter.** `InitNextRound` resets what lines 85-90
reset, and not Prepared, NewViewTriggered or Candidate_block_hash. `IsPrepared`
asks for exactly 2f PREPAREs. `CommitBlock` compares the whole block with its
proof. Candidate_block is cleared while its hash is kept, hence two fields.
When several VIEW_CHANGEs carry the highest view the leader may take any.
A synchronized block takes two calls, and so two actions:
`ValidateBlockForCommit` tells the consensus algorithm (VERIFY_AND_UPDATE, which
moves the term on), `CommitSyncedBlock` stores the block, and `validated` holds it
in between, while every handler may run. `ConsensusContext` answers the leader
once a round at any time, after timeouts too (`ProposeBlock`); the answer to a
request of an earlier round names another height and is refused
(consensus-context.md:94, :128).

**Abstracted.** `ConsensusContext` answers a request with any block or never;
block content validation succeeds (every proposal comes from a node that
follows the algorithm). The random seed and the committee lookup are a fixed
`OrderedCommittee`: all nodes take part in every term, as the design notes say.
The two headers of a block pair are one block. Timers are a step that may happen
any time.  The chunks and sessions of inter node sync are reduced to their
effect, the next block of some node's chain, validated and then stored. Nodes are
up or down (`Live`), those that consensus messages reach are `Connected`, none is
Byzantine.

**Quorums.** `QuorumAssumption`: f ≥ 1 and fewer than 2(2f+1) nodes, the weakest
condition under which two sets of 2f+1 nodes meet. It covers the usual n = 3f+1.
Line 28 gives the default of f as "2/3 Committee_size + 1", which cannot be
meant; the model takes f as given.

### Intra node sync and StateStorage

`IntraNodeSync` looks at one node. `LeanHelix` and it meet in `CommitBlock`:
`LeanHelix` models its checks (discard, panic), `IntraNodeSync` what happens to
a block that passes them and to the flows it wakes up.

- A block is its state diff, a function from some of the keys to values or
  `Null`; the state is a function from every key, where `Null` is "not stored".
  One contract's keys stand for all contracts, and a merkle root for the state
  it authenticates, so `GetStateHash` is the same handler as `ReadKeys`.
- `flow` and `next` are the control state and the remembered next desired height
  of the two instances of `Intra Node Block Sync`. "Remember [it] according to
  the call response" names no other source, so a flow that (re)starts begins
  with height 1 and learns the height from the first answer.
- "If `last_committed_block` is lower than the service's next desired block height,
  block and wait" is two actions, `Check` and `Wait`, and `CommitBlock` may come
  between. Its wake-up is for a flow that "is blocking and waiting" (line 108). The
  constant `WakeUpKept` says whether a wake-up is also kept for a flow that has
  checked and does not wait yet, as a semaphore or a lock around both would. Without
  it, the text read literally, the flow oversleeps: see
  [below](#where-the-code-breaks-its-own-claims).
- `CommitInService` is `CommitStateDiff` and the height check of
  `CommitTransactionsReceipts`: both commit the next height only, else discard,
  and both answer the next desired height. The recommended shortcut by which
  the pool skips blocks of a missed day is optional and not modelled.
- `snapshot` holds the current state and those of the last `History` heights.
- A reader's call waits, is answered or fails; `StopWaiting` and `TimeOut`
  compete as the commit and the grace timer do. A reader woken late may find its
  height already evicted, and fails.
- `Restart` keeps the block database ("needs to be persistent") and the data of
  `Persistent` services; for StateStorage persistence is optional in the text,
  and the module covers both.

### Inter node sync and benchmark consensus

- A synchronization process is a record: the range still to come, the source,
  and the nodes a request is on its way to. Offers and the response on their way
  to a node are kept by receiver. A response is handled block by block, and each
  block in two steps: `ValidateSyncedBlock` with the algorithm's
  `HandleBlockConsensus` (VERIFY_AND_UPDATE), then `CommitSyncedBlock`; or
  `DiscardSyncedBlock` when it is not the next one. COMMITs are handled, consensus
  commits and nodes crash between any two of these steps.
- The text allows no more than one process at a time; a process nothing can
  come of any more (`GiveUpStalledSession`) makes room for the next one after
  the interval without commits, an early timeout is a fault (`GiveUpSession`).
- Blocks come in ascending order as services/block-storage.md:69 says;
  flows/inter-node-sync.md:29 has them in reverse, with validation of the
  newest block's proof only. The service's own text is modelled.
- `lastCommitted` is the algorithm's height, `chain` BlockStorage's. They part
  at a restart, which loses the former ("fake empty genesis block"), and meet
  again when pre-synchronization tells the last persistent block (UPDATE_ONLY)
  or a synchronized block is told (VERIFY_AND_UPDATE). Between the two calls for a
  synchronized block the algorithm is the one ahead, by that block.
- The leader broadcasts its COMMIT once again when it is `Stuck`: replies are
  missing, or its proposals fail because BlockStorage has the height already
  (benchmark-consensus.md:35-36, :44-45).
- benchmark-consensus.md:44 says that CommitBlock fails when it finds another
  block at the height, block-storage.md:102 that it panics. `CommitBlock` is not
  enabled then, and the node goes on: a panic is not fatal here, as
  benchmark-consensus.md:44-48 describes a node that lives on with failing calls.
  A COMMIT for a block beyond the next one of BlockStorage fails in the same way
  (line 103), without a reply: that happens between the two calls of block sync.
- Between two nodes one COMMIT, one COMMITTED and one response are on their way.
  Newer messages replace older ones; the leader repeats its COMMIT,
  so this loses no behaviour but a pile of equal or outdated messages.
- `MaxSyncing` bounds the nodes that synchronize at the same time. The text bounds
  it at each node only, to one process. The run has 1, the theorems any number.

### TransactionPool and PublicApi

- A transaction is a model value with the client's timestamp. `pending[n]` maps
  it to the gateway it was added by. The pool's size is in bytes and it holds
  other transactions too, so it may be full at any addition (`full`).
- `AddNewTransaction` is three steps: the checks, the answer of the virtual
  machine, the addition with the broadcast. A forwarded batch is one addition
  without those checks, at any later time, again, or never.
- `GetTransactionsForOrdering` drops what fails its checks. It may stop when the
  block is full, and then has not looked at the rest.
- Consensus is what it promises: a proposal with `Quorum` approvals becomes the
  next block, or is given up. A validator approves only if it follows the chain.
- The committed pool forgets by block time, the pending pool by the clock. The
  constant `IgnoreAge` stands for the window in line 177 ("older than the
  expiration window"): the pools are correct with `Window + FutureGrace` and not
  with `Window`, see below. Every other definition is independent of it.
- `PublicApi` follows one client at one gateway; every other client is a step of
  the pool. Answers are statuses: `call` is where the call is, or its answer.
- `Handle` is the handler of results and errors: it reaches a client that waits,
  and nobody else ("Wait" comes after "Added", a result in between is lost).

### VirtualMachine, Processor and ConsensusContext

- A contract method is a list of SDK calls with one register, `acc`: the value
  read last, written, required, returned. What else contract code does is
  deterministic computation of its own.
- `context` holds, for every node, the execution of a block and one of a query.
  Each SDK call is a step, so commits to StateStorage, other executions and
  consensus come between them. The service stack's frames are the pending
  method calls, the running one last; the transaction and batch transient states
  are functions on the variables written so far.
- Reads below the transient states are those of the block's height − 1, or of
  `GetLastCommittedBlockInfo` for a query. StateStorage has the heights of the
  last `History` blocks; a read of another one ends the execution without a
  result (`ReadFails`; `IntraNodeSync` models the wait before that). `StateAt` a
  height gives a variable the value of the last block that wrote it.
- Interpretations where the text leaves a choice: an SDK call that fails fails
  the method and with it the transaction; the auto deploy is a call of its own
  whose writes reach the batch before the transaction's context is allocated, so
  a transaction that then fails leaves the deployment; the caller of a nested
  method has the permission of its own contract (`System` for `_Deployments`
  only); a nested call finds native code without deployment, as `CallMethod`
  does not call `getInfo`, and other code where `deployService` wrote it; a
  state diff has the variables whose value changed (line 104).
- Events: virtual-machine.md:40 says they are persisted even in transactions that
  failed, lines 98-100 add them to the receipts of successful ones only. The
  constant `FailedEmit` chooses; the run has the first, the theorems hold of both.
  `Told` leaves the events of failed transactions out of what `SerialResults` and
  `QueriesOneHeight` compare, so neither claims one statement against the other.
  That all nodes agree on them, `ValidatesEverywhere` does check.
- `SerialExecution` is not code: it says what the code is to compute. `Run` evaluates
  a method to its end in one go, on one state, without transient states or a stack;
  `Serial` performs a block's transactions one after the other. `Run` is a function
  of the SDK calls it may nest, so that it can be reasoned about; beyond `Fuel` the
  reference says nothing (`Unfinished`).
- Contract code is a constant. `ContractAssumption` says that it is code of the
  contract's own variables, and that no contract is called "sender", which stands
  for the transaction's sender. `InitAssumption` has every `_init` count that it ran,
  in the variable `Initialized` that nothing else writes, which is how a run of it
  shows in the state; and a contract does not call its own `_init`, which it
  could, having its own permission.
- `ProposeResults` and `CompareResults` are the second halves of
  `RequestNewResultsBlock` and `ValidateResultsBlock`; the hash of the state
  before the block is that state itself.

### Messages of the Go types

- A buffer is a sequence of cells, one per primitive write: scalars, size
  headers, union indexes. The reader's scheme (`TransactionReader`'s field types
  and getters) and the builder's `Write` are translated separately, position by
  position, so that a difference between the two shows.
- `Membuffers` is external: what the generated code relies on. Byte counts and
  padding are left out.
- A place (`MessageReaders`) is what a getter gives: a type, cells and where they
  are. `Part` is the getter of a field, an array's element or a union's
  alternative; it walks over the parts before it, as the runtime does. A path is
  a sequence of such numbers, `Walk` the getters along it, `Observe` what is read
  there: a number, bytes, the length of an array, the index of a union, and of a
  message whether it is empty.
- What a buffer should read as are its leaves, a function from paths to what is
  observed there. `Meaning` computes them of a builder's record by the reader's
  field names, and never looks at positions.
- A nested builder is its cells and its leaves, so that a raw slice in it
  (`XBuilderFromRaw`) and values of the program's own are handled alike. `Nil` is
  the nil pointer, which writes an empty message.
- `MessageBuffers` runs a program over the messages: `Build` from fields,
  `BuildWithArguments` with packed natives, `Wrap` the raw slice of any message in
  a buffer into any builder that takes it (the slice is shared until
  `BuildWrapped` copies it), `MutateField` in place. Which builders a program makes
  (`Given`, `Around`), how deep it nests them (`Depth`) and what it overwrites are
  constants; only records that have the Go types of their fields are used (`IsBuilder`).
- `MutateX` is given values of the old size, as the generated code requires.

## Runs

Every bound that is no parameter of the code has "bound" in its comment. Where
bounds stop the system (the last height, moment or message), deadlock is not
checked; it is in `IntraNodeSync` and `VirtualMachine`.

| Run | Specification, bounds | Checks |
|---|---|---|
| `LeanHelixTimely` | TimelySpec, four nodes up, views 0-1, one term, constraint `TwoViews` | `TypeOK`, `Agreement`, `ChosenBlockStays`, `OneMessagePerView`, `OneProposalPerView`, `CommitterProvesIt`, `SafetyInv`, `OnlyForward` |
| `LeanHelixLedger` | FairSpec, four nodes up of which gossip reaches three, two terms, view 0 | `TermFollowsStorage`, `ImplementsLedger`, `OnlyForward`, `Progress` |
| `BenchmarkConsensus` | FairSpec, a leader and two nodes, quorum 1, two blocks, batches of 2, chunks of 1, one fault, one node synchronizing at a time | `TypeOK`, `Prefix`, `QuorumFollows`, `ImplementsLedger`, `Progress` |
| `IntraNodeSync` | FairSpec, two services (StateStorage persistent, TransactionPool not), 4 blocks, one key, one reader, History 1, Grace 1, one restart, wake-ups kept | `SyncTypeOK`, `InOrder`, `SleepsOnlyInSync`, `ReadsExact`, `CatchesUp` |
| `PublicApi` | ApiSpec, two nodes, one transaction stamped 1, window 1, future grace 1, query grace 0, moments 0-3, two blocks | `ApiTypeOK`, `OnlyOnce`, `RemembersLive`, `CommittedIsStored`, `QueryFinds`, `GatewayAnswers` |
| `VirtualMachine` | Spec, a leader and a validator that answers queries, two contracts, three transaction sets, two queries, three values, History 1, two blocks, failed transactions emit events | `VMTypeOK`, `SerialResults`, `ValidatesEverywhere`, `QueriesOneHeight`, `InitializedOnce` |
| `MessageBuffers` | Spec, all 44 messages with builders nested up to four deep, two buffers, one overwritten field in a buffer of up to ten cells | `ReadsBack`, `Canonical`, `ArgumentsArrive`, `OriginalForm` |

The runs of `LeanHelix` take four nodes and f = 1, so a quorum is three, and two
blocks. `n1` … `n4` lead views 0 … 3. Blocks are symmetric where no liveness is
checked.

`LeanHelixTimely` has two interesting cases of view changes. In `TwoQuorums` view 0
runs among n1, n2, n3 and view 1 among n2, n3, n4, so the quorums differ and n4
knows nothing of view 0 but what VIEW_CHANGEs prove. n4 times out at once, n1 keeps
to view 0, and the COMMITs of view 0 reach n1 alone, since view 1 could not complete
if n2 or n3 committed before it. In `DeafLeader` n4 takes no part in view 0 and
times out at once, n1 hears of nobody and times out too, and no COMMIT arrives.
Without the constraint the state space with four nodes and two views is beyond
exhaustive search. Two views are enough to carry a block over once, two blocks to
disagree; starting a view again after a later one needs more views, and a term
that block sync ends needs more terms. The theorems below remove these bounds.

`LeanHelixLedger` needs two terms for a synced block to move a node into a term while
the storage waits for it, with the steps of either term in between. Gossip reaches
exactly 2f+1 nodes, so all nodes that commit a block do so with the same COMMITs, and
`CommitBlock` never finds other bytes: were more connected, the panic of
`LeanHelixPanic` could stop one first, and `Progress` would not hold. The fourth node
gets every block from block sync alone. PREPAREs that come before their block are
exercised; a quorum of COMMITs before it (lean-helix.md:160) is not, since each of
the three nodes is needed for a quorum. There are no timeouts: without them no
PRE_PREPARE is late, and the refinement is not affected by the fork below.

In `IntraNodeSync` four blocks with a history of one let a reader's height be
future, current, past and evicted, within and beyond the grace distance, and one
restart makes a flow replay blocks both to a service that has them and to one
that lost them. Keys and readers do not affect each other, so one of each is
enough; a key may be written, deleted or left alone by each block. The chain may
stop growing, but a reader may always call: deadlock is checked.

`BenchmarkConsensus`: two blocks and a batch of two let a session carry several
chunks, and one fault is a lost message of either kind, an early timeout or a
restart of any node at any point; in particular the leader's, which makes it
propose above a database that has the block. With three nodes there are two
sources, of which one may fall short of the batch. A quorum of one of two leaves
a node behind for block sync. With two blocks only the first part of `QuorumFollows`
can fail, its second part needs three. One node synchronizes at a time
(`MaxSyncing`), with sessions of several at once the run does not finish in minutes.
The theorems have neither bound.

`PublicApi`: the timestamp is one moment ahead of the first block, so the
transaction expires at 3, is ahead at −1 and lives through blocks that are
earlier and later than it; restarts are unbounded, clocks pass the window, and
two blocks are what it takes to commit twice. A larger window only adds moments
at which nothing new is decided. As in the text (5 seconds and 3 minutes),
`QueryGrace` is smaller than `FutureGrace`, here by the one moment that makes a
difference; `Receipts` is the same instance.

`VirtualMachine`: the transaction sets make a method fail by an event too many,
by a missing permission and by a requirement, nested and not, after writes and
after an auto deploy; a contract is deployed by transaction and automatically;
the same contract is called twice in a block. With History 1 and two blocks a
height is current, past and gone while an execution runs. `Fuel` 20 is more than
the reference needs for any of this code, whatever is deployed: TLC evaluates
`FuelSuffices` before the run. Quorum 1 lets a block
be committed while the other node still validates it, and a second proposal of
the leader start.

`MessageBuffers`: of every message there is a sample, in which all fields differ,
and its variants, in which one field is zero, empty, nil or, for a union, another
alternative. Nested builders of depth 4 reach from a block response to the
arguments of its transactions. Two buffers are enough for a message to be wrapped raw
into every field that takes it, before or after an overwrite of either. Fields of
buffers of more than ten cells are read and wrapped but not overwritten, which would
only multiply the states. The theorems remove these bounds.

**Fairness** of consensus (`Fairness` of `LeanHelix`, for `Progress` only): each node
that is up goes on (`NodeStep`): as long as it has a call to complete, a message to
handle or a block to get from block sync, it takes one of these steps. There are
finitely many of each kind in a term, so none waits for ever; a message that reaches
a node stays deliverable, gossip runs over TCP, and BlockStorage's sync is an
"endless loop" triggered when no commit comes. Timeouts are not fair, and `Progress` is
checked with none (MaxView 0): the timer doubles with every view, so that a
round without timeouts is what the algorithm relies on eventually. With
timeouts progress does not hold, see [below](#other-behaviours-of-note).

`Fairness` of `IntraNodeSync`: the flows are endless loops, so `Check`, `Wait` and
`Push` are weakly fair, and a waiting caller ends by commit or timer. Commits, reads
and restarts are not fair; restarts are bounded by `MaxRestarts`.

`Fairness` of `BenchmarkConsensus`: the leader's timer and its next round, the
handlers of messages that are not lost, and the sync loop, which is endless, are
weakly fair. Faults are not, and bounded by `MaxFaults`.

`ApiFairness`: time goes on, and the pool's timer for expired transactions fires
at the gateway. Gossip, consensus and PublicApi's own timeout are not fair: the
client is answered without them.

## Where the code breaks its own claims

Each of these runs finds a behaviour of the handlers that contradicts a sentence
of the repository (`findings` in PROJECT.json quotes it).

| Run | Behaviour |
|---|---|
| `LeanHelixFork` (`Agreement`) | A PRE_PREPARE of view 0 that arrives after timeouts is accepted (lean-helix.md:123 tests only the message's view); the node's PREPARE carries its current view and its candidate changes under a saved proof (so `OneMessagePerView` fails under `Spec` too). A schedule of 40 steps over four views, no node faulty, ends in two different blocks at height 1. |
| `LeanHelixPanic` (`NoPanic`) | The same block with other COMMIT signatures, once from sync and once from the term, panics in `CommitBlock`. |
| `IntraNodeSyncWakeUp` (`SleepsOnlyInSync`) | `CommitBlock` wakes up a flow that "is blocking and waiting" (block-storage.md:108). A block committed after the flow's check and before its wait (line 86) wakes nobody: the flow sleeps while its service is behind, until the next block, against line 92. The passing run and the theorem have `WakeUpKept`. |
| `Receipts` (`ReceiptFound`) | The receipt query starts 5 seconds before the transaction's timestamp (block-storage.md:154), the pool takes transactions up to 3 minutes ahead of their block (transaction-pool.md:68, :128): between the two a stored transaction is answered NO_RECORD_FOUND, though the query is to go over all the blocks where it could be (line 153). `QueryFinds` says what is left: a query misses blocks stamped before its window, and no others. |
| `TransactionPoolReplay` (`OnlyOnce`) | The pool ignores blocks older than the expiration window (transaction-pool.md:177), but a block may hold transactions up to 3 minutes younger than itself: after a restart of the pools such a transaction is neither expired nor known, and goes into a second block. With the text's times this takes a network whose nodes restart 30 to 33 minutes after the block, with no block since that makes the pools take it. |

The fork is too deep for breadth-first search with four nodes, so
`LeanHelixFork` walks along `Schedule`: each of its steps is a step of `Next`,
restricted to the node and the message the schedule names. `TransactionPoolReplay`
is `PublicApi` with `IgnoreAge` equal to `Window`; the passing run and the
theorems have `Window + FutureGrace`.

## Other behaviours of note

Met while modelling. The models have them; the properties are stated so as to
be true of them, and no run is spent on each.

- lean-helix.md:66, :303: Prepared is not persistent. After a restart the
  VIEW_CHANGE of a node that sent a COMMIT has no proof, so `CommitterProvesIt`
  fails under `RestartSpec`. Under `Spec` it fails by a late PRE_PREPARE, as in the
  schedule of `LeanHelixFork`: the candidate's hash changes under a saved proof, and
  the VIEW_CHANGE's proof is not valid. It is stated of `TimelySpec`.
- block-storage.md:72-73: the term is told of a synced block before it is stored. A
  restart between the two leaves a term two ahead of the storage with no block on
  its way, so `TermFollowsStorage` is a property of `Spec` and not of `RestartSpec`.
- block-storage.md:103: a term that commits block h + 1 in that moment, before block
  sync has stored h, panics over the gap.
- lean-helix.md:352: a node that accepts a NEW_VIEW takes its block as the candidate
  and keeps the proof it has. If it times out before it is prepared again, its
  VIEW_CHANGE pairs the old proof with the new candidate, and where the two differ
  the next leader discards it. That is safe, and costs the view a vote.
- lean-helix.md:93-106: an answer of ConsensusContext that comes after the leader
  timed out makes it propose in view 0 all the same. `Spec` has it, `TimelySpec` not.
- benchmark-consensus.md:12, :30: COMMITTED tells the leader that a node is
  synchronized. A COMMIT handled between the two calls of block sync is answered with
  a block that is not stored yet, and which a crash then keeps from being stored. So
  the leader may be two blocks ahead of a quorum's storage (`QuorumFollows`).
- lean-helix.md:361: NewViewTriggered is not persistent either: a restarted leader
  may start its view twice.
- lean-helix.md:310: the leader logs its own VIEW_CHANGE without the quorum check.
  If it is the one that completes the quorum, nobody starts the view.
- lean-helix.md:160: a block that arrives after the COMMITs for it is not
  committed by the term, only by sync.
- lean-helix.md:260: the block proof names my_state.View with the signatures of
  the COMMITs' view; after a timeout these differ, and no other node accepts the
  proof, although line 16 accepts COMMITs of earlier views.
- transaction-pool.md:97: a forwarded batch that is late puts a committed
  transaction back into the pending pool. It is not ordered again, but its status
  is PENDING until it expires or is proposed and dropped.
- transaction-pool.md:79: the first gateway of a transaction is kept, so the
  client of a second gateway is never told and times out.
- public-api.md:65-67: a transaction committed between its addition and the wait
  is only reported by the timeout.
- transaction-pool.md:134: an error tells the client that its transaction was
  refused although an earlier proposal that holds it may still be committed.
- virtual-machine.md:40 has events emitted and persisted even in transactions that
  failed, lines 98-100 put the events of successful ones only into receipts.
- argument_array_builder.go: where `ToNatives` finds an argument of no supported type it
  returns those before it and an error; `ToNative` of the model has a marker in its
  place. No builder of the module makes such an argument.
- contracts.mb.go:153: the MutateX of a union alternative drops the error of the setter.
- A nil nested builder and one of zero values give the same number in every
  getter of theirs, yet their encodings differ. A reader can tell: the nil one is
  an empty message. `Canonical` counts that as part of what is read.

## Proofs

`TypeOK` is inductive. `LeanHelixProof` proves it for every specification
without fairness, including restarts (`RestartTypeCorrect`, `TypeCorrect`,
`TimelyTypeCorrect`).

`Agreement` is not inductive, and by `LeanHelixFork` it is not true of `Spec`.
The theorems are about `TimelySpec`, in which a PRE_PREPARE of view 0 is sent and
handled before its sender or receiver leaves view 0, or never; that is the check the text forgets
(an implementation gets it by discarding `message.view < my_state.view`, as the
other handlers do). Restarts are excluded because they lose Prepared. Neither
restriction is hidden in a bound: they are the two specifications
`TimelySpec` and `RestartSpec`, and the runs above show what happens otherwise.

`SafetyInv` (`LeanHelixInvariant`) records why a view change is safe:

1. a node that sent a COMMIT in a view keeps a proof of that view or a later one
   while it runs the term (`CommitInv`), so every later VIEW_CHANGE of it carries
   one (`ChangeOK` in `ChangeInv` and, for logged ones, `LogInv`);
2. a proof consists of PREPAREs that were sent (`ProofInv`, `ProofSent`), and a
   PREPARE is only sent for a proposal that is safe: for every earlier view there
   is a quorum of nodes that voted for no other block and never will
   (`PrepareInv`, `SafeAt`);
3. a view has one proposal, because its leader cannot make another one
   (`ProposerInv`, `ProposalInv`);
4. a stored block was chosen in some view by 2f+1 COMMITs (`ChainInv`);
5. what block sync holds between its two calls is stored by some node, and leaves
   out no height (`SyncInv`);
6. every proof a node keeps or sends is one `ValidatePreparedProof` accepts
   (`EvidenceInv`): no leader sends a PREPARE for its own proposal, and the candidate
   of a node that has seen its view's proposal is that block.

A NEW_VIEW takes the block of the highest proof of 2f+1 VIEW_CHANGEs. For the
views between that proof and the new one these 2f+1 nodes sent no COMMIT and
cannot any more; for the view of the proof there is one proposal; below it the
PREPAREs of the proof were safe. So the new proposal is safe. Two quorums
intersect, hence two chosen blocks of one height are equal.

It also shows that each kind of update (a node's log grows, it
enters a view, sends a message, stores a block) keeps each part;
`LeanHelixAgreementProof` goes through the handlers and concludes

- `TimelySafety`: `TimelySpec => []SafetyInv`,
- `TimelyAgreement`: `TimelySpec => []Agreement`,
- `TimelyChosenBlockStays`: `TimelySpec => []ChosenBlockStays`,
- `TimelyOneProposal`: `TimelySpec => []OneProposalPerView`, from 3,
- `TimelyCommitterProves`: `TimelySpec => []CommitterProvesIt`, from 1 and 6: the
  VIEW_CHANGE's proof is valid, and of the COMMIT's view only for its block,
- `TimelyOneMessage`: `TimelySpec => []OneMessagePerView`. PREPAREs and COMMITs
  of a view name its one proposal; a node leaves a view by timeout once and its
  leader starts it once, so VIEW_CHANGE and NEW_VIEW are sent once (`OneChange`),

for every committee, number of views, terms, blocks and set of nodes that are
up, from `QuorumAssumption`, `CommitteeAssumption`, `BoundsAssumption` and
`BlockAssumption` only.

The rest of `LeanHelixAgreementProof` follows the storage:

- `TermsFollowStorage`: `Spec => []TermFollowsStorage`, late PRE_PREPAREs included.
  The inductive invariant `FollowInv` adds that block sync holds at most one block
  and that the term has been told of it: then the block it stores is the one by
  which the term is ahead, whatever the term committed in between;
- `NodesGoForward`: `Spec => OnlyForward`;
- `TimelyImplementsLedger`: `TimelySpec => ImplementsLedger`. Only real blocks are
  proposed, proved and stored, never the empty candidate that `InitNextRound`
  leaves (`BlockInv`); some BlockStorage is as long as any other (`HasLongest`), and
  by `Agreement` all are prefixes of it. So a step that appends a block is `Learn`
  if a longer chain has the height, and else `Decide`.

`IntraNodeSyncProof` proves of `Spec`, for any services, blocks, keys, readers,
history and restarts, from `ServiceAssumption` and `ConfigAssumption`:

- `SyncTypeCorrect`: `SyncTypeOK`, which includes that exactly the heights of
  the history window have a snapshot;
- `ServicesInOrder`: `InOrder`;
- `FlowsSleepInSync`: `SleepsOnlyInSync`, under `WakeUpKept`, the condition the
  violating run shows to be needed. A flow that has checked and does not wait yet
  has nothing to push either (`ChecksHold`), since a commit in between sends it back
  to its check; and a flow's remembered height is never above the service's next one:
  pushing a block makes it equal, a restart lowers both, and an unequal push is
  discarded;
- `ReadsAreExact`: `ReadsExact`. It needs that every snapshot is what the blocks
  up to its height write, which uses `ServicesInOrder`.

`PublicApiProof` begins with `Spec` of `TransactionPool`, for any nodes,
transactions, timestamps, clocks, quorum and restarts, from `TimesAssumption` and
`SizesAssumption`:

- `PoolTypeCorrect`: `TypeOK`, with every pool behind its BlockStorage and that
  behind the chain;
- `PoolRemembers`: `RemembersLive`, and `ExecutedOnce`: `OnlyOnce`, both under
  `OldEnough` (`IgnoreAge >= Window + FutureGrace`), the condition the violating
  run shows to be needed.

The inductive invariant (`PoolInv`) adds that block times grow (`Ordered`), that no
block holds a transaction further ahead of it than the grace (`InGrace`), and that
a proposal is later than the chain and holds nothing the chain holds (`Fresh`). A
pool that follows the chain has each transaction of it that is not expired
(`RemembersLive`): the pool forgets only what the last block's time has expired,
and a block that is ignored is so old that, with the grace, all it holds has
expired by the clock. A proposal is later than both the last block and its
leader's clock, so what is expired for them is expired for it, and what is not is
remembered: `Fresh`, and with it `OnlyOnce`.

Then it composes: `ApiImplementsPool`, `ApiSpec => Spec` of
`TransactionPool`, makes the pool's theorems hold of the node with its clients. It
proves, from `CallAssumption` and the pool's assumptions,

- `ApiTypeCorrect`: `ApiTypeOK`;
- `CommittedAreStored`: `CommittedIsStored`. It needs that the committed pool holds
  nothing but what a block it was handed held (`FromBlocks`);
- `QueriesFind`: `QueryFinds`, for any graces. What BlockStorage stores after the
  query came in is above `since`, and of what it had before the query goes over all
  that is not stamped before its window;
- `WideQueriesFindAll`: `ReceiptFound`, under `WideEnough` (`QueryGrace >= FutureGrace`),
  which the text's values do not meet and `Receipts` shows to be needed: every block
  fits the transactions it holds in time (`Near`), so the window has it.

`BenchmarkConsensusProof` proves of `Spec` of `BenchmarkConsensus` with
`InterNodeSync`, for any nodes, blocks, heights, faults, batch and chunk, from
`LeaderAssumption` and `SyncAssumption`:

- `BenchmarkTypeCorrect`: `TypeOK`, in which a consensus algorithm is ahead of its
  BlockStorage only by the block that block sync is about to store;
- `StoragesArePrefixes`: `Prefix`;
- `QuorumIsClose`: `QuorumFollows`: what the leader counts on lacks its last block at
  most, and a quorum is at most two blocks behind;
- `BenchmarkImplementsLedger`: `ImplementsLedger`, so `SingleLedger` for every
  instance.

The inductive invariant (`BenchmarkInv`) adds that COMMITs and block sync responses
hold the leader's blocks at their heights (`MessagesInv`), that a session asks its
source for blocks the source has (`SessionInv`), that a validated block of a response
is at most the next one of its node (`ResponseOK`), and that what a node confirmed it
has stored or lacks as its next block (`ConfirmedInv`). The chains only grow, so messages
stay true however late they are; therefore every step either lets one node take the
leader's next block (`Learns`), or is the proposal (`Decides`), or leaves the chains
alone. The leader is never told of a block it has not stored, as nobody has more
(`LeaderStored`). The proposal is the only step that leaves others behind: those in
`synced` may lack the block before it, so they are two behind then.

The proofs about `VirtualMachine` hold for any nodes, contracts, code,
transactions, values, history and quorum, from `ContractAssumption` and
`SizesAssumption`, and where the reference or `_init` is concerned from
`FuelAssumption` and `InitAssumption`. `SerialExecutionProof` begins with the types:

- `VMTypesCorrect`: `VMTypeOK`. `TypeInv` adds that the stack of an execution holds
  frames only while a transaction is still to be done, and that
  its height is one of the chain.

`Stepped(c, base)` is what one SDK call makes of an execution `c` above the state
`base` of its height: a function, since contract code has no choice but what it
reads. `Reach(c, base)` are the executions that come of `c`, as the least set that
has `c` and is closed under `Stepped`; what has ended in it is unique
(`Deterministic`). It is shown that `Replays` is inductive:
every execution in the system is in `Reach` of its beginning, above the state of
its one height, whatever the chain has become since; every proposal and every
block is the outcome of such an execution above the block before it. It follows

- `ValidationAgrees`: `ValidatesEverywhere`. What a validator compares is the one
  outcome of the same transactions above the same state;
- `InitRunsOnce`: `InitializedOnce`. Along `Reach`, `InitFits` says which code may be
  running while the count of `_init` and the deployment disagree: `deployService`
  between its write and its call, and the first two SDK calls of `_init`. A
  transaction ends outside of these or is rolled back, so every block leaves the
  two equal (`AllConsistent`).

`SerialResultsProof` compares `Reach` with the reference, whatever `Fuel` is:

- `BlocksAreSerial`: `SerialResults`, for either value of `FailedEmit`,
- `QueriesSeeOneHeight`: `QueriesOneHeight`.

`Explained` says what the reference makes of an execution's stack: the running
method ends as `Run` says from where it is, on the state it sees through both
transient states; each suspended method as `Run` says when it goes on from there; and
the bottom one as the transaction does in the reference. An SDK call leaves that
unchanged. `Follows` adds the transactions done: their receipts, and the batch over
the state below, are those of the reference so far. After an auto deploy the
contract must be found deployed, which `DeployTracks` carries along.

The library's induction theorems cannot be used by the provers at hand;
`NatSetInduction` states induction as a fact about sets of naturals, which can, and
from it `Run` and the partial results of `Serial` are shown to satisfy their
recursive equations.

`MessageBuffersProof` proves of `Spec` of `MessageBuffers`, for whatever builders a
program makes (`Given` and `Around` are any operators), any nesting, natives,
overwrites and number of buffers, from `BuffersAssumption`, `OverwritesAssumption`
and `NativesAssumption`, which say that numbers and bytes are of their Go types:

- `MessagesReadBack`: `ReadsBack`,
- `EncodingCanonical`: `Canonical`,
- `ArgumentsComeOut`: `ArgumentsArrive`,
- `OriginalsStay`: `OriginalForm`.

A value is a type, cells and leaves. It is well-made (`Well`) if it belongs to a set
of values that are scalars, bytes, or composed of others of the set: their cells one
after the other and their leaves side by side. That takes the place of induction
over data, which the provers cannot do; the values have ranks, and what holds of all
of them is shown by `NatSetInduction` over the rank. Of well-made values

- the getters find the parts where they are (`MadeParts`), because a part's size
  can be told from its first cells;
- cells are equal exactly when leaves are (`CanonicalValues`);
- a scalar or bytes of the same size can be put in place of a part, and the value
  is composed as before with that leaf changed (`Overwriting`).

`SchemesAre` goes through all 44 messages: the fields of a reader's scheme are, in
order, what its builder's `Write` puts, with names of their own. This is where a
swapped or forgotten field would show. So every builder makes a well-made value
(`NestedWell`, over the nesting), and the inductive invariant `BuffersInv` says that
each buffer with its `holds` is one, and that a builder under construction has a
place for the message it wraps (`BuffersWell`). An overwrite leaves the kind of a
source as it is, so the slice still fits when `Build` copies it. It quantifies over sets of values, so TLC
cannot evaluate it; TLC checks the four properties. For natives, `PackedIs` shows that
`ToNatives` of what `ArgumentArrayFromNatives` packs is what went in.

**Only model-checked.** Liveness, which is beyond the prover: `CatchesUp`,
`GatewayAnswers`, both `Progress`. `FuelSuffices` is of the run's contracts, so that
the reference finishes is evaluated and not proved. Every other property of the
passing runs is stated by a theorem, under the conditions given above.

## Not modelled

- Generated services, primitives and mocks (`src/types/go/services`,
  `src/types/go/primitives`): plain structs and interfaces of a compiler that is
  not in the repository; they have no behaviour beyond holding their fields.
- String and hex dump methods of the messages; byte layout and padding.
- The header getters of BlockStorage and the block tracker in front of them,
  which change no state; `IntraNodeSync` models the same tracker of StateStorage.
- Receipt proofs, merkle trees, hashing and signatures: equality of contents,
  unforgeable.
- Management data, reference time and triggers; `_Committee`, `_GlobalPreOrder`,
  `_Info` and the Ethereum contracts: the committee is fixed, pre order checks may
  refuse anything at any time.
- Crosschain connector and Vault: stateless calls.
- Byzantine nodes: every node follows the algorithms.
- Boyar, the Ethereum writer, the management service and `deploy.sh`: a second
  program beside the virtual chain, described in prose and pictures of state
  machines and not as handlers; see the plan.
- Partial writes of a persistent StateStorage, for which the text gives no
  recovery.

## Plan

1. Reference time: proposals take the management service's time, block committees
   follow the previous block's; no node refuses another's within the grace.
2. The node: rollout windows and Boyar's fallback with the tags `deploy.sh`
   composes; the Ethereum writer's two machines.
