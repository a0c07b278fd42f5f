---------------------------- MODULE IntraNodeSync ----------------------------
(***************************************************************************)
(* How one node's BlockStorage keeps the other services of the node up to  *)
(* date: one endless flow per service (StateStorage and TransactionPool)   *)
(* pushes the service's next desired block or waits until CommitBlock      *)
(* wakes it, while callers read the state at a given height through the    *)
(* block tracker of StateStorage and the node may crash and restart.       *)
(*                                                                         *)
(* A block is its state diff.  The receipts that TransactionPool commits   *)
(* and the blocks of StateStorage go through the same check of the height, *)
(* so both services are members of Service.                                *)
(***************************************************************************)
EXTENDS Integers, Sequences, FiniteSets

CONSTANTS
  Service,       \* the services that BlockStorage pushes blocks to
  StateStorage,  \* the one of them that keeps the state
  Persistent,    \* the services that find their data again after a restart
  Key, Value,    \* state keys and the values they may have
  Null,          \* the null value: the key is not stored
  Reader,        \* concurrent callers of ReadKeys
  History,       \* STATE_STORAGE_HISTORY_SNAPSHOT_NUM
  Grace,         \* BLOCK_TRACKER_GRACE_DISTANCE
  WakeUpKept,    \* a wake-up between a flow's check and its wait is not lost
  MaxHeight,     \* bound: blocks committed
  MaxRestarts    \* bound: restarts

ASSUME ServiceAssumption == StateStorage \in Service /\ Persistent \subseteq Service

\* The text leaves it open: it wakes up a flow that "is blocking and waiting".
ASSUME WakeUpAssumption == WakeUpKept \in BOOLEAN

ASSUME ConfigAssumption ==
  History \in Nat /\ Grace \in Nat /\ MaxHeight \in Nat /\ MaxRestarts \in Nat

VARIABLES
  blocks,     \* BlockStorage: the block database up to last_committed_block
  flow,       \* each flow runs, has found nothing to push, or is waiting
  next,       \* the service's next desired height, as its flow remembers it
  committed,  \* the blocks each service has committed
  snapshot,   \* StateStorage: the state at the heights it keeps
  call,       \* each reader's current or last call of ReadKeys
  restarts

vars == <<blocks, flow, next, committed, snapshot, call, restarts>>

Content == Value \cup {Null}

State == [Key -> Content]

StateDiff == UNION {[K -> Content] : K \in SUBSET Key}

Phase == {"idle", "waiting", "answered", "failed"}

Call == [phase : Phase, height : Nat, values : State]

EmptyState == [k \in Key |-> Null]

NoCall == [phase |-> "idle", height |-> 0, values |-> EmptyState]

\* last_committed_block of a service.
LastCommitted(s) == Len(committed[s])

\* Mutant: the keys the diff does not name are lost.
ApplyForgetsRest(diff, state) == diff

\* Setting the null value deletes the entry.
Apply(diff, state) ==
  [k \in Key |-> IF k \in DOMAIN diff THEN diff[k] ELSE state[k]]

\* The heights StateStorage can answer for when the last is h.
Kept(h) == {i \in 0 .. h : i >= h - History}

Init ==
  /\ blocks = <<>>
  /\ flow = [s \in Service |-> "running"]
  /\ next = [s \in Service |-> 1]
  /\ committed = [s \in Service |-> <<>>]
  /\ snapshot = [i \in Kept(0) |-> EmptyState]
  /\ call = [r \in Reader |-> NoCall]
  /\ restarts = 0

-----------------------------------------------------------------------------
(* BlockStorage.                                                           *)

\* Mutant: only the flows that are waiting already are woken up.
CommitBlockWakesWaiting(diff) ==
  /\ Len(blocks) < MaxHeight
  /\ blocks' = Append(blocks, diff)
  /\ flow' = [s \in Service |->
                IF flow[s] = "waiting" THEN "running" ELSE flow[s]]
  /\ UNCHANGED <<next, committed, snapshot, call, restarts>>

\* Consensus or inter node sync commits the next block and wakes the flows up;
\* a block that is already there is discarded and changes nothing.
CommitBlock(diff) ==
  /\ Len(blocks) < MaxHeight
  /\ blocks' = Append(blocks, diff)
  /\ flow' = [s \in Service |->
                IF flow[s] = "waiting" \/ WakeUpKept THEN "running" ELSE flow[s]]
  /\ UNCHANGED <<next, committed, snapshot, call, restarts>>

\* last_committed_block is lower than the next desired height ...
Check(s) ==
  /\ flow[s] = "running"
  /\ Len(blocks) < next[s]
  /\ flow' = [flow EXCEPT ![s] = "checked"]
  /\ UNCHANGED <<blocks, next, committed, snapshot, call, restarts>>

\* ... and the flow, which no longer looks at it, blocks and waits.
Wait(s) ==
  /\ flow[s] = "checked"
  /\ flow' = [flow EXCEPT ![s] = "waiting"]
  /\ UNCHANGED <<blocks, next, committed, snapshot, call, restarts>>

\* CommitStateDiff.  The snapshots of past heights stay as they are.
UpdateState(diff) ==
  LET h == LastCommitted(StateStorage)
  IN snapshot' = [i \in Kept(h + 1) |->
                    IF i = h + 1 THEN Apply(diff, snapshot[h]) ELSE snapshot[i]]

\* Mutant: the service does not check the height.
CommitInServiceUnchecked(s, h) ==
  /\ committed' = [committed EXCEPT ![s] = Append(@, blocks[h])]
  /\ IF s = StateStorage THEN UpdateState(blocks[h]) ELSE UNCHANGED snapshot

\* CommitStateDiff and CommitTransactionsReceipts: a block that is not the
\* next one is discarded.
CommitInService(s, h) ==
  IF h = LastCommitted(s) + 1
  THEN /\ committed' = [committed EXCEPT ![s] = Append(@, blocks[h])]
       /\ IF s = StateStorage THEN UpdateState(blocks[h]) ELSE UNCHANGED snapshot
  ELSE UNCHANGED <<committed, snapshot>>

\* Mutant: the answer is not remembered.
PushForgetsNext(s) ==
  /\ flow[s] = "running"
  /\ next[s] <= Len(blocks)
  /\ CommitInService(s, next[s])
  /\ UNCHANGED <<blocks, flow, next, call, restarts>>

\* The flow pushes the block it takes for the next desired one and remembers
\* the height the service answers.
Push(s) ==
  /\ flow[s] = "running"
  /\ next[s] <= Len(blocks)
  /\ CommitInService(s, next[s])
  /\ next' = [next EXCEPT ![s] = Len(committed'[s]) + 1]
  /\ UNCHANGED <<blocks, flow, call, restarts>>

-----------------------------------------------------------------------------
(* StateStorage.ReadKeys and GetStateHash: the same check of the height,   *)
(* then the state, or the hash of the state, at that height.               *)

Reply(r, phase, h, values) ==
  call' = [call EXCEPT ![r] = [phase |-> phase, height |-> h, values |-> values]]

\* Mutant: the current state is returned whatever the height.
AnswerLatest(r, h) ==
  IF h \in Kept(LastCommitted(StateStorage))
  THEN Reply(r, "answered", h, snapshot[LastCommitted(StateStorage)])
  ELSE Reply(r, "failed", h, EmptyState)

\* A height that is not in the future: return the values, or fail when it is
\* beyond the snapshot history.
Answer(r, h) ==
  IF h \in Kept(LastCommitted(StateStorage))
  THEN Reply(r, "answered", h, snapshot[h])
  ELSE Reply(r, "failed", h, EmptyState)

ReadKeys(r, h) ==
  /\ call[r].phase # "waiting"
  /\ \/ h <= LastCommitted(StateStorage) /\ Answer(r, h)
     \/ /\ h \in LastCommitted(StateStorage) + 1 .. LastCommitted(StateStorage) + Grace
        /\ Reply(r, "waiting", h, EmptyState)
     \/ /\ h > LastCommitted(StateStorage) + Grace
        /\ Reply(r, "failed", h, EmptyState)
  /\ UNCHANGED <<blocks, flow, next, committed, snapshot, restarts>>

\* The height a reader waits for has been committed.
StopWaiting(r) ==
  /\ call[r].phase = "waiting"
  /\ call[r].height <= LastCommitted(StateStorage)
  /\ Answer(r, call[r].height)
  /\ UNCHANGED <<blocks, flow, next, committed, snapshot, restarts>>

\* BLOCK_TRACKER_GRACE_TIMEOUT.
TimeOut(r) ==
  /\ call[r].phase = "waiting"
  /\ Reply(r, "failed", call[r].height, EmptyState)
  /\ UNCHANGED <<blocks, flow, next, committed, snapshot, restarts>>

-----------------------------------------------------------------------------
\* The node crashes: calls and flows are lost, the block database is not.
Restart ==
  /\ restarts < MaxRestarts
  /\ restarts' = restarts + 1
  /\ flow' = [s \in Service |-> "running"]
  /\ next' = [s \in Service |-> 1]
  /\ committed' = [s \in Service |->
                     IF s \in Persistent THEN committed[s] ELSE <<>>]
  /\ snapshot' = IF StateStorage \in Persistent THEN snapshot
                 ELSE [i \in Kept(0) |-> EmptyState]
  /\ call' = [r \in Reader |-> NoCall]
  /\ UNCHANGED blocks

Next ==
  \/ \E diff \in StateDiff : CommitBlock(diff)
  \/ \E s \in Service : Check(s) \/ Wait(s) \/ Push(s)
  \/ \E r \in Reader, h \in 0 .. MaxHeight : ReadKeys(r, h)
  \/ \E r \in Reader : StopWaiting(r) \/ TimeOut(r)
  \/ Restart

Spec == Init /\ [][Next]_vars

\* The flows are endless loops; the tracker's timer goes off.
Fairness ==
  /\ \A s \in Service : WF_vars(Check(s)) /\ WF_vars(Wait(s)) /\ WF_vars(Push(s))
  /\ \A r \in Reader : WF_vars(StopWaiting(r)) /\ WF_vars(TimeOut(r))

FairSpec == Spec /\ Fairness

-----------------------------------------------------------------------------
(* Properties.                                                             *)

\* Type invariant.
SyncTypeOK ==
  /\ blocks \in Seq(StateDiff)
  /\ flow \in [Service -> {"running", "checked", "waiting"}]
  /\ next \in [Service -> Nat \ {0}]
  /\ committed \in [Service -> Seq(StateDiff)]
  /\ snapshot \in [Kept(LastCommitted(StateStorage)) -> State]
  /\ call \in [Reader -> Call]
  /\ restarts \in 0 .. MaxRestarts

\* Every service has committed the first blocks of the chain, each once and in
\* order, although a restarted flow pushes blocks the service already has.
InOrder ==
  \A s \in Service :
    /\ LastCommitted(s) <= Len(blocks)
    /\ \A h \in 1 .. LastCommitted(s) : committed[s][h] = blocks[h]

\* A flow waits only while its service has every block, so that "CommitBlock
\* should immediately trigger the commit to the service" (block-storage.md): no
\* commit between the flow's check of last_committed_block and its wait is
\* slept through.  It takes WakeUpKept.
SleepsOnlyInSync ==
  \A s \in Service : flow[s] = "waiting" => LastCommitted(s) = Len(blocks)

\* The blocks up to height h that write the key.
Writers(k, h) == {i \in 1 .. h : k \in DOMAIN blocks[i]}

\* The key has this value after the first h blocks: the last one written.
HasValueAt(k, v, h) ==
  \/ Writers(k, h) = {} /\ v = Null
  \/ \E i \in Writers(k, h) :
       v = blocks[i][k] /\ \A j \in Writers(k, h) : j <= i

\* An answered read has the values of exactly the height asked for, whatever
\* was committed, evicted or restarted while the caller waited.
ReadsExact ==
  \A r \in Reader :
    call[r].phase = "answered" =>
      \A k \in Key : HasValueAt(k, call[r].values[k], call[r].height)

\* A service catches up with the chain whenever it is behind.
CatchesUp ==
  \A s \in Service : []<>(LastCommitted(s) = Len(blocks))

=============================================================================
